SPECIFICATION Spec
CONSTANTS
  Secrets <- MySecrets
  Coefficients <- MyCoefficients
  Sharings <- MySharings
  Foreign <- MyForeign
  MaxCollected = 4
INVARIANTS
  EnoughSharesRecover AlteredIsNoticed OneShareSaysNothing
CHECK_DEADLOCK FALSE
