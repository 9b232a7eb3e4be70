SPECIFICATION Spec
CONSTANTS
  Logins <- TwoUsers
  Devices = {d1}
  Sharings <- MySharings
  MaxCopies = 2
  Word <- MyWord
  Chainsets <- MyChainsets
  Spaces <- OneSpace
  Requests <- ThreeRequests
  LenWord <- MyLenWord
  MaxAttempts = 1
  MaxSeeds = 3
  MaxAlibis = 1
INVARIANTS
  KeyWasDerived TagOfOneRequest AuthenticToItsLogins
CHECK_DEADLOCK FALSE
