SPECIFICATION Spec
CONSTANTS
  Logins <- OneUser
  Devices = {d1}
  Sharings <- MySharings
  MaxCopies = 1
  Word <- MyWord
  Chainsets <- MyChainsets
  Spaces <- TwoSpaces
  Requests <- OneRequest
  LenWord <- MyLenWord
  MaxAttempts = 2
  MaxSeeds = 3
  MaxAlibis = 1
INVARIANTS
  IssuedIsBoundMember AlibiStandsApart IssuedIsFirstDraw
PROPERTIES ImplementsService CallsReturn
CHECK_DEADLOCK FALSE
