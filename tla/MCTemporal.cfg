SPECIFICATION Spec
CONSTANTS
  Word <- MyWord
  Keys = {k1}
  Identities = {alice}
  Times <- MyTimes
  Chains <- MyChains
  MaxAttempts = 2
  MaxAlibis = 1
INVARIANTS
  HandedOutDecomposes StaleByAtMostOneWindow CannotBeRedated AlibiStandsApart
PROPERTY ImplementsService
CHECK_DEADLOCK FALSE
