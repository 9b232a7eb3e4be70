SPECIFICATION Spec
CONSTANTS
  Chains = {"c", "d"}
  Lists <- MyLists
  Params = {1, 2, 3, 5, 6}
  LeftFlag = TRUE
  MaxTrees = 2
INVARIANTS EveryLeafIsAccepted AcceptedIsInItsSlot RootBindsList
CHECK_DEADLOCK FALSE
