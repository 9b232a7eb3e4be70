SPECIFICATION Spec
CONSTANTS
  Word <- SmallWord
  Roots <- AllRoots
  MaxAttempts = 3
  Builds = {TRUE, FALSE}
INVARIANTS PanicOnlyOnEmptyRoot KeptIsGenuine
PROPERTIES ImplementsWitnessDraw FirstSuccessKept
CHECK_DEADLOCK FALSE
