SPECIFICATION Spec
CONSTANTS
  Word <- SmallWord
  Roots <- SmallRoots
  MaxAttempts = 3
  Builds = {TRUE, FALSE}
INVARIANT NeverPanics
CHECK_DEADLOCK FALSE
