SPECIFICATION WalkSpec
CONSTANTS
  Word = 65536
  MinN = 1
  MaxN = 62000
  Dense = 3000
  Stride = 23
INVARIANTS
  FamilyIsExact ProgressionIsFamily
  FilterIsCheckAhead WeightIsShiftedChildCount NoOverflowOnCandidates
  ClockReachesForest ClockReadingIsExact
CHECK_DEADLOCK FALSE
