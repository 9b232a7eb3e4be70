SPECIFICATION Spec
CONSTANTS
  RandomWord = 1000
  Tries = 3
  Bounds = {}
  ArgWord = 40000
  Calls = {}
  Iterations = 3
  Word = 256
  Steps = 8
  Span <- SpanOf256
  Layers <- SmallLayers
INVARIANTS PickIsWeighted PickHasItsSlice EmptyLayerEndsOnAnEnd SumIsPreserved
CHECK_DEADLOCK FALSE
