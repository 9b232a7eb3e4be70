SPECIFICATION Spec
CONSTANTS
  Word <- MyWord
  Keys = {k1}
  Identities = {alice}
  Times <- MyTimes
  Chains <- MyChains
  MaxAttempts = 2
  MaxAlibis = 1
INVARIANT SampledChainVerifies
CHECK_DEADLOCK FALSE
