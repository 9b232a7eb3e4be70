SPECIFICATION Spec
CONSTANTS
  Sessions <- MySessions
  Nonces = {n1, n2}
  Data = {d1, d2}
  Texts = {t1, t2}
  MaxKeys = 2
  MaxSealed = 2
INVARIANTS OpenedWasSealed WholeIsOpened NonceOncePerKey
CHECK_DEADLOCK FALSE
