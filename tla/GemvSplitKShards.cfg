SPECIFICATION Spec
CONSTANTS
  Word = 64
  ScratchLen = 6
  MaxKShard = 8
  Requests <- Overshot
  MaxCalls = 1
  MayFail = FALSE
INVARIANTS ExactSums
CHECK_DEADLOCK FALSE
