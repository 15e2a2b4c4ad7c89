SPECIFICATION Spec
CONSTANTS
  Word = 64
  ScratchLen = 6
  MaxKShard = 8
  Requests <- Mixed
  MaxCalls = 2
  MayFail = TRUE
INVARIANTS TypeOK ExactSums StagedReproducible BatchedRowsMatch
CHECK_DEADLOCK FALSE
