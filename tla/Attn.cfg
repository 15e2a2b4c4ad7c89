CONSTANTS
  Tile = 4
  NumSMs = 2
  VtPad = 2
  QwenVtPad = {}
  HeadGroup = 2
  KvChunk = 2
  SplitFrom = 4
  MmaFrom = 4
  TargetCtas = 4
  MaxSplits = 3
  CombineSplits = 4
  Calls <- MCCalls
  MaxThreads = 4
  MaxSeq = 4
  MaxTokens = 5
  MaxAhead = 3
  Chains <- MCChains
  Lanes = {0, 1}
  Channels = 2
  Batch = 2
  OutRows = 4
  ChunkLen = 2
  MaxFed = 5
SPECIFICATION MCSpec
INVARIANTS ForwardTypeOK RowsWrittenOnce KeysExact Isolation  StepExact SequenceExact
