CONSTANTS
  BM = 2
  NumTokens = 2
  NumExperts = 3
  TopK = 2
  LogitRows <- MCLogitRows
  ExpertsPerNode = 2
  NumDevices = 2
  ExpertToDevice <- MCPlacement
  Calls <- MCCalls
  Word = 64
  NumRouted = 3
  NumSlots = 2
  ScoreRows <- MCScoreRows
  Hidden = 5
  Inter = 4
  ShardCounts = {0, 1, 2, 3}
  MaxShardLen = 3
SPECIFICATION MCSpec
INVARIANTS TypeOK RowsDisjoint RoutingIsTopK LayerExact ChoiceLosesNothing DecodeExact
