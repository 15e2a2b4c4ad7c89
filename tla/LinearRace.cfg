CONSTANTS
  Lanes = {0, 1}
  Channels = 2
  Batch = 2
  OutRows = 4
  ChunkLen = 2
  MaxFed = 5
SPECIFICATION LinearSpec
INVARIANT PrefillOfOwnToken
