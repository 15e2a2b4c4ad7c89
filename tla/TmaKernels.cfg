SPECIFICATION Spec
CONSTANTS
  w0 = w0
  w1 = w1
  dma = dma
  Nothing = Nothing
  Sums = Sums
  Consumers = {w0, w1}
  Leader = w0
  Dma = dma
  Pipes <- MCPipes
INVARIANTS TypeOK ReadsOwnBlock HandedOverWhole PhasesNeverAlias QuietBetweenTiles
PROPERTIES EveryWarpLeaves ImplementsStream
