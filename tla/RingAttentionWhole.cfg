SPECIFICATION Spec
CONSTANTS
  WorldSize = 2
  LocalBlocks = 2
  Transports = {TRUE}
  MaxFailures = 0
  MaxFailuresRendezvous = 0
  Nothing = Nothing
CHECK_DEADLOCK FALSE
INVARIANTS AttendsWholeSequence
