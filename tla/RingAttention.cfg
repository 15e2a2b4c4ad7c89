SPECIFICATION FairSpec
CONSTANTS
  WorldSize = 3
  LocalBlocks = 1
  Transports = {TRUE, FALSE}
  MaxFailures = 1
  MaxFailuresRendezvous = 0
  Nothing = Nothing
CHECK_DEADLOCK FALSE
INVARIANTS TypeOK PartialsAreOwners CombineFindsAllPlaces
PROPERTIES RingCompletes
