SPECIFICATION FairSpec
CONSTANTS
  MaxRows = 4
  ChunkSizes = {2, 3}
  MinChunk = 2
  MaxPending = 2
  SplitFailedPages = TRUE
  ExternalCheckpoint = FALSE
  Versions <- StableSource
  RowsAt <- MC_RowsAt
  SchemaAt <- MC_SchemaAt
  MaxFaults = 1
  Missing = Missing
  Partial = Partial
  NoCheckpoint = NoCheckpoint
  NoPart = NoPart
INVARIANTS
  NoOffsetDropped
  ExactlyOnce
PROPERTIES
  DatasetSurvives
  EveryRunEnds

