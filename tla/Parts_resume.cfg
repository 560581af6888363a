SPECIFICATION Spec
CONSTANTS
  MaxRows = 2
  ChunkSizes = {2}
  MinChunk = 1
  MaxPending = 2
  SplitFailedPages = TRUE
  ExternalCheckpoint = FALSE
  Versions <- StableSource
  RowsAt <- MC_RowsAt
  SchemaAt <- MC_SchemaAt
  MaxFaults = 1
  Missing = Missing
  Partial = Partial
  NoCheckpoint = NoCheckpoint
  NoPart = NoPart
INVARIANTS
  ExactOffsetResume
