SPECIFICATION FairSpec
CONSTANTS
  ChunkSize = 2
  StartOffset = 1
  Limits <- MC_Limits
  MaxPending = 2
  Versions <- ChangingSource
  RowsAt <- MC_RowsAt
  SchemaAt <- MC_SchemaAt
  MaxPages = 4
  MaxFaults = 1
  NoLimit = NoLimit
  NoFile = NoFile
INVARIANTS
  ExportComplete
  AllRows
  IndInv
PROPERTIES
  ImplementsAtomicExport
  EveryRunEnds
