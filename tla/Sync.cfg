SPECIFICATION FairSpec
CONSTANTS
  MaxKey = 6
  Count = 2
  Threshold = 3
  MaxAttempts = 2
  Versions <- ChangingSource
  Before = "before"
  RowsIn <- MC_RowsIn
  SchemaAt <- MC_SchemaAt
  Age <- MC_Age
  MaxFaults = 2
  NoTable = NoTable
INVARIANTS
  AttemptsApart
  SyncComplete
PROPERTIES
  MergeKeepsRows
  NeverOlder
  EveryCallEnds
