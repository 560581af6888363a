SPECIFICATION Spec
CONSTANTS
  Names <- MC_Names
  Norm <- MC_Norm
  Singular <- MC_Singular
  Blank = ""
  Options = {1, 2}
  AnyOption = AnyOption
  Registries <- MC_Registries
  Packaged <- MC_Packaged
  Sources = {s, t}
  MaxSources = 2
  MaxCalls = 2
  MaxFaults = 1
  Unread = Unread
  NoJob = NoJob
SYMMETRY MC_Symmetry
INVARIANTS
  ReportIsTrue
  FilesOfTheCall
  SameJob
  PurgesTheLoad
