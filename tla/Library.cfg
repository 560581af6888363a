SPECIFICATION Spec
CONSTANTS
  Order <- MC_Order
  Stem <- MC_Stem
  Path <- MC_Path
  Safe <- MC_Safe
  Managed <- MC_Managed
  MaxEvents = 3
  Edited = Edited
  Nothing = Nothing
INVARIANTS
  GuardIsSound
  AliasShowsFile
  ListedFilesShown
PROPERTIES
  TablesKept
