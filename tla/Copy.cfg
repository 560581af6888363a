SPECIFICATION FairSpec
CONSTANTS
  Contents <- MC_Contents
  MaxFaults = 3
  Missing = Missing
INVARIANTS
  ReportIsTrue
PROPERTIES
  ImplementsCatalogObject
  EveryCallEnds
