SPECIFICATION Spec
CONSTANTS
  Contents <- MC_Contents
  MaxFaults = 1
  Missing = Missing
INVARIANT
  RestoreAttempted
