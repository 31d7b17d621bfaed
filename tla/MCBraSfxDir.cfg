CONSTANTS
  Entries = 2
  Inner <- MCInner
  Before <- MCBefore
  MaxRuns = 1
  MaxFaults = 0
SPECIFICATION Spec
INVARIANTS
  DirectoryStays
