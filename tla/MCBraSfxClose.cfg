CONSTANTS
  Entries = 2
  Inner <- MCInner
  Before <- MCBefore
  MaxRuns = 1
  MaxFaults = 1
SPECIFICATION Spec
INVARIANTS
  SuccessIsWhole
