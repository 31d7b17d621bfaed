CONSTANTS
  Entries = 2
  Inner <- MCInner
  Before <- MCBefore
  MaxRuns = 3
  MaxFaults = 2
SPECIFICATION Spec
INVARIANTS
  STypeOK
  AcceptedIsWhole
  ReplacedByWhole
  SuccessIsMoved
PROPERTIES
  GoneOnlyIfAgreed
