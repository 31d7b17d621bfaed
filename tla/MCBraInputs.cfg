CONSTANTS
  Rank <- MCRank
  Launches <- MCLaunches
  MaxVanished = 1
  MaxPaths = 2
SPECIFICATION Spec
INVARIANTS
  ITypeOK
  UTypeOK
  VisitIsPlan
  NothingElse
  NothingMissing
  OutputLeftOut
  OutputWhereNamed
  LandsInOutput
  KeptUnlessAgreed
  NothingForNothing
  NamedIsRead
