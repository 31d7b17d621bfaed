CONSTANTS
  Rank <- MCRank
  Launches <- MCLaunches
  MaxVanished = 0
  MaxPaths = 2
SPECIFICATION Spec
INVARIANTS
  RecursiveScansAll
