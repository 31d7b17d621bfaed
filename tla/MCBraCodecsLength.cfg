CONSTANTS
  MaxRuns = 4
  ByteBits = 3
  LengthBits = 6
  MaxChunk = 6
  HeaderSize = 1
  Files <- MCLarge
  Unsteady = {}
SPECIFICATION Spec
INVARIANTS
  SumsAgree
