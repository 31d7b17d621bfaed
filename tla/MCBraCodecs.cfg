CONSTANTS
  MaxRuns = 4
  ByteBits = 3
  LengthBits = 6
  MaxChunk = 6
  HeaderSize = 1
  Files <- MCFiles
  Unsteady <- MCUnsteady
SPECIFICATION Spec
INVARIANTS
  CTypeOK
  RoundTrip
  RleBound
  CodesArePrefixFree
  HuffmanIsMinimal
  WrittenIsAccepted
  AcceptedIsKept
  DamageNoticed
  PathsAgree
  ListedIsOriginal
