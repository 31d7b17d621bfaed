CONSTANTS
  Name <- MCName
  Chunk <- MCChunk
  RawSize <- MCRawSize
  EncSize <- MCEncSize
  Oversized <- MCOversized
  Unwritten = Unwritten
  NoCrc = NoCrc
  NoHeader = NoHeader
  Inputs <- MCInputs
  Modes <- Extracting
  Disks <- MCDisks
  MaxFaults = 1
  MaxEntries = 1
  FirstFiles <- OneContent
  OtherFiles <- OneContent
SPECIFICATION Spec
INVARIANTS
  SkippedIsThere
