CONSTANTS
  Name <- MCName
  Chunk <- MCChunk
  RawSize <- MCRawSize
  EncSize <- MCEncSize
  Oversized <- MCOversized
  Unwritten = Unwritten
  NoCrc = NoCrc
  NoHeader = NoHeader
  Inputs <- MCInputs
  Modes <- Looking
  Disks <- EmptyDisk
  MaxFaults = 0
  MaxEntries = 1
  FirstFiles <- AllContents
  OtherFiles <- OneContent
SPECIFICATION Spec
INVARIANTS
  WrittenIsReadable
