CONSTANTS
  Name <- MCName
  Chunk <- MCChunk
  RawSize <- MCRawSize
  EncSize <- MCEncSize
  Oversized <- MCOversized
  Unwritten = Unwritten
  NoCrc = NoCrc
  NoHeader = NoHeader
  Inputs <- MCInputs
  Modes <- Looking
  Disks <- EmptyDisk
  MaxFaults = 1
  MaxEntries = 4
  FirstFiles <- AllContents
  OtherFiles <- OneContent
SPECIFICATION Spec
INVARIANTS
  TreesAlike
  EntriesSealed
  NoFalseAlarm
  SuccessIsComplete
PROPERTIES
  KeepsPromise
