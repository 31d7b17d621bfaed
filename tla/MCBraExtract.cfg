CONSTANTS
  Name <- MCName
  Chunk <- MCChunk
  RawSize <- MCRawSize
  EncSize <- MCEncSize
  Oversized <- MCOversized
  Unwritten = Unwritten
  NoCrc = NoCrc
  NoHeader = NoHeader
  Inputs <- MCInputs
  Modes <- Extracting
  Disks <- MCDisks
  MaxFaults = 1
  MaxEntries = 3
  FirstFiles <- SoundContents
  OtherFiles <- OneContent
SPECIFICATION FairSpec
INVARIANTS
  ATypeOK
  NamesRestored
  AtMostOnePartial
  SuccessIsComplete
  HandlesClosed
PROPERTIES
  NoneIsNone
  KeepsPromise
  Advances
  Termination
