CONSTANTS
  Names <- MCNames
  GzNames <- MCGzNames
  Chars <- MCChars
  Texts <- MCTexts
  Images <- MCImages
  NoImage = NoImage
  NPart = 3
  DiskLabel = TRUE
  FsType <- MCFsType
  Dir <- MCDir
  Kind <- MCKind
  Segs <- MCSegs
  BssHits <- MCBssHits
  Config <- MCConfig
  NoLine = NoLine
  InitrdSize <- MCSize
  ArgsSize = 32
  Length <- MCLength
  Garbage <- MCGarbage
  BlockSize = 4
  SrmFlags <- MCFlags
  SrmFiles <- MCSrmFiles
  CfgParts = {1}
  TypedArgs <- MCArgs
  TypedFiles <- MCFiles
  TypedInitrds <- MCInitrds
  TypedParts <- MCParts
SPECIFICATION Spec
INVARIANTS
  FsMatchesPartition
  StartedAsRequested
  FailedLoadAsksUser
  ArgsAreFresh
  InitrdIsCurrent
