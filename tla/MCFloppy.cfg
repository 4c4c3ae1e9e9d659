CONSTANTS
  Names <- MCNames
  GzNames <- MCGzNames
  Chars <- MCChars
  Texts <- MCTexts
  Images <- MCImages
  NoImage = NoImage
  NPart = 3
  DiskLabel = FALSE
  FsType <- FloppyFsType
  Dir <- FloppyDir
  Kind <- MCKind
  Segs <- MCSegs
  BssHits <- MCBssHits
  Config <- FloppyConfig
  NoLine = NoLine
  InitrdSize <- MCSize
  ArgsSize = 32
  Length <- LongLength
  Garbage <- MCGarbage
  BlockSize = 4
  SrmFlags <- FloppyFlags
  SrmFiles <- MCSrmFiles
  CfgParts = {0, 1}
  TypedArgs <- FloppyArgs
  TypedFiles <- FloppyFiles
  TypedInitrds <- FloppyInitrds
  TypedParts <- MCParts
SPECIFICATION Spec
INVARIANTS
  IInv
  
PROPERTY Resolves
