CONSTANTS
  Vols = {1}
  NoVol = NoVol
  Inos <- MCInos
  RootIno = 2
  Names <- MCNames
  Inode <- MCInode
  Entry <- MCEntry
  NoIno = NoIno
  NoName = NoName
  Link <- MCLink
  Pointers <- MCPointers
  Blk <- MCBlk
  BlockSize = 2
  NDir = 1
  PtrsPerBlk = 2
  MAX_OPEN_FILES = 4
  Paths <- MCPaths
  MaxBlkno = 5
  MaxRun = 2
  MaxMounts = 1
SPECIFICATION Spec
INVARIANTS
  OpensRight
  SlotsAccounted
  FirstMountReads
PROPERTY CallsReturn
