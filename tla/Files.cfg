SPECIFICATION Spec
CONSTANTS
  r = r
  i1 = i1
  i2 = i2
  i3 = i3
  Ids <- MCIds
  ROOT = r
  Archive <- MCArchive
  Names <- MCNames
  Paths <- MCPaths
  Buffers <- MCBuffers
  ReadSizes = {2}
  SeekOffsets = {1, 2}
  Closable = {3, 4}
  MAX_PROCESS_FDS = 5
  MaxSize = 3
  Null = Null
  Console = Console
  Uninit = Uninit
INVARIANTS TreeWellFormed NoHoles OffsetInFile
PROPERTY ImplementsNameSpace
