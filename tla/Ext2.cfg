SPECIFICATION Spec
CONSTANTS
  BlockSize = 16
  BucketCount = 2
  Volume <- MCVolume
  EXT2_DIRECT_BLOCKS = 1
  IndirectCount = 4
  DirentSize = 3
  Paths <- MCPaths
  FdNums = {1, 2}
  ReadSizes = {20}
  SeekOffsets = {30}
  BufferSizes = {6, 9, 13, 40}
INVARIANTS
  ReadExact
  DescriptorsValid
  ListingExact
