CONSTANTS
  HalfWidth = 4
  AdlerBase = 13
  AdlerAmount = 5
  LodepngAmount = 6
  ByteMax = 7
  Crc <- MCCrc
  ArgLists <- MCArgLists
  Content <- MCContent
  Sizes = {0, 2, 14, 15, 21, 31}
  SizeMax = 31
  FirstCap = 4
  Formats <- MCFormats
  MaxPalette = 17
  FewPixels = 2
  CompressedSize <- MCCompressedSize
  Jobs <- MCJobs
  Commands <- MCCommands
  Disk <- MCDisk
  Pictures <- MCPictures
  PngSizes = {1, 3, 4}
  ChunksSize = 1
  NumFilterStrategies = 3
SPECIFICATION MCSpec
INVARIANTS SavedReadsBack StatusTellsFailures PixelsKept ChunksKept FilesKept
PROPERTY NeverLarger
