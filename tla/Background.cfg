CONSTANTS
  MaxPalette = 17
  FewPixels = 2
  CompressedSize <- MCCompressedSize
  Jobs <- MCJobs
SPECIFICATION Spec
INVARIANT BackgroundKept
