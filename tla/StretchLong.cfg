CONSTANTS
  frame_size = 10
  overlap_size = 2
  Word = 256
  UInt = 64
  Memory = 120
  Length <- MCLength
  Shortest = 0
  Longest = 80
  NaN = NaN
  NaNSkip = {0, 31, 32, 63}
  Ratio <- MCRatio
SPECIFICATION FairSpec
INVARIANTS TypeOK ReadsInside OutputIsOverlapAdd
PROPERTIES LongStretchReturns
CHECK_DEADLOCK FALSE
