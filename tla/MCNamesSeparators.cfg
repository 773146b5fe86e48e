SPECIFICATION NSpec
CONSTANTS
  RawNames = {}
  Crc32 <- Checksums
  MaxNames = 0
  MaxLengths = {63}
  Keys <- LabelKeys
  Values <- ValuesWithSeparators
  MaxLabels = 2
INVARIANTS
  OneHashPerMap
CHECK_DEADLOCK FALSE
