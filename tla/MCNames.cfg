SPECIFICATION NSpec
CONSTANTS
  RawNames <- SomeNames
  Crc32 <- Checksums
  MaxNames = 2
  MaxLengths = {11, 12, 13, 14, 15, 17, 63}
  Keys <- LabelKeys
  Values <- LabelValues
  MaxLabels = 3
INVARIANTS
  FitsMaxLength
  CompliantName
  ChangesShow
  OneHashPerMap
CHECK_DEADLOCK FALSE
