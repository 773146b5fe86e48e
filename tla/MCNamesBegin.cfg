SPECIFICATION NSpec
CONSTANTS
  RawNames <- SomeNames
  Crc32 <- Checksums
  MaxNames = 2
  MaxLengths = {63}
  Keys = {}
  Values = {}
  MaxLabels = 0
INVARIANTS
  BeginsAlphanumeric
CHECK_DEADLOCK FALSE
