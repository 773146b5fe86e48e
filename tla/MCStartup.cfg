SPECIFICATION SFairSpec
CONSTANTS
  Paths <- SomePaths
  Ports = {8080, 8085, 9090}
  Files <- SomeFiles
INVARIANTS
  STypeOK
  ValidFilesRun
PROPERTIES
  StandbyAnswers
CHECK_DEADLOCK FALSE
