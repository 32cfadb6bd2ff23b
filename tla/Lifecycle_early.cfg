SPECIFICATION FairSpec
CONSTANTS
  MaxUpdates = 1
  Ignored = {}
  MaxLives = 1
  Cap = 1
PROPERTIES ShutdownCompletes
