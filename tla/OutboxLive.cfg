SPECIFICATION FairSpec
CONSTANTS
  Events <- MCShortTurn
  Bodies <- MCBodies
  Cue = "cue"
  MaxRows = 2
  MaxChat = 2
  MaxCrashes = 1
  Window = 0
  Lease = 1
  Backoff = 1
PROPERTIES EveryRowSettles CleanupEnds
CHECK_DEADLOCK FALSE
