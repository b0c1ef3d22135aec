SPECIFICATION Spec
CONSTANTS
  Events <- MCOneTurn
  Bodies <- MCBodies
  Cue = "cue"
  MaxRows = 3
  MaxChat = 3
  MaxCrashes = 0
  Window = 1
  Lease = 1
  Backoff = 1
INVARIANTS AtMostOnceVisible
CHECK_DEADLOCK FALSE
