SPECIFICATION Spec
CONSTANTS
  Events <- MCOneTurn
  Bodies <- MCBodies
  Cue = "cue"
  MaxRows = 3
  MaxChat = 4
  MaxCrashes = 1
  Window = 1
  Lease = 1
  Backoff = 1
INVARIANTS TypeOK VisibleInOrder AtMostOnceInWindow
PROPERTIES SettledForGood DeliveryPromise
CHECK_DEADLOCK FALSE
