SPECIFICATION FairSpec
CONSTANTS
  Messages = {"m1", "m2"}
  Locals = {"l1"}
  TextOf <- SameText
  Attached = {"m2"}
  Deadline = 1
  RecoverAfter = 2
  Hold = 1
  MaxCrashes = 1
  None = "-"
INVARIANTS TypeOK RunAtMostOnce ConfirmedNotMirrored
PROPERTIES RejectedForGood AcceptedNotDiscarded EveryMessageEnds
CHECK_DEADLOCK FALSE
