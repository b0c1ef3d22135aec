SPECIFICATION Spec
CONSTANTS
  Messages = {"m1"}
  Locals = {"l1"}
  TextOf <- SameText
  Attached = {}
  Deadline = 1
  RecoverAfter = 2
  Hold = 1
  MaxCrashes = 0
  None = "-"
INVARIANTS NeverMirroredBack
CHECK_DEADLOCK FALSE
