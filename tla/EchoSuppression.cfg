SPECIFICATION Spec
CONSTANTS
  Rows = {u, s}
  Subscriptions = {s}
  Typed = {m}
  TextOf <- MCTextOf
  MaxCopies = 2
  MaxMade = 2
  MaxCrashes = 1
  None = None
INVARIANTS TypeOK EchoesAndNothingElse
CHECK_DEADLOCK FALSE
