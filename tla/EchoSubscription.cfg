SPECIFICATION Spec
CONSTANTS
  Rows = {u, s}
  Subscriptions = {s}
  Typed = {m}
  TextOf <- MCTextOf
  MaxCopies = 2
  MaxMade = 2
  MaxCrashes = 0
  None = None
INVARIANTS SubscriptionStaysOut
CHECK_DEADLOCK FALSE
