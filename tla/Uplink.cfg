SPECIFICATION FairSpec
CONSTANTS
  MaxItems = 3
  MaxBlanks = 1
  MaxFiles = 2
  Callers = {"main", "title"}
  Remembered = 1
  MaxTimeouts = 2
  Modes = {"observe", "app_server", "desktop", "desktop_relay"}
  Messages = {"m", "n"}
  TextOf <- MCTextOf
  Sent <- MCSent
  MaxRelayed = 2
  MaxStarts = 2
INVARIANTS TypeOK CursorCoversItems TurnsAreTrue RefusedIsReplaced ReturnsAreKnown
  GivenOnce OneItemOneRecord AcceptedIsReal
PROPERTIES OnlyForgottenFail EveryMessageEnds EveryItemShown
CHECK_DEADLOCK FALSE
