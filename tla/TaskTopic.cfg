SPECIFICATION FairSpec
CONSTANTS
  MaxChats = 2
  Window = 1
  ProviderWindow = 2
  Titles = {"a", "b"}
  FirstTitle = "a"
  NoTitle = "-"
  Static = TRUE
  MayBePrimary = TRUE
  MaxStarts = 2
  MaxChanges = 2
  MaxRows = 6
INVARIANTS TypeOK OneGroupPerProject AuthorisedByThisStart ArchivedIsClosed
PROPERTIES NoRetryLoop ArchivedCloses
CHECK_DEADLOCK FALSE
