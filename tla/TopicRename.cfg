SPECIFICATION HelpfulSpec
CONSTANTS
  MaxChats = 2
  Window = 1
  ProviderWindow = 2
  Titles = {"a", "b"}
  FirstTitle = "a"
  NoTitle = "-"
  Static = FALSE
  MayBePrimary = FALSE
  MaxStarts = 2
  MaxChanges = 1
  MaxRows = 6
PROPERTIES RenameShown
CHECK_DEADLOCK FALSE
