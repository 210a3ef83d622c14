SPECIFICATION FairSpec
CONSTANTS
  Builds = {"win32", "posix"}
  CloseBusy = FALSE
  MaxOpens = 2
  MaxLines = 3
  MaxCells = 4
INVARIANT InStep GoneStaysGone
PROPERTY ClosedIsSaved SavesEnd
