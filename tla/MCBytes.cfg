SPECIFICATION BytesSpec
CONSTANTS
  Writers = {"master", "slave"}
  DataSizes = {0, 2}
  Threshold = 4
  ShortSends = FALSE
  MaxPackets = 3
  MaxLines = 5
  MaxBytes = 9
INVARIANT LinesFound PathsAgree
PROPERTY ImplementsQueue
