\* A tree is sent and taken back
SPECIFICATION Spec
CONSTANTS
  BufSize = 2
  Char <- Letters
  Newline = "nl"
  Tree <- OneTree
  File <- OneFile
  Programs <- OneSend
  Careful = TRUE
PROPERTIES
  UndoExact
CHECK_DEADLOCK FALSE
