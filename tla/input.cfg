\* Three programs that read, pull, push and send, and take it back
SPECIFICATION Spec
CONSTANTS
  BufSize = 2
  Char <- Letters
  Newline = "nl"
  Tree <- OneTree
  File <- OneFile
  Programs <- Three
  Careful = TRUE
INVARIANTS
  TypeOK
  ReadsInOrder
  PlaceTrue
  NoFault
  GivesBack
PROPERTIES
  Refines
CHECK_DEADLOCK FALSE
