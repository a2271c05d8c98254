\* An optional repetition of a machine whose start state has a way in
CONSTANTS
  Char = {1, 2}
  MaxOps = 4
  MaxStack = 2
  MaxSize = 4
  MaxWord = 4
  Literals <- MCLiterals
  Isolated = FALSE
  Ops = {".", "*", "{,2}"}
  MaxTokens = 0
  MaxBlock = 1
  MaxInput = 1
SPECIFICATION MCSpec
PROPERTIES ZeroToTwo
CHECK_DEADLOCK FALSE
