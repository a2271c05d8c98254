\* Patterns of up to four operands and operators, scanners of two tokens on inputs of four characters
CONSTANTS
  Char = {1, 2}
  MaxOps = 4
  MaxStack = 2
  MaxSize = 4
  MaxWord = 4
  Literals <- MCLiterals
  Isolated = TRUE
  Ops = {"|", "&", "-", "--", ".", ":>", "<:", "*", "**", "?", "+", "{2}", "{3}", "{,2}", "{,3}", "{2,}", "{1,3}", "!", "^", "empty"}
  MaxTokens = 2
  MaxBlock = 2
  MaxInput = 4
SPECIFICATION MCSpec
INVARIANTS Accounts Minimal LongestMatch Prompt
PROPERTIES Refines
CHECK_DEADLOCK FALSE
