\* A choice at every token: backtracking over the whole input.
SPECIFICATION FairSpec
CONSTANTS
  Ref <- Refs
  PdaState <- PalinState
  StartState = 0
  Term <- PalinTerm
  NonTerm <- PalinNonTerm
  EofId = 4
  StopTarget = 0
  Trans <- PalinTrans
  Prod <- PalinProd
  Rhs <- PalinRhs
  Words <- PalinWords
  Char <- PalinChar
  TreeItem <- NoTrees
  IgnoreTreeItem <- NoTrees
  ItemId <- NoItemIds
  Region <- PalinRegion
  Tokens <- PalinTokens
  CiLel <- PalinCi
  EofFrame <- PalinEof
  IgnoreId <- PalinIgnore
  GenFrame <- PalinGen
  GenPush <- PalinPush
  TokenRegions <- PalinRegions
  PreRegions <- PalinPreRegions
  TokenRegionInds <- PalinInds
  EnvVal <- EnvValues
  Env0 = 0
  Outcome <- PalinOutcome
  WV = FALSE
  Chunks <- PalinChunks
  MaxSent = 4
  MaxOps = 1
INVARIANTS
  TypeOK
  RetryAccounting
  FailsWhenExhausted
  StackIsPath
PROPERTIES
  Returns
  Recognizes
CHECK_DEADLOCK FALSE
