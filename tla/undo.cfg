\* Statements taken back, in a grammar without choices.
SPECIFICATION UndoSpec
CONSTANTS
  Ref <- Refs
  PdaState <- ListState
  StartState = 0
  Term <- ListTerm
  NonTerm <- ListNonTerm
  EofId = 4
  StopTarget = 0
  Trans <- ListTrans
  Prod <- ListProd
  Rhs <- ListRhs
  Words <- NoWords
  Char <- ListChar
  TreeItem <- NoTrees
  IgnoreTreeItem <- NoTrees
  ItemId <- NoItemIds
  Region <- ListRegion
  Tokens <- ListTokens
  CiLel <- ListCi
  EofFrame <- ListEof
  IgnoreId <- ListIgnore
  GenFrame <- ListGen
  GenPush <- ListPush
  TokenRegions <- ListRegions
  PreRegions <- ListPreRegions
  TokenRegionInds <- ListInds
  EnvVal <- EnvValues
  Env0 = 0
  Outcome <- ListOutcome
  WV = TRUE
  Chunks <- ListChunks
  MaxSent = 4
  MaxOps = 4
INVARIANTS
  UndoRestores
CHECK_DEADLOCK FALSE
