\* Actions that reject, write and exit, trees in the stream, a generation action, an action before EOF.
SPECIFICATION Spec
CONSTANTS
  Ref <- Refs
  PdaState <- CtxState
  StartState = 0
  Term <- CtxTerm
  NonTerm <- CtxNonTerm
  EofId = 5
  StopTarget = 0
  Trans <- CtxTrans
  Prod <- CtxProd
  Rhs <- CtxRhs
  Words <- NoWords
  Char <- CtxChar
  TreeItem <- CtxTrees
  IgnoreTreeItem <- CtxIgnoreTrees
  ItemId <- CtxItemIds
  Region <- CtxRegion
  Tokens <- CtxTokens
  CiLel <- CtxCi
  EofFrame <- CtxEof
  IgnoreId <- CtxIgnore
  GenFrame <- CtxGen
  GenPush <- CtxPush
  TokenRegions <- CtxRegions
  PreRegions <- CtxPreRegions
  TokenRegionInds <- CtxInds
  EnvVal <- EnvValues
  Env0 = 0
  Outcome <- CtxOutcome
  WV = FALSE
  Chunks <- CtxChunks
  MaxSent = 3
  MaxOps = 1
INVARIANTS
  Ownership
  StepsExact
  EnvIsFold
  BacktrackAsserts
CHECK_DEADLOCK FALSE
