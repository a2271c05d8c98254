\* A parse that stops without EOF: regions tried in turn, empty tokens, longest
\* match across chunks, shift-reduces and commit points.
SPECIFICATION Spec
CONSTANTS
  Ref <- Refs
  PdaState <- StopState
  StartState = 0
  Term <- StopTerm
  NonTerm <- StopNonTerm
  EofId = 7
  StopTarget = 8
  Trans <- StopTrans
  Prod <- StopProd
  Rhs <- StopRhs
  Words <- NoWords
  Char <- StopChar
  TreeItem <- NoTrees
  IgnoreTreeItem <- NoTrees
  ItemId <- NoItemIds
  Region <- StopRegion
  Tokens <- StopTokens
  CiLel <- StopCi
  EofFrame <- StopEof
  IgnoreId <- StopIgnore
  GenFrame <- StopGen
  GenPush <- StopPush
  TokenRegions <- StopRegions
  PreRegions <- StopPreRegions
  TokenRegionInds <- StopInds
  EnvVal <- EnvValues
  Env0 = 0
  Outcome <- StopOutcome
  WV = FALSE
  Chunks <- StopChunks
  MaxSent = 5
  MaxOps = 1
INVARIANTS
  Conservation
  ScannerFresh
  ShiftCountExact
  StopsAtTarget
PROPERTIES
  CommitHeld
  CommitFloor
CHECK_DEADLOCK FALSE
