\* Two variables, four trees, loops two levels deep
CONSTANTS
  Var = {x, y}
  Null = null
  Free = free
  LeafId = {a}
  NodeId = node
  PairId = pair
  AnyId = any
  MaxTrees = 4
  MaxKids = 4
  MaxLevels = 2
  Kinds = {"ref", "tree", "child", "rev"}
  Stops = {any}
  Careful = TRUE
SPECIFICATION HSpec
VIEW Shape
SYMMETRY Symmetry
INVARIANTS HeapExact OnPath ChainTells
PROPERTIES Refines
CHECK_DEADLOCK FALSE
