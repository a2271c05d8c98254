\* The tables of small grammars, in both orders of addresses.
SPECIFICATION Spec
CONSTANTS
  Grammars <- Grams
  MaxLeaves = 5
  MaxProds = 6
INVARIANTS
  ItemsExact
  LookaheadsExact
  Ordered
  ParsesExact
  RunTables
