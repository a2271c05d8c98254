------------------------------ MODULE MCPdaRun ------------------------------
(***************************************************************************)
(* The parser of PdaRun on the grammars of RunGrammars.                    *)
(***************************************************************************)
EXTENDS PdaRunProps, RunGrammars

Refs == 1..20
NoWords == {}
NoTrees == {}
NoItemIds == <<>>
EnvValues == 0..2
PalinWords ==
  {w \in BoundedSeq(PalinChar, MaxSent) : Derives(<<Prod[1].lhs>>, w)}
=============================================================================
