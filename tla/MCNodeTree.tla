----------------------------- MODULE MCNodeTree -----------------------------
(* Five node ids, two adding commands and a deletion at a time.            *)
EXTENDS NodeTree, TLC

Sym == Permutations(Adders)
=============================================================================
