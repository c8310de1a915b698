------------------------------ MODULE MCRekey ------------------------------
(* Small instances of Rekey for TLC.                                        *)
EXTENDS Rekey, TLC

CONSTANTS t1, t2, f1, f2

Sym == Permutations(Tasks)
=============================================================================
