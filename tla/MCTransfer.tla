----------------------------- MODULE MCTransfer -----------------------------
(* Two files, buffered, packed or cut into chunks, and a download at a     *)
(* time; files are interchangeable.                                        *)
EXTENDS Transfer, TLC
Symmetry == Permutations(Tasks) \cup Permutations(Files)
=============================================================================
