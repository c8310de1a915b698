---------------------------- MODULE MCCloudSync ----------------------------
(* CloudSync for TLC: files are interchangeable, devices are not (the      *)
(* first one created the vault).                                            *)
EXTENDS CloudSync, TLC

CONSTANTS d1, d2, f1, f2, f3

Sym == Permutations(Files)
=============================================================================
