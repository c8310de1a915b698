---------------------------- MODULE MCVaultStore ----------------------------
(* Small instances of VaultStore for TLC.                                   *)
EXTENDS VaultStore, TLC

CONSTANTS f1, f2, b1, b2, b3

(* File and blob names are only compared: permuting them changes nothing.  *)
Sym == Permutations(Files) \cup Permutations(Blobs)
=============================================================================
