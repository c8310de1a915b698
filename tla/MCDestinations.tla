--------------------------- MODULE MCDestinations ---------------------------
(* Small instances of Destinations for TLC.                                 *)
EXTENDS Destinations, TLC

CONSTANTS b1, b2, d1, d2, d3, a1, a2

(* Blob names and the ids of later destinations are only compared.         *)
Sym == Permutations(Blobs) \cup Permutations(Dests \ ({FirstDest} \cup Foreign))

(* backup_upload_failures feeds the health report only: no guard and no    *)
(* checked property reads it.                                               *)
WithoutFailures ==
    <<files, tables, pendingBackup, local, store, issued, link, push, backup, admin>>
=============================================================================
