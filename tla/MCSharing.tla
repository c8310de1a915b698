------------------------------ MODULE MCSharing ------------------------------
(* One file, two contacts, two share identifiers.                           *)
EXTENDS Sharing, TLC

Sym == Permutations(Contacts) \cup Permutations(Shares)
=============================================================================
