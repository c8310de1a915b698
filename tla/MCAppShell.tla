----------------------------- MODULE MCAppShell -----------------------------
(* Two vaults, one of which a destination holds, two commands and two      *)
(* directory listings at a time.                                           *)
EXTENDS AppShell, TLC

Sym == Permutations(Cmds) \cup Permutations(Navs)
=============================================================================
