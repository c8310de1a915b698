---------------------------- MODULE SharedVault ----------------------------
(***************************************************************************)
(* What several devices sharing one vault promise their user: a file added *)
(* on any device stays in the vault until somebody deletes it, and a file  *)
(* that left the vault does not come back.  How devices, staging           *)
(* directories, manifests and counters bring this about is CloudSync.      *)
(***************************************************************************)
CONSTANT Files

VARIABLES
    added,        \* files ever added, on whatever device
    alive,        \* files the vault still holds
    condemned     \* files some user deleted

vars == <<added, alive, condemned>>

Init == added = {} /\ alive = {} /\ condemned = {}

Add(f) ==
    /\ f \notin added
    /\ added' = added \cup {f} /\ alive' = alive \cup {f}
    /\ UNCHANGED condemned

(* A deletion takes effect at once or, after the devices met, later; a     *)
(* device that reconciles before it pushed its deletion forgets it.        *)
Delete(f) ==
    /\ f \in added
    /\ condemned' = condemned \cup {f}
    /\ alive' \in {alive, alive \ {f}}
    /\ UNCHANGED added

Vanish ==
    /\ alive' \subseteq alive /\ alive \ alive' \subseteq condemned
    /\ UNCHANGED <<added, condemned>>

Next == (\E f \in Files : Add(f) \/ Delete(f)) \/ Vanish

Spec == Init /\ [][Next]_vars
=============================================================================
