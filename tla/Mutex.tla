------------------------------- MODULE Mutex -------------------------------
(***************************************************************************)
(* What the store promises its operations: a critical section.  At any     *)
(* moment at most one caller runs a store operation's body; it enters when *)
(* nobody is inside and leaves on its own account.                         *)
(* Pop3Lock implements this specification (Pop3Lock!MutexSpec).            *)
(***************************************************************************)
CONSTANT Procs

VARIABLE inside

Init == inside = {}

Enter(p) == /\ inside = {}
            /\ inside' = {p}

Leave(p) == /\ inside = {p}
            /\ inside' = {}

Next == \E p \in Procs : Enter(p) \/ Leave(p)

Spec == Init /\ [][Next]_inside
=============================================================================
