------------------------------- MODULE Mutex -------------------------------
(***************************************************************************)
(* What a lock of the helper scripts promises: of all that it guards, one  *)
(* thing at a time is under way.                                           *)
(***************************************************************************)
CONSTANT Procs

VARIABLE inside \* the processes whose guarded work is under way

Init == inside = {}

Enter == inside = {} /\ \E p \in Procs : inside' = {p}

Leave == inside # {} /\ inside' = {}

Next == Enter \/ Leave

Spec == Init /\ [][Next]_inside
=============================================================================
