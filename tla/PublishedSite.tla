--------------------------- MODULE PublishedSite ---------------------------
(***************************************************************************)
(* What the deployment promises about the published site, whatever the     *)
(* workflow does in between: the site is always built from one commit of   *)
(* main and from calendars as they once were, and it never goes back.      *)
(***************************************************************************)
EXTENDS Naturals

CONSTANT NumTypes

Types == 1 .. NumTypes

VARIABLES
    head,   \* the newest commit of the main branch
    today,  \* the current day
    edits,  \* edits[t]: how many edits calendar t has received
    live    \* the published site

vars == <<head, today, edits, live>>

Init ==
    /\ head = 0
    /\ today = 0
    /\ edits = [t \in Types |-> 0]
    /\ live = [sha |-> 0, day |-> 0, seen |-> [t \in Types |-> 0]]

(* Commits, midnights and edits only ever add up. *)
WorldMoves ==
    /\ head' >= head
    /\ today' >= today
    /\ \A t \in Types : edits'[t] >= edits[t]
    /\ UNCHANGED live

(* A publication takes each part from the past, and no part goes back. *)
Publish ==
    /\ live.sha <= live'.sha /\ live'.sha <= head
    /\ live.day <= live'.day /\ live'.day <= today
    /\ \A t \in Types : live.seen[t] <= live'.seen[t] /\ live'.seen[t] <= edits[t]
    /\ UNCHANGED <<head, today, edits>>

Next == WorldMoves \/ Publish

Spec == Init /\ [][Next]_vars
=============================================================================
