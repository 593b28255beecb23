---------------------------- MODULE TokenRecord ----------------------------
(***************************************************************************)
(* What the generated-tokens record of one claim promises: every call      *)
(* that changes it does so in one step and at most once, and a backfill    *)
(* keeps the nonce it finds.                                               *)
(***************************************************************************)
CONSTANTS Calls, Op, Nonces, NoNonce, Absent, Unusable

VARIABLES
    nonce,    \* the nonce of the record, NoNonce, Absent or Unusable
    pending   \* the calls that did not take effect yet

Init ==
    /\ nonce \in {Absent, Unusable}
    /\ pending = Calls

(* --record-tokens replaces the record by what the caller says. *)
Record(c) ==
    /\ c \in pending /\ Op[c] \in Nonces \cup {NoNonce}
    /\ nonce' = Op[c]
    /\ pending' = pending \ {c}

(* --backfill-tokens makes a record where there is none. *)
Backfill(c) ==
    /\ c \in pending /\ Op[c] \notin Nonces \cup {NoNonce}
    /\ nonce' = IF nonce \in Nonces THEN nonce ELSE NoNonce
    /\ pending' = pending \ {c}

(* A call may fail, and it may find out that nothing is to be done. *)
NoEffect == nonce' = nonce /\ pending' \subseteq pending

Next == NoEffect \/ \E c \in Calls : Record(c) \/ Backfill(c)

Spec == Init /\ [][Next]_<<nonce, pending>>
=============================================================================
