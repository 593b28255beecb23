-------------------------- MODULE GeneratedTokens --------------------------
(***************************************************************************)
(* The record of the tokens that a session generated for one claim, and    *)
(* the guard file under which it is written: withGeneratedTokensWriteLock, *)
(* recordGeneratedClaimTokens and backfillGeneratedClaimTokens of          *)
(* scripts/claim-lock.mjs.                                                 *)
(*                                                                         *)
(* The guard is created with open(O_EXCL) and removed by its creator when  *)
(* it still holds the creator's token.  A killed creator leaves it behind; *)
(* the others wait until their deadline and fail, and a person removes it. *)
(* The record is replaced by a rename.  Where a rename does not replace a  *)
(* file the old record is removed first and is briefly absent.             *)
(***************************************************************************)

CONSTANTS
    Calls,        \* processes that change the record
    Op,           \* Op[c]: the nonce to record, NoNonce, or Fill for a backfill
    Nonces, NoNonce, Fill,
    Absent,       \* no record
    Unusable,     \* a record without a well-formed body
    Directory,    \* a directory occupies the record's path
    None          \* no process

Contents == Nonces \cup {NoNonce, Absent, Unusable, Directory}

Phases == {"idle", "waiting", "late", "opened", "inside", "writing", "gap", "written",
           "blocked", "owns", "done", "refused", "timedOut", "failed", "stuck", "killed"}
Ended == {"done", "refused", "timedOut", "failed", "stuck", "killed"}
Inside == {"inside", "writing", "gap"}

VARIABLES
    inPlace, \* the platform: a rename replaces an existing file
    guard,   \* whose guard file there is, or None
    record,  \* the nonce in the record, or what there is instead
    phase,   \* phase[c]: where the call c is
    body,    \* body[c]: what the call is about to write
    lock     \* what claim-lock says of the claim: "mine", "other", "absent"

vars == <<inPlace, guard, record, phase, body, lock>>

TypeOK ==
    /\ inPlace \in BOOLEAN
    /\ guard \in Calls \cup {None}
    /\ record \in Contents
    /\ phase \in [Calls -> Phases]
    /\ body \in [Calls -> Nonces \cup {NoNonce}]
    /\ lock \in {"mine", "other", "absent", "malformed"}

Init ==
    /\ inPlace \in BOOLEAN
    /\ guard = None
    /\ record \in {Absent, Unusable, Directory}
    /\ phase = [c \in Calls |-> "idle"]
    /\ body = [c \in Calls |-> NoNonce]
    /\ lock \in {"mine", "other", "absent", "malformed"}

Goto(c, next) == phase' = [phase EXCEPT ![c] = next]

-----------------------------------------------------------------------------
(* A recorder goes straight for the guard; a backfill first makes sure     *)
(* that the worktree's claim lock is for this claim.                       *)
Start(c) ==
    /\ phase[c] = "idle"
    /\ Goto(c, IF Op[c] = Fill /\ lock # "mine" THEN "refused" ELSE "waiting")
    /\ UNCHANGED <<guard, record, body, lock>>

DeadlinePasses(c) ==
    /\ phase[c] = "waiting"
    /\ Goto(c, "late")
    /\ UNCHANGED <<guard, record, body, lock>>

(* openSync(lockPath, "wx") *)
OpenGuard(c) ==
    /\ phase[c] \in {"waiting", "late"}
    /\ guard = None
    /\ guard' = c
    /\ Goto(c, "opened")
    /\ UNCHANGED <<record, body, lock>>

(* MUTANT of GiveUp: an existing guard is waited for without a deadline. *)
GiveUpNever(c) ==
    /\ phase[c] = "done" /\ guard # None
    /\ UNCHANGED vars

GiveUp(c) ==
    /\ phase[c] = "late"
    /\ guard # None
    /\ Goto(c, "timedOut")
    /\ UNCHANGED <<guard, record, body, lock>>

(* The token is written in full and the descriptor closed. *)
WriteGuard(c) ==
    /\ phase[c] = "opened"
    /\ Goto(c, "inside")
    /\ UNCHANGED <<guard, record, body, lock>>

(* The write or the close fails: the creator removes its guard. *)
WriteGuardFails(c) ==
    /\ phase[c] = "opened"
    /\ guard' = None
    /\ Goto(c, "failed")
    /\ UNCHANGED <<record, body, lock>>

(* MUTANT of Prepare: a backfill writes no nonce, whatever is there. *)
PrepareForgets(c) ==
    /\ phase[c] = "inside"
    /\ \/ /\ Op[c] = Fill /\ record = Directory
          /\ Goto(c, "blocked")
          /\ UNCHANGED body
       \/ /\ Op[c] = Fill => record # Directory
          /\ Goto(c, "writing")
          /\ body' = [body EXCEPT ![c] = IF Op[c] # Fill THEN Op[c] ELSE NoNonce]
    /\ UNCHANGED <<guard, record, lock>>

(* What the critical section is about to write: a backfill refuses a       *)
(* directory and keeps the nonce of a well-formed record.                  *)
Prepare(c) ==
    /\ phase[c] = "inside"
    /\ \/ /\ Op[c] = Fill /\ record = Directory
          /\ Goto(c, "blocked")
          /\ UNCHANGED body
       \/ /\ Op[c] = Fill => record # Directory
          /\ Goto(c, "writing")
          /\ body' = [body EXCEPT ![c] = IF Op[c] # Fill THEN Op[c]
                                         ELSE IF record \in Nonces THEN record
                                         ELSE NoNonce]
    /\ UNCHANGED <<guard, record, lock>>

(* atomicReplaceFile: one rename, where that replaces what is there. *)
WriteRecord(c) ==
    /\ phase[c] = "writing"
    /\ record # Directory
    /\ inPlace \/ record = Absent
    /\ record' = body[c]
    /\ Goto(c, "written")
    /\ UNCHANGED <<guard, body, lock>>

(* Elsewhere the record is removed and the rename repeated. *)
RemoveRecord(c) ==
    /\ phase[c] = "writing"
    /\ ~inPlace /\ record \notin {Absent, Directory}
    /\ record' = Absent
    /\ Goto(c, "gap")
    /\ UNCHANGED <<guard, body, lock>>

RenameAgain(c) ==
    /\ phase[c] = "gap"
    /\ record' = body[c]
    /\ Goto(c, "written")
    /\ UNCHANGED <<guard, body, lock>>

(* A directory in the way is never replaced, and any other I/O error of    *)
(* the critical section, of the repeated rename too, is rethrown: the      *)
(* guard is released all the same.                                         *)
WriteRecordFails(c) ==
    /\ phase[c] \in {"writing", "gap"}
    /\ Goto(c, "blocked")
    /\ UNCHANGED <<guard, record, body, lock>>

(* Release: read the guard, and when it holds this call's token ... *)
ReadGuard(c) ==
    /\ phase[c] \in {"written", "blocked"}
    /\ Goto(c, IF guard = c THEN "owns" ELSE "done")
    /\ UNCHANGED <<guard, record, body, lock>>

(* ... remove it. *)
UnlinkGuard(c) ==
    /\ phase[c] = "owns"
    /\ guard' = None
    /\ Goto(c, "done")
    /\ UNCHANGED <<record, body, lock>>

(* Removing the guard fails: the error names the guard, which stays. *)
CleanupFails(c) ==
    /\ phase[c] \in {"opened", "owns"}
    /\ Goto(c, "stuck")
    /\ UNCHANGED <<guard, record, body, lock>>

Kill(c) ==
    /\ phase[c] \notin Ended \cup {"idle"}
    /\ Goto(c, "killed")
    /\ UNCHANGED <<guard, record, body, lock>>

(* "only safe once you have confirmed no live process still holds it" *)
RemoveGuardByHand ==
    /\ guard \in Calls
    /\ phase[guard] \in Ended
    /\ guard' = None
    /\ UNCHANGED <<record, phase, body, lock>>

(* The worktree's claim lock is acquired or taken over by others. *)
ClaimLockChanges ==
    /\ lock' \in {"mine", "other"} \ {lock}
    /\ UNCHANGED <<guard, record, phase, body>>

-----------------------------------------------------------------------------
Step(c) ==
    \/ Start(c) \/ OpenGuard(c) \/ GiveUp(c) \/ WriteGuard(c) \/ Prepare(c)
    \/ WriteRecord(c) \/ RemoveRecord(c) \/ RenameAgain(c) \/ ReadGuard(c) \/ UnlinkGuard(c)

Fail(c) == WriteGuardFails(c) \/ WriteRecordFails(c) \/ CleanupFails(c) \/ Kill(c)

Next ==
    /\ \/ \E c \in Calls : Step(c) \/ DeadlinePasses(c) \/ Fail(c)
       \/ RemoveGuardByHand \/ ClaimLockChanges
    /\ UNCHANGED inPlace

(* A process goes on while it lives, and its deadline passes. *)
Progress(c) ==
    /\ Step(c) \/ DeadlinePasses(c) \/ (record = Directory /\ WriteRecordFails(c))
    /\ UNCHANGED inPlace

Spec == Init /\ [][Next]_vars

FairSpec == Spec /\ \A c \in Calls : WF_vars(Progress(c))

-----------------------------------------------------------------------------
(* One call at a time is between reading and having written the record,    *)
(* and the guard names it: removing a dead process's guard by hand and     *)
(* releases that come late never let a second one in.                      *)
OneWriter == \A c \in Calls : phase[c] \in Inside => guard = c

(* A guard that stays is a killed process's or one whose removal failed:   *)
(* calls that return or fail otherwise remove theirs.                      *)
GuardIsReleased ==
    \A c \in Calls : phase[c] \in {"done", "refused", "timedOut", "failed"} => guard # c

(* What a backfill is about to write is not stale: if there is a nonce in  *)
(* the record, it is the one the backfill read and will keep.              *)
BackfillIsCurrent ==
    \A c \in Calls :
        /\ Op[c] = Fill /\ phase[c] \in {"writing", "gap"}
        /\ record \in Nonces
        => body[c] = record

(* Every call ends: no orphaned guard is waited for without end. *)
EveryCallEnds == \A c \in Calls : phase[c] # "idle" ~> phase[c] \in Ended

(* Implementation of the atomic record, where a rename replaces: a call    *)
(* takes effect with its write.  Elsewhere the mapping stands still.       *)
A == INSTANCE TokenRecord WITH
        nonce <- IF record = Directory \/ ~inPlace THEN Unusable ELSE record,
        pending <- IF inPlace
                   THEN {c \in Calls : phase[c] \notin Ended \cup {"written", "blocked", "owns"}}
                   ELSE Calls
ImplementsRecord == A!Spec
=============================================================================
