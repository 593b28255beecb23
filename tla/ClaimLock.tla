----------------------------- MODULE ClaimLock -----------------------------
(***************************************************************************)
(* The lock file by which agent sessions on one machine notice that two of *)
(* them work in the same worktree: acquireClaimLock of                     *)
(* scripts/claim-lock.mjs.  Every session carries the id of the claim it   *)
(* works for and acquires the lock again before each mutation.             *)
(*                                                                         *)
(* The file comes into existence complete (a hard link to a finished file) *)
(* and is replaced by a rename, only by a session that was authorised to   *)
(* take over.  Where a rename cannot replace a file (Windows) the old file *)
(* is removed first.  The file is never released: it goes with the         *)
(* worktree.                                                               *)
(***************************************************************************)
EXTENDS Naturals

CONSTANTS
    Sessions,      \* processes that call acquireClaimLock
    Claims,        \* claim ids
    Claim,         \* Claim[s]: the claim id session s works for
    Absent,        \* no lock file
    Malformed,     \* a lock file, or a directory, without a well-formed body
    MaxAttempts    \* MAX_RETRY_ATTEMPTS

Phases == {"idle", "called", "read", "create", "replace", "gap", "finalRead",
           "finalCreate", "racedRead", "acquired", "collision", "failed"}

VARIABLES
    inPlace,    \* the platform: a rename replaces an existing file
    file,       \* the claim id in the lock file, Absent or Malformed
    phase,      \* phase[s]: where the call of session s is
    attempt,    \* attempt[s]: iterations of its loop that failed
    takeover,   \* takeover[s]: the call has --takeover
    outcome,    \* outcome[s]: how the last call acquired the lock
    holds       \* the sessions whose acquisition nobody has since undone

vars == <<inPlace, file, phase, attempt, takeover, outcome, holds>>

Outcomes == {"none", "created", "reacquired", "racedCreate", "forcedTakeover"}

TypeOK ==
    /\ inPlace \in BOOLEAN
    /\ file \in Claims \cup {Absent, Malformed}
    /\ phase \in [Sessions -> Phases]
    /\ attempt \in [Sessions -> 0 .. MaxAttempts]
    /\ takeover \in [Sessions -> BOOLEAN]
    /\ outcome \in [Sessions -> Outcomes]
    /\ holds \subseteq Sessions

(* A malformed file is one an older version or a person left there. *)
Init ==
    /\ inPlace \in BOOLEAN
    /\ file \in {Absent, Malformed}
    /\ phase = [s \in Sessions |-> "idle"]
    /\ attempt = [s \in Sessions |-> 0]
    /\ takeover = [s \in Sessions |-> FALSE]
    /\ outcome = [s \in Sessions |-> "none"]
    /\ holds = {}

Goto(s, next) == phase' = [phase EXCEPT ![s] = next]

Acquired(s, how) ==
    /\ Goto(s, "acquired")
    /\ outcome' = [outcome EXCEPT ![s] = how]
    /\ holds' = holds \cup {s}

(* Whoever held the lock under another claim does not hold it any longer. *)
Displaced(content) == {h \in holds : Claim[h] # content}

-----------------------------------------------------------------------------
(* A session calls before a mutation; --takeover needs the approval of the *)
(* claim gate on GitHub.                                                   *)
Call(s) ==
    /\ phase[s] \in {"idle", "acquired", "collision", "failed"}
    /\ Goto(s, "called")
    /\ attempt' = [attempt EXCEPT ![s] = 0]
    /\ \E t \in BOOLEAN : takeover' = [takeover EXCEPT ![s] = t]
    /\ outcome' = [outcome EXCEPT ![s] = "none"]
    /\ UNCHANGED <<file, holds>>

(* resolveClaimLockPath asks git for the path before anything is read. *)
ResolvePath(s) ==
    /\ phase[s] = "called"
    /\ Goto(s, "read")
    /\ UNCHANGED <<file, attempt, takeover, outcome, holds>>

(* One round of the loop reads the lock and decides. *)
ReadLock(s) ==
    /\ phase[s] = "read"
    /\ \/ /\ file = Claim[s]
          /\ Acquired(s, IF attempt[s] = 0 THEN "reacquired" ELSE "racedCreate")
       \/ /\ file = Absent
          /\ Goto(s, "create")
          /\ UNCHANGED <<outcome, holds>>
       \/ /\ file \notin {Claim[s], Absent}
          /\ Goto(s, IF takeover[s] THEN "replace" ELSE "collision")
          /\ UNCHANGED <<outcome, holds>>
    /\ UNCHANGED <<file, attempt, takeover>>

(* MUTANT of CreateExclusively: an existing file is overwritten. *)
CreateExclusivelyOver(s) ==
    /\ phase[s] \in {"create", "finalCreate"}
    /\ file' = Claim[s]
    /\ Acquired(s, "created")
    /\ UNCHANGED <<attempt, takeover>>

(* linkSync succeeds only when there is no file; on EEXIST the loop goes   *)
(* on, or, after the last round, the winner is read.                       *)
CreateExclusively(s) ==
    /\ phase[s] \in {"create", "finalCreate"}
    /\ \/ /\ file = Absent
          /\ file' = Claim[s]
          /\ Acquired(s, "created")
          /\ UNCHANGED attempt
       \/ /\ file # Absent
          /\ Goto(s, CASE phase[s] = "finalCreate" -> "racedRead"
                       [] attempt[s] + 1 < MaxAttempts -> "read"
                       [] OTHER -> "finalRead")
          /\ attempt' = IF phase[s] = "create" THEN [attempt EXCEPT ![s] = @ + 1] ELSE attempt
          /\ UNCHANGED <<file, outcome, holds>>
    /\ UNCHANGED <<takeover>>

(* After the last round: the winner's claim decides; a lock that vanished  *)
(* again gets one last attempt.                                            *)
ReadWinner(s) ==
    /\ phase[s] \in {"finalRead", "racedRead"}
    /\ \/ /\ file = Claim[s]
          /\ Acquired(s, "racedCreate")
       \/ /\ file = Absent /\ phase[s] = "finalRead"
          /\ Goto(s, "finalCreate")
          /\ UNCHANGED <<outcome, holds>>
       \/ /\ file # Claim[s]
          /\ file = Absent => phase[s] = "racedRead"
          /\ Goto(s, "collision")
          /\ UNCHANGED <<outcome, holds>>
    /\ UNCHANGED <<file, attempt, takeover>>

(* The rename of a takeover, whatever is there by now. *)
Replace(s) ==
    /\ phase[s] = "replace"
    /\ inPlace \/ file = Absent
    /\ file' = Claim[s]
    /\ Goto(s, "acquired")
    /\ outcome' = [outcome EXCEPT ![s] = "forcedTakeover"]
    /\ holds' = (holds \ Displaced(Claim[s])) \cup {s}
    /\ UNCHANGED <<attempt, takeover>>

(* Where the rename fails -- the target is a directory, or the platform    *)
(* does not replace files -- the target is removed ...                     *)
RemoveTarget(s) ==
    /\ phase[s] = "replace"
    /\ file = Malformed \/ (~inPlace /\ file # Absent)
    /\ file' = Absent
    /\ holds' = {}
    /\ Goto(s, "gap")
    /\ UNCHANGED <<attempt, takeover, outcome>>

(* ... and the rename is repeated; it fails for good when another session  *)
(* created the lock in between and the platform does not replace files.    *)
RenameAgain(s) ==
    /\ phase[s] = "gap"
    /\ \/ /\ inPlace \/ file = Absent
          /\ file' = Claim[s]
          /\ Goto(s, "acquired")
          /\ outcome' = [outcome EXCEPT ![s] = "forcedTakeover"]
          /\ holds' = (holds \ Displaced(Claim[s])) \cup {s}
       \/ /\ ~inPlace /\ file # Absent
          /\ Goto(s, "failed")
          /\ UNCHANGED <<file, outcome, holds>>
    /\ UNCHANGED <<attempt, takeover>>

(* The worktree is gone, git cannot tell the path, the disk is full: the   *)
(* error is rethrown.                                                      *)
IOError(s) ==
    /\ phase[s] \in {"called", "create", "finalCreate", "replace", "gap"}
    /\ Goto(s, "failed")
    /\ UNCHANGED <<file, attempt, takeover, outcome, holds>>

(* git worktree remove takes the lock file with it. *)
RemoveWorktree ==
    /\ file # Absent
    /\ file' = Absent
    /\ holds' = {}
    /\ UNCHANGED <<phase, attempt, takeover, outcome>>

Step(s) ==
    \/ ResolvePath(s) \/ ReadLock(s) \/ CreateExclusively(s) \/ ReadWinner(s)
    \/ Replace(s) \/ RemoveTarget(s) \/ RenameAgain(s)

Next ==
    /\ (\E s \in Sessions : Call(s) \/ Step(s) \/ IOError(s)) \/ RemoveWorktree
    /\ UNCHANGED inPlace

Spec == Init /\ [][Next]_vars

(* A call is synchronous code of one process: it is carried on. *)
FairSpec == Spec /\ \A s \in Sessions : WF_vars(Step(s) /\ UNCHANGED inPlace)

-----------------------------------------------------------------------------
(* Sessions of different claims never both hold the lock: whoever acquired *)
(* it, and whose acquisition no takeover and no removal of the worktree    *)
(* undid, is the one the file names.                                       *)
HoldersAreNamed == \A s \in holds : file = Claim[s]

(* An existing lock file goes away by an authorised takeover or with the   *)
(* worktree, never by an ordinary acquisition, however the calls overlap.  *)
OnlyTakeoverDisplaces ==
    [][\A s \in Sessions :
          phase'[s] # phase[s] /\ file # Absent /\ file' # file => takeover[s]]_vars

(* Both: what an acquisition told its session stays true until a takeover  *)
(* or the end of the worktree undoes it.                                   *)
LockIsKept == [][HoldersAreNamed']_vars /\ OnlyTakeoverDisplaces

(* A call ends, however often the lock comes and goes. *)
EveryCallEnds ==
    \A s \in Sessions :
        phase[s] = "called" ~> phase[s] \in {"acquired", "collision", "failed"}
=============================================================================
