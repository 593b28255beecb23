----------------------------- MODULE CloneLock -----------------------------
(***************************************************************************)
(* The lock that serialises git operations on one clone:                   *)
(* scripts/clone-lock.mjs.  Every process is one invocation of             *)
(* withCloneLock: it polls for the lock file, runs a git command as a      *)
(* child, and removes the file.                                            *)
(*                                                                         *)
(* The file appears with open(O_EXCL) and gets its body with a later       *)
(* write, so between the two it is unreadable ("torn").  A process may be  *)
(* killed at any moment; its child goes on, and its file stays.  Nothing   *)
(* takes a lock over: only a person removes the file of a dead process,    *)
(* after looking.                                                          *)
(***************************************************************************)
CONSTANTS
    Procs,  \* invocations of withCloneLock
    None    \* no process

ASSUME NoneAssumption == None \notin Procs

Phases == {"idle", "polling", "late", "created", "holding", "running",
           "exited", "owns", "done", "timedOut", "failed", "killed"}
(* A process in one of these phases is no longer there. *)
Ended == {"done", "timedOut", "failed", "killed"}

VARIABLES
    owner,      \* whose token is, or will be, in the lock file; None: no file
    torn,       \* the file exists but has no well-formed body yet
    phase,      \* phase[p]: where the invocation p is
    command,    \* command[p]: the guarded git command, "none", "running", "over"
    confirmed   \* a person has looked and is about to remove the file

vars == <<owner, torn, phase, command, confirmed>>

TypeOK ==
    /\ owner \in Procs \cup {None}
    /\ torn \in BOOLEAN
    /\ phase \in [Procs -> Phases]
    /\ command \in [Procs -> {"none", "running", "over"}]
    /\ confirmed \in BOOLEAN

Init ==
    /\ owner = None
    /\ torn = FALSE
    /\ phase = [p \in Procs |-> "idle"]
    /\ command = [p \in Procs |-> "none"]
    /\ confirmed = FALSE

Goto(p, next) == phase' = [phase EXCEPT ![p] = next]

-----------------------------------------------------------------------------
(* What an invocation does.                                                *)

Start(p) ==
    /\ phase[p] = "idle"
    /\ Goto(p, "polling")
    /\ UNCHANGED <<owner, torn, command, confirmed>>

(* Between two attempts the deadline passes: one more attempt is made. *)
DeadlinePasses(p) ==
    /\ phase[p] = "polling"
    /\ Goto(p, "late")
    /\ UNCHANGED <<owner, torn, command, confirmed>>

(* MUTANT of Create: the file is opened without O_EXCL. *)
CreateShared(p) ==
    /\ phase[p] \in {"polling", "late"}
    /\ owner' = p
    /\ torn' = TRUE
    /\ Goto(p, "created")
    /\ UNCHANGED <<command, confirmed>>

(* open(path, "wx") succeeds only when there is no file, however readable. *)
Create(p) ==
    /\ phase[p] \in {"polling", "late"}
    /\ owner = None
    /\ owner' = p
    /\ torn' = TRUE
    /\ Goto(p, "created")
    /\ UNCHANGED <<command, confirmed>>

(* EEXIST after the deadline is a CloneLockTimeoutError. *)
GiveUp(p) ==
    /\ phase[p] = "late"
    /\ owner # None
    /\ Goto(p, "timedOut")
    /\ UNCHANGED <<owner, torn, command, confirmed>>

WriteBody(p) ==
    /\ phase[p] = "created"
    /\ torn' = FALSE
    /\ Goto(p, "holding")
    /\ UNCHANGED <<owner, command, confirmed>>

(* A write error is not EEXIST: it is rethrown, and the file stays. *)
WriteFails(p) ==
    /\ phase[p] = "created"
    /\ Goto(p, "failed")
    /\ UNCHANGED <<owner, torn, command, confirmed>>

Spawn(p) ==
    /\ phase[p] = "holding"
    /\ command' = [command EXCEPT ![p] = "running"]
    /\ Goto(p, "running")
    /\ UNCHANGED <<owner, torn, confirmed>>

(* The child's "error" event: the promise rejects, finally releases. *)
SpawnFails(p) ==
    /\ phase[p] = "holding"
    /\ Goto(p, "exited")
    /\ UNCHANGED <<owner, torn, command, confirmed>>

(* The command ends whether or not the process that spawned it is there. *)
CommandEnds(p) ==
    /\ command[p] = "running"
    /\ command' = [command EXCEPT ![p] = "over"]
    /\ UNCHANGED <<owner, torn, phase, confirmed>>

ChildExit(p) ==
    /\ phase[p] = "running"
    /\ command[p] = "over"
    /\ Goto(p, "exited")
    /\ UNCHANGED <<owner, torn, command, confirmed>>

(* releaseCloneLock: the file is read first, and left alone when it does   *)
(* not hold the token of this acquisition ...                              *)
ReadToken(p) ==
    /\ phase[p] = "exited"
    /\ Goto(p, IF owner = p /\ ~torn THEN "owns" ELSE "done")
    /\ UNCHANGED <<owner, torn, command, confirmed>>

(* ... and removed by its name, whatever it holds by then. *)
Unlink(p) ==
    /\ phase[p] = "owns"
    /\ owner' = None
    /\ torn' = FALSE
    /\ Goto(p, "done")
    /\ UNCHANGED <<command, confirmed>>

(* Any unlink error but ENOENT is rethrown, and the file stays. *)
UnlinkFails(p) ==
    /\ phase[p] = "owns"
    /\ Goto(p, "failed")
    /\ UNCHANGED <<owner, torn, command, confirmed>>

(* SIGKILL, a closed terminal, a lost machine session. *)
Kill(p) ==
    /\ phase[p] \notin Ended \cup {"idle"}
    /\ Goto(p, "killed")
    /\ UNCHANGED <<owner, torn, command, confirmed>>

-----------------------------------------------------------------------------
(* The person who reads the message of a timeout.                          *)

(* No process needs the file: the one that made it and its command ended.  *)
Orphaned ==
    /\ owner \in Procs
    /\ phase[owner] \in Ended
    /\ command[owner] # "running"

Confirm ==
    /\ ~confirmed
    /\ Orphaned
    /\ confirmed' = TRUE
    /\ UNCHANGED <<owner, torn, phase, command>>

RemoveByHand ==
    /\ confirmed
    /\ owner' = None
    /\ torn' = FALSE
    /\ confirmed' = FALSE
    /\ UNCHANGED <<phase, command>>

-----------------------------------------------------------------------------
Acquire(p) == Start(p) \/ DeadlinePasses(p) \/ Create(p) \/ GiveUp(p) \/ WriteBody(p)

Guard(p) == Spawn(p) \/ SpawnFails(p) \/ CommandEnds(p) \/ ChildExit(p)

Release(p) == ReadToken(p) \/ Unlink(p)

Fail(p) == WriteFails(p) \/ UnlinkFails(p) \/ Kill(p)

Next ==
    \/ \E p \in Procs : Acquire(p) \/ Guard(p) \/ Release(p) \/ Fail(p)
    \/ Confirm \/ RemoveByHand

Spec == Init /\ [][Next]_vars

(* A process that is not killed goes on, deadlines pass, git commands end. *)
(* Neither kills nor the person who removes orphans can be relied upon.    *)
Progress(p) ==
    \/ DeadlinePasses(p) \/ Create(p) \/ GiveUp(p) \/ WriteBody(p)
    \/ Spawn(p) \/ ChildExit(p) \/ Release(p)

FairSpec ==
    /\ Spec
    /\ \A p \in Procs : WF_vars(Progress(p)) /\ WF_vars(CommandEnds(p))

-----------------------------------------------------------------------------
Guarded == {p \in Procs : command[p] = "running"}

(* Of the guarded git commands at most one is running, whatever processes  *)
(* were killed, also when the command outlives its wrapper.                *)
MutualExclusion == \A p, q \in Guarded : p = q

(* As long as a guarded command runs the lock file names its wrapper: who  *)
(* looks at the file (checkCloneLock) is told the truth.                   *)
FileNamesHolder == \A p \in Guarded : owner = p /\ ~torn

(* A release never takes away what another invocation created: the file    *)
(* goes from its owner to nobody, by the owner itself or as an orphan.     *)
NeverStolen ==
    [][owner # None /\ owner' # owner =>
          /\ owner' = None
          /\ phase[owner] = "owns" \/ Orphaned]_vars

(* Every invocation that started ends, one way or another: it waits no     *)
(* longer than its deadline and it does not wait for an orphan.            *)
EveryInvocationEnds ==
    \A p \in Procs : phase[p] = "polling" ~> phase[p] \in Ended

(* An invocation that returns, or gives up waiting, leaves no file of its  *)
(* own behind: every orphan is a kill's or an I/O error's.                 *)
CleanEnd == \A p \in Procs : phase[p] \in {"done", "timedOut"} => owner # p

(* Implementation of the abstract lock: what is inside is the command.     *)
M == INSTANCE Mutex WITH inside <- Guarded
ImplementsMutex == M!Spec
=============================================================================
