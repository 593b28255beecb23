---------------------------- MODULE MCLocalFiles ----------------------------
(***************************************************************************)
(* What agent sessions share on one machine, for TLC.  A behaviour looks   *)
(* at one of four things (subject): the lock of a clone; the claim lock of *)
(* a worktree, which a session of each of two claims acquires; the record  *)
(* of generated tokens, which a recorder without a nonce, one with a nonce *)
(* and a backfill change; the processes of a telemetry hook.               *)
(***************************************************************************)
EXTENDS Naturals, CloneLock

CONSTANTS Sessions, ClaimIds, Claim, MaxAttempts,   \* of the claim lock
          Calls, Op, Nonces, NoNonce, Fill,         \* of the record of tokens
          Unusable, Directory, Absent, Malformed,   \* what a file may be instead
          s1, s2, c1, c2, plain, nonced, n1         \* of the instance for TLC

ASSUME ClaimAssumption ==
    /\ Claim \in [Sessions -> ClaimIds]
    /\ Absent \notin ClaimIds
    /\ Malformed \notin ClaimIds
    /\ MaxAttempts \in Nat \ {0}

ASSUME ContentsAssumption ==
    /\ None \notin Calls
    /\ Op \in [Calls -> Nonces \cup {NoNonce, Fill}]
    /\ {NoNonce, Fill, Absent, Unusable, Directory} \cap Nonces = {}
    /\ NoNonce \notin {Fill, Absent, Unusable, Directory}
    /\ Directory \notin {Absent, Unusable}

VARIABLES subject, inPlace, file, stage, attempt, takeover, outcome, holds,
          guard, record, call, body, lock,
          platform, caller, procs, pipe, timer, delivered, armed, expired, killers,
          strangers, victim, settled

(* Two sessions of different claims; what each call records. *)
MCClaim == [s \in Sessions |-> IF s = s1 THEN c1 ELSE c2]
MCOp == [c \in Calls |-> CASE c = plain -> NoNonce [] c = nonced -> n1 [] OTHER -> Fill]

Claims == INSTANCE ClaimLock WITH Claims <- ClaimIds, phase <- stage
Tokens == INSTANCE GeneratedTokens WITH phase <- call
Hook == INSTANCE TelemetryHook

lockVars == <<file, stage, attempt, takeover, outcome, holds>>
tokenVars == <<guard, record, call, body, lock>>
hookVars == <<platform, caller, procs, pipe, timer, delivered, armed, expired, killers,
              strangers, victim, settled>>
allVars == <<subject, inPlace, vars, lockVars, tokenVars, hookVars>>

(* What a behaviour does not look at is as it was in the beginning. *)
InitAll ==
    /\ subject \in {"clone", "claim", "record", "hook"}
    /\ Init /\ Claims!Init /\ Tokens!Init /\ Hook!Init
    /\ subject \notin {"claim", "record"} => inPlace
    /\ subject # "claim" => file = Absent
    /\ subject # "record" => record = Absent /\ lock = "absent"
    /\ subject # "hook" => platform = "posix" /\ caller = "resolving"

NextClone == subject = "clone" /\ Next
             /\ UNCHANGED <<subject, inPlace, lockVars, tokenVars, hookVars>>
NextClaim == subject = "claim" /\ Claims!Next
             /\ UNCHANGED <<subject, vars, tokenVars, hookVars>>
NextRecord == subject = "record" /\ Tokens!Next
              /\ UNCHANGED <<subject, vars, lockVars, hookVars>>
NextHook == subject = "hook" /\ Hook!Next
            /\ UNCHANGED <<subject, inPlace, vars, lockVars, tokenVars>>

NextAll == NextClone \/ NextClaim \/ NextRecord \/ NextHook

(* Processes that live go on and their deadlines pass.  The hook need not  *)
(* read, nor end.                                                          *)
SpecAll ==
    /\ InitAll
    /\ [][NextAll]_allVars
    /\ \A p \in Procs : WF_allVars(NextClone /\ Progress(p)) /\ WF_allVars(NextClone /\ CommandEnds(p))
    /\ \A s \in Sessions : WF_allVars(NextClaim /\ Claims!Step(s))
    /\ \A c \in Calls : WF_allVars(NextRecord /\ Tokens!Progress(c))
    /\ WF_allVars(NextHook /\ Hook!CallerStep) /\ WF_allVars(NextHook /\ Hook!WatchdogFires)
    /\ \A n \in Hook!Numbers : WF_allVars(NextHook /\ Hook!Taskkill(n))

-----------------------------------------------------------------------------
(* A session that acquired the claim lock is named in it until a takeover  *)
(* undoes that, and an ordinary acquisition displaces no lock, however the *)
(* calls overlap (acquireClaimLock).                                       *)
LockIsKept == Claims!LockIsKept

(* The record of tokens behaves as if every call changed it in one step.   *)
ImplementsRecord == Tokens!ImplementsRecord

(* A hook does not live past its deadline, though its caller has exited.   *)
DeadlineHolds == Hook!DeadlineHolds

(* --invoke does not exit over a payload or a watchdog that is on its way. *)
ExitLosesNothing == Hook!ExitLosesNothing

(* No process is killed for having the number of one that has ended.       *)
NoStrangerKilled == Hook!NoStrangerKilled

(* Every call on any of them ends: no orphaned file, no lock that comes    *)
(* and goes and no hook that hangs keeps a caller for ever.                *)
CallsEnd ==
    /\ EveryInvocationEnds
    /\ Claims!EveryCallEnds
    /\ Tokens!EveryCallEnds
    /\ subject = "hook" => Hook!CallerGoesOn
=============================================================================
