-------------------------- MODULE LocalFiles_proofs --------------------------
(***************************************************************************)
(* Proofs about what agent sessions share on one machine, for any number   *)
(* of processes, sessions, claims, rounds and nonces: the lock of a clone, *)
(* the claim lock of a worktree, the record of generated tokens and the    *)
(* processes of a telemetry hook.  Each has an inductive invariant of its  *)
(* own; the last theorems carry the results to behaviours of MCLocalFiles, *)
(* which look at one of the four.                                          *)
(***************************************************************************)
EXTENDS MCLocalFiles, TLAPS

-----------------------------------------------------------------------------
(* The lock of a clone.                                                    *)

(* The phases in which an invocation believes that the file is its own. *)
Believers == {"created", "holding", "running", "exited", "owns"}

OwnsFile(p) == phase[p] \in Believers => owner = p

WroteBody(p) == phase[p] \in Believers \ {"created"} => ~torn

CommandUnderLock(p) ==
    command[p] = "running" =>
        owner = p /\ ~torn /\ phase[p] \in {"running", "killed"}

Inv ==
    /\ TypeOK
    /\ \A p \in Procs : OwnsFile(p) /\ WroteBody(p) /\ CommandUnderLock(p)
    /\ \A p \in Procs : phase[p] \in {"idle", "polling", "late"} => owner # p
    /\ CleanEnd
    /\ confirmed => Orphaned

LEMMA InitInv == Init => Inv
  BY NoneAssumption DEF Init, Inv, TypeOK, OwnsFile, WroteBody, CommandUnderLock, CleanEnd,
     Believers, Phases, Orphaned

LEMMA AcquireInv ==
    ASSUME Inv, NEW p \in Procs, Acquire(p)
    PROVE  Inv'
<1> USE NoneAssumption DEF Inv, TypeOK, OwnsFile, WroteBody, CommandUnderLock, CleanEnd,
        Believers, Phases, Ended, Orphaned, Goto
<1>1. CASE Start(p)  BY <1>1 DEF Start
<1>2. CASE DeadlinePasses(p)  BY <1>2 DEF DeadlinePasses
<1>3. CASE Create(p)  BY <1>3 DEF Create
<1>4. CASE GiveUp(p)  BY <1>4 DEF GiveUp
<1>5. CASE WriteBody(p)  BY <1>5 DEF WriteBody
<1> QED  BY <1>1, <1>2, <1>3, <1>4, <1>5 DEF Acquire

LEMMA GuardInv ==
    ASSUME Inv, NEW p \in Procs, Guard(p)
    PROVE  Inv'
<1> USE NoneAssumption DEF Inv, TypeOK, OwnsFile, WroteBody, CommandUnderLock, CleanEnd,
        Believers, Phases, Ended, Orphaned, Goto
<1>1. CASE Spawn(p)  BY <1>1 DEF Spawn
<1>2. CASE SpawnFails(p)  BY <1>2 DEF SpawnFails
<1>3. CASE CommandEnds(p)  BY <1>3 DEF CommandEnds
<1>4. CASE ChildExit(p)  BY <1>4 DEF ChildExit
<1> QED  BY <1>1, <1>2, <1>3, <1>4 DEF Guard

LEMMA ReleaseInv ==
    ASSUME Inv, NEW p \in Procs, Release(p) \/ Fail(p)
    PROVE  Inv'
<1> USE NoneAssumption DEF Inv, TypeOK, OwnsFile, WroteBody, CommandUnderLock, CleanEnd,
        Believers, Phases, Ended, Orphaned, Goto
<1>1. CASE ReadToken(p)  BY <1>1 DEF ReadToken
<1>2. CASE Unlink(p)  BY <1>2 DEF Unlink
<1>3. CASE WriteFails(p)  BY <1>3 DEF WriteFails
<1>4. CASE UnlinkFails(p)  BY <1>4 DEF UnlinkFails
<1>5. CASE Kill(p)  BY <1>5 DEF Kill
<1> QED  BY <1>1, <1>2, <1>3, <1>4, <1>5 DEF Release, Fail

LEMMA PersonInv == Inv /\ (Confirm \/ RemoveByHand) => Inv'
<1> USE NoneAssumption DEF Inv, TypeOK, OwnsFile, WroteBody, CommandUnderLock, CleanEnd,
        Believers, Ended, Orphaned
<1>1. Inv /\ Confirm => Inv'  BY DEF Confirm
<1>2. Inv /\ RemoveByHand => Inv'  BY DEF RemoveByHand
<1> QED  BY <1>1, <1>2

LEMMA NextInv == Inv /\ [Next]_vars => Inv'
<1> SUFFICES ASSUME Inv, [Next]_vars PROVE Inv'  OBVIOUS
<1>1. CASE UNCHANGED vars
  BY <1>1 DEF vars, Inv, TypeOK, OwnsFile, WroteBody, CommandUnderLock, CleanEnd,
     Orphaned
<1>2. CASE Next
  BY <1>2, AcquireInv, GuardInv, ReleaseInv, PersonInv DEF Next
<1> QED  BY <1>1, <1>2

(* The inductive invariant: who believes to own the file does, a running   *)
(* command's wrapper owns it, and what a person removes is an orphan.      *)
THEOREM Invariant == Spec => []Inv
  BY InitInv, NextInv, PTL DEF Spec

(* Type correctness. *)
THEOREM TypeCorrect == Spec => []TypeOK
<1>1. Inv => TypeOK  BY DEF Inv
<1> QED  BY <1>1, Invariant, PTL

(* Of the guarded git commands at most one runs, whatever is killed.       *)
THEOREM MutuallyExclusive == Spec => []MutualExclusion
<1>1. Inv => MutualExclusion
  BY DEF Inv, MutualExclusion, Guarded, CommandUnderLock
<1> QED  BY <1>1, Invariant, PTL

(* The file names the wrapper of the running command.                      *)
THEOREM HolderIsNamed == Spec => []FileNamesHolder
<1>1. Inv => FileNamesHolder
  BY DEF Inv, FileNamesHolder, Guarded, CommandUnderLock
<1> QED  BY <1>1, Invariant, PTL

(* An invocation that returns or gives up leaves no file of its own.       *)
THEOREM EndsCleanly == Spec => []CleanEnd
<1>1. Inv => CleanEnd  BY DEF Inv
<1> QED  BY <1>1, Invariant, PTL

(* No step takes the file from an owner that still needs it.               *)
THEOREM NotStolen == Spec => NeverStolen
<1>1. ASSUME Inv, [Next]_vars
      PROVE  [owner # None /\ owner' # owner =>
                 /\ owner' = None
                 /\ phase[owner] = "owns" \/ Orphaned]_vars
  <2> SUFFICES ASSUME Next, owner # None, owner' # owner
               PROVE  owner' = None /\ (phase[owner] = "owns" \/ Orphaned)
    BY <1>1 DEF vars
  <2>1. CASE \E p \in Procs : Unlink(p)
    BY <1>1, <2>1 DEF Unlink, Inv, OwnsFile, Believers
  <2>2. CASE RemoveByHand
    BY <1>1, <2>2 DEF RemoveByHand, Inv
  <2>3. CASE \E p \in Procs : Create(p)
    BY <2>3 DEF Create
  <2> QED
    BY <2>1, <2>2, <2>3 DEF Next, Acquire, Guard, Release, Fail, Start, DeadlinePasses,
       GiveUp, WriteBody, Spawn, SpawnFails, CommandEnds, ChildExit, ReadToken,
       WriteFails, UnlinkFails, Kill, Confirm
<1> QED  BY <1>1, Invariant, PTL DEF Spec, NeverStolen

-----------------------------------------------------------------------------
(* The lock implements mutual exclusion of what it guards.                 *)

LEMMA GuardedStep ==
    ASSUME Inv, [Next]_vars
    PROVE  [M!Next]_Guarded
<1>1. CASE \E p \in Procs : Spawn(p)
  <2>1. PICK p \in Procs : Spawn(p)  BY <1>1
  <2>2. Guarded = {}
    BY <2>1 DEF Spawn, Inv, OwnsFile, CommandUnderLock, Guarded, Believers
  <2>3. Guarded' = {p}
    BY <2>1, <2>2 DEF Spawn, Inv, TypeOK, Guarded
  <2> QED  BY <2>2, <2>3 DEF M!Next, M!Enter
<1>2. CASE \E p \in Procs : CommandEnds(p)
  <2>1. PICK p \in Procs : CommandEnds(p)  BY <1>2
  <2>2. Guarded = {p}
    BY <2>1 DEF CommandEnds, Inv, CommandUnderLock, Guarded
  <2>3. Guarded' = {}
    BY <2>1, <2>2 DEF CommandEnds, Inv, TypeOK, Guarded
  <2> QED  BY <2>2, <2>3 DEF M!Next, M!Leave
<1>3. CASE UNCHANGED command
  BY <1>3 DEF Guarded
<1> QED
  BY <1>1, <1>2, <1>3 DEF Next, vars, Acquire, Guard, Release, Fail, Start, DeadlinePasses,
     Create, GiveUp, WriteBody, SpawnFails, ChildExit, ReadToken, Unlink,
     WriteFails, UnlinkFails, Kill, Confirm, RemoveByHand

(* Every behaviour of the lock is one of the abstract Mutex.               *)
THEOREM Implementation == Spec => ImplementsMutex
<1>1. Init => M!Init
  BY DEF Init, M!Init, Guarded
<1> QED  BY <1>1, GuardedStep, Invariant, PTL DEF Spec, M!Spec, ImplementsMutex

-----------------------------------------------------------------------------
(* The claim lock of a worktree.                                           *)
(* A call that has a try left has not used up its rounds, and only a call  *)
(* with --takeover comes to a rename.                                      *)
ClaimRounds ==
    \A s \in Sessions :
        /\ stage[s] \in {"called", "read", "create"} => attempt[s] < MaxAttempts
        /\ stage[s] \in {"replace", "gap"} => takeover[s]

ClaimInv == Claims!TypeOK /\ Claims!HoldersAreNamed /\ ClaimRounds

LEMMA ClaimInitInv == Claims!Init => ClaimInv
  BY ClaimAssumption DEF Claims!Init, ClaimInv, Claims!TypeOK, Claims!HoldersAreNamed, ClaimRounds, Claims!Phases, Claims!Outcomes

(* Nobody holds a lock that is not there, or that nobody can read.         *)
LEMMA ClaimHoldersNeedAFile ==
    ASSUME Claims!TypeOK, Claims!HoldersAreNamed, file \notin ClaimIds
    PROVE  holds = {}
  BY ClaimAssumption DEF Claims!TypeOK, Claims!HoldersAreNamed

LEMMA ClaimAcquireInv ==
    ASSUME ClaimInv, NEW s \in Sessions, UNCHANGED inPlace,
           Claims!Call(s) \/ Claims!ResolvePath(s) \/ Claims!ReadLock(s) \/ Claims!CreateExclusively(s) \/ Claims!ReadWinner(s)
    PROVE  ClaimInv'
<1> USE ClaimAssumption DEF ClaimInv, Claims!TypeOK, Claims!HoldersAreNamed, ClaimRounds, Claims!Phases, Claims!Outcomes, Claims!Goto, Claims!Acquired
<1>1. CASE Claims!Call(s)  BY <1>1 DEF Claims!Call
<1>2. CASE Claims!ResolvePath(s)  BY <1>2 DEF Claims!ResolvePath
<1>3. CASE Claims!ReadLock(s)  BY <1>3 DEF Claims!ReadLock
<1>4. CASE Claims!CreateExclusively(s)
  <2>1. CASE file = Absent
    <3>1. holds = {}  BY <2>1, ClaimHoldersNeedAFile
    <3> QED  BY <1>4, <2>1, <3>1 DEF Claims!CreateExclusively
  <2>2. CASE file # Absent  BY <1>4, <2>2 DEF Claims!CreateExclusively
  <2> QED  BY <2>1, <2>2
<1>5. CASE Claims!ReadWinner(s)  BY <1>5 DEF Claims!ReadWinner
<1> QED  BY <1>1, <1>2, <1>3, <1>4, <1>5

LEMMA ClaimTakeoverInv ==
    ASSUME ClaimInv, NEW s \in Sessions, UNCHANGED inPlace,
           Claims!Replace(s) \/ Claims!RemoveTarget(s) \/ Claims!RenameAgain(s) \/ Claims!IOError(s)
    PROVE  ClaimInv'
<1> USE ClaimAssumption DEF ClaimInv, Claims!TypeOK, Claims!HoldersAreNamed, ClaimRounds, Claims!Phases, Claims!Outcomes, Claims!Goto, Claims!Displaced
<1>1. CASE Claims!Replace(s)  BY <1>1 DEF Claims!Replace
<1>2. CASE Claims!RemoveTarget(s)  BY <1>2 DEF Claims!RemoveTarget
<1>3. CASE Claims!RenameAgain(s)  BY <1>3 DEF Claims!RenameAgain
<1>4. CASE Claims!IOError(s)  BY <1>4 DEF Claims!IOError
<1> QED  BY <1>1, <1>2, <1>3, <1>4

LEMMA ClaimNextInv == ClaimInv /\ [Claims!Next]_Claims!vars => ClaimInv'
<1> SUFFICES ASSUME ClaimInv, [Claims!Next]_Claims!vars PROVE ClaimInv'  OBVIOUS
<1>1. CASE UNCHANGED Claims!vars
  BY <1>1 DEF Claims!vars, ClaimInv, Claims!TypeOK, Claims!HoldersAreNamed, ClaimRounds
<1>2. CASE Claims!RemoveWorktree /\ UNCHANGED inPlace
  BY <1>2 DEF Claims!RemoveWorktree, ClaimInv, Claims!TypeOK, Claims!HoldersAreNamed, ClaimRounds
<1>3. CASE Claims!Next /\ ~ Claims!RemoveWorktree
  BY <1>3, ClaimAcquireInv, ClaimTakeoverInv DEF Claims!Next, Claims!Step
<1> QED  BY <1>1, <1>2, <1>3 DEF Claims!Next

(* The inductive invariant: a holder is named in the file, and only a call *)
(* with --takeover is about to rename over it.                             *)
THEOREM ClaimInvariant == Claims!Spec => []ClaimInv
  BY ClaimInitInv, ClaimNextInv, PTL DEF Claims!Spec

(* Type correctness. *)
THEOREM ClaimTypeCorrect == Claims!Spec => []Claims!TypeOK
<1>1. ClaimInv => Claims!TypeOK  BY DEF ClaimInv
<1> QED  BY <1>1, ClaimInvariant, PTL

(* An acquisition stays true, and no ordinary one displaces a lock         *)
(* (acquireClaimLock).                                                     *)
THEOREM ClaimAcquisitionIsKept == Claims!Spec => Claims!LockIsKept
<1>1. ClaimInv /\ [Claims!Next]_Claims!vars => [Claims!HoldersAreNamed']_Claims!vars
  BY ClaimNextInv DEF ClaimInv
<1>2. ASSUME ClaimInv, [Claims!Next]_Claims!vars
      PROVE  [\A s \in Sessions :
                stage'[s] # stage[s] /\ file # Absent /\ file' # file => takeover[s]]_Claims!vars
  <2> SUFFICES ASSUME Claims!Next, NEW s \in Sessions, stage'[s] # stage[s], file # Absent, file' # file
               PROVE  takeover[s]
    BY <1>2 DEF Claims!vars
  <2>1. stage \in [Sessions -> Claims!Phases]  BY <1>2 DEF ClaimInv, Claims!TypeOK
  <2>2. CASE Claims!RemoveWorktree  BY <2>2 DEF Claims!RemoveWorktree
  <2>3. ASSUME NEW p \in Sessions, Claims!Call(p) \/ Claims!Step(p) \/ Claims!IOError(p)
        PROVE  takeover[s]
    <3>1. Claims!Replace(p) \/ Claims!RemoveTarget(p) \/ Claims!RenameAgain(p)
      BY <2>3 DEF Claims!Step, Claims!Call, Claims!ResolvePath, Claims!ReadLock, Claims!CreateExclusively, Claims!ReadWinner, Claims!IOError
    <3>2. stage[p] \in {"replace", "gap"} /\ p = s
      BY <2>1, <3>1 DEF Claims!Replace, Claims!RemoveTarget, Claims!RenameAgain, Claims!Goto
    <3> QED  BY <1>2, <3>2 DEF ClaimInv, ClaimRounds
  <2> QED  BY <2>2, <2>3 DEF Claims!Next
<1> QED  BY <1>1, <1>2, ClaimInvariant, PTL DEF Claims!Spec, Claims!LockIsKept, Claims!OnlyTakeoverDisplaces

-----------------------------------------------------------------------------
(* The record of generated tokens.                                         *)
(* From creating the guard until it is seen that it may be removed, the    *)
(* guard is the call's own; the record has a gap only where a rename does  *)
(* not replace.                                                            *)
TokenOwnsGuard(c) == call[c] \in Tokens!Inside \cup {"opened", "written", "blocked", "owns"} => guard = c
TokenNoGapInPlace(c) == call[c] = "gap" => ~ inPlace

(* What a call is about to write is what it was asked to record or, in a   *)
(* backfill, what keeps the record as it is.                               *)
TokenIntendsTo(c) ==
    call[c] \in {"writing", "gap"} =>
        IF Op[c] # Fill THEN body[c] = Op[c]
        ELSE /\ record \in Nonces => body[c] = record
             /\ record \notin Nonces /\ call[c] = "writing" => body[c] = NoNonce

TokenInv == Tokens!TypeOK /\ \A c \in Calls : TokenOwnsGuard(c) /\ TokenNoGapInPlace(c) /\ TokenIntendsTo(c)

LEMMA TokenInitInv == Tokens!Init => TokenInv
  BY DEF Tokens!Init, TokenInv, Tokens!TypeOK, Tokens!Contents, Tokens!Phases, Tokens!Inside, TokenOwnsGuard, TokenNoGapInPlace, TokenIntendsTo

LEMMA TokenGuardInv ==
    ASSUME TokenInv, NEW c \in Calls, UNCHANGED inPlace,
           \/ Tokens!Start(c) \/ Tokens!DeadlinePasses(c) \/ Tokens!OpenGuard(c) \/ Tokens!GiveUp(c) \/ Tokens!WriteGuard(c)
           \/ Tokens!WriteGuardFails(c) \/ Tokens!ReadGuard(c) \/ Tokens!UnlinkGuard(c) \/ Tokens!CleanupFails(c) \/ Tokens!Kill(c)
    PROVE  TokenInv'
<1> USE ContentsAssumption DEF TokenInv, Tokens!TypeOK, Tokens!Contents, Tokens!Phases, Tokens!Ended, Tokens!Inside, TokenOwnsGuard, TokenNoGapInPlace,
        TokenIntendsTo, Tokens!Goto
<1>1. CASE Tokens!Start(c)  BY <1>1 DEF Tokens!Start
<1>2. CASE Tokens!DeadlinePasses(c)  BY <1>2 DEF Tokens!DeadlinePasses
<1>3. CASE Tokens!OpenGuard(c)  BY <1>3 DEF Tokens!OpenGuard
<1>4. CASE Tokens!GiveUp(c)  BY <1>4 DEF Tokens!GiveUp
<1>5. CASE Tokens!WriteGuard(c)  BY <1>5 DEF Tokens!WriteGuard
<1>6. CASE Tokens!WriteGuardFails(c)  BY <1>6 DEF Tokens!WriteGuardFails
<1>7. CASE Tokens!ReadGuard(c)  BY <1>7 DEF Tokens!ReadGuard
<1>8. CASE Tokens!UnlinkGuard(c)  BY <1>8 DEF Tokens!UnlinkGuard
<1>9. CASE Tokens!CleanupFails(c)  BY <1>9 DEF Tokens!CleanupFails
<1>10. CASE Tokens!Kill(c)  BY <1>10 DEF Tokens!Kill
<1> QED  BY <1>1, <1>2, <1>3, <1>4, <1>5, <1>6, <1>7, <1>8, <1>9, <1>10

LEMMA TokenSectionInv ==
    ASSUME TokenInv, NEW c \in Calls, UNCHANGED inPlace,
           Tokens!Prepare(c) \/ Tokens!WriteRecord(c) \/ Tokens!RemoveRecord(c) \/ Tokens!RenameAgain(c) \/ Tokens!WriteRecordFails(c)
    PROVE  TokenInv'
<1> USE ContentsAssumption DEF TokenInv, Tokens!TypeOK, Tokens!Contents, Tokens!Phases, Tokens!Inside, TokenOwnsGuard, TokenNoGapInPlace, TokenIntendsTo, Tokens!Goto
<1>1. CASE Tokens!Prepare(c)  BY <1>1 DEF Tokens!Prepare
<1>2. CASE Tokens!WriteRecord(c)  BY <1>2 DEF Tokens!WriteRecord
<1>3. CASE Tokens!RemoveRecord(c)  BY <1>3 DEF Tokens!RemoveRecord
<1>4. CASE Tokens!RenameAgain(c)  BY <1>4 DEF Tokens!RenameAgain
<1>5. CASE Tokens!WriteRecordFails(c)  BY <1>5 DEF Tokens!WriteRecordFails
<1> QED  BY <1>1, <1>2, <1>3, <1>4, <1>5

LEMMA TokenOthersInv ==
    ASSUME TokenInv, UNCHANGED inPlace, Tokens!RemoveGuardByHand \/ Tokens!ClaimLockChanges
    PROVE  TokenInv'
<1> USE ContentsAssumption DEF TokenInv, Tokens!TypeOK, Tokens!Contents, Tokens!Phases, Tokens!Ended, Tokens!Inside, TokenOwnsGuard, TokenNoGapInPlace, TokenIntendsTo
<1>1. CASE Tokens!RemoveGuardByHand  BY <1>1 DEF Tokens!RemoveGuardByHand
<1>2. CASE Tokens!ClaimLockChanges  BY <1>2 DEF Tokens!ClaimLockChanges
<1> QED  BY <1>1, <1>2

LEMMA TokenNextInv == TokenInv /\ [Tokens!Next]_Tokens!vars => TokenInv'
<1> SUFFICES ASSUME TokenInv, [Tokens!Next]_Tokens!vars PROVE TokenInv'  OBVIOUS
<1>1. CASE UNCHANGED Tokens!vars
  BY <1>1 DEF Tokens!vars, TokenInv, Tokens!TypeOK, TokenOwnsGuard, TokenNoGapInPlace, TokenIntendsTo
<1>2. CASE Tokens!Next
  BY <1>2, TokenGuardInv, TokenSectionInv, TokenOthersInv DEF Tokens!Next, Tokens!Step, Tokens!Fail
<1> QED  BY <1>1, <1>2

(* The inductive invariant: the guard is its creator's until it is removed *)
(* and nobody writes what is out of date.                                  *)
THEOREM TokenInvariant == Tokens!Spec => []TokenInv
  BY TokenInitInv, TokenNextInv, PTL DEF Tokens!Spec

(* One call at a time changes the record (withGeneratedTokensWriteLock).   *)
THEOREM TokenWritersExclude == Tokens!Spec => []Tokens!OneWriter
<1>1. TokenInv => Tokens!OneWriter  BY DEF TokenInv, Tokens!OneWriter, TokenOwnsGuard
<1> QED  BY <1>1, TokenInvariant, PTL

(* A backfill never writes over a newer nonce                              *)
(* (backfillGeneratedClaimTokens).                                         *)
THEOREM TokenBackfillKeepsNonce == Tokens!Spec => []Tokens!BackfillIsCurrent
<1>1. TokenInv => Tokens!BackfillIsCurrent  BY DEF TokenInv, Tokens!BackfillIsCurrent, TokenIntendsTo
<1> QED  BY <1>1, TokenInvariant, PTL

(* The record of a step, seen as the atomic one. *)
TokenNonce == IF record = Directory \/ ~inPlace THEN Unusable ELSE record
TokenPending == IF inPlace THEN {c \in Calls : call[c] \notin Tokens!Ended \cup {"written", "blocked", "owns"}} ELSE Calls

LEMMA TokenMapsInit == Tokens!Init => Tokens!A!Init
  BY DEF Tokens!Init, Tokens!A!Init, Tokens!Ended

LEMMA TokenMapsWrite ==
    ASSUME TokenInv, NEW c \in Calls, inPlace, UNCHANGED inPlace, Tokens!WriteRecord(c)
    PROVE  Tokens!A!Record(c) \/ Tokens!A!Backfill(c)
<1> USE ContentsAssumption DEF TokenInv, Tokens!TypeOK, Tokens!Phases
<1>1. record' = body[c] /\ record' # Directory /\ TokenNonce' = body[c] /\ TokenNonce = record
  BY DEF Tokens!WriteRecord, TokenNonce
<1>2. call[c] = "writing" /\ call' = [call EXCEPT ![c] = "written"]
  BY DEF Tokens!WriteRecord, Tokens!Goto
<1>3. c \in TokenPending /\ TokenPending' = TokenPending \ {c}
  BY <1>2 DEF TokenPending, Tokens!Ended
<1>4. CASE Op[c] # Fill
  <2>1. body[c] = Op[c] /\ Op[c] \in Nonces \cup {NoNonce}
    BY <1>2, <1>4 DEF TokenIntendsTo
  <2> QED  BY <1>1, <1>3, <2>1 DEF Tokens!A!Record, TokenNonce, TokenPending
<1>5. CASE Op[c] = Fill
  <2>1. body[c] = IF record \in Nonces THEN record ELSE NoNonce
    BY <1>2, <1>5 DEF TokenIntendsTo
  <2>2. Op[c] \notin Nonces \cup {NoNonce}  BY <1>5
  <2> QED  BY <1>1, <1>3, <2>1, <2>2 DEF Tokens!A!Backfill, TokenNonce, TokenPending
<1> QED  BY <1>4, <1>5

(* Where a rename replaces, every other step leaves the record alone and   *)
(* brings no call back; elsewhere nothing is claimed.                      *)
LEMMA TokenMapsOthers ==
    ASSUME TokenInv, Tokens!Next, ~ inPlace \/ ~ (\E c \in Calls : Tokens!WriteRecord(c))
    PROVE  Tokens!A!NoEffect
<1> USE DEF TokenInv, Tokens!TypeOK, Tokens!Phases, Tokens!Ended
<1>1. inPlace' = inPlace  BY DEF Tokens!Next
<1>2. CASE ~ inPlace
  BY <1>1, <1>2 DEF Tokens!A!NoEffect
<1>3. CASE inPlace
  <2>1. \A c \in Calls : call[c] # "gap"  BY <1>3 DEF TokenNoGapInPlace
  <2>2. record' = record
    BY <1>3, <2>1 DEF Tokens!Next, Tokens!Step, Tokens!Fail, Tokens!Start, Tokens!DeadlinePasses, Tokens!OpenGuard, Tokens!GiveUp, Tokens!WriteGuard, Tokens!WriteGuardFails,
       Tokens!Prepare, Tokens!RemoveRecord, Tokens!RenameAgain, Tokens!WriteRecordFails, Tokens!ReadGuard, Tokens!UnlinkGuard, Tokens!CleanupFails, Tokens!Kill,
       Tokens!RemoveGuardByHand, Tokens!ClaimLockChanges
  <2>3. \A c \in Calls : call[c] \in Tokens!Ended \cup {"written", "blocked", "owns"} =>
                           call'[c] \in Tokens!Ended \cup {"written", "blocked", "owns"}
    BY DEF Tokens!Next, Tokens!Step, Tokens!Fail, Tokens!Start, Tokens!DeadlinePasses, Tokens!OpenGuard, Tokens!GiveUp, Tokens!WriteGuard, Tokens!WriteGuardFails,
       Tokens!Prepare, Tokens!WriteRecord, Tokens!RemoveRecord, Tokens!RenameAgain, Tokens!WriteRecordFails, Tokens!ReadGuard, Tokens!UnlinkGuard, Tokens!CleanupFails,
       Tokens!Kill, Tokens!RemoveGuardByHand, Tokens!ClaimLockChanges, Tokens!Goto
  <2> QED  BY <1>1, <1>3, <2>2, <2>3 DEF Tokens!A!NoEffect
<1> QED  BY <1>2, <1>3

(* The record with its guard implements the atomic record                  *)
(* (recordGeneratedClaimTokens, backfillGeneratedClaimTokens).             *)
THEOREM TokenImplementation == Tokens!Spec => Tokens!ImplementsRecord
<1>1. TokenInv /\ [Tokens!Next]_Tokens!vars => [Tokens!A!Next]_<<TokenNonce, TokenPending>>
  <2> SUFFICES ASSUME TokenInv, [Tokens!Next]_Tokens!vars PROVE [Tokens!A!Next]_<<TokenNonce, TokenPending>>  OBVIOUS
  <2>1. CASE UNCHANGED Tokens!vars  BY <2>1 DEF Tokens!vars, TokenNonce, TokenPending
  <2>2. CASE inPlace /\ Tokens!Next /\ \E c \in Calls : Tokens!WriteRecord(c)
    BY <2>2, TokenMapsWrite DEF Tokens!Next, Tokens!A!Next
  <2>3. CASE Tokens!Next /\ (~ inPlace \/ ~ (\E c \in Calls : Tokens!WriteRecord(c)))
    BY <2>3, TokenMapsOthers DEF Tokens!A!Next
  <2> QED  BY <2>1, <2>2, <2>3
<1> QED  BY <1>1, TokenMapsInit, TokenInvariant, PTL DEF Tokens!Spec, Tokens!ImplementsRecord, Tokens!A!Spec, TokenNonce, TokenPending

-----------------------------------------------------------------------------
(* The processes of a telemetry hook.                                      *)
HookHooks == {"none", "unborn", "up", "endedOk", "endedBadly", "gone"}
HookDogs == {"none", "spawning", "asleep", "failed", "lost", "endedOk", "endedBadly", "gone"}

HookProcesses == [hook : HookHooks, job : {"none", "up", "gone"}, watchdog : HookDogs]

\* What the proofs need of the types.
HookTyped ==
  /\ platform \in {"posix", "win32"}
  /\ caller \in {"resolving", "reading", "embedding", "waiting", "awaiting", "exited"}
  /\ procs \in HookProcesses
  /\ pipe \in {"none", "open", "flushed", "broken", "cut"}
  /\ timer \in {"none", "pending", "over"}
  /\ delivered \in BOOLEAN /\ armed \in BOOLEAN /\ victim \in BOOLEAN
  /\ strangers \subseteq Hook!Numbers /\ killers \subseteq Hook!Numbers

\* Before the hook is invoked there is nothing.
HookNotBegun ==
  caller \in {"resolving", "reading", "embedding"} =>
    /\ procs.hook = "none" /\ procs.watchdog = "none"
    /\ pipe = "none" /\ strangers = {}

\* A signal that came without its event was given up.
HookSignalsAreTrue ==
  /\ pipe = "open" /\ delivered => "payload" \in expired
  /\ procs.watchdog = "spawning" /\ armed => "watchdog" \in expired

\* While the caller watches, on a POSIX system, the two processes go in one order: the
\* number of the hook is free only when neither the timer nor the watchdog is left.
HookOrderly ==
  platform = "posix" /\ caller # "exited" =>
    /\ ~ victim
    /\ killers = {}
    /\ procs.watchdog # "lost"
    /\ procs.hook = "gone" => timer = "over" /\ procs.watchdog \notin {"spawning", "asleep"}
    /\ procs.hook \in {"none", "unborn"} => procs.watchdog = "none"
    /\ procs.watchdog \in Hook!Ended => procs.hook \in Hook!Ended \union {"gone"}
    /\ procs.watchdog = "gone" => procs.hook = "gone"
    /\ \A number \in strangers : procs[number] = "gone"

HookIInv == HookTyped /\ HookNotBegun /\ HookSignalsAreTrue /\ HookOrderly /\ Hook!ExitLosesNothing /\ Hook!NoStrangerKilled

(* A kill ends the process that has the number, and perhaps its job.       *)
LEMMA HookKillsOnlyEnd ==
  ASSUME NEW p \in HookProcesses, NEW number \in Hook!Numbers,
         NEW q, q = Hook!WithoutOne(p, number) \/ q = Hook!WithoutAll(p, number)
  PROVE  /\ q \in HookProcesses
         /\ q.watchdog = IF number = "watchdog" /\ p.watchdog \in {"spawning", "asleep"}
                         THEN Hook!AfterEnd("endedBadly") ELSE p.watchdog
         /\ q.hook = IF number = "hook" /\ p.hook = "up" THEN Hook!AfterEnd("endedBadly") ELSE p.hook
  BY DEF Hook!WithoutOne, Hook!WithoutAll, Hook!AfterEnd, Hook!CallerLives, HookProcesses, HookHooks, HookDogs, Hook!Numbers

\* What a kill of any kind does, when the processes are p.
HookStruck(p, number) ==
  /\ procs' \in HookProcesses
  /\ \/ procs'.hook = p.hook
     \/ number = "hook" /\ p.hook = "up" /\ procs'.hook = Hook!AfterEnd("endedBadly")
  /\ \/ procs'.watchdog = p.watchdog
     \/ /\ number = "watchdog" /\ p.watchdog \in {"spawning", "asleep"}
        /\ procs'.watchdog = Hook!AfterEnd("endedBadly")

(* So does a kill by number; only a stranger makes a victim.               *)
LEMMA HookNumberStruck ==
  ASSUME NEW p \in HookProcesses, NEW number \in Hook!Numbers, Hook!KillByNumber(p, number), victim \in BOOLEAN
  PROVE  /\ HookStruck(p, number) /\ victim' \in BOOLEAN
         /\ number \notin strangers =>
              /\ victim' = victim
              /\ number = "hook" => procs'.hook # "up"
              /\ number = "watchdog" => procs'.watchdog \notin {"spawning", "asleep"}
<1>1. CASE number \in strangers
  BY <1>1 DEF Hook!KillByNumber, HookStruck
<1>2. CASE number \notin strangers
  <2>1. procs' = Hook!WithoutAll(p, number) /\ victim' = victim
    BY <1>2 DEF Hook!KillByNumber
  <2> QED
    BY <1>2, <2>1, HookKillsOnlyEnd DEF HookStruck, Hook!AfterEnd, Hook!Numbers
<1> QED
  BY <1>1, <1>2

(* And a kill of a group.                                                  *)
LEMMA HookGroupStruck ==
  ASSUME NEW p \in HookProcesses, NEW number \in Hook!Numbers, Hook!KillGroup(p, number), victim \in BOOLEAN,
         killers \subseteq Hook!Numbers, platform \in {"posix", "win32"}
  PROVE  /\ HookStruck(p, number) /\ victim' \in BOOLEAN /\ killers' \subseteq Hook!Numbers
         /\ platform = "win32" => victim' = victim
         /\ platform = "posix" => killers' = killers
         /\ platform = "posix" /\ number \notin strangers =>
              /\ victim' = victim
              /\ number = "watchdog" => procs'.watchdog \notin {"spawning", "asleep"}
<1>1. CASE platform = "posix"
  BY <1>1, HookNumberStruck DEF Hook!KillGroup
<1>2. CASE platform = "win32" /\ procs' = p /\ killers' = killers \union {number} /\ victim' = victim
  BY <1>2 DEF HookStruck
<1>3. CASE platform = "win32" /\ Hook!KillByHandle(p, number) /\ killers' = killers
  BY <1>3, HookKillsOnlyEnd DEF Hook!KillByHandle, HookStruck
<1> QED
  BY <1>1, <1>2, <1>3 DEF Hook!KillGroup

-----------------------------------------------------------------------------
(* The invariant holds at first and is kept by each step.                  *)
LEMMA HookInitInv == Hook!Init => HookIInv
<1> SUFFICES ASSUME Hook!Init PROVE HookIInv
  OBVIOUS
<1>1. procs.hook = "none" /\ procs.watchdog = "none" /\ procs \in HookProcesses
  BY DEF Hook!Init, HookProcesses, HookHooks, HookDogs
<1>2. HookTyped /\ HookNotBegun
  BY <1>1 DEF Hook!Init, HookTyped, HookNotBegun, Hook!Numbers
<1>3. HookSignalsAreTrue /\ Hook!ExitLosesNothing /\ Hook!NoStrangerKilled
  BY <1>1 DEF Hook!Init, HookSignalsAreTrue, Hook!ExitLosesNothing, Hook!NoStrangerKilled
<1>4. HookOrderly
  BY <1>1 DEF Hook!Init, HookOrderly, Hook!Ended
<1> QED
  BY <1>2, <1>3, <1>4 DEF HookIInv

LEMMA HookNextInv == HookIInv /\ [Hook!Next]_Hook!vars => HookIInv'
<1> SUFFICES ASSUME HookIInv, [Hook!Next]_Hook!vars PROVE HookIInv'
  OBVIOUS
<1> USE DEF HookIInv, HookTyped, HookNotBegun, HookSignalsAreTrue, HookOrderly, Hook!ExitLosesNothing, Hook!NoStrangerKilled,
            HookProcesses, HookHooks, HookDogs, Hook!Ended, Hook!signals, Hook!Numbers
<1>1. CASE Hook!ResolveHook
  BY <1>1 DEF Hook!ResolveHook
<1>2. CASE Hook!NoPayload
  BY <1>2 DEF Hook!NoPayload
<1>3. CASE Hook!InvokeThrows
  <2>1. /\ caller' \in {"waiting", "awaiting"} /\ delivered' = TRUE /\ armed' = TRUE
        /\ caller # "exited" /\ procs.hook = "none" /\ procs.watchdog = "none"
        /\ pipe = "none" /\ strangers = {}
        /\ UNCHANGED <<platform, procs, pipe, timer, expired, killers, strangers, victim>>
    BY <1>3 DEF Hook!InvokeThrows
  <2> QED
    BY <2>1
<1>4. CASE Hook!Invoke
  <2>1. PICK child \in {"unborn", "up"}, dog \in {"none", "spawning"} :
          /\ child = "unborn" => dog = "none"
          /\ procs' = [hook |-> child, job |-> "none", watchdog |-> dog]
          /\ armed' = (dog = "none")
    BY <1>4 DEF Hook!Invoke
  <2>2. procs' \in HookProcesses /\ procs'.hook = child /\ procs'.watchdog = dog
    BY <2>1
  <2>3. /\ caller' \in {"waiting", "awaiting"} /\ caller # "exited" /\ strangers = {}
        /\ pipe' \in {"open", "broken"} /\ delivered' = (pipe' = "broken") /\ timer' = "pending"
        /\ UNCHANGED <<platform, expired, killers, strangers, victim>>
    BY <1>4 DEF Hook!Invoke
  <2> QED
    BY <2>1, <2>2, <2>3
<1>5. CASE Hook!PayloadTimer
  BY <1>5 DEF Hook!PayloadTimer
<1>6. CASE Hook!WatchdogTimer
  BY <1>6 DEF Hook!WatchdogTimer
<1>7. CASE Hook!CallerExits
  BY <1>7 DEF Hook!CallerExits, Hook!DeliveredAndArmed, Hook!Ended
<1>8. CASE Hook!WatchdogSpawned
  BY <1>8 DEF Hook!WatchdogSpawned, Hook!CallerLives
<1>9. CASE Hook!TimerFires
  <2>1. Hook!KillGroup(procs, "hook") /\ Hook!CallerLives /\ timer = "pending"
    BY <1>9 DEF Hook!TimerFires
  <2>2. platform = "posix" => "hook" \notin strangers
    BY <2>1 DEF Hook!CallerLives
  <2> QED
    <3>1. /\ procs' \in HookProcesses /\ procs'.watchdog = procs.watchdog
          /\ (procs'.hook = procs.hook \/ (procs.hook = "up" /\ procs'.hook = "endedBadly"))
          /\ victim' \in BOOLEAN /\ killers' \subseteq Hook!Numbers
          /\ platform = "posix" => victim' = victim /\ killers' = killers
      BY <2>1, <2>2, HookGroupStruck DEF HookStruck, Hook!CallerLives, Hook!AfterEnd
    <3>2. timer' = "over" /\ caller # "exited" /\ UNCHANGED <<platform, caller, pipe, delivered, armed, expired, strangers>>
      BY <1>9 DEF Hook!TimerFires, Hook!CallerLives
    <3>3. \A number \in strangers : platform = "posix" => procs'[number] = "gone"
      BY <2>2, <3>1, <3>2
    <3> QED
      BY <3>1, <3>2, <3>3
<1>10. CASE Hook!HookFails
  BY <1>10 DEF Hook!HookFails, Hook!CallerLives, Hook!Settle
<1>11. CASE Hook!ExitsSeen
  <2> DEFINE seen == [procs EXCEPT !.hook = IF @ \in Hook!Ended THEN "gone" ELSE @,
                                   !.watchdog = IF @ \in Hook!Ended THEN "gone" ELSE @]
  <2>1. /\ seen \in HookProcesses
        /\ seen.hook = (IF procs.hook \in Hook!Ended THEN "gone" ELSE procs.hook)
        /\ seen.watchdog = (IF procs.watchdog \in Hook!Ended THEN "gone" ELSE procs.watchdog)
    OBVIOUS
  <2>2. CASE procs.hook \notin Hook!Ended
    <3>1. /\ procs' = seen /\ caller # "exited"
          /\ UNCHANGED <<timer, killers, victim, platform, caller, pipe, delivered, armed, expired, strangers>>
      BY <1>11, <2>2 DEF Hook!ExitsSeen, Hook!CallerLives
    <3>2. procs'.hook = procs.hook
      BY <2>1, <2>2, <3>1
    <3> HIDE DEF seen
    <3>3. procs'.watchdog = (IF procs.watchdog \in Hook!Ended THEN "gone" ELSE procs.watchdog) /\ procs' \in HookProcesses
      BY <2>1, <3>1
    <3>4. platform = "posix" => procs.watchdog \notin Hook!Ended \/ procs.hook = "gone"
      BY <2>2, <3>1
    <3> QED
      BY <3>1, <3>2, <3>3, <3>4
  <2>3. CASE procs.hook \in Hook!Ended /\ seen.watchdog \in {"none", "failed"}
    <3>1. /\ procs' = seen /\ timer' = "over" /\ caller # "exited"
          /\ settled' = IF settled = "no" THEN IF procs.hook = "endedOk" THEN "ok" ELSE "failed" ELSE settled
          /\ UNCHANGED <<killers, victim, platform, caller, pipe, delivered, armed, expired, strangers>>
      BY <1>11, <2>3 DEF Hook!ExitsSeen, Hook!CallerLives, Hook!CancelWatchdog, Hook!Settle
    <3> HIDE DEF seen
    <3>2. /\ procs' \in HookProcesses /\ procs'.hook = "gone"
          /\ procs'.watchdog = procs.watchdog /\ procs.watchdog \in {"none", "failed"}
      BY <2>1, <2>3, <3>1
    <3> QED
      BY <2>3, <3>1, <3>2
  <2>4. CASE procs.hook \in Hook!Ended /\ seen.watchdog \notin {"none", "failed"}
    <3>1. Hook!KillGroup(seen, "watchdog") /\ Hook!CallerLives /\ timer' = "over"
      BY <1>11, <2>4 DEF Hook!ExitsSeen, Hook!CancelWatchdog
    <3>2. platform = "posix" => "watchdog" \notin strangers /\ "hook" \notin strangers
      BY <2>4, <3>1 DEF Hook!CallerLives
    <3> HIDE DEF seen
    <3> QED
      BY <1>11, <2>1, <2>4, <3>1, <3>2, HookGroupStruck DEF Hook!ExitsSeen, Hook!Settle, Hook!CallerLives, HookStruck, Hook!AfterEnd
  <2> QED
    BY <2>2, <2>3, <2>4
<1>12. CASE Hook!PipeCloses
  BY <1>12, HookKillsOnlyEnd DEF Hook!PipeCloses, Hook!CallerLives
<1>13. CASE Hook!WatchdogFires
  <2> DEFINE woken == [procs EXCEPT !.watchdog = Hook!AfterEnd("endedOk")]
  <2>1. /\ woken \in HookProcesses /\ woken.hook = procs.hook
        /\ woken.watchdog = Hook!AfterEnd("endedOk")
    BY DEF Hook!AfterEnd
  <2>2. Hook!KillByNumber(woken, "hook") /\ procs.watchdog = "asleep"
    BY <1>13 DEF Hook!WatchdogFires
  <2> HIDE DEF woken
  <2>3. platform = "posix" /\ Hook!CallerLives => "hook" \notin strangers /\ procs.hook \notin {"none", "unborn", "gone"}
    BY <2>2 DEF Hook!CallerLives
  <2> QED
    BY <1>13, <2>1, <2>2, <2>3, HookNumberStruck DEF Hook!WatchdogFires, Hook!AfterEnd, Hook!CallerLives, HookStruck
<1>14. CASE Hook!JobStarts
  BY <1>14 DEF Hook!JobStarts
<1>15. CASE Hook!JobEnds
  BY <1>15 DEF Hook!JobEnds
<1>16. CASE Hook!HookEnds
  BY <1>16 DEF Hook!HookEnds, Hook!AfterEnd, Hook!CallerLives, Hook!Ended
<1>17. ASSUME NEW number \in Hook!Numbers, Hook!Taskkill(number) PROVE HookIInv'
  <2>1. HookStruck(procs, number) /\ victim' \in BOOLEAN
    <3>1. CASE Hook!KillByNumber(procs, number)
      BY <3>1, HookNumberStruck
    <3>2. CASE Hook!KillByHandle(procs, number)
      BY <3>2, HookKillsOnlyEnd DEF Hook!KillByHandle, HookStruck
    <3> QED
      BY <1>17, <3>1, <3>2 DEF Hook!Taskkill, HookStruck
  <2>2. platform = "win32" \/ caller = "exited"
    BY <1>17 DEF Hook!Taskkill
  <2> QED
    <3>1. /\ killers' \subseteq Hook!Numbers
          /\ UNCHANGED <<platform, caller, pipe, timer, delivered, armed, expired, strangers>>
      BY <1>17 DEF Hook!Taskkill
    <3> QED
      BY <2>1, <2>2, <3>1 DEF HookStruck, Hook!AfterEnd, Hook!CallerLives
<1>18. ASSUME NEW number \in Hook!Numbers, Hook!NumberReused(number) PROVE HookIInv'
  BY <1>18 DEF Hook!NumberReused, Hook!HasNumber
<1>19. CASE UNCHANGED Hook!vars
  BY <1>19 DEF Hook!vars
<1> QED
  BY <1>1, <1>2, <1>3, <1>4, <1>5, <1>6, <1>7, <1>8, <1>9, <1>10, <1>11, <1>12, <1>13, <1>14, <1>15, <1>16, <1>17, <1>18, <1>19 DEF Hook!Next, Hook!CallerStep

(* Nothing is cut short that the caller did not wait for.                  *)
THEOREM HookNothingCut == Hook!Spec => []Hook!ExitLosesNothing
<1>1. HookIInv => Hook!ExitLosesNothing
  BY DEF HookIInv
<1> QED
  BY <1>1, HookInitInv, HookNextInv, PTL DEF Hook!Spec

(* No number of a stranger is killed while the caller watches.             *)
THEOREM HookStrangersSpared == Hook!Spec => []Hook!NoStrangerKilled
<1>1. HookIInv => Hook!NoStrangerKilled
  BY DEF HookIInv
<1> QED
  BY <1>1, HookInitInv, HookNextInv, PTL DEF Hook!Spec

-----------------------------------------------------------------------------
(***************************************************************************)
(* Together.  A behaviour that looks at one of the four leaves the others  *)
(* where they began, so that it is a behaviour of each.                    *)
(***************************************************************************)

(* In the beginning all four are as they begin. *)
LEMMA AllBegin == InitAll => Init /\ Claims!Init /\ Tokens!Init /\ Hook!Init
  BY DEF InitAll

(* Every step is one of a component's own, or leaves the component alone. *)
LEMMA AllStep ==
    ASSUME [NextAll]_allVars
    PROVE  /\ [Next]_vars /\ [Claims!Next]_Claims!vars
           /\ [Tokens!Next]_Tokens!vars /\ [Hook!Next]_Hook!vars
<1> USE DEF allVars, lockVars, tokenVars, hookVars, Claims!vars, Tokens!vars, Hook!vars
<1>1. CASE NextClone
  BY <1>1 DEF NextClone
<1>2. CASE NextClaim
  BY <1>2 DEF NextClaim, Claims!Next
<1>3. CASE NextRecord
  BY <1>3 DEF NextRecord, Tokens!Next
<1>4. CASE NextHook
  BY <1>4 DEF NextHook
<1>5. CASE UNCHANGED allVars
  BY <1>5
<1> QED
  BY <1>1, <1>2, <1>3, <1>4, <1>5 DEF NextAll

(* What they do together, each of the four does. *)
LEMMA AllImplementsParts == SpecAll => Spec /\ Claims!Spec /\ Tokens!Spec /\ Hook!Spec
  BY AllBegin, AllStep, PTL DEF SpecAll, Spec, Claims!Spec, Tokens!Spec, Hook!Spec

(* Of the git commands that a clone lock guards one at a time runs, as the *)
(* abstract lock has it (clone-lock.mjs, withCloneLock).                   *)
THEOREM CloneCommandsExclude == SpecAll => ImplementsMutex
  BY AllImplementsParts, Implementation, PTL

(* What an acquisition told its session stays true until a takeover or the *)
(* end of the worktree undoes it (claim-lock.mjs, acquireClaimLock).       *)
THEOREM ClaimLockIsKept == SpecAll => LockIsKept
<1>1. Claims!LockIsKept => LockIsKept
  BY PTL DEF LockIsKept
<1> QED
  BY <1>1, AllImplementsParts, ClaimAcquisitionIsKept, PTL

(* The record of tokens behaves as if every call changed it in one step    *)
(* (claim-lock.mjs, recordGeneratedClaimTokens).                           *)
THEOREM RecordIsAtomic == SpecAll => ImplementsRecord
<1>1. Tokens!ImplementsRecord => ImplementsRecord
  BY PTL DEF ImplementsRecord
<1> QED
  BY <1>1, AllImplementsParts, TokenImplementation, PTL

(* --invoke does not exit over a payload or a watchdog that is on its way  *)
(* (idd-critique-telemetry-hook.mjs, invokeAndWaitForDelivery).            *)
THEOREM HookLosesNothing == SpecAll => []ExitLosesNothing
<1>1. Hook!ExitLosesNothing => ExitLosesNothing
  BY DEF ExitLosesNothing
<1> QED
  BY <1>1, AllImplementsParts, HookNothingCut, PTL

(* While the caller watches, no process is killed for having the number of *)
(* one that has ended (idd-critique-telemetry-hook.mjs, cancelWatchdog).   *)
THEOREM HookSparesStrangers == SpecAll => []NoStrangerKilled
<1>1. Hook!NoStrangerKilled => NoStrangerKilled
  BY DEF NoStrangerKilled
<1> QED
  BY <1>1, AllImplementsParts, HookStrangersSpared, PTL
=============================================================================
