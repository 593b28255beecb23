--------------------------- MODULE ClaimProtocol ---------------------------
(***************************************************************************)
(* Agent sessions that claim one issue, work on it and let go of it, with  *)
(* nothing between them but the issue's comments.  What a session decides  *)
(* is computed by the scripts (ClaimLog); when it posts, waits and reads   *)
(* again follows the claim procedure.  GitHub has no compare-and-swap:     *)
(* between a session's reading and its writing anything may be posted, and *)
(* a reading may miss comments of the current second.                      *)
(***************************************************************************)
EXTENDS ClaimLog

CONSTANTS
    Sessions,     \* agent sessions, some of them adopting a handed-off claim
    Ids,          \* Ids[s]: the claim ids session s will draw, in this order
    Nonce,        \* Nonce[s]: its activation nonce
    OldId,        \* the claim id of a session that is long gone
    HandoffId,    \* the claim id a person hands the claim over to
    Branches,     \* what sessions write as the branch of a marker
    Strangers,    \* whose remarks there are: {TRUE} trusted, {FALSE} not, {}
    MaxSec,       \* bound: the last second
    MaxLog        \* bound: comments

(* Claim ids and activation nonces are drawn at random: none comes twice.   *)
ASSUME ClaimProtocolAssumption ==
    /\ {OldId, HandoffId} \subseteq Nat \ {None} /\ OldId # HandoffId
    /\ \A s \in Sessions : Ids[s] \in Seq(Nat \ {None, OldId, HandoffId})
    /\ \A s, t \in Sessions : \A i \in DOMAIN Ids[s], j \in DOMAIN Ids[t] :
          Ids[s][i] = Ids[t][j] => s = t /\ i = j
    /\ Nonce \in [Sessions -> Nat \ {NoNonce}]
    /\ \A s, t \in Sessions : s # t => Nonce[s] # Nonce[t]

ASSUME WorldAssumption ==
    Branches \subseteq Nat /\ Strangers \subseteq BOOLEAN /\ MaxSec \in Nat /\ MaxLog \in Nat

VARIABLES
    log,       \* the issue's comments
    now,       \* the current second
    pr,        \* the pull request on the claim's branch
    plan,      \* the handoff a person has planned and not posted yet
    phase,     \* phase[s]: where the session is
    id,        \* id[s]: its claim id
    sup,       \* sup[s]: what its claim supersedes
    drawn,     \* drawn[s]: how many claim ids it has drawn
    posted,    \* posted[s]: when it posted its claim or nonce
    beat       \* beat[s]: its latest beat, late: it once came too late

vars == <<log, now, pr, plan, phase, id, sup, drawn, posted, beat>>
world == <<now, pr, plan>>
mind == <<id, sup, drawn, posted, beat>>

Phases == {"idle", "posting", "posted", "adopting", "adopted", "owner", "validated",
           "withdrawing", "lost", "done", "gone"}
NoPlan == [id |-> None, branch |-> 0, withPr |-> FALSE]

(* Issues nobody ever claimed, with claims of the format before claim ids, *)
(* and with one whose session is gone.                                     *)
OldLogs ==
    {<<>>, <<Legacy("legacyClaim", 0)>>,
     <<Legacy("legacyClaim", 0), Legacy("legacyRelease", 1)>>,
     <<ClaimBy(OldId, None, 1, 0)>>}

Init ==
    /\ log \in OldLogs
    /\ now = IF Len(log) = 2 THEN 1 ELSE 0
    /\ pr = NoPr
    /\ plan = NoPlan
    /\ phase = [s \in Sessions |-> "idle"]
    /\ id = [s \in Sessions |-> None]
    /\ sup = [s \in Sessions |-> None]
    /\ drawn = [s \in Sessions |-> 0]
    /\ posted = [s \in Sessions |-> 0]
    /\ beat = [s \in Sessions |-> [last |-> 0, late |-> FALSE]]

Goto(s, next) == phase' = [phase EXCEPT ![s] = next]

ActiveIn(comments) == ResolveActiveClaim(Strict(pr), Trusted(comments))
Active == ActiveIn(log)

(* What a session may read: everything but some comments of this second. *)
Views == {SubSeq(log, 1, n) : n \in {m \in 0 .. Len(log) :
             \A i \in DOMAIN log : log[i].sec < now => i <= m}}

Post(comment) ==
    /\ Len(log) < MaxLog
    /\ log' = Append(log, comment)

-----------------------------------------------------------------------------
(* The fresh-claim gate: on "claimable" and "stale-reclaimable" a session  *)
(* draws a claim id and goes on to write its claim.                        *)
ReadGate(s) ==
    /\ phase[s] = "idle"
    /\ drawn[s] < Len(Ids[s])
    /\ \E view \in Views :
          LET gate == FreshClaimGate(view, pr, now)
          IN  /\ gate.verdict # "already-claimed"
              /\ sup' = [sup EXCEPT ![s] =
                            IF gate.verdict = "claimable" THEN None ELSE gate.winner]
    /\ drawn' = [drawn EXCEPT ![s] = @ + 1]
    /\ id' = [id EXCEPT ![s] = Ids[s][drawn'[s]]]
    /\ Goto(s, "posting")
    /\ UNCHANGED <<log, now, pr, plan, posted, beat>>

PostClaim(s) ==
    /\ phase[s] = "posting"
    /\ Post(ClaimBy(id[s], sup[s], 1, now))
    /\ posted' = [posted EXCEPT ![s] = now]
    /\ beat' = [beat EXCEPT ![s] = [last |-> now, late |-> FALSE]]
    /\ Goto(s, "posted")
    /\ UNCHANGED <<world, id, sup, drawn>>

(* MUTANT of Verify: the settle delay is shorter than a second. *)
VerifyUnsettled(s) ==
    /\ phase[s] = "posted"
    /\ \E view \in Views :
          Goto(s, IF Route(view, pr, id[s], NoNonce, now) = "already_owned" THEN "owner" ELSE "lost")
    /\ UNCHANGED <<log, world, mind>>

(* After claim.verifySettleDelay the comments are read again.  Whoever     *)
(* holds the active claim and is only contested by a later one withdraws.  *)
Verify(s) ==
    /\ phase[s] = "posted"
    /\ now > posted[s]
    /\ \E view \in Views :
          Goto(s, CASE Route(view, pr, id[s], NoNonce, now) = "already_owned" -> "owner"
                    [] /\ Route(view, pr, id[s], NoNonce, now) = "disputed"
                       /\ ActiveIn(view).id = id[s] -> "withdrawing"
                    [] OTHER -> "lost")
    /\ UNCHANGED <<log, world, mind>>

(* A withdrawing session must release; a loser may.  Either may try again. *)
Release(s) ==
    /\ phase[s] \in {"withdrawing", "lost"}
    /\ Post(ReleaseOf(id[s], now))
    /\ Goto(s, "idle")
    /\ UNCHANGED <<world, mind>>

WalkAway(s) ==
    /\ phase[s] = "lost"
    /\ Goto(s, "idle")
    /\ UNCHANGED <<log, world, mind>>

-----------------------------------------------------------------------------
(* The revalidation gate before every mutation. *)
Revalidate(s) ==
    /\ phase[s] = "owner"
    /\ \E view \in Views :
          Goto(s, IF Route(view, pr, id[s], Nonce[s], now) = "already_owned"
                  THEN "validated" ELSE "lost")
    /\ UNCHANGED <<log, world, mind>>

(* Some time later: a heartbeat, ... *)
Heartbeat(s) ==
    /\ phase[s] = "validated"
    /\ \E branch \in Branches :
          /\ Post(ClaimBy(id[s], sup[s], branch, now))
          /\ beat' = [beat EXCEPT ![s] =
                IF branch # 1 THEN @
                ELSE [last |-> now, late |-> @.late \/ now >= @.last + StaleAge]]
    /\ Goto(s, "owner")
    /\ UNCHANGED <<world, id, sup, drawn, posted>>

(* ... the pull request, ... *)
OpenPr(s) ==
    /\ phase[s] = "validated"
    /\ ~pr.open
    /\ pr' = [open |-> TRUE, firstCommit |-> now]
    /\ Goto(s, "owner")
    /\ UNCHANGED <<log, now, plan, mind>>

(* ... or the merge, whose gate reads again, and the release of the claim. *)
Finish(s) ==
    /\ phase[s] = "validated"
    /\ \E view \in Views : ClaimValid(view, pr, id[s], Nonce[s])
    /\ Post(ReleaseOf(id[s], now))
    /\ Goto(s, "done")
    /\ UNCHANGED <<world, mind>>

Crash(s) ==
    /\ phase[s] \notin {"done", "gone"}
    /\ Goto(s, "gone")
    /\ UNCHANGED <<log, world, mind>>

-----------------------------------------------------------------------------
(* A person plans a handoff of the active claim, looks at it and posts it. *)
PlanHandoff ==
    /\ HumanGated /\ plan = NoPlan
    /\ \A i \in DOMAIN log : log[i].kind # "handoff"
    /\ \E view \in Views :
          LET active == ResolveActiveClaim(Lenient(NoPr), view)
          IN  /\ active # NoClaim
              /\ plan' = [id |-> active.id, branch |-> active.branch, withPr |-> pr.open]
    /\ UNCHANGED <<log, now, pr, phase, mind>>

PostHandoff ==
    /\ plan # NoPlan
    /\ Post(HandoffOf(plan.id, HandoffId, plan.branch, plan.withPr, now))
    /\ plan' = NoPlan
    /\ UNCHANGED <<now, pr, phase, mind>>

(* Sessions adopt the successor claim as it is; none of them knows of the  *)
(* others.  The nonce is posted, and read again after the settle delay.    *)
Adopt(s) ==
    /\ phase[s] = "idle" /\ id[s] = None
    /\ \E view \in Views :
          LET active == ActiveIn(view)
          IN  /\ active.id = HandoffId
              /\ sup' = [sup EXCEPT ![s] = active.sup]
              /\ beat' = [beat EXCEPT ![s] = [last |-> active.sec, late |-> FALSE]]
    /\ id' = [id EXCEPT ![s] = HandoffId]
    /\ Goto(s, "adopting")
    /\ UNCHANGED <<log, world, drawn, posted>>

PostNonce(s) ==
    /\ phase[s] = "adopting"
    /\ Post(NonceOf(id[s], Nonce[s], now))
    /\ posted' = [posted EXCEPT ![s] = now]
    /\ Goto(s, "adopted")
    /\ UNCHANGED <<world, id, sup, drawn, beat>>

VerifyNonce(s) ==
    /\ phase[s] = "adopted"
    /\ now > posted[s]
    /\ \E view \in Views :
          Goto(s, IF /\ ActiveIn(view).id = id[s]
                     /\ NonceWinner(Trusted(view), id[s]) = Nonce[s]
                  THEN "owner" ELSE "lost")
    /\ UNCHANGED <<log, world, mind>>

-----------------------------------------------------------------------------
Comment ==
    /\ \E trusted \in Strangers : Post(Remark(trusted, now))
    /\ \A i \in DOMAIN log : log[i].kind # "remark"
    /\ UNCHANGED <<world, phase, mind>>

Tick ==
    /\ now < MaxSec
    /\ now' = now + 1
    /\ UNCHANGED <<log, pr, plan, phase, mind>>

Session(s) ==
    \/ ReadGate(s) \/ PostClaim(s) \/ Verify(s) \/ Release(s) \/ WalkAway(s)
    \/ Revalidate(s) \/ Heartbeat(s) \/ OpenPr(s) \/ Finish(s)
    \/ Adopt(s) \/ PostNonce(s) \/ VerifyNonce(s)

Next ==
    \/ \E s \in Sessions : Session(s) \/ Crash(s)
    \/ PlanHandoff \/ PostHandoff \/ Comment \/ Tick

Spec == Init /\ [][Next]_vars

-----------------------------------------------------------------------------
Owners == {s \in Sessions : phase[s] \in {"owner", "validated"}}

HandedOver == \E i \in DOMAIN log : log[i].kind = "handoff"

(* Sessions that verified a claim of their own and have sent every         *)
(* heartbeat before the claim was stale, on an issue nobody handed over.   *)
TimelyOwners ==
    {s \in Owners :
        /\ ~beat[s].late /\ now < beat[s].last + StaleAge
        /\ ~HandedOver}

(* A timely owner keeps the active claim, whatever the others read, post   *)
(* and miss; only a person's handoff takes it away.                        *)
TimelyOwnerIsActive == \A s \in TimelyOwners : Active.id = id[s]

(* Among timely owners the comments of an issue implement a mutex. *)
M == INSTANCE Mutex WITH Procs <- Sessions, inside <- TimelyOwners
ImplementsMutex == M!Spec

(* Of the sessions that hold a claim, adopted ones of the same id among    *)
(* them, the gate before a mutation lets one pass.                         *)
GateIsExclusive ==
    \A s, t \in Owners :
        /\ Route(log, pr, id[s], Nonce[s], now) = "already_owned"
        /\ Route(log, pr, id[t], Nonce[t], now) = "already_owned"
        => s = t

(* An issue that is withheld from new sessions has a claim that was        *)
(* refreshed, on its own branch, less than StaleAge ago: no dispute, race, *)
(* displaced claim or stray heartbeat keeps it from being taken over.      *)
NeverWithheldForGood ==
    FreshClaimGate(log, pr, now).verdict = "already-claimed" =>
        \E i \in DOMAIN log :
            /\ log[i].kind \in {"claim", "handoff", "legacyClaim"}
            /\ log[i].kind = "claim" => log[i].branch = Active.branch
            /\ now < log[i].sec + StaleAge

(* Without handoffs the merge gate sees the active claim of the routing. *)
ResolversAgree ==
    (\A i \in DOMAIN log : log[i].kind # "handoff") =>
        ResolveActiveClaim(Lenient(pr), log).id = Active.id

=============================================================================
