------------------------------ MODULE ClaimLog ------------------------------
(***************************************************************************)
(* Who owns an issue: the claim markers in an issue's comments and how the *)
(* scripts read them (resolveActiveClaim and its callers in                *)
(* protocol-helpers.mjs, resume-claim-routing.mjs, marker-helpers.mjs).    *)
(*                                                                         *)
(* A log is the sequence of an issue's comments in the order in which      *)
(* GitHub lists them.  Their times are whole seconds and never decrease.   *)
(* Claim ids are numbers in the order of their texts, 0 is "none".         *)
(***************************************************************************)
EXTENDS Naturals, FiniteSets, SequencesExt

CONSTANTS
    StaleAge,     \* claimTiming.staleAge, in seconds of the model
    HumanGated    \* forcedHandoff.mode is "human-gated", not "disabled"

ASSUME ClaimLogAssumption == StaleAge \in Nat \ {0} /\ HumanGated \in BOOLEAN

None == 0
NoNonce == 0
NoPr == [open |-> FALSE, firstCommit |-> 0]
NoClaim == [id |-> None, sup |-> None, branch |-> 0, sec |-> 0]

(* Comments.  A heartbeat is a claim marker posted again; a comment without *)
(* a well-formed marker still takes part in the sorting.                    *)

ClaimBy(id, sup, branch, sec) ==
    [kind |-> "claim", id |-> id, sup |-> sup, branch |-> branch, sec |-> sec, trusted |-> TRUE]
ReleaseOf(id, sec) == [kind |-> "release", id |-> id, sec |-> sec, trusted |-> TRUE]
NonceOf(id, nonce, sec) ==
    [kind |-> "nonce", id |-> id, nonce |-> nonce, sec |-> sec, trusted |-> TRUE]
HandoffOf(old, new, branch, withPr, sec) ==
    [kind |-> "handoff", id |-> old, new |-> new, branch |-> branch, withPr |-> withPr,
     signed |-> TRUE, authorized |-> TRUE, sec |-> sec, trusted |-> TRUE]
Legacy(kind, sec) == [kind |-> kind, sec |-> sec, trusted |-> TRUE]
Remark(trusted, sec) == [kind |-> "remark", sec |-> sec, trusted |-> trusted]

(* Going through comments from the first to the last. *)
FromFirst(step(_, _), start, log) ==
    LET upTo[n \in 0 .. Len(log)] ==
            IF n = 0 THEN start ELSE step(upTo[n - 1], log[n])
    IN  upTo[Len(log)]

Claims(log) == {i \in DOMAIN log : log[i].kind = "claim"}
Trusted(log) ==
    FromFirst(LAMBDA kept, e : IF e.trusted THEN Append(kept, e) ELSE kept, <<>>, log)

-----------------------------------------------------------------------------
(* The order of sortClaimEvents, between a comment and one listed before   *)
(* it.  It is no order: a remark ties with two claims of its second that   *)
(* do not tie with each other.                                             *)
Precedes(later, earlier) ==
    \/ later.sec < earlier.sec
    \/ /\ later.sec = earlier.sec
       /\ later.kind = "claim" /\ earlier.kind = "claim"
       /\ later.id < earlier.id

(* Array.prototype.sort: a first run that is in order stays, and what      *)
(* follows is inserted by binary search.                                   *)
InsertionPoint(seq, e) ==
    LET Bounds == (0 .. Len(seq)) \X (0 .. Len(seq))
        f[b \in Bounds] ==
            IF b[1] >= b[2] THEN b[1]
            ELSE LET m == (b[1] + b[2]) \div 2
                 IN  IF Precedes(e, seq[m + 1]) THEN f[<<b[1], m>>] ELSE f[<<m + 1, b[2]>>]
    IN  f[<<0, Len(seq)>>] + 1

SortStep(sorted, e) ==
    IF sorted.run /\ (sorted.seq = <<>> \/ ~Precedes(e, Last(sorted.seq)))
    THEN [seq |-> Append(sorted.seq, e), run |-> TRUE]
    ELSE [seq |-> InsertAt(sorted.seq, InsertionPoint(sorted.seq, e), e), run |-> FALSE]

Sorting(log) == FromFirst(SortStep, [seq |-> <<>>, run |-> TRUE], log)
SortClaimEvents(log) == Sorting(log).seq

-----------------------------------------------------------------------------
(* Two callers: a resolution that decides on taking over is strict, the    *)
(* merge gate is lenient and knows when the pull request began.            *)
Strict(pr) == [strict |-> TRUE, prOpen |-> pr.open, firstCommit |-> 0]
Lenient(pr) == [strict |-> FALSE, prOpen |-> pr.open, firstCommit |-> pr.firstCommit]

ForcedHandoffEnabled(opt, e) ==
    /\ HumanGated
    /\ ~opt.prOpen \/ e.withPr \/ e.sec < opt.firstCommit

IsStale(active, sec) == sec >= active.sec + StaleAge

Activate(e) == [id |-> e.id, sup |-> e.sup, branch |-> e.branch, sec |-> e.sec]

(* A claim marker: a first claim, a heartbeat of the active claim on its    *)
(* own branch, or the takeover of a stale one.                              *)
ApplyClaim(active, e) ==
    CASE active = NoClaim -> IF e.sup = None THEN Activate(e) ELSE NoClaim
      [] active # NoClaim /\ e.id = active.id ->
            IF e.branch = active.branch THEN [active EXCEPT !.sec = e.sec] ELSE active
      [] active # NoClaim /\ e.id # active.id ->
            IF e.sup = active.id /\ IsStale(active, e.sec) THEN Activate(e) ELSE active

ApplyHandoff(opt, active, e) ==
    IF /\ active # NoClaim /\ e.id = active.id /\ e.branch = active.branch
       /\ ForcedHandoffEnabled(opt, e)
       /\ opt.strict => e.signed
       /\ e.authorized
    THEN [id |-> e.new, sup |-> e.id, branch |-> e.branch, sec |-> e.sec]
    ELSE active

ApplyClaimEvent(opt, active, e) ==
    CASE ~e.trusted -> active
      [] e.trusted /\ e.kind = "claim" -> ApplyClaim(active, e)
      [] e.trusted /\ e.kind = "release" ->
            IF active # NoClaim /\ e.id = active.id THEN NoClaim ELSE active
      [] e.trusted /\ e.kind = "handoff" -> ApplyHandoff(opt, active, e)
      [] OTHER -> active

ActiveAfter(opt, events) ==
    FromFirst(LAMBDA active, e : ApplyClaimEvent(opt, active, e), NoClaim, events)
ResolveActiveClaim(opt, log) == ActiveAfter(opt, SortClaimEvents(log))

-----------------------------------------------------------------------------
(* What else the routing looks at, in the trusted comments.                *)

SameSecondContenders(log, active) ==
    {log[i].id : i \in {j \in Claims(log) : log[j].sec = active.sec}} \ {active.id}

(* Only a strictly later second counts as a release. *)
IsClaimReleased(log, claim) ==
    \E i \in DOMAIN log :
        log[i].kind = "release" /\ log[i].id = claim.id /\ log[i].sec > claim.sec

OriginalSecond(log, active) ==
    LET own == {log[i].sec : i \in {j \in Claims(log) : log[j].id = active.id}}
    IN  IF own = {} THEN active.sec ELSE CHOOSE t \in own : \A u \in own : t <= u

LaterCompetingClaim(log, active) ==
    \E i \in Claims(log) :
        /\ log[i].id # active.id
        /\ log[i].sec > OriginalSecond(log, active)
        /\ ~IsClaimReleased(log, log[i])

ActivationNonces(log, id) ==
    {i \in DOMAIN log : log[i].kind = "nonce" /\ log[i].id = id}

NonceWinner(log, id) ==
    LET values == {log[i].nonce : i \in ActivationNonces(log, id)}
    IN  IF values = {} THEN NoNonce ELSE CHOOSE n \in values : \A m \in values : n <= m

(* Comments of the format before claim ids count only while there is no    *)
(* claim of the new one: the last legacy claim, unless it was released.    *)
LegacyClaims(log) == {i \in DOMAIN log : log[i].kind = "legacyClaim"}
LegacyClaim(log) ==
    LET claims == LegacyClaims(log)
        last == CHOOSE i \in claims : \A j \in claims : j <= i
    IN  IF \/ claims = {}
           \/ \E i \in DOMAIN log :
                 /\ i > last /\ log[i].kind = "legacyRelease"
                 /\ log[i].sec > log[last].sec
        THEN NoClaim
        ELSE [NoClaim EXCEPT !.sec = log[last].sec]

HasLegacyClaim(log) == Claims(log) = {} /\ LegacyClaims(log) # {}

(* MUTANT of Route: a non-owner asks for competitors before staleness.     *)
RouteCompetitorFirst(all, pr, id, nonce, now) ==
    LET log == Trusted(all)
        active == ResolveActiveClaim(Strict(pr), log)
        legacy == LegacyClaim(log)
        winner == NonceWinner(log, active.id)
    IN  CASE Claims(log) = {} /\ (LegacyClaims(log) = {} \/ legacy = NoClaim) -> "unclaimed"
          [] Claims(log) = {} /\ legacy # NoClaim ->
                IF IsStale(legacy, now) THEN "stale" ELSE "non_inheritable"
          [] Claims(log) # {} /\ active = NoClaim -> "unclaimed"
          [] Claims(log) # {} /\ active # NoClaim /\ id # None /\ id = active.id ->
                IF \/ LaterCompetingClaim(log, active)
                   \/ winner # NoNonce /\ nonce # NoNonce /\ winner # nonce
                THEN "disputed" ELSE "already_owned"
          [] OTHER ->
                IF LaterCompetingClaim(log, active) THEN "disputed"
                ELSE IF IsStale(active, now) THEN "stale" ELSE "non_inheritable"

(* MUTANT of Route: the activation nonce is not looked at. *)
RouteWithoutNonce(all, pr, id, nonce, now) ==
    LET log == Trusted(all)
        active == ResolveActiveClaim(Strict(pr), log)
    IN  CASE active = NoClaim -> "unclaimed"
          [] active # NoClaim /\ id # None /\ id = active.id ->
                IF LaterCompetingClaim(log, active) THEN "disputed" ELSE "already_owned"
          [] OTHER -> IF IsStale(active, now) THEN "stale" ELSE "non_inheritable"

(* evaluateResumeClaimRouting: what a session that claims to hold id may   *)
(* do.  An owner is disputed by any later claim; anybody else finds a      *)
(* stale claim takeable before a dispute counts.                           *)
Route(all, pr, id, nonce, now) ==
    LET log == Trusted(all)
        active == ResolveActiveClaim(Strict(pr), log)
        legacy == LegacyClaim(log)
        winner == NonceWinner(log, active.id)
        owner == active # NoClaim /\ id # None /\ id = active.id
        contested ==
            \/ LaterCompetingClaim(log, active)
            \/ nonce # NoNonce /\ winner \notin {NoNonce, nonce}
            \/ nonce = NoNonce /\ Cardinality(ActivationNonces(log, active.id)) >= 2
    IN  CASE Claims(log) = {} ->
                IF ~HasLegacyClaim(log) \/ legacy = NoClaim THEN "unclaimed"
                ELSE IF IsStale(legacy, now) THEN "stale" ELSE "non_inheritable"
          [] Claims(log) # {} /\ active = NoClaim -> "unclaimed"
          [] owner -> IF contested THEN "disputed" ELSE "already_owned"
          [] Claims(log) # {} /\ active # NoClaim /\ ~owner ->
                IF id # None /\ id \in SameSecondContenders(log, active) THEN "disputed"
                ELSE IF IsStale(active, now) THEN "stale"
                ELSE IF LaterCompetingClaim(log, active) THEN "disputed"
                ELSE "non_inheritable"

(* evaluateFreshClaimGate *)
FreshClaimGate(all, pr, now) ==
    LET state == Route(all, pr, None, NoNonce, now)
    IN  [verdict |-> CASE state = "unclaimed" -> "claimable"
                       [] state = "stale" -> "stale-reclaimable"
                       [] OTHER -> "already-claimed",
         winner |-> ResolveActiveClaim(Strict(pr), Trusted(all)).id]

(* summarizeClaimValidation: does the claim still hold at the merge?  The  *)
(* comments of strangers are sorted along and skipped afterwards.          *)
ClaimValid(all, pr, id, nonce) ==
    LET active == ResolveActiveClaim(Lenient(pr), all)
    IN  /\ active # NoClaim /\ active.id = id
        /\ nonce # NoNonce => NonceWinner(Trusted(all), id) \in {NoNonce, nonce}
=============================================================================
