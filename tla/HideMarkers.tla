------------------------------ MODULE HideMarkers ------------------------------
(***************************************************************************)
(* Comments that carry markers, posted and hidden (post-idd-marker.mjs,    *)
(* minimize-superseded-markers.mjs, sweep-authoring-markers.mjs).  A       *)
(* session posts a marker of a pull request, up to three times if the      *)
(* request fails, and then hides those that it supersedes, as long as its  *)
(* time lasts; another sweeps the authoring markers of some issues.  Every *)
(* call to GitHub is a step; pushes and other sessions come in between.    *)
(*                                                                         *)
(* head is the head of the pull request; comments are all comments in the  *)
(* order they were posted, their place being their id.                     *)
(***************************************************************************)
EXTENDS Naturals, Sequences, FiniteSets, SequencesExt

CONSTANTS Sessions, Trusted, MaxHeads

VARIABLES head, comments, failing, ask, session
vars == <<head, comments, failing, ask, session>>

PostAttempts == 3
AuthoringFamilies == {"authoring-owner", "authoring-publication-intent"}

Starting == [phase |-> "start", head |-> 0, attempt |-> 1, posted |-> 0, stale |-> FALSE, blind |-> FALSE,
             issues |-> <<>>, todo |-> <<>>]

-----------------------------------------------------------------------------
(* What a new marker supersedes.                                           *)

\* MUTANT of Superseded: also what came after the own marker.
SupersededAnywhere(all, s) ==
  {i \in DOMAIN all :
     /\ all[i].on = "pr" /\ all[i].type = ask[s].type
     /\ IF ask[s].type = "review-ack" THEN all[i].head # session[s].head
        ELSE all[i].claim = ask[s].claim /\ all[i].attempt < ask[s].attempt}

\* Only what came before the own marker; an acknowledgement of another head, or a lower
\* attempt of the same claim.
Superseded(all, s) ==
  {i \in 1..(session[s].posted - 1) :
     /\ all[i].on = "pr" /\ all[i].type = ask[s].type
     /\ IF ask[s].type = "review-ack" THEN all[i].head # session[s].head
        ELSE all[i].claim = ask[s].claim /\ all[i].attempt < ask[s].attempt}

\* A session that is behind the head hides its own marker.
Subjects(all, s) ==
  IF all[session[s].posted].author \notin Trusted THEN {}
  ELSE IF session[s].stale THEN {session[s].posted}
  ELSE Superseded(all, s)

\* classifyAuthoringMarkerFamily: all of a family that are trusted, but the newest.
Eligible(all, issue) ==
  UNION {LET mine == {i \in DOMAIN all : all[i].on = issue /\ all[i].type = family /\ all[i].author \in Trusted}
         IN  {i \in mine : ~ all[i].hidden /\ \E j \in mine : j > i} : family \in AuthoringFamilies}

-----------------------------------------------------------------------------
Ended(s) == session' = [session EXCEPT ![s].phase = "done", ![s].todo = <<>>]
Fails == failing > 0 /\ failing' = failing - 1
Silently == UNCHANGED <<head, comments, ask>>

InOrder(subjects) ==
  [n \in 1..Cardinality(subjects) |->
     CHOOSE i \in subjects : Cardinality({j \in subjects : j < i}) = n - 1]

Push ==
  /\ head < MaxHeads /\ \E s \in Sessions : session[s].phase # "done"
  /\ head' = head + 1
  /\ UNCHANGED <<comments, failing, ask, session>>

\* A sweep starts with its issues, a poster with the head it was given or reads.
Start(s) ==
  /\ session[s].phase = "start"
  /\ session' = IF ask[s].type = "sweep"
                THEN [session EXCEPT ![s].phase = "fetch", ![s].issues = ask[s].issues]
                ELSE [session EXCEPT ![s].phase = "post",
                                     ![s].head = IF ask[s].head # 0 THEN ask[s].head ELSE head]
  /\ UNCHANGED failing /\ Silently

\* Without a head to be read there is no marker.
StartFails(s) ==
  /\ session[s].phase = "start" /\ ask[s].type # "sweep" /\ ask[s].head = 0 /\ Fails
  /\ Ended(s) /\ Silently

Comment(s) ==
  [on |-> "pr", type |-> ask[s].type, author |-> ask[s].author, by |-> s, head |-> session[s].head,
   claim |-> ask[s].claim, attempt |-> ask[s].attempt, hidden |-> FALSE]

\* postWorkItemCommentWithRetry.
PostMarker(s) ==
  /\ session[s].phase = "post"
  /\ comments' = Append(comments, Comment(s))
  /\ session' = [session EXCEPT ![s].phase = "live", ![s].posted = Len(comments) + 1]
  /\ UNCHANGED <<head, failing, ask>>

\* MUTANT of LosePost: the next attempt does not look for what the last one left.
LosePostAndRepeat(s) ==
  /\ session[s].phase = "post" /\ Fails
  /\ comments' = Append(comments, Comment(s)) \/ UNCHANGED comments
  /\ \/ session[s].attempt = PostAttempts /\ Ended(s)
     \/ /\ session[s].attempt # PostAttempts
        /\ session' = [session EXCEPT ![s].phase = "post", ![s].attempt = @ + 1]
  /\ UNCHANGED <<head, ask>>

\* The request failed, whether or not it was carried out.
LosePost(s) ==
  /\ session[s].phase = "post" /\ Fails
  /\ comments' = Append(comments, Comment(s)) \/ UNCHANGED comments
  /\ \/ session[s].attempt = PostAttempts /\ Ended(s)
     \/ /\ session[s].attempt # PostAttempts
        /\ session' = [session EXCEPT ![s].phase = "find", ![s].attempt = @ + 1]
  /\ UNCHANGED <<head, ask>>

\* It was carried out, but the answer cannot be used: no further attempt.
MalformedAnswer(s) ==
  /\ session[s].phase = "post" /\ Fails
  /\ comments' = Append(comments, Comment(s))
  /\ Ended(s)
  /\ UNCHANGED <<head, ask>>

\* findRecentExactBodyMatch: a body is told apart by its session and its time.
FindPosted(s) ==
  /\ session[s].phase = "find"
  /\ LET mine == {i \in DOMAIN comments : comments[i].by = s}
     IN  session' = IF mine = {} THEN [session EXCEPT ![s].phase = "post"]
                    ELSE [session EXCEPT ![s].phase = "live", ![s].posted = Max(mine)]
  /\ UNCHANGED failing /\ Silently

FindFails(s) ==
  /\ session[s].phase = "find" /\ Fails
  /\ session' = [session EXCEPT ![s].phase = "post", ![s].blind = TRUE]
  /\ Silently

\* hideSupersededPostTimeMarkers: the head as it is now, then the comments.
CheckLiveHead(s) ==
  /\ session[s].phase = "live"
  /\ session' = [session EXCEPT ![s].phase = "list", ![s].stale = (head # session[s].head)]
  /\ UNCHANGED failing /\ Silently

ListComments(s) ==
  /\ session[s].phase = "list"
  /\ session' = [session EXCEPT ![s].phase = "hide", ![s].todo = InOrder(Subjects(comments, s))]
  /\ UNCHANGED failing /\ Silently

\* fetchIssueCommentsGraphql of the next issue; one that cannot be had is left out.
FetchIssue(s) ==
  /\ session[s].phase = "fetch" /\ session[s].issues # <<>>
  /\ session' = [session EXCEPT ![s].issues = Tail(@),
                                ![s].todo = @ \o InOrder(Eligible(comments, session[s].issues[1]))]
  /\ UNCHANGED failing /\ Silently

FetchFails(s) ==
  /\ session[s].phase = "fetch" /\ session[s].issues # <<>> /\ Fails
  /\ session' = [session EXCEPT ![s].issues = Tail(@)]
  /\ Silently

Fetched(s) ==
  /\ session[s].phase = "fetch" /\ session[s].issues = <<>>
  /\ session' = [session EXCEPT ![s].phase = "hide"]
  /\ UNCHANGED failing /\ Silently

\* runMinimize, of one subject after the other: probeSubject, then applyMinimize.
NextSubject(s) == session' = [session EXCEPT ![s].phase = "hide", ![s].todo = Tail(@)]

Probe(s) ==
  /\ session[s].phase = "hide" /\ session[s].todo # <<>>
  /\ LET subject == comments[session[s].todo[1]]
     IN  IF subject.hidden \/ subject.author \notin Trusted THEN NextSubject(s)
         ELSE session' = [session EXCEPT ![s].phase = "minimize"]
  /\ UNCHANGED failing /\ Silently

ProbeFails(s) ==
  /\ session[s].phase = "hide" /\ session[s].todo # <<>> /\ Fails
  /\ NextSubject(s) /\ Silently

Minimize(s) ==
  /\ session[s].phase = "minimize"
  /\ comments' = [comments EXCEPT ![session[s].todo[1]].hidden = TRUE]
  /\ NextSubject(s)
  /\ UNCHANGED <<head, failing, ask>>

\* One that failed does not keep the next from being tried.
MinimizeFails(s) ==
  /\ session[s].phase = "minimize" /\ Fails
  /\ comments' = [comments EXCEPT ![session[s].todo[1]].hidden = TRUE] \/ UNCHANGED comments
  /\ NextSubject(s)
  /\ UNCHANGED <<head, ask>>

\* Nothing is left, or the time is over; a failure ends a poster's hiding silently.
Finish(s) ==
  /\ session[s].phase \in {"live", "list", "hide", "minimize"}
  /\ Ended(s)
  /\ UNCHANGED failing /\ Silently

SessionStep(s) ==
  \/ Start(s) \/ StartFails(s)
  \/ PostMarker(s) \/ LosePost(s) \/ MalformedAnswer(s) \/ FindPosted(s) \/ FindFails(s)
  \/ CheckLiveHead(s) \/ ListComments(s)
  \/ FetchIssue(s) \/ FetchFails(s) \/ Fetched(s)
  \/ Probe(s) \/ ProbeFails(s) \/ Minimize(s) \/ MinimizeFails(s)
  \/ Finish(s)

\* What was posted and hidden before is not looked into; what a session is asked for is one
\* of three kinds, and a head that it is given is one that there was.
Given ==
  /\ head \in Nat /\ comments \in Seq(Range(comments)) /\ DOMAIN ask = Sessions
  /\ \A c \in Range(comments) :
       /\ DOMAIN c = {"on", "type", "author", "by", "head", "claim", "attempt", "hidden"}
       /\ c.by \notin Sessions /\ c.head \in 0..head /\ c.attempt \in Nat /\ ~ c.hidden
  /\ \A s \in Sessions :
       /\ ask[s].type \in {"review-ack", "copilot-unavailable", "sweep"}
       /\ ask[s].head \in 0..head /\ ask[s].attempt \in Nat

Init == head = 1 /\ session = [s \in Sessions |-> Starting] /\ Given

Next == Push \/ \E s \in Sessions : SessionStep(s)

Spec == Init /\ [][Next]_vars

-----------------------------------------------------------------------------
StillMeant(i, j) ==
  /\ comments[j].on = comments[i].on /\ comments[j].type = comments[i].type
  /\ comments[j].author \in Trusted /\ ~ comments[j].hidden

\* Whatever is hidden was superseded and still is: an acknowledgement only of a past head, a
\* report that the reviewer is unavailable only of a past head or behind a visible one of the
\* same claim that is further on, an authoring marker only behind a newer visible one; and
\* nothing that is not trusted (hideSupersededPostTimeMarkers, runAuthoringMarkerSweep).
CurrentMarkersStayVisible ==
  \A i \in DOMAIN comments : comments[i].hidden =>
    /\ comments[i].author \in Trusted
    /\ CASE comments[i].type = "review-ack" -> comments[i].head < head
         [] comments[i].type = "copilot-unavailable" ->
              \/ comments[i].head < head
              \/ \E j \in DOMAIN comments : /\ StillMeant(i, j) /\ comments[j].claim = comments[i].claim
                                            /\ comments[j].attempt > comments[i].attempt
         [] OTHER -> \E j \in DOMAIN comments : j > i /\ StillMeant(i, j)

\* However often the request fails, a marker is posted once, unless the look for what an
\* attempt had left failed as well (postWorkItemCommentWithRetry).
PostedOnce ==
  \A s \in Sessions : Cardinality({i \in DOMAIN comments : comments[i].by = s}) > 1 => session[s].blind
=============================================================================
