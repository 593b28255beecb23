--------------------------- MODULE DeployPipeline ---------------------------
(***************************************************************************)
(* The production deployment of the website: the GitHub Actions workflow   *)
(* .github/workflows/push-main.yml together with the two programs it runs, *)
(* the change detector (packages/fetcher/src/binDetectChange.mts) and the  *)
(* calendar fetcher of the build (packages/fetcher/src/bin.mts).           *)
(*                                                                         *)
(* Runs of the workflow are queued and run one at a time.  A scheduled run *)
(* first decides whether the calendar changed since the last publication   *)
(* and skips the deployment when it did not; every other run deploys.  The *)
(* calendars are edited, midnight passes and commits are pushed at any     *)
(* time, also between two calendar reads of the same fetch.                *)
(*                                                                         *)
(* The JSON text of a fetch is determined by the first day of the week it  *)
(* shows and by what each calendar said when it was read.  A calendar is   *)
(* modelled by the number of edits it received; Text maps that number to   *)
(* what the edit left in it, so that an edit may restore an older text.    *)
(***************************************************************************)
EXTENDS Naturals, Sequences

CONSTANTS
    NumTypes,    \* how many calendars there are (eventTypes lists three)
    Text(_, _),  \* Text(t, v): what calendar t says after its v-th edit
    MaxEdits,    \* bound: edits of one calendar
    MaxDay,      \* bound: midnights
    MaxPushes,   \* bound: commits pushed to main
    MaxQueue     \* bound: runs waiting in the concurrency group

ASSUME NumTypesAssumption == NumTypes \in Nat \ {0}

Types == 1 .. NumTypes
Events == {"push", "schedule", "workflow_dispatch"}

(***************************************************************************)
(* Where the running workflow run is, "idle" when none runs.  The first    *)
(* three phases are the detect-changes job, "gate" is the condition of the *)
(* deploy job, the last four are the deploy job.                           *)
(***************************************************************************)
DetectPhases == {"detectSetup", "detectFetch", "detectLive"}
DeployPhases == {"deploySetup", "prebuildFetch", "build", "publish"}
Phases == {"idle", "gate"} \cup DetectPhases \cup DeployPhases

(***************************************************************************)
(* What needs.detect-changes tells the deploy job: the job's result when   *)
(* it is not "success", otherwise its output `changed`.                    *)
(***************************************************************************)
Verdicts == {"skipped", "failure", "true", "false"}

VARIABLES
    head,     \* the newest commit of the main branch
    today,    \* the current day, in JST
    edits,    \* edits[t]: how many edits calendar t has received
    queue,    \* the runs waiting for the concurrency group
    run,      \* the event and the commit of the run in progress
    phase,    \* where that run is
    fetch,    \* what its current fetch has read so far
    verdict,  \* what its detect-changes job said
    live      \* the published site

envVars == <<head, today, edits>>
vars == <<head, today, edits, queue, run, phase, fetch, verdict, live>>

RunType == [event : Events, sha : Nat]
Versions == [Types -> Nat]

(***************************************************************************)
(* day: the first day of the week being fetched; seen[t]: the edit of      *)
(* calendar t that was read; done: the calendars read so far, which are    *)
(* read in the order of eventTypes.                                        *)
(***************************************************************************)
FetchType == [day : Nat, seen : Versions, done : 0 .. NumTypes]
SiteType == [sha : Nat, day : Nat, seen : Versions]

TypeOK ==
    /\ head \in Nat
    /\ today \in Nat
    /\ edits \in Versions
    /\ queue \in Seq(RunType)
    /\ run \in RunType
    /\ phase \in Phases
    /\ fetch \in FetchType
    /\ verdict \in Verdicts
    /\ live \in SiteType

NothingSeen == [t \in Types |-> 0]

(* MUTANT of NewFetch: the week begins one day ahead. *)
NewFetchTomorrow == [day |-> today + 1, seen |-> NothingSeen, done |-> 0]

NewFetch == [day |-> today, seen |-> NothingSeen, done |-> 0]

(* The text two fetches are compared by, after normalize. *)
DataText(data) == [day |-> data.day, says |-> [t \in Types |-> Text(t, data.seen[t])]]
CalendarText == DataText([day |-> today, seen |-> edits])

(* The run of the push of a commit. *)
PushOf(c) == [event |-> "push", sha |-> c]

(* The site starts as published from the first commit; no run is waiting. *)
Init ==
    /\ head = 0
    /\ today = 0
    /\ edits = NothingSeen
    /\ queue = <<>>
    /\ run = [event |-> "push", sha |-> 0]
    /\ phase = "idle"
    /\ fetch = NewFetch
    /\ verdict = "skipped"
    /\ live = [sha |-> 0, day |-> 0, seen |-> NothingSeen]

-----------------------------------------------------------------------------
(* The world around the workflow, and the events that trigger it. *)

EditCalendar(t) ==
    /\ edits[t] < MaxEdits
    /\ edits' = [edits EXCEPT ![t] = @ + 1]
    /\ UNCHANGED <<head, today, queue, run, phase, fetch, verdict, live>>

Midnight ==
    /\ today < MaxDay
    /\ today' = today + 1
    /\ UNCHANGED <<head, edits, queue, run, phase, fetch, verdict, live>>

Enqueue(event, sha) ==
    /\ Len(queue) < MaxQueue
    /\ queue' = Append(queue, [event |-> event, sha |-> sha])

Push ==
    /\ head < MaxPushes
    /\ head' = head + 1
    /\ Enqueue("push", head + 1)
    /\ UNCHANGED <<today, edits, run, phase, fetch, verdict, live>>

CronFires ==
    /\ Enqueue("schedule", head)
    /\ UNCHANGED <<envVars, run, phase, fetch, verdict, live>>

Dispatch ==
    /\ Enqueue("workflow_dispatch", head)
    /\ UNCHANGED <<envVars, run, phase, fetch, verdict, live>>

-----------------------------------------------------------------------------
(* The detect-changes job. *)

(* The concurrency group admits the next run once none is in progress. *)
StartRun ==
    /\ phase = "idle"
    /\ queue # <<>>
    /\ run' = Head(queue)
    /\ queue' = Tail(queue)
    /\ phase' = IF run'.event = "schedule" THEN "detectSetup" ELSE "gate"
    /\ verdict' = "skipped"
    /\ UNCHANGED <<envVars, fetch, live>>

(* Checkout, install and build of the fetcher; then the detector starts *)
(* and takes the week that begins today.                                *)
DetectSetup ==
    /\ phase = "detectSetup"
    /\ phase' = "detectFetch"
    /\ fetch' = NewFetch
    /\ UNCHANGED <<envVars, queue, run, verdict, live>>

(* Any step of the job may fail, the runner included. *)
DetectJobFails ==
    /\ phase \in DetectPhases
    /\ phase' = "gate"
    /\ verdict' = "failure"
    /\ UNCHANGED <<envVars, queue, run, fetch, live>>

(* MUTANT of AfterRequest: the last calendar is never requested. *)
AfterRequestTooEarly(t) ==
    IF t + 1 < NumTypes THEN phase
    ELSE IF phase = "detectFetch" THEN "detectLive" ELSE "build"

(* The fetch is over when the last calendar has answered. *)
AfterRequest(t) ==
    IF t < NumTypes THEN phase
    ELSE IF phase = "detectFetch" THEN "detectLive" ELSE "build"

(* One events.list request, of the next calendar in the order of eventTypes. *)
FetchCalendar ==
    /\ phase \in {"detectFetch", "prebuildFetch"}
    /\ LET t == fetch.done + 1
       IN  /\ fetch' = [fetch EXCEPT !.seen[t] = edits[t], !.done = t]
           /\ phase' = AfterRequest(t)
    /\ UNCHANGED <<envVars, queue, run, verdict, live>>

(* The detector fails open: a failed calendar request means "changed". *)
DetectFetchFails ==
    /\ phase = "detectFetch"
    /\ phase' = "gate"
    /\ verdict' = "true"
    /\ UNCHANGED <<envVars, queue, run, fetch, live>>

(* MUTANT of IsChanged: the dates of the week are not compared. *)
IsChangedIgnoresWeek(fresh, published) ==
    DataText(fresh).says # DataText(published).says

IsChanged(fresh, published) == DataText(fresh) # DataText(published)

CompareLive ==
    /\ phase = "detectLive"
    /\ phase' = "gate"
    /\ verdict' = IF IsChanged(fetch, live) THEN "true" ELSE "false"
    /\ UNCHANGED <<envVars, queue, run, fetch, live>>

(* data.json could not be read: `undefined`, which counts as changed. *)
LiveUnreadable ==
    /\ phase = "detectLive"
    /\ phase' = "gate"
    /\ verdict' = "true"
    /\ UNCHANGED <<envVars, queue, run, fetch, live>>

-----------------------------------------------------------------------------
(* The deploy job. *)

(* MUTANT of DeployWanted: a detector that failed counts as "unchanged". *)
DeployWantedOnlyIfChanged == run.event # "schedule" \/ verdict = "true"

(* The condition of the deploy job, unless the run was cancelled. *)
DeployWanted ==
    \/ run.event # "schedule"
    \/ verdict \in {"skipped", "failure"}
    \/ verdict = "true"

StartDeploy ==
    /\ phase = "gate"
    /\ DeployWanted
    /\ phase' = "deploySetup"
    /\ UNCHANGED <<envVars, queue, run, fetch, verdict, live>>

SkipDeploy ==
    /\ phase = "gate"
    /\ ~DeployWanted
    /\ phase' = "idle"
    /\ UNCHANGED <<envVars, queue, run, fetch, verdict, live>>

(* Checkout, install, build of lib and fetcher; then prebuild:fetcher starts. *)
DeploySetup ==
    /\ phase = "deploySetup"
    /\ phase' = "prebuildFetch"
    /\ fetch' = NewFetch
    /\ UNCHANGED <<envVars, queue, run, verdict, live>>

(* vinxi build and postbuild: the pages and dist/data.json come from the *)
(* one src/data.json that the prebuild wrote.                            *)
BuildSite ==
    /\ phase = "build"
    /\ phase' = "publish"
    /\ UNCHANGED <<envVars, queue, run, fetch, verdict, live>>

Publish ==
    /\ phase = "publish"
    /\ phase' = "idle"
    /\ live' = [sha |-> run.sha, day |-> fetch.day, seen |-> fetch.seen]
    /\ UNCHANGED <<envVars, queue, run, fetch, verdict>>

(* A failing step ends the job and the run; nothing was published. *)
DeployJobFails ==
    /\ phase \in DeployPhases
    /\ phase' = "idle"
    /\ UNCHANGED <<envVars, queue, run, fetch, verdict, live>>

(* A person cancels the run in progress: !cancelled() holds the deploy back. *)
CancelRun ==
    /\ phase # "idle"
    /\ phase' = "idle"
    /\ UNCHANGED <<envVars, queue, run, fetch, verdict, live>>

-----------------------------------------------------------------------------
World == Midnight \/ \E t \in Types : EditCalendar(t)
Trigger == Push \/ CronFires \/ Dispatch
DetectJob ==
    \/ DetectSetup \/ DetectJobFails \/ FetchCalendar \/ DetectFetchFails
    \/ CompareLive \/ LiveUnreadable
DeployJob ==
    \/ StartDeploy \/ SkipDeploy \/ DeploySetup \/ BuildSite \/ Publish
    \/ DeployJobFails

Next == World \/ Trigger \/ StartRun \/ DetectJob \/ DeployJob \/ CancelRun

Spec == Init /\ [][Next]_vars

(***************************************************************************)
(* Fairness.  Days pass, GitHub keeps firing the cron trigger, admits the  *)
(* waiting runs and works on the run it admitted.  Failures (of a runner,  *)
(* the Google API, the live site or Netlify) and cancellations by hand are *)
(* never ruled out, but no step of the workflow fails or is cancelled      *)
(* every time a run comes to it: strong fairness of each of them.          *)
(***************************************************************************)
RunStep == DetectJob \/ DeployJob

FetchNext(t) == FetchCalendar /\ fetch.done + 1 = t

StepsSucceedEventually ==
    /\ SF_vars(DetectSetup)
    /\ \A t \in Types : /\ SF_vars(phase = "detectFetch" /\ FetchNext(t))
                        /\ SF_vars(phase = "prebuildFetch" /\ FetchNext(t))
    /\ SF_vars(CompareLive)
    /\ SF_vars(StartDeploy)
    /\ SF_vars(DeploySetup)
    /\ SF_vars(BuildSite)
    /\ SF_vars(Publish)

Fairness ==
    /\ WF_vars(Midnight)
    /\ SF_vars(CronFires)
    /\ WF_vars(StartRun)
    /\ WF_vars(RunStep)
    /\ StepsSucceedEventually

FairSpec == Spec /\ Fairness

-----------------------------------------------------------------------------
(***************************************************************************)
(* The commits wait and are deployed in the order they were pushed: a run  *)
(* in the queue never carries an older commit than a run before it, than   *)
(* the run in progress, or than the site (concurrency, queue: max).        *)
(***************************************************************************)
CommitOrder ==
    /\ live.sha <= run.sha
    /\ run.sha <= head
    /\ \A i \in 1 .. Len(queue) : run.sha <= queue[i].sha /\ queue[i].sha <= head
    /\ \A i, j \in 1 .. Len(queue) : i <= j => queue[i].sha <= queue[j].sha

(***************************************************************************)
(* What a fetch has read is never older than what the site shows, calendar *)
(* by calendar, although the calendars are edited and midnight passes      *)
(* between its requests: only one run is between its fetch and its         *)
(* publication at a time.                                                  *)
(***************************************************************************)
FetchOrder ==
    /\ live.day <= fetch.day
    /\ fetch.day <= today
    /\ \A t \in Types : live.seen[t] <= edits[t]
    /\ \A t \in 1 .. fetch.done : live.seen[t] <= fetch.seen[t] /\ fetch.seen[t] <= edits[t]

(***************************************************************************)
(* A text is compared, built or published only from a fetch that has read  *)
(* every calendar: a run that failed half-way through its requests leaves  *)
(* no partial data behind for a later step (fetchAllRawEventsFactory).     *)
(***************************************************************************)
FetchComplete ==
    /\ phase \in {"detectFetch", "prebuildFetch"} => fetch.done < NumTypes
    /\ phase \in {"detectLive", "build", "publish"} => fetch.done = NumTypes

(***************************************************************************)
(* When the deploy job decides, "unchanged" is still true of the site: the *)
(* comparison was made earlier, but only a publication changes the site    *)
(* and only the run in progress publishes.                                 *)
(***************************************************************************)
VerdictIsCurrent ==
    phase = "gate" /\ verdict = "false" =>
        /\ fetch.done = NumTypes
        /\ DataText(fetch) = DataText(live)

(***************************************************************************)
(* A scheduled run leaves the site alone only when the site already shows, *)
(* for the week of the day the detector started and for every calendar,    *)
(* what this run has read: a failed request, an unreadable site or a       *)
(* failed job never skips the deployment (binDetectChange.mts:23-33).      *)
(***************************************************************************)
SkippedOnlyWhenCurrent ==
    [][SkipDeploy => /\ fetch.done = NumTypes
                     /\ DataText(live) = DataText(fetch)]_vars

(***************************************************************************)
(* Once the edits and the midnights are over, the site comes to show the   *)
(* calendars as they are and stays so: an edit that slipped in between the *)
(* detector's requests and the comparison, or a failed deployment, heals   *)
(* at a later scheduled run (detectChange.mts:28-33).                      *)
(***************************************************************************)
CalendarReachesSite == <>[](DataText(live) = CalendarText)

(***************************************************************************)
(* A commit is not lost when the run of its push fails: the schedule skips *)
(* while the calendar data is unchanged, but the week moves at midnight    *)
(* and the first scheduled deployment after it carries the commit.         *)
(***************************************************************************)
CommitReachesSite ==
    \A c \in 1 .. MaxPushes :
        (phase = "idle" /\ queue = <<>> /\ head >= c /\ today < MaxDay) ~> (live.sha >= c)

(* Nothing that was published is kept from the site for good (push-main.yml). *)
SiteCatchesUp == CalendarReachesSite /\ CommitReachesSite

(***************************************************************************)
(* Every push gets its run: whatever fails or is cancelled, the run before *)
(* it ends, and the cron trigger, which fires for ever, cannot overtake it *)
(* in the queue (push-main.yml:10-12).                                     *)
(***************************************************************************)
EveryPushRuns ==
    \A c \in 1 .. MaxPushes :
        (\E i \in 1 .. Len(queue) : queue[i] = PushOf(c)) ~> (run = PushOf(c))

(***************************************************************************)
(* The workflow implements PublishedSite: no failure, cancelled run, edit  *)
(* between two requests or waiting run makes the site go back to an older  *)
(* commit, week or calendar, or show what was never there.                 *)
(***************************************************************************)
Site == INSTANCE PublishedSite
NeverGoesBack == Site!Spec

(* Text of an instance: the second edit restores what the calendar said before the first. *)
RestoringText(t, v) == v % 2
=============================================================================
