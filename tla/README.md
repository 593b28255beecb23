# Formal models of kit.black

This directory holds TLA+ models of the kit.black website, of the programs that
keep it up to date, and of the scripts by which agents work on the repository;
the TLC runs that check the models on small instances; and TLAPS proofs of what
can be proved for every instance.

Paths are relative to `src/`, the root of the repository. Where a script is
named without a path it is in `scripts/`.

| module | models |
| --- | --- |
| **Website** | |
| `PublishedSite` | what the deployment promises about the live site (abstract specification) |
| `DeployPipeline` | `.github/workflows/push-main.yml`, the change detector, the fetch of the build |
| `Schedule` | from the calendars' answers to the rows of `data.json` and their table |
| `Carousel` | autoplay of `components/molecules/Carousel.tsx` |
| `SiteBuild` | the npm scripts of `packages/web`, `generate-csp-headers.mjs` |
| `Locale` | the language of a visit: server document, router, language links |
| `SiteInputs` | the constants of `Schedule`, `SiteBuild` and `Locale` and what they assume |
| `MCSite` | carousel, language, table and build for TLC |
| **Files of one machine** | |
| `Mutex`, `TokenRecord` | what the clone lock and the token record promise (abstract specifications) |
| `CloneLock` | `clone-lock.mjs` |
| `ClaimLock` | the lock of a worktree in `claim-lock.mjs` |
| `GeneratedTokens` | the token record and its guard in `claim-lock.mjs` |
| `TelemetryHook` | the processes of `idd-critique-telemetry-hook.mjs` |
| `MCLocalFiles` | these four for TLC |
| **Claims on issues** | |
| `ClaimLog` | who owns an issue, as the scripts compute it from its comments |
| `ClaimProtocol` | sessions that claim, beat, stall, crash and take over |
| **Merging** | |
| `ReviewEvidence`, `DispositionEvidence`, `CheckRollup`, `CodeownerApproval`, `AdvisoryWait` | the summaries of `protocol-helpers.mjs` that the gates judge by |
| `MergeGate` | `pre-merge-readiness.mjs` and `idd-merge-execute.mjs` in a moving world |
| `AdvisoryConvergence` | the verdict of the required check (`advisory-convergence.mjs`) |
| `ConvergenceRerun` | the plans of `rerun-advisory-convergence.mjs` |
| `ConvergenceGate` | runs of that check, its companion workflow, and GitHub's concurrency groups |
| **Finding work** | |
| `RoadmapGraph` | `discover-roadmap-graph.mjs` on what was read |
| `IssueGate` | approval, rejection, triage, viability, readiness and ranking of issues |
| `IssueIntake` | a session that looks for its next issue while people change them |
| **Upkeep** | |
| `RoadmapAudit` | `idd-roadmap-audit-execute.mjs` |
| `WaiverApply` | `external-check-waiver.mjs` |
| `HideMarkers` | `post-idd-marker.mjs`, `minimize-superseded-markers.mjs`, `sweep-authoring-markers.mjs` |
| `CommentCleanup` | `audit-pr-cleanup.mjs` |
| `Dispositions` | `disposition-non-review-notices.mjs`, `resolve-review-thread.mjs` |
| `ProviderOutage` | `provider-health.mjs`, `provider-outage-park.mjs`, `provider-outage-declaration.mjs` |
| `MCUpkeep` | these six for TLC |

`DeployPipeline_proofs`, `Site_proofs`, `LocalFiles_proofs`, `ClaimProtocol_proofs`,
`MergeGate_proofs`, `ConvergenceGate_proofs`, `IssueIntake_proofs` and
`Upkeep_proofs` hold the theorems (section 4). The other `MC*` modules give values
to constants; the deployment, the merge gate and the required check have theirs in
their `.cfg`. A module with operators only (`ClaimLog`, `ReviewEvidence`, `RoadmapGraph`, ...) is a translation of pure
functions; the module with the actions that uses them is what is checked.

## 1. Inventory of the system

The repository has two halves. `packages/` and three workflows are the website.
`scripts/` (with `schemas/`, `.github/idd`, `.github/instructions` and the
`idd-*` workflows) are the helpers of *issue-driven development*: programs that
agent sessions and workflows call to find issues, claim them, answer reviewers
and merge. They are far larger than the website (nine tenths of the code), run
concurrently, share nothing but GitHub and a few files, and decide what gets
merged and closed. `components` in `PROJECT.json` lists every part with its
sources, its modules and what is left out of each; this section says what state
there is and what would make it wrong.

### 1.1 Website

**Production deployment** (`.github/workflows/push-main.yml`). A push to main,
a cron trigger every three hours or a person starts a run. All runs share one
concurrency group with `queue: max`: one is in progress, the rest wait in
order. A scheduled run first executes the job *detect-changes*; the job
*deploy* follows unless that job succeeded and said `changed=false`.
*State*: the queue, the run in progress and its place in the jobs, the verdict
of *detect-changes*, the published site. *Correct when*: the site never goes
back to an older commit or older calendar data, a deployment is skipped only
if nothing changed, and everything eventually reaches the site.

**Change detector** (`packages/fetcher/src/binDetectChange.mts`,
`detectChange.mts`). Fetches all calendars, reads the live `data.json` past
the CDN, compares the trimmed texts. Fails open: every exception and every
unreadable live text counts as *changed*.

**Calendar fetcher** (`packages/fetcher/src/`) and **date library**
(`packages/lib/src/datetime.mts`). Requests the calendars one after the other
for the week that begins today in JST, drops what is cancelled or has no
resolvable time, adds a placeholder to each day without an event, sorts stably,
cuts at `MAX_EVENTS` and marks the first row of every date with the number of
rows of that date. *Correct when*: the date cells fit the rows and the order is
stable (the change detector compares texts).

**Site** (`packages/web`). Nearly all of it is stateless markup. What has
state: the *carousel* (a timer, two reactive effects, seven handlers); the
*language* (document shell, router, links between languages); the *calendar
image download* and the *theme*, which are not modelled (section 6).

**Build scripts** (`packages/web/package.json`, `packages/web/scripts`).
`prebuild` writes `src/data.json`, the constants and the manifest; `build`
prerenders; `postbuild` copies `data.json`, removes source maps and derives
the Content-Security-Policy header from the built pages. *State*: the generated
files, which survive failed and interrupted commands. *Correct when*: what a
successful build ships fits together, the header fails closed at all other
times, and no command leaves a working copy that cannot be built.

### 1.2 What agent sessions share

**Files of one machine.** The *clone lock* (a file in the clone's git directory
around every git command that is not safe to overlap), the *claim lock* (a file
per worktree that names the claim of the session at work), the *token record*
(nonces a session generated, under a guard file), and the processes of the
*telemetry hook* (a command with a deadline, a watchdog that outlives its
parent). *Correct when*: one command runs at a time, nobody's lock is displaced
or removed under him, a killed process blocks nobody unnoticed, and no process
outlives its deadline or is killed for having another's number.

**The comments of an issue.** A *claim* is a marker in a comment; heartbeats
extend it, releases end it, a later claim may supersede a stale one, a person
may hand it over. There is no compare-and-swap: whoever reads the same comments
must come to the same owner. *Correct when*: a session that keeps its heartbeats
keeps its claim, and an issue is not withheld for good.

**The pull request.** Reviews, comments, threads, checks, waivers, watermarks
and dispositions, read piece by piece by the *merge gate* and by the required
check *advisory convergence*, and written by people, bots, workflows and
sessions in the meantime. *Correct when*: nothing is merged that somebody
objected to unseen, on another commit's checks, or over a rule without cause;
and what is ready does get green and merged.

**The issues and roadmaps.** Read one by one by the *search for work*, by
*triage* and *approval* and by the *roadmap audit*. *Correct when*: nothing
workable is overlooked, nothing is claimed or closed against an objection.

**Upkeep.** Waivers, markers posted and hidden, cleanup after a merge, answers
to bots, threads resolved, changes parked for an outage. All have the shape
*read – decide – check again – write*, and a write whose answer was lost may
have been carried out.

### 1.3 Interactions

```
 Google Calendar ──requests──▶ fetcher ──data.json──▶ build ──dist──▶ Netlify
       ▲                         ▲                                      │
   edits, midnight               └── change detector ◀──live data.json──┘
                                          │ changed=true|false|(none)
 push / cron / dispatch ──▶ queue ──▶ run ─┴─▶ deploy job ◀── merged commits
                                                                  ▲
 issues, roadmaps ──▶ search, triage, approval ──▶ claim ──▶ work in a worktree
       ▲                                            │      (clone lock, claim lock,
       │                                            │       token record, hook)
  audit, close ◀── merged, cleaned up ◀── merge gate ◀── reviews, answers, waivers,
                                              ▲           required check ◀── companion
                                              └── watermark, dispositions
```

Within the second half every arrow is a reading or writing of GitHub through
`provider-adapter-github.mjs` and the `gh` command line; each may fail, and a
write may fail after it was carried out.

### 1.4 What is hard

* Everything is read piece by piece while it changes. A verdict is about a
  mixture of moments; what can be asked of it is that each objection it did not
  see was absent at *some* moment of its readings. Most properties of the second
  half have this form (section 3).
* Calendars are edited and midnight passes between any two requests; a
  deployment of a push is not retried, and scheduled runs skip while the
  calendar is unchanged.
* In the carousel one timer is replaced from handlers, which read signals
  untracked, and from an effect, which re-runs only for signals its last run
  happened to read.
* A file is created empty and written later, renamed where a rename replaces and
  where it does not, left behind by a killed process, and its process number
  goes to a stranger.
* GitHub's times are whole seconds: several comments share one, and edits,
  dispositions and watermarks are compared by them.
* Runs of a check are cancelled by their concurrency group, which a rerun of an
  old run belongs to as well.
* Clocks expire in the middle: a claim becomes stale, a waiver runs out, a
  declared outage ends.

`hazards` in `PROJECT.json` is the complete list, each at its line and with the
properties about it.

## 2. The models

### 2.1 `DeployPipeline` and `PublishedSite`

| variable | code |
| --- | --- |
| `head` | the newest commit of main |
| `today`, `edits` | the JST day, and how often each calendar was edited (external) |
| `queue`, `run` | waiting runs and the run in progress: trigger and checked-out commit |
| `phase` | job and step of the run; `"gate"` is the `if:` of the deploy job |
| `fetch` | first day of the week, the edit of each calendar read, number of calendars read |
| `verdict` | `needs.detect-changes`: its result if not `success`, else its output |
| `live` | commit, week and calendar edits the site was built from |

A calendar's content is `Text(t, v)` after its `v`-th edit, where `Text` is a
constant, so that two different histories can give equal texts. `DataText` is
what the JSON text of a fetch is determined by; that this is so is what
`Schedule` models in detail.

One action per step that can fail, interleave or be observed. `FetchCalendar`
is one `events.list` request. Steps that only prepare the runner are one action
per job, at whose end `new Date()` is taken. `DetectJobFails` and
`DeployJobFails` can happen in every phase of their job, `DetectFetchFails` and
`LiveUnreadable` are the two failures the detector catches itself, `CancelRun`
is a person cancelling a run. A publication reported as failed although Netlify
took it is `Publish`: the end of the run is the same.

`PublishedSite` knows only the world and the site: any publication is allowed
that takes each part of the site from the past and none from before what is
already shown. `NeverGoesBack` is its specification over the same variables.

Abstractions to keep in mind: the format of the text does not depend on the
commit, so a commit that changes the fetcher's output does not itself make a
detector say *changed* (in reality it would; the model is more pessimistic).
Publication is atomic and does not take effect after its run ended. The bound
`MaxQueue` stands in the guard of `Enqueue`: an event that finds the queue full
is not modelled.

### 2.2 `Schedule`, `Carousel`, `SiteBuild`, `Locale`

**`Schedule`.** Time is a number of slots, `Day` slots to a day, in JST. The
fetcher makes one request after the other (`FetchRawEvents`), one of them may
fail (`RequestFails`), then the rows are computed (`PrintRows`). The operators
carry the names of the functions they translate. The list of all events is a set
whose elements carry their place in the list (calendar and position in its
answer; days off behind them all), so that the stable sort is an order on it:
the earlier epoch, then the earlier place. An all-day event has a `date`,
which JavaScript parses as midnight UTC: slot `AllDaySlot` of its JST day
(09:00). Titles and the weekday are left out; whether a day is a holiday is a
constant set. Observed while translating, and contradicted by no doc: only the
first page of an answer is read, harmless as a page (250) exceeds `MAX_EVENTS`;
an event that began before today and still lasts is dropped; dates are compared
without their year, so that an event that began a year ago and still lasts hides
the placeholder of its day (`NoneAYearAway` excludes it where it matters).

**`Carousel`.** `active` is the signal `activeIndex` (`equals: false`),
`tracked` the dependencies that the last run of the reschedule effect collected,
`timer` the ticks left of the pending `setTimeout`, `position` and `target` the
nearest item and where a smooth scroll is heading, `idle` a history variable:
the ticks since anything but the clock moved, reset by every event whether or
not it touches the timer. An event handler and the effects it triggers are one
action: JavaScript runs them to completion. `Reschedule(signal)` is the heart:
the effect runs only if its *last* run read the signal, and `EffectReads` says
what a run reads, with the short-circuit of `paused()`. A due timeout fires
before the clock moves on, and a smooth scroll ends before a tick passes.

**`SiteBuild`.** `calendar` and `yaml` are versions of the sources, `working` and
`dist` the generated files, `job`, `phase` and `scripts` the command and how far
it and its concurrent prebuild scripts are, `csp` the memory of
`generate-csp-headers`. A file is the version of what it was generated from;
`Nothing` is a missing or truncated file. The shell truncates the target of `>`
when it spawns a script, and `writeFile` truncates `_headers` before it writes;
between the two an interruption leaves `NoHeader`. `Fail` stands for a failing
step and for an interruption, in every phase. One command runs at a time in a
working copy. The tags of a page say only whether a script has a `src` and which
body; `PageContents` lists what vinxi may emit.

**`Locale`.** A path is the sequence of its segments. `url` is the address bar,
`lang` the document's language, `location` the router's path (`NotHydrated`
before `mount`), `pending` the target of a transition, `effect` whether the
effect of `Head.tsx` is scheduled. Three readings of a path are kept apart:
`ResolveLanguage` (the server's regular expression), `UseLanguage` (the route's
parameter) and `StripLanguageSegment` (the links' expression). A click on the
language menu is a page load before hydration and a router transition after it;
a transition may be replaced until it commits, which is the router's behaviour
and external.

### 2.3 `CloneLock`, `ClaimLock`, `GeneratedTokens`, `TelemetryHook`

Every system call is an action, and a process may be killed before any of them.

**`CloneLock`.** The file appears with `open(O_EXCL)` and gets its body with a
later write; in between it is *torn*. A process polls, runs its command as a
child, and removes the file if it still names it. The child goes on when its
parent is killed, and the file stays. `RemoveByHand` is a person who looked and
found nobody at work. It implements `Mutex`, whose critical section is the
*command*, not the file.

**`ClaimLock`.** `acquireClaimLock` creates the file complete, by linking a
finished one; a takeover renames over it. On a platform where a rename does not
replace (`inPlace` is FALSE) the old file is removed first, which opens a gap in
which others may create theirs. `MaxAttempts` is `MAX_RETRY_ATTEMPTS`. `holds`
is a history variable: whose acquisition nobody has undone.

**`GeneratedTokens`.** The guard file, its token, the cleanup of a guard that
could not be written, the deadline of those who wait, the record replaced or
removed and renamed, and a backfill that reads before it writes. It implements
`TokenRecord`, in which each call changes the record in one step and at most
once.

**`TelemetryHook`.** `procs` says where the hook, the job it started and the
watchdog are; a process that ended keeps its number until its parent has seen
it, and later the number may be a stranger's. A kill is by number or by handle;
on Windows it is a process of its own (`Taskkill`), which takes its time.
`expired` are the waits that were given up. Left out: the environment that the
Windows relay is given, argument parsing, the payload's text.

### 2.4 `ClaimLog` and `ClaimProtocol`

A log is the sequence of an issue's comments with times of whole seconds.
`ClaimLog` is how each script orders and reads it: `ResolveActiveClaim`,
`ClaimValid` of the merge gate, the routing of
`resume-claim-routing.mjs`, the fresh-claim gate, activation nonces, handoffs
and the claims of an older format. A claim id is a number in the order of the
ids' texts, and stands for its agent.

`ClaimProtocol` is what sessions do with it: post a claim after a reading that
may miss comments of the current second, wait for the settle delay, read again,
withdraw, beat, open a pull request, pass the gate before each mutation, adopt
a handed-over claim, release. When they do it follows the claim procedure in
`.github/instructions`; what they decide is computed by `ClaimLog`. Sessions
stall and crash at any point. `Mutex` is its abstract specification, too: the
owners are those who verified a claim and beat in time.

### 2.5 `MergeGate`

`pr` is the pull request on GitHub, `seen` the snapshot that the agent is about
to record as its watermark, `view` what the command has read in this round,
`round` whether it is its first reading, the revalidation or the revalidation of
the administrator's fallback, `expected` the head that the first round passed.
The command reads the core, the reviews, the comments and the threads in
separate steps (`collectPreMergeReadiness`), judges (`computePreMergeReadiness-
Blockers`), reads everything once more and merges bound to `expected`.

The gates are the operators of the five summary modules. `CheckRollup` reduces
check runs to one per producer and applies waivers; `ReviewEvidence` compares
the activity with the watermark and classifies the threads;
`DispositionEvidence` pairs comments with answers; `CodeownerApproval` has
approvals, CODEOWNERS and the sole owner; `AdvisoryWait` the wait for the
reviewer that may never answer.

`scene` chooses what moves in a behaviour, since everything at once is out of
reach: comments, a thread, checks and waivers, the claim, the wait, and rules
with one owner or two. Two gates are left out: the stale self-waiver
(`protocol-helpers.mjs:6662-6693`) and the one for the development branch.

### 2.6 `ConvergenceGate`

One run per event and head reads the pull request piece by piece (head, comments
with their markers and waivers, reviews, threads, claim) and judges with
`AdvisoryConvergence` what it has read. `proved` is a history variable: pairs of a
run and a claim such that at some moment of the run's reading the pull request as
a whole was ready for the run's head under that claim. GitHub's concurrency
groups are modelled as the workflow files declare them: the required check's
group cancels what is in progress, the companion's keeps one event pending.
`ConvergenceRerun` computes which runs are worth a rerun; `Apply` carries the
plan out command by command, checking the head before each command of a refresh.
Every call of the helper may throw (`CallFails`): while it still collects, that
ends it; later the command counts as failed, be it the wait for a run under way,
the reading of the head, the rerun or the wait for the new attempt (a wait that
times out is one of these). A refresh then goes on with the next command, and
exits with an error in the end (`Reported`); a plain call ends.

The clock counts events, so no two have one time. Attempts beyond the second are
as good as the second, of earlier attempts only the set of conclusions is kept.
Left out: `reopened` runs, the bootstrap job that waives for itself (the waiver
itself is in `WaiverApply`), the time limit of the companion's job,
`MAX_APPLY_RERUNS`, which the instance does not reach; an unreadable log counts
as a failed lookup.

Five scenes move one kind of thing each, with the agent that tends the check
(`Tended`); `push` and `mixed` are about safety only. In `mixed` reviews, their
threads, answers, acknowledgements, requests for one more review and the claim
all change between the readings of a run, `MaxChanges` times in all, with or
without a review left from an earlier head. There a run can pass although the
pull request was never ready *under the claim of the same moment*: while the issue
is released the run reads the last review and its acknowledgement, then the next
review finds something new, the issue is claimed again, and the run reads the
claim, last of all. TLC finds this when the claim is asked to be of the same
moment. What does hold, and is what `VerdictWasTrueOnce` says, is that everything
else is of one moment (head, comments, reviews and threads), judged under the
claim that the run has read. A verdict on a head that was pushed over while the
run read it is not meant; nothing is decided by it.

### 2.7 `IssueIntake`

`issues`, `comments`, `history` and `prs` are the repository, `moves` what
people may still do and when, `s` the session. Its steps are the calls to GitHub
in the order of the discovery instructions: the graph of each roadmap issue by
issue, the readiness of leaves with what was fetched before (`RoadmapGraph`
works on what was *read*), orphans if there is no roadmap, approval, viability,
claims, then the best candidate through triage, and a claim, a close as a
duplicate, or a rejection after which it goes on. `Init` leaves the repository
open but for `Filed`: what is on GitHub when the session starts was written and
edited before, each rejection names a version that its issue had, and one of the
present version is not older than the last edit. `MCIssueIntake` adds six scenes.

`always` and `held` are history variables: the ways to an issue that stood, and
the objections that were there, from the first reading on.

What the patterns of the scripts find in a text is a *signal* of that text; the
patterns themselves are not modelled. Claims are abstracted to who and when
(`ClaimProtocol` has them in detail), sub-issues are read in the same step as
their issue. Left out are milestones, shared-file overlap, the reconciliation
comment, and the fall-back to orphans after triage has discarded every candidate
of the roadmaps (trigger (b) of the discovery instructions; that there is no
roadmap, or no workable leaf, is modelled). Missing evidence in the search for
duplicates fails open but for equal titles, as in the code.

### 2.8 Upkeep

`RoadmapAudit`, `WaiverApply`, `HideMarkers`, `CommentCleanup`, `Dispositions`
and `ProviderOutage` have the same build: the world, what may still happen to it
(`moves`), how many calls may yet fail (`failing`), one or several runs of a
command with what each has read, and a history variable (`stood`) of the
objections that have held since the decisive reading began. A failing call is
one that was not carried out, or one that was and said otherwise.

* `RoadmapAudit`: two collections, three claim checks, worktrees, evidence,
  close, release.
* `WaiverApply`: two runs side by side, by a person or by the workflow for
  itself. A request that is carried out later than its error is not modelled,
  nor are dry runs. A run that failed or was inconclusive need not name the
  waivers of others; a person's and the workflow's are named among their kind.
* `HideMarkers`: three sessions; `Given` leaves open what was posted before them.
  Comments are only added; a request answered
  with an error is carried out at once or never; bodies are told apart by the
  session that wrote them.
* `CommentCleanup`: one pull request per run; who is trusted is a constant.
* `Dispositions`: the answers to notices and summaries, and the reply to a
  thread, of a run that starts on any pull request (`Given`: no comment is the
  run's yet, and ids are not used twice). As in the code, a *retry* of a post does not check the claim again,
  the helper trusts only its own login, and a failed read ends the process.
* `ProviderOutage`: a run's own clock stops when it starts; every pull request
  and build is within the sample. Comments, timelines and reviews are only
  added.

## 3. The runs

| run | states | what it checks |
| --- | --- | --- |
| `deploy` | 26,741 | deployments of a site while its calendars are edited |
| `carousel_resume` | *violation* | finding 1 |
| `site` | 1,153,474 | carousel, language, table and build, side by side |
| `local_files` | 67,898 | the files and processes of one machine |
| `claim_race` | 1,181,293 | two sessions on one issue |
| `claim_resolvers` | *violation* | finding 2 |
| `merge_gate` | 258,770 | seven scenes of a pull request and its merge command |
| `convergence` | 534,214 | seven scenes of the required check |
| `convergence_cancel` | *violation* | finding 3 |
| `issue_intake` | 396,504 | six repositories and a session that looks for work |
| `upkeep` | 1,158,758 | fifteen scenes of the six upkeep commands |
| `upkeep_mask` | *violation* | finding 4 |

Everything runs with `tlc -config <cfg> <module>` in this directory, in less than
five minutes on two workers. Each property of a passing run has a *mutant* in
`PROJECT.json`: a definition of the code with a plausible bug, under which TLC
finds the property violated. They stand in the modules with the comment
`MUTANT of ...`.

### 3.1 Properties and bounds

**`deploy`.** `FetchComplete`: no partial reading is compared or published.
`SkippedOnlyWhenCurrent`: a deployment is skipped only when the site showed what
the detector had read. `NeverGoesBack`: the deployments implement
`PublishedSite`. `SiteCatchesUp`: what calendars and commits say reaches the
site, if runs go on succeeding now and then. Two calendars (the second request
is needed for everything about partial readings), one edit each, one midnight,
one push, one waiting run. Every failure and cancellation may occur in every
phase, any number of times.

**`site`.** `TimerIffEligible`, `ReducedMotionRests` and
`AutoplayShowsEveryItem`: the timer is neither stuck nor stray, nothing but the
visitor moves a carousel while motion is reduced (no timer left behind, and a
smooth scroll under way when the wish comes is cut short), and a carousel that is
left alone shows every item over and over. Three items make "next" differ from "other",
an interval of three ticks lets activity come in the middle. `TableFits`: the
rows are in order, the date cells tile them, the table starts with today, no day
and no event of the week is missing but for later ones of a full table, and a day
off is one without events; all answers of up to three of eleven raw events of two
calendars in a week of three days, with four rows, fetched at midnight or late in
the day. `LanguageSettles`: document, router and address agree in the
end. `HeaderFitsPages` and `HeaderFailsClosed`: a successful build's header
admits exactly the scripts of its pages, and a header that is not of a finished
build admits nothing or is the untouched one. `BuildRecovers`: after any failure
another build can succeed. The parts share no variable; the run explores them as
alternatives.

**`local_files`.** `ImplementsMutex` (clone lock), `LockIsKept` (an acquired
claim lock is displaced only by a takeover or by hand), `ImplementsRecord` (the
token record is atomic), `ExitLosesNothing` and `NoStrangerKilled` (telemetry
hook), `DeadlineHolds` and `CallsEnd` (every process is gone after its deadline,
every call returns). Three processes, so that two wait for the lock of a third;
two claim sessions with two attempts each; three token calls; the hook on POSIX
and on Windows.

**`claim_race`.** `TimelyOwnerIsActive`, `ImplementsMutex`: whoever verified a
claim and beat in time has the active claim, and nobody else does.
`GateIsExclusive`: of all who hold a claim, also of two who adopted the same
handed-over id, the gate before a mutation lets one pass. `NeverWithheldForGood`:
an issue is withheld only while a claim is fresh. Two sessions, one of which may
draw two ids that sort around the other's (ties by id go both ways), claims
stale after two seconds, four seconds and comments (a first claim, a takeover,
a heartbeat and one more).

**`merge_gate`.** `NothingUnseen`: each review, comment and reply that the
command had in view when it decided had been in front of the agent in its
present wording. The exception is in the code: edits and replies in the very
second of the watermark count as seen. `AnsweredOneByOne`: no answer of the agent
counts for two objections. `MergedOnItsChecks`: the merged commit is the one
that was read, and its required checks had passed or were waived for it.
`AdminOnlyForSoleOwner`: the rule that demands an approval is overridden only
where nobody but the author could give it. `MergeableIsMerged`: what has no
objection is merged. Two heads, three seconds, three words, two runs of a check.

**`convergence`.** `VerdictWasTrueOnce`: a run that passed on the present head did
so on a pull request that was ready as a whole at some moment of its reading,
under the claim that it read; section 2.6 says what may be of a later moment.
`StaleRunsAreReported`: when a refresh is over, each run of the head has a
verdict, or is reading for one, from after the call, or it is one of those for
which the refresh exits with an error; which commands failed, were refused or
overtaken makes no difference. `SettledTurnsGreen`: when nothing is left to do
and calls no longer fail, the check ends up green for every event (a run that
waits for an approval counts as green, as the plan treats it). What debouncing and
the eviction of a pending event may lose is disclosed in the header of the
workflow and excused here. Two agents applying a plan at the same time may rerun a
run twice, which the code does not exclude. Two heads, one
word, two reviews (a third in `mixed`), three moves of the claim or the clock, and
six changes of all kinds in `mixed`: enough for a review, its answer and its
acknowledgement, another review, and the claim going and coming between.

**`issue_intake`.** `NothingOverlooked`: a way to an issue that was workable in
one and the same way during the whole search is found. `ClaimsAreJustified` and
`VerdictStands`: a claim, a rejection or a readiness verdict is not made against
an objection that stood all along. `ClosesAreOwned`: an issue is closed as a
duplicate only by a session that held its claim when it announced the close. `RunsEnd`. Six scenes with
roadmaps, nested and linked issues, orphans, duplicates and approvals, numbers
1 to 6, at most one failing call.

**`upkeep`.** `UpkeepIsWarranted`: nothing is closed, waived, hidden, answered,
resolved, parked or declared against an objection that held during the whole
decisive reading. `DuplicatesAreNamed`: the later of two waivers names both
(unless a run failed or was inconclusive). `CurrentMarkersStayVisible`: a marker
is hidden only once it is superseded. `PostedOnce`: a post that was retried
because its answer was lost appears once. Scenes as section 2.8 lists them, with
two heads, `MinPrs` 2, windows of 3 and 1, validity up to 2, samples of 4, two parked
changes. Safety only: an upkeep command that fails is started again by hand.

A bound is always in a guard and named as such in the `CONSTANTS` of its module.
Deadlock is not checked where the system may stop (all calls done, the pull
request merged, the last second reached); `deploy` is the exception.

### 3.2 Fairness

Weak fairness is assumed of what a scheduler, a timer or a person at a prompt
does if nothing prevents it, strong fairness of what may fail and is tried
again:

* `deploy`: weak for midnight, the admission of a waiting run and the work of a
  run; strong for the success of each step and for the cron trigger. A step that
  never succeeds keeps the site old, and nothing in the code can help it.
* `site`: weak for ticks, due timeouts, smooth scrolling, the steps of a page
  that loads, and the scripts of a build.
* `local_files`: weak for every live process (a killed one owes nothing) and for
  `taskkill`.
* `merge_gate`: weak for time, the end of a check and the agent's own steps.
* `convergence`: in the scenes with an agent, weak for the runner, the companion and
  the helper's calls; strong for the agent trying again, because a cancelled run
  does not count as an attempt. Nobody is assumed to answer or acknowledge
  anything: `SettledTurnsGreen` is about behaviours in which that is done.
* `issue_intake`: weak for the session's steps. `claim_race` and `upkeep` have
  no liveness property; `NeverWithheldForGood` says as an invariant what the
  liveness of claims comes down to.

### 3.3 Findings

1. *A carousel jumps back* (`carousel_resume`): lifting the reduced-motion
   preference re-runs the scroll effect of `Carousel.tsx:212`, which scrolls to
   the remembered item although the visitor had moved on. The comment in lines
   70-74 says it does not.
2. *Two readings of the same comments* (`claim_resolvers`): the merge gate sorts
   strangers' comments along with the markers (`protocol-helpers.mjs:6196`), the
   routing leaves them out first. The sort is no order (a remark ties with claims
   that do not tie with each other), so the two may see different owners.
3. *The check of the new head is cancelled* (`convergence_cancel`): a rerun that
   was decided before a push takes the place of the run that the push started.
   The companion workflow's header says it cannot.
4. *An acceptance hides an edit* (`upkeep_mask`): the summary that CodeRabbit
   edits between the reading and the post counts as answered.

Also met while modelling, and contradicted by no property: a failed read of one
pull request makes `provider-outage-park.mjs` count the parked ones too low,
although its comment says that it must never (the property excuses such runs);
a summary may be left unanswered while a person's older comment is open, which
the next run repairs; after its exit the hook can no longer tell whether a
number it left with a watchdog was reused.
## 4. The proofs

The proof modules prove their theorems for every value of the constants. What
they assume of the constants are the named `ASSUME`s of the modules, which hold
in every run: positive intervals and ages, bounds that are numbers, claim ids
and nonces of which none is drawn twice, pages that consist of tags, languages
that are no page names, a week that is no longer than a year, answers that are
finite lists. Calendars' texts, the lengths of day, week, year and table, process sets, sessions, what people
and strangers write, and the size of every bound are arbitrary.

None of the properties is inductive. Each theorem has a strengthening, usually
called `IInv`, that says what the code relies on between its steps; TLC checked
it first.

**`DeployPipeline_proofs`.** A publication takes its commit from the run and its
data from the fetch, hence `CommitOrder` (along site, run, queue, main),
`FetchOrder` (what was read *so far* lies between what the site shows and what
the calendars say), `FetchComplete` ("so far" is "all" once it is used) and
`VerdictIsCurrent`. They give `SkipIsJustified` and the refinement
`ImplementsSite`.

**`Site_proofs`.** *Carousel*: `TimerIffEligible` needs `UntrackedIsPaused`: a
signal that the effect's last run did not read is masked by one that it did.
`RescheduleFacts` is the lemma at the centre. *Build*: `HashesOfRead` is the
induction over the loop of `generate-csp-headers`, `PatchedFits` says that the
text is right before it is written, `ProcessesFresh` that no script of an
interrupted command writes over a later one's files. *Language*: the algebra of
paths and links, and that the server's reading of a path agrees with the
client's. `VisitorMovesAlone` needs that nobody is under way to an item while motion
is reduced (`Rests`) besides a timer that is exact: `TimerIsExact` says that it
counts from the last event of any kind, though some events do not reset it.
`SiteTimer`, `SiteCarouselRests`, `SiteHeaderFitsPages` and
`SiteHeaderFailsClosed` then state the properties of the composition that the run
checks: the parts share no variable, so that a step of the site is a step of one
part and a stutter of the others. *Table*: `SiteTable` is about any answers of any number of calendars.
The invariant only says what was read when the rows were computed; the work is in
`ToEvents`. The place of an event in the sorted list is the number of those before
it, and `Before` is a strict order of a finite set, so that these numbers are
0, 1, 2, ... without gap (the lemmas on ranks). Rows in the order of time have
their equal dates next to each other, because a week is no longer than the year in
which dates do not repeat; hence each span ends where the next date begins.
`VisitAlternatesAgree`, `VisitHydrationKeepsLanguage`, `BuildOutputsAgree` and the like are proved
beyond what a run checks.

**`LocalFiles_proofs`.** *Clone lock*: while a command runs its file is complete
and names it, and the critical section of the mutex is that command. *Claim
lock*: a holder is named in the file and only a call with `--takeover` is about
to rename over it. *Token record*: the guard file belongs to the call that made
it until it is removed, so that a call inside writes nothing that is out of date;
the refinement of `TokenRecord` maps each call to the moment at which its rename
shows. *Hook*: for each kind of system, where the three processes can be while
the caller waits. `CloneCommandsExclude`, `ClaimLockIsKept`, `RecordIsAtomic`,
`HookLosesNothing` and `HookSparesStrangers` are the run's properties.

**`ClaimProtocol_proofs`.** The comments are read by recursive functions. Their
values are obtained by induction over the length of the log (`LeastNatural`,
`UpTo`), which gives the step-by-step laws of reading, sorting and resolving
that the rest uses. The sorting is no order, so the laws say little: a comment
goes behind those of earlier seconds and the others stay as they were. The
argument is then
1. an id is drawn by one session, and before it is posted nobody writes it
   (`IdsAreDrawn`, `IdsAreFresh`);
2. whoever verifies its claim after the settle delay has read every comment of
   the claim's second; its claim is *rooted* at a place of the sorted comments
   that no later comment gets before (`IsRooted`, by `ActivationPoint` and
   `ViewKeeps`);
3. a timely owner's beats leave no gap of `StaleAge` (`IsBeating`), so nothing
   after the root takes the claim away (`BeatingStaysActive`).

`OwnersAreActive` and `ClaimsImplementMutex` follow; `GateExcludesOthers` rests
on the nonces (of two adopters of one id only one has the winning nonce), and
`WithheldIssuesAreFresh` on where an active claim comes from.

**`MergeGate_proofs`.** The invariant relates each watermark to what was said
since: the old comments are counted and only people edit them, later than the
mark; the reviews it covers are a prefix; a thread's replies are counted. It
relates the view to the pull request piece by piece, and each check's latest
instance to its waiver. `NothingGoesUnseen` compares the view with the watermark
recorded *at the head* that is merged; words of the watermark's own second are
the only exception, in the code and in the property. `EachCommentIsAnswered` goes
from the gate's algorithm to a matching: each comment, in the order of time, takes
the first answer left that fits (`FirstFit`, a function that is defined by itself;
`TakingGoesOn` shows by the rank of a comment that there is one), so if none goes
without, the answers taken are one for each (`FirstFitMatches`). A bot's notices
are carried by count, not one by one: the n-th notice gets the n-th disposition of
notices (`RanksMatch`), and what the gate withholds from the other comments are
just those.

**`ConvergenceGate_proofs`.** `RefreshReportsTheStale` says of a refresh that is
over that every run of the head which it left stale is one it reports with an
error, whatever failed on the way. What makes it true is spread over the phases
of the refresh, so the invariant `CInv` has a part for each: what the list of
runs, the look at each run's state and the plan still owe to the runs as they are
now (`Found`, `Looked`, `Planned`). A command that is taken pays its debt by the
rerun or by its entry among the failed ones (`FailsCInv`). A run may start, end or
be cancelled between any two calls; every such change either keeps what the
refresh knows (`Keeps`) or makes the run one that needs nothing (`Settled`,
`EndedOrSettled`). Heads, runs, scenes and the order in which GitHub answers are
arbitrary.

**`IssueIntake_proofs`.** `VerdictStands` says that a session never triages text
that a trusted person rejected and nobody edited since. Between reading the
comments and triaging, people edit, reject and edit back, and the session
compares times and versions it has read at different moments. `IInv` says that
every trusted rejection fits the edits of its issue (of the present version only
if it is not older than any edit), that what the triage has read is an earlier
reading (`ReadEarlier`), and that past the pre-check every rejection it read is
older than some edit (`Outlived`), hence of an earlier version. It rests on
`Filed`, which TLC finds in all six scenes.

**`Upkeep_proofs`.** *Markers* (`MarkersInv`): comments are only added and only
hidden; what a session is about to hide is of a past head, or was behind a newer
marker in what it had read, and will always be, since comments are not removed and heads do not go
back. The newer one may be hidden meanwhile, but then it is behind another in turn:
the last of them is visible (`CurrentMarkersAlwaysVisible`).
*Answers* (`AnswersInv`): the items to answer are a list without repeats; while a
run recovers from a lost answer, only the first item of the list can have been
posted by it already, and that answer is none of the comments the run knew before
(`AnsweredOnceAlways`). `PostedOnceAlways` states the run's property: a session's
second post needs a look for the first one that found nothing, and the look fails
to see it only if it failed itself.

Only model-checked:

* liveness (`SiteCatchesUp`, `AutoplayShowsEveryItem`, `LanguageSettles`,
  `BuildRecovers`, `DeadlineHolds`, `CallsEnd`, `MergeableIsMerged`,
  `SettledTurnsGreen`, `RunsEnd`): fairness and ENABLED are beyond the prover;
* `VerdictWasTrueOnce`: it compares readings of several moments with every moment
  between them, and an argument for any number of changes would have to go through
  the whole verdict (`AdvisoryConvergence`) for every way in which it can change;
* `NothingOverlooked` and `ClaimsAreJustified`: the walk through the roadmaps is a
  recursion over what was read, and with several kinds of objections that come and
  go at the same time they hold only of the scenes;
* `ClosesAreOwned`: who holds the claim after each comment is a fold over the log
  (`ActiveClaim`), and to go from the log that was read back to the announcement in
  it is an induction over that log. It is also about a log without announcements of
  earlier sessions, as in the scenes;
* `UpkeepIsWarranted` and `DuplicatesAreNamed`: they depend on what may happen to
  the world during a run, which is a choice of scenes too (a handoff there and
  back between two readings of a claim goes unnoticed).

## 5. Not modelled

`components` in `PROJECT.json` has the list with the reasons. In short: the
download handler, the theme, presentational components and Sentry (no state of
their own, or the libraries'); `push.yml` and the git hooks; `idd-doctor` and the
onboarding checks, which only report; policy, configuration and command lines;
the text detectors (patterns over prose, modelled as the signals they find);
snapshots for an agent's reading; the recorded local validation; the audit of
drafted issues; the live status digest.

Within what is modelled: the grammar of markers and of dates, host time zones,
the wording of messages, retries of the `gh` command line below a call, pages of
GitHub's answers, and authors beyond the distinctions a gate makes.

## 6. Plan

1. The ownership of closes for a log that holds announcements of earlier sessions,
   with `ActiveClaim` as a function of the length of the log.
2. The warrants of the upkeep commands for arbitrary changes of the world, with a
   property for each that says how far a mixture of moments may be off.
3. The audit of drafted issues, as a set of rules over what the detectors report.
