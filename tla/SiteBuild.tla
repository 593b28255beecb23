------------------------------ MODULE SiteBuild ------------------------------
(***************************************************************************)
(* The build of the website in one working copy: the npm scripts of        *)
(* packages/web/package.json and the generator of the security headers,    *)
(* packages/web/scripts/generate-csp-headers.mjs.                          *)
(*                                                                         *)
(* `build` runs the three prebuild scripts concurrently, then vinxi, then  *)
(* the postbuild chain.  A developer may also run the prebuild alone (by   *)
(* `pnpm start`), vinxi alone or the postbuild alone, one command at a     *)
(* time.  Every step may fail or be interrupted; what it wrote so far      *)
(* stays in the working copy and the next command starts from there.       *)
(*                                                                         *)
(* A generated file is modelled by the version of what it was generated    *)
(* from, a script body by its hash, the origin of a DSN by the DSN.        *)
(***************************************************************************)
EXTENDS Naturals, SiteInputs

(* A file that does not exist or was truncated; versions count from 1. *)
Nothing == 0

Commands == {"build", "prestart", "vinxi", "postbuild"}
Prebuilds == {"fetcher", "manifest", "yaml"}
Stopped == {"ready", "failed", "succeeded"}
Phases == Stopped \cup
    {"prebuild", "clean", "emit", "copy", "collect", "hash", "write"}

(***************************************************************************)
(* The sources the Content-Security-Policy adds to 'self', per directive;  *)
(* whole: the file is there and was written completely.                    *)
(***************************************************************************)
HeaderType == [whole : BOOLEAN, script : SUBSET Bodies,
               connect : SUBSET ParsableDsns, worker : SUBSET {"blob:"}]
SelfOnly == [whole |-> TRUE, script |-> {}, connect |-> {}, worker |-> {}]
NoHeader == [SelfOnly EXCEPT !.whole = FALSE]

VARIABLES
    calendar,  \* version of the Google calendars
    yaml,      \* version of src/constants.yaml
    working,   \* src/data.json, src/constants.json and public/*
    dist,      \* the built site
    job,       \* the command in progress or the last one
    phase,     \* where it is
    scripts,   \* how far each prebuild script is
    csp        \* what generate-csp-headers holds in memory

vars == <<calendar, yaml, working, dist, job, phase, scripts, csp>>

WorkingType == [data : Nat, constants : Nat, manifest : Nat, header : HeaderType]
DistType == [pages : [Html -> SUBSET Tags], rows : Nat, constants : Nat,
             data : Nat, manifest : Nat, dsn : Dsns, header : HeaderType]
JobType == [command : Commands, dsn : Dsns, begun : Nat]
CspType == [todo : SUBSET Html, found : SUBSET Bodies, patched : HeaderType]

TypeOK ==
    /\ calendar \in Nat
    /\ yaml \in Nat
    /\ working \in WorkingType
    /\ dist \in DistType
    /\ job \in JobType
    /\ phase \in Phases
    /\ scripts \in [Prebuilds -> {"waiting", "running", "done"}]
    /\ csp \in CspType

EmptyDist(dsn) ==
    [pages |-> [p \in Html |-> {}], rows |-> Nothing, constants |-> Nothing,
     data |-> Nothing, manifest |-> Nothing, dsn |-> dsn, header |-> NoHeader]

NotSpawned == [s \in Prebuilds |-> "waiting"]
NoMemory == [todo |-> {}, found |-> {}, patched |-> NoHeader]

(* A fresh checkout: nothing generated, nothing built. *)
Init ==
    /\ calendar = 1
    /\ yaml = 1
    /\ working = [data |-> Nothing, constants |-> Nothing,
                  manifest |-> Nothing, header |-> SelfOnly]
    /\ job \in [command : {"build"}, dsn : Dsns, begun : {1}]
    /\ dist = EmptyDist(job.dsn)
    /\ phase = "ready"
    /\ scripts = NotSpawned
    /\ csp = NoMemory

-----------------------------------------------------------------------------
(* The world, and the commands a person or the workflow gives. *)

CalendarMoves ==
    /\ calendar < MaxCalendar
    /\ calendar' = calendar + 1
    /\ UNCHANGED <<yaml, working, dist, job, phase, scripts, csp>>

(* Sources are edited between commands, as in a checkout of one commit. *)
EditYaml ==
    /\ phase \in Stopped
    /\ yaml < MaxYaml
    /\ yaml' = yaml + 1
    /\ UNCHANGED <<calendar, working, dist, job, phase, scripts, csp>>

FirstPhase(command) ==
    CASE command \in {"build", "prestart"} -> "prebuild"
      [] command = "vinxi" -> "clean"
      [] command = "postbuild" -> "copy"

Start(command, dsn) ==
    /\ phase \in Stopped
    /\ job' = [command |-> command, dsn |-> dsn, begun |-> calendar]
    /\ phase' = FirstPhase(command)
    /\ UNCHANGED <<calendar, yaml, working, dist, scripts, csp>>

(***************************************************************************)
(* A script exits with an error or the command is interrupted: the rest of *)
(* the command is not run.  The files stay as they are.                    *)
(***************************************************************************)
Fail ==
    /\ phase \notin Stopped
    /\ phase' = "failed"
    /\ scripts' = NotSpawned
    /\ csp' = NoMemory
    /\ UNCHANGED <<calendar, yaml, working, dist, job>>

-----------------------------------------------------------------------------
(* prebuild: pnpm run "/^prebuild:.+/" runs its scripts concurrently. *)

(* The shell truncates the target of a redirection before the script runs. *)
SpawnPrebuild(s) ==
    /\ phase = "prebuild"
    /\ scripts[s] = "waiting"
    /\ scripts' = [scripts EXCEPT ![s] = "running"]
    /\ working' =
         CASE s = "fetcher" -> [working EXCEPT !.data = Nothing]
           [] s = "yaml" -> [working EXCEPT !.constants = Nothing]
           [] s = "manifest" -> working
    /\ UNCHANGED <<calendar, yaml, dist, job, phase, csp>>

(* What the working copy holds after a script wrote its output. *)
Generated(s) ==
    CASE s = "fetcher" -> [working EXCEPT !.data = calendar]
      [] s = "yaml" -> [working EXCEPT !.constants = yaml]
      [] s = "manifest" -> [working EXCEPT !.manifest = yaml]

FinishPrebuild(s) ==
    /\ phase = "prebuild"
    /\ scripts[s] = "running"
    /\ working' = Generated(s)
    /\ scripts' = [scripts EXCEPT ![s] = "done"]
    /\ UNCHANGED <<calendar, yaml, dist, job, phase, csp>>

EndPrebuild ==
    /\ phase = "prebuild"
    /\ \A s \in Prebuilds : scripts[s] = "done"
    /\ phase' = IF job.command = "build" THEN "clean" ELSE "succeeded"
    /\ scripts' = NotSpawned
    /\ UNCHANGED <<calendar, yaml, working, dist, job, csp>>

-----------------------------------------------------------------------------
(* build: vinxi empties dist/ and prerenders the pages into it. *)

VinxiClean ==
    /\ phase = "clean"
    /\ phase' = "emit"
    /\ dist' = EmptyDist(job.dsn)
    /\ UNCHANGED <<calendar, yaml, working, job, scripts, csp>>

(***************************************************************************)
(* The pages import data.json and constants.json, which must parse; the    *)
(* files of public/ are copied; import.meta.env.VITE_SENTRY_DSN is         *)
(* replaced by its value.                                                  *)
(***************************************************************************)
VinxiEmit ==
    /\ phase = "emit"
    /\ Nothing \notin {working.data, working.constants}
    /\ \E pages \in PageContents :
         dist' = [dist EXCEPT !.pages = pages, !.rows = working.data,
                              !.constants = working.constants,
                              !.manifest = working.manifest,
                              !.header = working.header]
    /\ phase' = IF job.command = "build" THEN "copy" ELSE "succeeded"
    /\ UNCHANGED <<calendar, yaml, working, job, scripts, csp>>

-----------------------------------------------------------------------------
(* postbuild: cp, rimraf and generate-csp-headers. *)

(* cp src/data.json dist/data.json; deleting the source maps comes with it. *)
CopyData ==
    /\ phase = "copy"
    /\ phase' = "collect"
    /\ dist' = [dist EXCEPT !.data = working.data]
    /\ UNCHANGED <<calendar, yaml, working, job, scripts, csp>>

(* MUTANT of CollectHtmlFiles: subdirectories are not entered. *)
CollectHtmlFilesFlat ==
    /\ phase = "collect"
    /\ phase' = "hash"
    /\ csp' = [csp EXCEPT !.todo = TopLevel]
    /\ UNCHANGED <<calendar, yaml, working, dist, job, scripts>>

CollectHtmlFiles ==
    /\ phase = "collect"
    /\ phase' = "hash"
    /\ csp' = [csp EXCEPT !.todo = Html]
    /\ UNCHANGED <<calendar, yaml, working, dist, job, scripts>>

ExtractInlineScriptHashes(page) ==
    {tag.body : tag \in {t \in page : ~t.src /\ t.body # Blank}}

(* The files are read concurrently; any of them may be next. *)
HashPage(p) ==
    /\ phase = "hash"
    /\ p \in csp.todo
    /\ csp' = [csp EXCEPT !.todo = @ \ {p},
                          !.found = @ \cup ExtractInlineScriptHashes(dist.pages[p])]
    /\ UNCHANGED <<calendar, yaml, working, dist, job, phase, scripts>>

(* The origin of a DSN, none when the DSN is unset or cannot be parsed. *)
SentryConnectOrigin(dsn) == {dsn} \cap ParsableDsns

(* The header with the sources of this build appended to its directives. *)
InjectCspSources(header) ==
    LET origin == SentryConnectOrigin(job.dsn)
    IN  [header EXCEPT !.script = @ \cup csp.found, !.connect = @ \cup origin,
                       !.worker = @ \cup {b \in {"blob:"} : origin # {}}]

(* MUTANT of Injectable: the placeholders need not be there. *)
InjectableAlways(header) == header.whole

(* All three placeholders must be found, also where nothing is appended. *)
Injectable(header) == header = SelfOnly

(* The file is read and patched in memory; writeFile then truncates it. *)
PatchHeaders ==
    /\ phase = "hash"
    /\ csp.todo = {}
    /\ Injectable(dist.header)
    /\ csp' = [csp EXCEPT !.patched = InjectCspSources(dist.header)]
    /\ dist' = [dist EXCEPT !.header = NoHeader]
    /\ phase' = "write"
    /\ UNCHANGED <<calendar, yaml, working, job, scripts>>

(* MUTANT of WriteHeaders: public/_headers is patched as well. *)
WriteHeadersToSource ==
    /\ phase = "write"
    /\ phase' = "succeeded"
    /\ dist' = [dist EXCEPT !.header = csp.patched]
    /\ working' = [working EXCEPT !.header = csp.patched]
    /\ csp' = NoMemory
    /\ UNCHANGED <<calendar, yaml, job, scripts>>

WriteHeaders ==
    /\ phase = "write"
    /\ phase' = "succeeded"
    /\ dist' = [dist EXCEPT !.header = csp.patched]
    /\ csp' = NoMemory
    /\ UNCHANGED <<calendar, yaml, working, job, scripts>>

-----------------------------------------------------------------------------
Prebuild == EndPrebuild \/ \E s \in Prebuilds : SpawnPrebuild(s) \/ FinishPrebuild(s)
Vinxi == VinxiClean \/ VinxiEmit
Postbuild ==
    \/ CopyData \/ CollectHtmlFiles \/ PatchHeaders \/ WriteHeaders
    \/ \E p \in Html : HashPage(p)

Next ==
    \/ CalendarMoves \/ EditYaml
    \/ \E command \in Commands, dsn \in Dsns : Start(command, dsn)
    \/ Fail \/ Prebuild \/ Vinxi \/ Postbuild

Spec == Init /\ [][Next]_vars

(* Scripts do not hang: unless it fails or is interrupted, one goes on. *)
Fairness == WF_vars(Prebuild \/ Vinxi \/ Postbuild)

FairSpec == Spec /\ Fairness

-----------------------------------------------------------------------------
(* Properties. *)

BuildSucceeded == phase = "succeeded" /\ job.command = "build"

RunsInline(p, b) == \E tag \in dist.pages[p] : ~tag.src /\ tag.body = b

(* A script runs from some page if and only if its hash is among these. *)
FitsPages(hashes) ==
    \A b \in Bodies : b \in hashes <=> \E p \in Html : RunsInline(p, b)

(* What a value of the DSN needs: its origin and the worker, or neither. *)
FitsDsn(header, dsn) ==
    /\ header.connect = {dsn} \cap ParsableDsns
    /\ "blob:" \in header.worker <=> dsn \in ParsableDsns

(***************************************************************************)
(* What the workflow publishes runs: a successful build serves a header    *)
(* that admits every inline script of every page, at any depth, and admits *)
(* no script that is on none of them (generate-csp-headers.mjs:53-65).     *)
(***************************************************************************)
HeaderFitsPages ==
    BuildSucceeded => dist.header.whole /\ FitsPages(dist.header.script)

(***************************************************************************)
(* The header fails closed, whatever commands ran, failed or were repeated *)
(* (generate-csp-headers.mjs:8-10): if it is there at all it is the one of *)
(* public/, or was made for exactly these pages and one value of the DSN.  *)
(***************************************************************************)
HeaderFailsClosed ==
    dist.header.whole =>
        \/ dist.header = SelfOnly
        \/ FitsPages(dist.header.script) /\ \E dsn \in Dsns : FitsDsn(dist.header, dsn)

(***************************************************************************)
(* The header of a successful build allows telemetry exactly as far as the *)
(* DSN that is baked into its scripts can be used: beacons to its origin   *)
(* and the replay worker, or neither (generate-csp-headers.mjs:16-33).     *)
(***************************************************************************)
TelemetryFitsDsn ==
    BuildSucceeded => FitsDsn(dist.header, dist.dsn)

(***************************************************************************)
(* The data.json that a successful build publishes, which the change       *)
(* detector compares later, holds the rows that its pages show, and they   *)
(* were fetched by this build: never before the command was given.         *)
(***************************************************************************)
DataFitsPages ==
    BuildSucceeded => dist.data = dist.rows /\ dist.rows >= job.begun

(***************************************************************************)
(* The manifest and the pages of a successful build come from the same     *)
(* constants.yaml, in whatever order the concurrent prebuild scripts ran.  *)
(***************************************************************************)
ManifestFitsPages ==
    BuildSucceeded => dist.manifest = dist.constants

(***************************************************************************)
(* A build can always be repeated: no command, failed, interrupted or      *)
(* completed, leaves a working copy in which a build cannot succeed.  If   *)
(* from some time on only builds are run and none of them is made to fail, *)
(* then each of them succeeds.                                             *)
(***************************************************************************)
BuildRecovers ==
    (<>[][~Fail]_vars /\ <>[](job.command = "build"))
        => <>[](phase \notin Stopped => <>BuildSucceeded)
=============================================================================
