---------------------------- MODULE TelemetryHook ----------------------------
(***************************************************************************)
(* The telemetry hook of the critique loop: a shell command that           *)
(* idd-critique-telemetry-hook.mjs starts, gives a payload on its standard *)
(* input, and lets live until a deadline.  The caller is the program's own *)
(* command line (--invoke), which ends as soon as the payload is handed    *)
(* over and a watchdog is armed, or somebody who awaits the result.        *)
(*                                                                         *)
(* The hook leads a process group (on Windows it is a relay that starts    *)
(* the command as its child); "job" is a process that it started.  A       *)
(* process that ended keeps its number until the caller, if it is there,   *)
(* has seen that it ended; later the number may be a stranger's.           *)
(***************************************************************************)
EXTENDS Naturals, FiniteSets

VARIABLES
  platform,   \* "posix" or "win32"
  caller,     \* where the caller is; one that will await the result is "embedding"
  procs,      \* the hook, its job and the watchdog
  pipe,       \* what became of the payload
  timer,      \* the caller's own deadline: "none", "pending" or "over"
  delivered, armed,   \* what --invoke waits for
  expired,    \* the waits that were given up
  killers,    \* Windows: the numbers that a taskkill under way was given
  strangers,  \* the numbers that belong to strangers by now
  victim,     \* whether a stranger was killed
  settled     \* the result: "no", "ok" or "failed"

vars == <<platform, caller, procs, pipe, timer, delivered, armed, expired, killers,
          strangers, victim, settled>>

signals == <<delivered, armed, expired>>

Numbers == {"hook", "watchdog"}

Init ==
  /\ platform \in {"posix", "win32"}
  /\ caller \in {"resolving", "embedding"}
  /\ procs = [hook |-> "none", job |-> "none", watchdog |-> "none"]
  /\ pipe = "none" /\ timer = "none"
  /\ delivered = FALSE /\ armed = FALSE /\ victim = FALSE
  /\ expired = {} /\ killers = {} /\ strangers = {} /\ settled = "no"

-----------------------------------------------------------------------------
(* Which hook there is.                                                    *)

Layers == {"absent", "disabled", "configured", "malformed"}

\* resolveEffectiveCritiqueLoopTelemetryHook: what the repository says counts, even if
\* it is wrong; a remote agent has no layer of its own.
Usable(repository, user, remote) ==
  \/ repository = "configured"
  \/ repository = "absent" /\ user = "configured" /\ ~ remote

-----------------------------------------------------------------------------
(* Processes and their numbers.                                            *)

CallerLives == caller # "exited"
Ended == {"endedOk", "endedBadly"}

\* Nobody waits for a process whose parent is gone.
AfterEnd(how) == IF CallerLives THEN how ELSE "gone"

\* Does the process, or its group, still have its number?
HasNumber(number) ==
  IF number = "hook" THEN procs.hook \in {"up"} \union Ended \/ (platform = "posix" /\ procs.job = "up")
  ELSE procs.watchdog \in {"spawning", "asleep"} \union Ended

\* What is left of the processes p when one of them is killed alone,
WithoutOne(p, number) ==
  IF p[number] \in {"up", "spawning", "asleep"} THEN [p EXCEPT ![number] = AfterEnd("endedBadly")] ELSE p

\* or with all that is in its group, or on Windows in the tree below it.
WithoutAll(p, number) ==
  LET reached == number = "hook" /\ p.job = "up" /\ (platform = "posix" \/ p.hook = "up")
  IN  [WithoutOne(p, number) EXCEPT !.job = IF reached THEN "gone" ELSE @]

\* A kill by number strikes who has it now.
KillByNumber(p, number) ==
  IF number \in strangers THEN procs' = p /\ victim' = TRUE
  ELSE procs' = WithoutAll(p, number) /\ UNCHANGED victim

KillByHandle(p, number) == procs' = WithoutOne(p, number) /\ UNCHANGED victim

\* killProcessGroup and killProcessTreeWindows, when the processes are p: on Windows the
\* kill is a process of its own, which may not even start.
KillGroup(p, number) ==
  \/ platform = "posix" /\ KillByNumber(p, number) /\ UNCHANGED killers
  \/ platform = "win32" /\ killers' = killers \union {number} /\ procs' = p /\ UNCHANGED victim
  \/ platform = "win32" /\ KillByHandle(p, number) /\ UNCHANGED killers

\* The error event of a taskkill makes the caller kill the process alone.
Taskkill(number) ==
  /\ number \in killers
  /\ \/ KillByNumber(procs, number)
     \/ CallerLives /\ KillByHandle(procs, number)
     \/ ~ CallerLives /\ UNCHANGED <<procs, victim>>
  /\ killers' = killers \ {number}
  /\ UNCHANGED <<platform, caller, pipe, timer, signals, strangers, settled>>

\* A number that is free goes to a stranger.
NumberReused(number) ==
  /\ number \notin strangers
  /\ procs[number] = "gone" /\ ~ HasNumber(number)
  /\ strangers' = strangers \union {number}
  /\ UNCHANGED <<platform, caller, procs, pipe, timer, signals, killers, victim, settled>>

-----------------------------------------------------------------------------
(* The caller.                                                             *)

Settle(result) == settled' = IF settled = "no" THEN result ELSE settled

\* runInvoke: the hook is looked up first; what is wrong with that is nobody's concern.
ResolveHook ==
  /\ caller = "resolving"
  /\ \E repository \in Layers, user \in Layers, remote \in BOOLEAN :
       caller' = IF Usable(repository, user, remote) THEN "reading" ELSE "exited"
  /\ UNCHANGED <<platform, procs, pipe, timer, signals, killers, strangers, victim, settled>>

\* Nothing that could be read in time, or nothing that is a payload (readStdinBounded).
NoPayload ==
  /\ caller = "reading"
  /\ caller' = "exited"
  /\ UNCHANGED <<platform, procs, pipe, timer, signals, killers, strangers, victim, settled>>

\* invokeCritiqueTelemetryHook: the spawn throws,
InvokeThrows ==
  /\ caller' = IF caller = "reading" THEN "waiting" ELSE "awaiting"
  /\ caller \in {"reading", "embedding"}
  /\ delivered' = TRUE /\ armed' = TRUE
  /\ Settle("failed")
  /\ UNCHANGED <<platform, procs, pipe, timer, expired, killers, strangers, victim>>

\* or gives a process, perhaps one without a number that will fail; the watchdog of a
\* process with a number is spawned at once, which may throw in its turn.
Invoke ==
  /\ caller \in {"reading", "embedding"}
  /\ caller' = IF caller = "reading" THEN "waiting" ELSE "awaiting"
  /\ \E child \in {"unborn", "up"}, dog \in {"none", "spawning"} :
       /\ child = "unborn" => dog = "none"
       /\ procs' = [hook |-> child, job |-> "none", watchdog |-> dog]
       /\ armed' = (dog = "none")
  /\ pipe' \in {"open", "broken"}
  /\ delivered' = (pipe' = "broken")
  /\ timer' = "pending"
  /\ UNCHANGED <<platform, expired, killers, strangers, victim, settled>>

\* The two waits of invokeAndWaitForDelivery are bounded.
PayloadTimer ==
  /\ caller = "waiting" /\ ~ delivered
  /\ delivered' = TRUE /\ expired' = expired \union {"payload"}
  /\ UNCHANGED <<platform, caller, procs, pipe, timer, armed, killers, strangers, victim, settled>>

WatchdogTimer ==
  /\ caller = "waiting" /\ ~ armed
  /\ armed' = TRUE /\ expired' = expired \union {"watchdog"}
  /\ UNCHANGED <<platform, caller, procs, pipe, timer, delivered, killers, strangers, victim, settled>>

\* MUTANT of DeliveredAndArmed: to hand over the payload is enough.
DeliveredOnly == delivered

DeliveredAndArmed == delivered /\ armed

\* The caller exits: a payload that is not in the pipe and a watchdog that is not there
\* may be cut short.
CallerExits ==
  /\ caller = "waiting" /\ DeliveredAndArmed
  /\ caller' = "exited"
  /\ pipe' = IF pipe = "open" THEN "cut" ELSE pipe
  /\ timer' = "over"
  /\ \E dog \in {"asleep", "lost"} :
       procs' = [procs EXCEPT !.hook = IF @ \in Ended THEN "gone" ELSE @,
                              !.watchdog = IF @ = "spawning" THEN dog ELSE IF @ \in Ended THEN "gone" ELSE @]
  /\ UNCHANGED <<platform, signals, killers, strangers, victim, settled>>

\* The pipe has taken the whole payload, or the hook ended without reading it.
PipeCloses ==
  /\ CallerLives /\ pipe = "open"
  /\ pipe' = IF procs.hook = "up" THEN "flushed" ELSE "broken"
  /\ delivered' = TRUE
  /\ UNCHANGED <<platform, caller, procs, timer, armed, expired, killers, strangers, victim, settled>>

WatchdogSpawned ==
  /\ CallerLives /\ procs.watchdog = "spawning"
  /\ \E dog \in {"asleep", "failed"} : procs' = [procs EXCEPT !.watchdog = dog]
  /\ armed' = TRUE
  /\ UNCHANGED <<platform, caller, pipe, timer, delivered, expired, killers, strangers, victim, settled>>

\* The deadline, for a caller that is still there.
TimerFires ==
  /\ CallerLives /\ timer = "pending"
  /\ timer' = "over"
  /\ KillGroup(procs, "hook")
  /\ Settle("failed")
  /\ UNCHANGED <<platform, caller, pipe, signals, strangers>>

\* The error event of a hook that could not be started.
HookFails ==
  /\ CallerLives /\ procs.hook = "unborn"
  /\ procs' = [procs EXCEPT !.hook = "none"]
  /\ pipe' = "broken" /\ timer' = "over" /\ delivered' = TRUE
  /\ Settle("failed")
  /\ UNCHANGED <<platform, caller, armed, expired, killers, strangers, victim>>

\* MUTANT of CancelWatchdog: the watchdog is left to itself.
LeaveWatchdog(p) == procs' = p /\ UNCHANGED <<killers, victim>>

\* cancelWatchdog, when the processes are p.
CancelWatchdog(p) ==
  IF p.watchdog \in {"none", "failed"} THEN procs' = p /\ UNCHANGED <<killers, victim>>
  ELSE KillGroup(p, "watchdog")

\* The exit events: what has ended is seen together. When the hook is among it, the
\* watchdog is disarmed.
ExitsSeen ==
  LET seen == [procs EXCEPT !.hook = IF @ \in Ended THEN "gone" ELSE @,
                            !.watchdog = IF @ \in Ended THEN "gone" ELSE @]
  IN  /\ CallerLives /\ seen # procs
      /\ IF procs.hook \in Ended
         THEN /\ CancelWatchdog(seen)
              /\ timer' = "over"
              /\ Settle(IF procs.hook = "endedOk" THEN "ok" ELSE "failed")
         ELSE procs' = seen /\ UNCHANGED <<timer, settled, killers, victim>>
      /\ UNCHANGED <<platform, caller, pipe, signals, strangers>>

-----------------------------------------------------------------------------
(* The hook and the watchdog.                                              *)

\* A shell may start something that outlives it. The relay of Windows starts the command
\* when it has read all there is, and ends with it (WIN32_RELAY_SCRIPT).
JobStarts ==
  /\ procs.hook = "up"
  /\ platform = "win32" => pipe # "open"
  /\ procs' = [procs EXCEPT !.job = "up"]
  /\ UNCHANGED <<platform, caller, pipe, timer, signals, killers, strangers, victim, settled>>

JobEnds ==
  /\ procs.job = "up"
  /\ procs' = [procs EXCEPT !.job = "gone"]
  /\ UNCHANGED <<platform, caller, pipe, timer, signals, killers, strangers, victim, settled>>

HookEnds ==
  /\ procs.hook = "up"
  /\ platform = "win32" => pipe # "open" /\ procs.job # "up"
  /\ \E how \in Ended : procs' = [procs EXCEPT !.hook = AfterEnd(how)]
  /\ UNCHANGED <<platform, caller, pipe, timer, signals, killers, strangers, victim, settled>>

\* MUTANT of WatchdogFires: a shell that takes -- for a number kills nothing.
WatchdogFiresInVain ==
  /\ procs.watchdog = "asleep"
  /\ procs' = [procs EXCEPT !.watchdog = AfterEnd("endedOk")]
  /\ UNCHANGED <<platform, caller, pipe, timer, signals, killers, strangers, victim, settled>>

\* spawnWatchdogPosix and spawnWatchdogWindows: after the deadline, rounded up, the hook
\* is killed by its number.
WatchdogFires ==
  /\ procs.watchdog = "asleep"
  /\ KillByNumber([procs EXCEPT !.watchdog = AfterEnd("endedOk")], "hook")
  /\ UNCHANGED <<platform, caller, pipe, timer, signals, killers, strangers, settled>>

-----------------------------------------------------------------------------
CallerStep ==
  \/ ResolveHook \/ NoPayload \/ InvokeThrows \/ Invoke \/ PayloadTimer \/ WatchdogTimer
  \/ CallerExits \/ WatchdogSpawned \/ TimerFires \/ HookFails \/ ExitsSeen

Next ==
  \/ CallerStep \/ PipeCloses \/ WatchdogFires
  \/ JobStarts \/ JobEnds \/ HookEnds
  \/ \E number \in Numbers : Taskkill(number) \/ NumberReused(number)

Spec == Init /\ [][Next]_vars

-----------------------------------------------------------------------------
(* Properties.                                                             *)

(* The caller never waits for the hook: the command line ends, and an      *)
(* awaited result comes, though the hook neither reads nor ends.           *)
CallerGoesOn == <>(caller = "exited" \/ (caller = "awaiting" /\ settled # "no"))

(* No hook lives past its deadline, even if the caller has long exited; on *)
(* POSIX systems what the hook started dies with it then.  Only a watchdog *)
(* that could not be had makes an exception.                               *)
Unguarded == caller = "exited" /\ procs.watchdog \in {"none", "failed", "lost"}
DeadlineHolds ==
  /\ procs.hook = "up" ~> procs.hook # "up" \/ Unguarded
  /\ (platform = "posix" /\ caller = "exited" /\ procs.watchdog = "asleep" /\ procs.job = "up")
        ~> procs.job # "up"

(* The caller does not exit over a payload or a watchdog on its way unless *)
(* it has waited for it as long as it would.                               *)
ExitLosesNothing ==
  /\ pipe = "cut" => "payload" \in expired
  /\ procs.watchdog = "lost" => "watchdog" \in expired

(* While the caller is there to disarm the watchdog no stranger is killed  *)
(* for having the number of a process that ended (on Windows, where a kill *)
(* takes its time, that is not certain).                                   *)
NoStrangerKilled == victim => caller = "exited" \/ platform = "win32"
=============================================================================
