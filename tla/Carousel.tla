------------------------------ MODULE Carousel ------------------------------
(***************************************************************************)
(* The autoplay of the image carousel, components/molecules/Carousel.tsx:  *)
(* one timer, shared by a reactive effect (the reschedule effect), by the  *)
(* handlers of the visitor's interactions and by the scroll events that    *)
(* the carousel's own smooth scrolling causes.                             *)
(*                                                                         *)
(* An effect runs again only when a signal changes that its last run read, *)
(* and `paused` reads its three signals left to right and stops at the     *)
(* first that is true: `tracked` is the set of signals the last run of the *)
(* reschedule effect read.  A handler and the effects it triggers run to   *)
(* completion before the next event.                                       *)
(*                                                                         *)
(* Geometry is abstracted to the item nearest to the centre.               *)
(***************************************************************************)
EXTENDS Naturals

CONSTANTS
    MaxItems,  \* bound: items of a carousel
    Interval,  \* AUTOPLAY_INTERVAL_MS, in ticks of the clock
    NoTimer    \* no advance is scheduled

ASSUME IntervalAssumption == Interval \in Nat \ {0}
ASSUME MaxItemsAssumption == MaxItems \in Nat
ASSUME NoTimerAssumption == NoTimer \notin Nat

VARIABLES
    items,     \* how many items the carousel has; never changes
    layout,    \* whether the container has a measurable layout; never changes
    life,      \* "server" (prerendered), "mounted" or "unmounted"
    active,    \* the signal activeIndex
    hovered, focused, visible, reduced,  \* the signals of these names
    tracked,   \* what the last run of the reschedule effect read
    timer,     \* ticks until the scheduled advance, or NoTimer
    position,  \* the item nearest to the centre of the container
    target,    \* where the container scrolls to; position when it rests
    idle       \* history: ticks since anything but the clock moved, at most Interval

shape == <<items, layout>>
pauseSignals == <<hovered, focused, visible, reduced>>
place == <<position, target>>
vars == <<items, layout, life, active, hovered, focused, visible, reduced,
          tracked, timer, position, target, idle>>

Signals == {"mounted", "reduced", "hovered", "focused", "visible", "active"}

TypeOK ==
    /\ items \in 0 .. MaxItems
    /\ layout \in BOOLEAN
    /\ life \in {"server", "mounted", "unmounted"}
    /\ active \in Nat /\ (items > 0 => active < items)
    /\ hovered \in BOOLEAN /\ focused \in BOOLEAN
    /\ visible \in BOOLEAN /\ reduced \in BOOLEAN
    /\ tracked \in SUBSET Signals
    /\ timer \in 0 .. Interval \cup {NoTimer}
    /\ position \in Nat /\ target \in Nat
    /\ items > 0 => position < items /\ target < items
    /\ idle \in 0 .. Interval

(* The prerendered carousel; the visitor may scroll it before it mounts. *)
Init ==
    /\ items \in 0 .. MaxItems
    /\ layout \in BOOLEAN
    /\ life = "server"
    /\ active = 0
    /\ hovered = FALSE /\ focused = FALSE /\ visible = TRUE /\ reduced = FALSE
    /\ tracked = {}
    /\ timer = NoTimer
    /\ position \in {i \in 0 .. MaxItems : i = 0 \/ i < items}
    /\ target = position
    /\ idle = 0

-----------------------------------------------------------------------------
(* The functions of the component. *)

Paused == hovered \/ focused \/ ~visible

(* The guard of scheduleAdvance. *)
Eligible == life = "mounted" /\ ~reduced /\ ~Paused /\ items > 1

(* nearestIndex: without a layout, the index it remembers. *)
NearestIndex == IF layout /\ items > 0 THEN position ELSE active

(* MUTANT of NextIndex: autoplay stays at the last item. *)
NextIndexWithoutLoop ==
    IF NearestIndex + 1 < items THEN NearestIndex + 1 ELSE NearestIndex

(* The item that autoplay advances to; the first follows the last. *)
NextIndex == (NearestIndex + 1) % items

(* scheduleAdvance, called in the state that the event leads to. *)
ScheduleAdvance == timer' = IF Eligible' THEN Interval ELSE NoTimer

(* What the reschedule effect reads when it runs. *)
EffectReads ==
    {"mounted", "reduced", "active", "hovered"}
        \cup (IF hovered THEN {} ELSE {"focused"})
        \cup (IF hovered \/ focused THEN {} ELSE {"visible"})

(* The signal notifies: the reschedule effect runs if its last run read it. *)
Reschedule(signal) ==
    IF signal \in tracked
    THEN ScheduleAdvance /\ tracked' = EffectReads'
    ELSE UNCHANGED <<timer, tracked>>

(* The other effect scrolls the container to the active item. *)
ScrollToActive ==
    /\ UNCHANGED position
    /\ target' = IF layout /\ active' < items THEN active' ELSE target

(* The same, when motion is reduced: the container jumps. *)
JumpToActive ==
    /\ position' = IF layout /\ active' < items THEN active' ELSE position
    /\ target' = position'

-----------------------------------------------------------------------------
(* onMount, after the first run of both effects: the media query and the *)
(* visibility of the tab are known, and autoplay may start.              *)
Mount ==
    /\ life = "server"
    /\ life' = "mounted"
    /\ visible' \in BOOLEAN
    /\ reduced' \in BOOLEAN
    /\ UNCHANGED <<shape, active, hovered, focused>>
    /\ tracked' = EffectReads'
    /\ ScheduleAdvance
    /\ IF reduced' THEN JumpToActive ELSE ScrollToActive
    /\ idle' = 0

(* The owner is disposed: effects end, clearTimer runs, the listener goes. *)
Unmount ==
    /\ life = "mounted"
    /\ life' = "unmounted"
    /\ timer' = NoTimer
    /\ tracked' = {}
    /\ UNCHANGED <<shape, active, pauseSignals, place, idle>>

PointerMoves ==
    /\ life = "mounted"
    /\ hovered' = ~hovered
    /\ UNCHANGED <<shape, life, active, focused, visible, reduced, place>>
    /\ Reschedule("hovered")
    /\ idle' = 0

FocusMoves ==
    /\ life = "mounted"
    /\ focused' = ~focused
    /\ UNCHANGED <<shape, life, active, hovered, visible, reduced, place>>
    /\ Reschedule("focused")
    /\ idle' = 0

VisibilityChanges ==
    /\ life = "mounted"
    /\ visible' = ~visible
    /\ UNCHANGED <<shape, life, active, hovered, focused, reduced, place>>
    /\ Reschedule("visible")
    /\ idle' = 0

(* MUTANT of MotionPreferenceChanges: the scroll effect reads the media    *)
(* query untracked.                                                        *)
MotionPreferenceUntracked ==
    /\ life = "mounted"
    /\ reduced' = ~reduced
    /\ UNCHANGED <<shape, life, active, hovered, focused, visible, place>>
    /\ Reschedule("reduced")
    /\ idle' = 0

(* Both effects read the media query, so both of them run. *)
MotionPreferenceChanges ==
    /\ life = "mounted"
    /\ reduced' = ~reduced
    /\ UNCHANGED <<shape, life, active, hovered, focused, visible>>
    /\ Reschedule("reduced")
    /\ IF reduced' THEN JumpToActive ELSE ScrollToActive
    /\ idle' = 0

(* keydown, pointerdown and touchstart call scheduleAdvance directly. *)
Interact ==
    /\ life = "mounted"
    /\ UNCHANGED <<shape, life, active, pauseSignals, tracked, place>>
    /\ ScheduleAdvance
    /\ idle' = 0

(* The visitor scrolls, which also ends a smooth scroll in progress. *)
ManualScroll ==
    /\ life = "mounted"
    /\ items > 0
    /\ position' \in 0 .. items - 1
    /\ target' = position'
    /\ UNCHANGED <<shape, life, active, pauseSignals, tracked>>
    /\ ScheduleAdvance
    /\ idle' = 0

(* A scroll event of the carousel's own smooth scrolling. *)
SmoothScrollStep ==
    /\ life = "mounted"
    /\ position # target
    /\ position' = IF position < target THEN position + 1 ELSE position - 1
    /\ UNCHANGED <<shape, life, active, pauseSignals, tracked, target>>
    /\ ScheduleAdvance
    /\ idle' = 0

(* MUTANT of TimerFires: the signal's default equality drops an equal index. *)
TimerFiresDefaultEquality ==
    /\ life = "mounted"
    /\ timer = 0
    /\ active' = NextIndex
    /\ UNCHANGED <<shape, life, pauseSignals>>
    /\ IF active' # active
       THEN Reschedule("active") /\ ScrollToActive
       ELSE timer' = NoTimer /\ UNCHANGED <<tracked, place>>
    /\ idle' = 0

(* The timeout: the next item after the one the visitor is at.  The signal *)
(* has equals: false, so both effects run even when the index is the same. *)
TimerFires ==
    /\ life = "mounted"
    /\ timer = 0
    /\ active' = NextIndex
    /\ UNCHANGED <<shape, life, pauseSignals>>
    /\ Reschedule("active")
    /\ ScrollToActive
    /\ idle' = 0

(* A smooth scroll is over well before a tick of the clock passes. *)
Tick ==
    /\ life = "mounted"
    /\ position = target
    /\ idle < Interval
    /\ timer # 0
    /\ idle' = idle + 1
    /\ timer' = IF timer = NoTimer THEN NoTimer ELSE timer - 1
    /\ UNCHANGED <<shape, life, active, pauseSignals, tracked, place>>

Pausing == PointerMoves \/ FocusMoves \/ VisibilityChanges \/ MotionPreferenceChanges
Visitor == Pausing \/ Interact \/ ManualScroll

Next == Mount \/ Unmount \/ Visitor \/ SmoothScrollStep \/ TimerFires \/ Tick

Spec == Init /\ [][Next]_vars

(* The browser lets time pass, delivers due timeouts and scrolls smoothly. *)
Fairness == WF_vars(Tick) /\ WF_vars(TimerFires) /\ WF_vars(SmoothScrollStep)

FairSpec == Spec /\ Fairness

-----------------------------------------------------------------------------
(***************************************************************************)
(* An advance is scheduled exactly while autoplay may run: never a stuck   *)
(* carousel, and never a timer while hovered, focused, hidden, under       *)
(* reduced motion, before mount, after unmount or with less than two items *)
(* (Carousel.tsx:59-68 and 139-143).                                       *)
(***************************************************************************)
TimerIffEligible == timer # NoTimer <=> Eligible

(***************************************************************************)
(* The timer counts from the last event of any kind, although not every    *)
(* event makes the reschedule effect run: no two schedules overlap and no  *)
(* interaction is forgotten (Carousel.tsx:61-62).                          *)
(***************************************************************************)
TimerMeasuresInactivity == timer # NoTimer => timer = Interval - idle

(***************************************************************************)
(* A signal that the reschedule effect does not track cannot make autoplay *)
(* eligible: another pause condition, which it does track, holds.          *)
(***************************************************************************)
UntrackedIsPaused ==
    life = "mounted" =>
        /\ {"reduced", "hovered", "active"} \subseteq tracked
        /\ "focused" \notin tracked => hovered
        /\ "visible" \notin tracked => hovered \/ focused

(***************************************************************************)
(* While the visitor wishes reduced motion, nothing but the visitor moves  *)
(* the carousel: no timer left behind advances it, and a smooth scroll     *)
(* that was under way when the wish came is cut short, not shown to its    *)
(* end (Carousel.tsx:64-66 and 200-213).                                   *)
(***************************************************************************)
ReducedMotionRests ==
    [][life = "mounted" /\ reduced /\ reduced' /\ place' # place => ManualScroll]_vars

(***************************************************************************)
(* Left alone, autoplay shows every item again and again: its own scroll   *)
(* events postpone the next advance but never for ever                     *)
(* (Carousel.tsx:139-143).  It is left alone when from some moment on only *)
(* the clock, its timer and its own scrolling move it.                     *)
(***************************************************************************)
AutoplayShowsEveryItem ==
    <>[]Eligible /\ <>[][Tick \/ TimerFires \/ SmoothScrollStep]_vars =>
        \A i \in 0 .. MaxItems - 1 : []<>(i < items => NearestIndex = i)

(***************************************************************************)
(* When autoplay resumes it "continues from wherever the visitor left it   *)
(* instead of snapping back to a stale position" (Carousel.tsx:70-74).     *)
(* The code does snap back when it resumes because the preference for      *)
(* reduced motion is lifted: the scroll effect reads that preference, so   *)
(* it runs again and scrolls to the remembered index.                      *)
(***************************************************************************)
ResumesWhereVisitorLeft ==
    [][life = "mounted" /\ ~Eligible /\ Eligible' => target' = target]_vars
=============================================================================
