----------------------------- MODULE Site_proofs -----------------------------
(***************************************************************************)
(* Proofs about the website, for any number of items, any interval, any    *)
(* languages, pages, scripts, DSNs and bounds, and whatever the calendars  *)
(* answer: the carousel's timer, the language of a visit, what a build     *)
(* ships and the rows of the schedule table.  Each part has an inductive   *)
(* invariant of its own; the last theorems carry the results to behaviours *)
(* of the site, in which one part moves and the others stand still.        *)
(***************************************************************************)
EXTENDS MCSite, FiniteSetTheorems, SequenceTheorems, WellFoundedInduction, TLAPS

-----------------------------------------------------------------------------
(***************************************************************************)
(* The carousel.  That the timer runs exactly while autoplay is eligible   *)
(* is inductive only together with what the reschedule effect tracks: a    *)
(* pause condition it does not track is masked by one it does.  Under      *)
(* reduced motion the container rests.                                     *)
(***************************************************************************)
Rests == life = "mounted" /\ reduced => position = target

IInv ==
    /\ TypeOK
    /\ UntrackedIsPaused
    /\ TimerIffEligible
    /\ TimerMeasuresInactivity
    /\ Rests

(* The first state satisfies the inductive invariant. *)
LEMMA InitIInv == Init => IInv
<1> SUFFICES ASSUME Init PROVE IInv
  OBVIOUS
<1> USE IntervalAssumption, MaxItemsAssumption, NoTimerAssumption DEF Init
<1>1. TypeOK
  <2>1. items \in Nat /\ position \in Nat /\ 0 \in 0 .. Interval
    OBVIOUS
  <2>2. active = 0 /\ target = position /\ (items > 0 => active < items /\ position < items)
    BY <2>1
  <2>3. /\ hovered \in BOOLEAN /\ focused \in BOOLEAN
        /\ visible \in BOOLEAN /\ reduced \in BOOLEAN
    OBVIOUS
  <2>4. tracked \in SUBSET Signals /\ timer \in 0 .. Interval \cup {NoTimer}
    OBVIOUS
  <2>5. active \in Nat /\ target \in Nat /\ idle \in 0 .. Interval
    BY <2>1, <2>2
  <2> QED
    BY <2>1, <2>2, <2>3, <2>4, <2>5 DEF TypeOK
<1>2. UntrackedIsPaused /\ TimerIffEligible /\ TimerMeasuresInactivity /\ Rests
  BY DEF UntrackedIsPaused, TimerIffEligible, TimerMeasuresInactivity, Eligible, Rests
<1> QED
  BY <1>1, <1>2 DEF IInv

(* scheduleAdvance leaves a timer exactly if autoplay is eligible, and it  *)
(* counts from now.                                                        *)
LEMMA ScheduledTimer ==
    ASSUME ScheduleAdvance, idle' = 0
    PROVE  /\ timer' \in 0 .. Interval \cup {NoTimer} /\ idle' \in 0 .. Interval
           /\ TimerIffEligible' /\ TimerMeasuresInactivity'
  BY IntervalAssumption, NoTimerAssumption
     DEF ScheduleAdvance, TimerIffEligible, TimerMeasuresInactivity

(* The reschedule effect tracks what it read when it ran. *)
LEMMA EffectTracks ==
    ASSUME tracked' = EffectReads',
           hovered' \in BOOLEAN, focused' \in BOOLEAN
    PROVE  tracked' \in SUBSET Signals /\ UntrackedIsPaused'
  BY DEF EffectReads, Signals, UntrackedIsPaused

(***************************************************************************)
(* A signal changes that the effect may or may not track.  When it is not  *)
(* tracked, autoplay is not eligible before the change nor after it.       *)
(***************************************************************************)
LEMMA RescheduleFacts ==
    ASSUME IInv, life = "mounted", life' = life, items' = items,
           NEW signal \in {"reduced", "hovered", "focused", "visible", "active"},
           Reschedule(signal), idle' = 0,
           hovered' \in BOOLEAN, focused' \in BOOLEAN,
           visible' \in BOOLEAN, reduced' \in BOOLEAN,
           signal # "hovered" => hovered' = hovered,
           signal # "focused" => focused' = focused,
           signal # "visible" => visible' = visible,
           signal # "reduced" => reduced' = reduced
    PROVE  /\ timer' \in 0 .. Interval \cup {NoTimer} /\ idle' \in 0 .. Interval
           /\ tracked' \in SUBSET Signals
           /\ UntrackedIsPaused' /\ TimerIffEligible' /\ TimerMeasuresInactivity'
<1>1. CASE signal \in tracked
  BY <1>1, ScheduledTimer, EffectTracks DEF Reschedule
<1>2. CASE signal \notin tracked
  <2>1. UNCHANGED <<timer, tracked>> /\ idle' \in 0 .. Interval
    BY <1>2, IntervalAssumption DEF Reschedule
  <2>2. signal \in {"focused", "visible"}
    BY <1>2 DEF IInv, UntrackedIsPaused
  <2>3. hovered' = hovered /\ reduced' = reduced
    BY <2>2
  <2>4. (hovered \/ (focused /\ focused' = focused))
    BY <1>2, <2>2 DEF IInv, UntrackedIsPaused
  <2>5. ~Eligible /\ ~Eligible'
    BY <2>3, <2>4 DEF Eligible, Paused
  <2>6. UntrackedIsPaused'
    BY <1>2, <2>1, <2>2, <2>3, <2>4 DEF IInv, UntrackedIsPaused
  <2>7. TimerIffEligible' /\ TimerMeasuresInactivity'
    BY <2>1, <2>5 DEF IInv, TimerIffEligible, TimerMeasuresInactivity
  <2> QED
    BY <2>1, <2>6, <2>7 DEF IInv, TypeOK
<1> QED
  BY <1>1, <1>2

(* The last item is followed by the first: the index stays an index. *)
LEMMA NextIsItem ==
    ASSUME TypeOK, items > 1
    PROVE  /\ NextIndex \in Nat
           /\ NextIndex < items
<1>1. items \in Nat /\ NearestIndex \in Nat
  BY MaxItemsAssumption DEF TypeOK, NearestIndex
<1> QED
  BY <1>1 DEF NextIndex

(* Where the container is, and where it scrolls to, are items. *)
LEMMA ScrollFacts ==
    ASSUME TypeOK, items' = items, layout' = layout,
           active' \in Nat, items > 0 => active' < items,
           ScrollToActive \/ JumpToActive
    PROVE  /\ position' \in Nat /\ target' \in Nat
           /\ items > 0 => position' < items /\ target' < items
  BY DEF TypeOK, ScrollToActive, JumpToActive

(* Every step of the visitor, the clock and the page keeps the invariant. *)
LEMMA NextIInv == IInv /\ [Next]_vars => IInv'
<1> SUFFICES ASSUME IInv, [Next]_vars PROVE IInv'
  OBVIOUS
<1> USE DEF shape, pauseSignals, place
<1>1. CASE Mount
  <2>1. /\ UntrackedIsPaused' /\ TimerIffEligible' /\ TimerMeasuresInactivity'
        /\ tracked' \in SUBSET Signals /\ timer' \in 0 .. Interval \cup {NoTimer}
        /\ idle' \in 0 .. Interval
    BY <1>1, ScheduledTimer, EffectTracks DEF Mount, IInv, TypeOK
  <2>2. /\ position' \in Nat /\ target' \in Nat
        /\ items > 0 => position' < items /\ target' < items
    BY <1>1, ScrollFacts DEF Mount, IInv, TypeOK
  <2>3. TypeOK'
    BY <1>1, <2>1, <2>2 DEF Mount, IInv, TypeOK
  <2>4. Rests'
    BY <1>1 DEF Mount, Rests, JumpToActive
  <2> QED
    BY <2>1, <2>3, <2>4 DEF IInv
<1>2. CASE Unmount
  <2>1. TypeOK'
    BY <1>2 DEF Unmount, IInv, TypeOK
  <2>2. UntrackedIsPaused' /\ TimerIffEligible' /\ TimerMeasuresInactivity' /\ Rests'
    BY <1>2 DEF Unmount, UntrackedIsPaused, TimerIffEligible, Eligible,
                TimerMeasuresInactivity, Rests
  <2> QED
    BY <2>1, <2>2 DEF IInv
<1>3. CASE PointerMoves \/ FocusMoves \/ VisibilityChanges
  <2>1. \E signal \in {"hovered", "focused", "visible"} :
          /\ Reschedule(signal)
          /\ signal # "hovered" => hovered' = hovered
          /\ signal # "focused" => focused' = focused
          /\ signal # "visible" => visible' = visible
    BY <1>3 DEF PointerMoves, FocusMoves, VisibilityChanges
  <2>2. /\ life = "mounted" /\ idle' = 0 /\ UNCHANGED <<items, layout, life, active, reduced>>
        /\ UNCHANGED <<position, target>>
        /\ hovered' \in BOOLEAN /\ focused' \in BOOLEAN /\ visible' \in BOOLEAN
        /\ reduced' \in BOOLEAN
    BY <1>3 DEF PointerMoves, FocusMoves, VisibilityChanges, IInv, TypeOK
  <2>3. /\ UntrackedIsPaused' /\ TimerIffEligible' /\ TimerMeasuresInactivity'
        /\ tracked' \in SUBSET Signals /\ timer' \in 0 .. Interval \cup {NoTimer}
        /\ idle' \in 0 .. Interval
    BY <2>1, <2>2, RescheduleFacts
  <2>4. TypeOK'
    BY <2>2, <2>3 DEF IInv, TypeOK
  <2>5. Rests'
    BY <2>2 DEF IInv, Rests
  <2> QED
    BY <2>3, <2>4, <2>5 DEF IInv
<1>4. CASE MotionPreferenceChanges
  <2>1. /\ life = "mounted" /\ Reschedule("reduced")
        /\ UNCHANGED <<items, layout, life, active, hovered, focused, visible>>
        /\ hovered' \in BOOLEAN /\ focused' \in BOOLEAN /\ visible' \in BOOLEAN
        /\ reduced' \in BOOLEAN
        /\ ScrollToActive \/ JumpToActive
        /\ reduced' => JumpToActive
        /\ idle' = 0
    BY <1>4 DEF MotionPreferenceChanges, IInv, TypeOK
  <2>2. /\ UntrackedIsPaused' /\ TimerIffEligible' /\ TimerMeasuresInactivity'
        /\ tracked' \in SUBSET Signals /\ timer' \in 0 .. Interval \cup {NoTimer}
        /\ idle' \in 0 .. Interval
    BY <2>1, RescheduleFacts
  <2>3. /\ position' \in Nat /\ target' \in Nat
        /\ items > 0 => position' < items /\ target' < items
    BY <2>1, ScrollFacts DEF IInv, TypeOK
  <2>4. TypeOK'
    BY <2>1, <2>2, <2>3 DEF IInv, TypeOK
  <2>5. Rests'
    BY <2>1 DEF Rests, JumpToActive
  <2> QED
    BY <2>2, <2>4, <2>5 DEF IInv
<1>5. CASE Interact \/ ManualScroll \/ SmoothScrollStep
  <2>1. /\ life = "mounted" /\ ScheduleAdvance /\ idle' = 0
        /\ UNCHANGED <<items, layout, life, active, hovered, focused, visible, reduced, tracked>>
    BY <1>5 DEF Interact, ManualScroll, SmoothScrollStep
  <2>2. /\ timer' \in 0 .. Interval \cup {NoTimer} /\ idle' \in 0 .. Interval
        /\ TimerIffEligible' /\ TimerMeasuresInactivity'
    BY <2>1, ScheduledTimer
  <2>3. UntrackedIsPaused'
    BY <2>1 DEF IInv, UntrackedIsPaused
  <2>4. items \in Nat
    BY MaxItemsAssumption DEF IInv, TypeOK
  <2>5. /\ position' \in Nat /\ target' \in Nat
        /\ items > 0 => position' < items /\ target' < items
    BY <1>5, <2>4 DEF Interact, ManualScroll, SmoothScrollStep, IInv, TypeOK
  <2>6. TypeOK'
    BY <2>1, <2>2, <2>5 DEF IInv, TypeOK
  <2>7. Rests'
    BY <1>5 DEF Interact, ManualScroll, SmoothScrollStep, IInv, Rests
  <2> QED
    BY <2>2, <2>3, <2>6, <2>7 DEF IInv
<1>6. CASE TimerFires
  <2>1. /\ life = "mounted" /\ timer = 0 /\ Reschedule("active") /\ ScrollToActive
        /\ active' = NextIndex /\ idle' = 0
        /\ UNCHANGED <<items, layout, life, hovered, focused, visible, reduced>>
    BY <1>6 DEF TimerFires
  <2>2. items > 1 /\ ~ reduced
    BY <2>1, NoTimerAssumption DEF IInv, TimerIffEligible, Eligible
  <2>3. active' \in Nat /\ active' < items
    BY <2>1, <2>2, NextIsItem DEF IInv
  <2>4. /\ UntrackedIsPaused' /\ TimerIffEligible' /\ TimerMeasuresInactivity'
        /\ tracked' \in SUBSET Signals /\ timer' \in 0 .. Interval \cup {NoTimer}
        /\ idle' \in 0 .. Interval
    BY <2>1, RescheduleFacts DEF IInv, TypeOK
  <2>5. /\ position' \in Nat /\ target' \in Nat
        /\ items > 0 => position' < items /\ target' < items
    BY <2>1, <2>3, ScrollFacts DEF IInv
  <2>6. TypeOK'
    BY <2>1, <2>3, <2>4, <2>5 DEF IInv, TypeOK
  <2>7. Rests'
    BY <2>1, <2>2 DEF Rests
  <2> QED
    BY <2>4, <2>6, <2>7 DEF IInv
<1>7. CASE Tick
  <2>1. /\ life = "mounted" /\ idle < Interval /\ timer # 0 /\ idle' = idle + 1
        /\ timer' = IF timer = NoTimer THEN NoTimer ELSE timer - 1
        /\ UNCHANGED <<items, layout, life, active, hovered, focused, visible, reduced,
                       tracked, position, target>>
    BY <1>7 DEF Tick
  <2>2. idle \in 0 .. Interval /\ timer \in 0 .. Interval \cup {NoTimer} /\ Interval \in Nat
    BY IntervalAssumption DEF IInv, TypeOK
  <2>3. /\ idle' \in 0 .. Interval /\ timer' \in 0 .. Interval \cup {NoTimer}
        /\ timer' # NoTimer <=> timer # NoTimer
    BY <2>1, <2>2, NoTimerAssumption
  <2>4. TypeOK'
    BY <2>1, <2>3 DEF IInv, TypeOK
  <2>5. UntrackedIsPaused' /\ TimerIffEligible'
    BY <2>1, <2>3 DEF IInv, UntrackedIsPaused, TimerIffEligible, Eligible, Paused
  <2>6. TimerMeasuresInactivity'
    BY <2>1, <2>2, <2>3 DEF IInv, TimerMeasuresInactivity
  <2>7. Rests'
    BY <2>1 DEF IInv, Rests
  <2> QED
    BY <2>4, <2>5, <2>6, <2>7 DEF IInv
<1>8. CASE UNCHANGED vars
  BY <1>8 DEF vars, IInv, TypeOK, UntrackedIsPaused, TimerIffEligible,
              TimerMeasuresInactivity, Eligible, Paused, Rests
<1> QED
  BY <1>1, <1>2, <1>3, <1>4, <1>5, <1>6, <1>7, <1>8 DEF Next, Visitor, Pausing

-----------------------------------------------------------------------------
(***************************************************************************)
(* The carousel keeps its inductive invariant.                             *)
(***************************************************************************)
THEOREM Invariant == Spec => []IInv
<1> QED
  BY InitIInv, NextIInv, PTL DEF Spec

(***************************************************************************)
(* Type correctness of the carousel.                                       *)
(***************************************************************************)
THEOREM TypeCorrect == Spec => []TypeOK
<1>1. IInv => TypeOK
  BY DEF IInv
<1> QED
  BY <1>1, Invariant, PTL

(***************************************************************************)
(* An advance is scheduled exactly while autoplay may run, although the    *)
(* effect that reschedules it does not track every signal it depends on.   *)
(***************************************************************************)
THEOREM NeverStuckNorStray == Spec => []TimerIffEligible
<1>1. IInv => TimerIffEligible
  BY DEF IInv
<1> QED
  BY <1>1, Invariant, PTL

(***************************************************************************)
(* The timer counts from the last event of any kind, also when the event   *)
(* did not make the effect run again: what the effect does not track is    *)
(* masked by a pause condition that it tracks.                             *)
(***************************************************************************)
THEOREM TimerIsExact == Spec => [](TimerMeasuresInactivity /\ UntrackedIsPaused)
<1>1. IInv => TimerMeasuresInactivity /\ UntrackedIsPaused
  BY DEF IInv
<1> QED
  BY <1>1, Invariant, PTL

(***************************************************************************)
(* Under reduced motion only the visitor moves the carousel: it rests when *)
(* the wish comes, and no advance is scheduled while it lasts.             *)
(***************************************************************************)
THEOREM VisitorMovesAlone == Spec => ReducedMotionRests
<1>1. ASSUME IInv, [Next]_vars, life = "mounted", reduced, reduced', place' # place
      PROVE  ManualScroll
  <2>1. position = target
    BY <1>1 DEF IInv, Rests
  <2>2. ~ TimerFires
    BY <1>1, NoTimerAssumption DEF TimerFires, IInv, TimerIffEligible, Eligible
  <2> QED
    BY <1>1, <2>1, <2>2
       DEF Next, Mount, Unmount, Visitor, Pausing, PointerMoves, FocusMoves, VisibilityChanges,
           MotionPreferenceChanges, Interact, SmoothScrollStep, Tick, vars, place
<1>2. IInv /\ [Next]_vars =>
        [life = "mounted" /\ reduced /\ reduced' /\ place' # place => ManualScroll]_vars
  BY <1>1
<1> QED
  BY <1>2, Invariant, PTL DEF Spec, ReducedMotionRests

-----------------------------------------------------------------------------
(***************************************************************************)
(* The language of a visit: the path algebra first, then the invariant     *)
(* that ties the document to it.                                           *)
(***************************************************************************)
(* A language in front of a page. *)
LEMMA VisitPrefixed == ASSUME NEW l, NEW p PROVE <<l>> \o <<p>> = <<l, p>>
<1> DEFINE S == {l, p}
<1>1. <<l>> \o <<p>> \in Seq(S) /\ <<l, p>> \in Seq(S)
  OBVIOUS
<1>2. Len(<<l>> \o <<p>>) = 2 /\ Len(<<l, p>>) = 2
  OBVIOUS
<1>3. \A i \in 1 .. 2 : (<<l>> \o <<p>>)[i] = <<l, p>>[i]
  OBVIOUS
<1> HIDE DEF S
<1> QED
  BY <1>1, <1>2, <1>3, SeqEqual

(***************************************************************************)
(* A path is a page, after a language or without one, or a language alone; *)
(* what is left without the language is the page or nothing.               *)
(***************************************************************************)
LEMMA VisitPathForms ==
    ASSUME NEW path \in Visit!Paths
    PROVE  \/ \E p \in Pages :
                /\ path = <<p>> /\ p \notin Languages
                /\ Visit!StripLanguageSegment(path) = <<p>>
                /\ Visit!ResolveLanguage(path) = Fallback /\ Visit!UseLanguage(path) = Fallback
           \/ \E l \in Languages, p \in Pages :
                /\ path = <<l, p>> /\ p \notin Languages
                /\ Visit!StripLanguageSegment(path) = <<p>>
                /\ Visit!ResolveLanguage(path) = l /\ Visit!UseLanguage(path) = l
           \/ \E l \in Languages :
                /\ path = <<l>>
                /\ Visit!StripLanguageSegment(path) = <<>>
                /\ Visit!ResolveLanguage(path) = l /\ Visit!UseLanguage(path) = l
<1>1. CASE \E p \in Pages : path = <<p>>
  <2>1. PICK p \in Pages : path = <<p>>
    BY <1>1
  <2>2. p \notin Languages
    BY LocaleAssumption
  <2> QED
    BY <2>1, <2>2 DEF Visit!StripLanguageSegment, Visit!ResolveLanguage, Visit!UseLanguage
<1>2. CASE \E l \in Languages, p \in Pages : path = <<l, p>>
  <2>1. PICK l \in Languages, p \in Pages : path = <<l, p>>
    BY <1>2
  <2>2. Tail(path) = <<p>> /\ Len(path) = 2 /\ path[1] = l
    BY <2>1
  <2>3. p \notin Languages
    BY LocaleAssumption
  <2> QED
    BY <2>1, <2>2, <2>3 DEF Visit!StripLanguageSegment, Visit!ResolveLanguage, Visit!UseLanguage
<1>3. CASE \E l \in Languages : path = <<l>>
  <2>1. PICK l \in Languages : path = <<l>>
    BY <1>3
  <2>2. Tail(path) = <<>> /\ path[1] = l
    BY <2>1
  <2>3. l \notin Pages
    BY LocaleAssumption
  <2> QED
    BY <2>1, <2>2, <2>3 DEF Visit!StripLanguageSegment, Visit!ResolveLanguage, Visit!UseLanguage
<1> QED
  BY <1>1, <1>2, <1>3 DEF Visit!Paths, Visit!PrerenderedPaths

(* The server's reading of a path and the client's are the same. *)
LEMMA VisitServerAgreesWithClient ==
    ASSUME NEW path \in Visit!Paths
    PROVE  /\ Visit!ResolveLanguage(path) = Visit!UseLanguage(path)
           /\ Visit!ResolveLanguage(path) \in Languages
           /\ path # <<>>
<1>1. CASE \E p \in Pages : path = <<p>> /\ Visit!ResolveLanguage(path) = Fallback
                                       /\ Visit!UseLanguage(path) = Fallback
  <2>1. PICK p \in Pages : path = <<p>> /\ Visit!ResolveLanguage(path) = Fallback
                                       /\ Visit!UseLanguage(path) = Fallback
    BY <1>1
  <2>2. Fallback \in Languages
    BY LocaleAssumption
  <2> QED
    BY <2>1, <2>2
<1>2. CASE \E l \in Languages, p \in Pages :
             path = <<l, p>> /\ Visit!ResolveLanguage(path) = l /\ Visit!UseLanguage(path) = l
  BY <1>2
<1>3. CASE \E l \in Languages :
             path = <<l>> /\ Visit!ResolveLanguage(path) = l /\ Visit!UseLanguage(path) = l
  BY <1>3
<1> QED
  BY <1>1, <1>2, <1>3, VisitPathForms

(* The links of a path of which a page is left without its language. *)
LEMMA VisitLinksOfPage ==
    ASSUME NEW path, NEW p \in Pages, Visit!StripLanguageSegment(path) = <<p>>
    PROVE  /\ Visit!UnprefixedHref(path) = <<p>>
           /\ \A l \in Languages : Visit!LanguageHref(l, path) = <<l, p>>
<1>1. <<p>> # <<>>
  OBVIOUS
<1> QED
  BY <1>1, VisitPrefixed DEF Visit!UnprefixedHref, Visit!LanguageHref

(* The links of a path that is only a language. *)
LEMMA VisitLinksOfLanguage ==
    ASSUME NEW path, Visit!StripLanguageSegment(path) = <<>>
    PROVE  /\ Visit!UnprefixedHref(path) = <<"">>
           /\ \A l \in Languages : Visit!LanguageHref(l, path) = <<l>>
<1>1. \A l \in Languages : <<l>> \o <<>> = <<l>>
  OBVIOUS
<1> QED
  BY <1>1 DEF Visit!UnprefixedHref, Visit!LanguageHref

(* What is left of each of those links without its language. *)
LEMMA VisitStripOfLinks ==
    /\ \A p \in Pages : Visit!StripLanguageSegment(<<p>>) = <<p>>
    /\ \A l \in Languages, p \in Pages : Visit!StripLanguageSegment(<<l, p>>) = <<p>>
    /\ \A l \in Languages : Visit!StripLanguageSegment(<<l>>) = <<>>
<1>1. \A p \in Pages : p \notin Languages
  BY LocaleAssumption
<1> QED
  BY <1>1 DEF Visit!StripLanguageSegment

(* What the web server makes of them, and their language. *)
LEMMA VisitServedLinks ==
    /\ \A p \in Pages : <<p>> \in Visit!PrerenderedPaths
    /\ \A l \in Languages, p \in Pages :
         <<l, p>> \in Visit!Paths /\ Visit!Served(<<l, p>>) = <<l, p>> /\ Visit!ResolveLanguage(<<l, p>>) = l
    /\ \A l \in Languages :
         <<l>> \in Visit!Paths /\ Visit!Served(<<l>>) = <<l, "">> /\ Visit!ResolveLanguage(<<l>>) = l
<1>1. ASSUME NEW l \in Languages PROVE <<l>> \notin Visit!PrerenderedPaths
  <2>1. \A p \in Pages : <<l>> # <<p>>
    BY LocaleAssumption
  <2>2. \A k \in Languages, p \in Pages : <<l>> # <<k, p>>
    OBVIOUS
  <2> QED
    BY <2>1, <2>2 DEF Visit!PrerenderedPaths
<1>2. \A p \in Pages : <<p>> \in Visit!PrerenderedPaths
  BY DEF Visit!PrerenderedPaths
<1>3. ASSUME NEW l \in Languages, NEW p \in Pages
      PROVE  <<l, p>> \in Visit!Paths /\ Visit!Served(<<l, p>>) = <<l, p>> /\ Visit!ResolveLanguage(<<l, p>>) = l
  <2>1. <<l, p>> \in Visit!PrerenderedPaths
    BY DEF Visit!PrerenderedPaths
  <2> QED
    BY <2>1 DEF Visit!Served, Visit!Paths, Visit!ResolveLanguage
<1>4. ASSUME NEW l \in Languages
      PROVE  <<l>> \in Visit!Paths /\ Visit!Served(<<l>>) = <<l, "">> /\ Visit!ResolveLanguage(<<l>>) = l
  BY <1>1 DEF Visit!Served, Visit!Paths, Visit!ResolveLanguage
<1> QED
  BY <1>2, <1>3, <1>4

(* Every path of the site has reciprocal alternates that exist. *)
LEMMA VisitReciprocal == ASSUME NEW path \in Visit!Paths PROVE Visit!HasAlternates(path)
<1>1. CASE \E p \in Pages : Visit!StripLanguageSegment(path) = <<p>>
  <2>1. PICK p \in Pages : Visit!StripLanguageSegment(path) = <<p>>
    BY <1>1
  <2>2. /\ Visit!UnprefixedHref(path) = <<p>>
        /\ \A l \in Languages : Visit!LanguageHref(l, path) = <<l, p>>
    BY <2>1, VisitLinksOfPage
  <2>3. /\ Visit!UnprefixedHref(<<p>>) = <<p>>
        /\ \A l \in Languages : Visit!LanguageHref(l, <<p>>) = <<l, p>>
    BY VisitStripOfLinks, VisitLinksOfPage
  <2>4. \A k \in Languages :
          /\ Visit!UnprefixedHref(<<k, p>>) = <<p>>
          /\ \A l \in Languages : Visit!LanguageHref(l, <<k, p>>) = <<l, p>>
    BY VisitStripOfLinks, VisitLinksOfPage
  <2> QED
    BY <2>2, <2>3, <2>4, VisitServedLinks DEF Visit!HasAlternates, Visit!SameAlternates
<1>2. CASE Visit!StripLanguageSegment(path) = <<>>
  <2>1. /\ Visit!UnprefixedHref(path) = <<"">>
        /\ \A l \in Languages : Visit!LanguageHref(l, path) = <<l>>
    BY <1>2, VisitLinksOfLanguage
  <2>2. "" \in Pages
    BY LocaleAssumption
  <2>3. /\ Visit!UnprefixedHref(<<"">>) = <<"">>
        /\ \A l \in Languages : Visit!LanguageHref(l, <<"">>) = <<l, "">>
    BY <2>2, VisitStripOfLinks, VisitLinksOfPage
  <2>4. \A k \in Languages :
          /\ Visit!UnprefixedHref(<<k>>) = <<"">>
          /\ \A l \in Languages : Visit!LanguageHref(l, <<k>>) = <<l>>
    BY VisitStripOfLinks, VisitLinksOfLanguage
  <2>5. \A l \in Languages :
          /\ <<l>> \in Visit!Paths /\ Visit!ResolveLanguage(<<l>>) = l
          /\ Visit!Served(<<l>>) = <<l, "">> /\ Visit!Served(<<l, "">>) = <<l, "">>
    BY <2>2, VisitServedLinks
  <2>6. <<"">> \in Visit!PrerenderedPaths
    BY <2>2, VisitServedLinks
  <2>7. Visit!SameAlternates(path, <<"">>)
    BY <2>1, <2>3, <2>5 DEF Visit!SameAlternates
  <2>8. \A k \in Languages : Visit!SameAlternates(path, <<k>>)
    BY <2>1, <2>4 DEF Visit!SameAlternates
  <2> QED
    BY <2>1, <2>5, <2>6, <2>7, <2>8 DEF Visit!HasAlternates
<1> QED
  BY <1>1, <1>2, VisitPathForms

-----------------------------------------------------------------------------
(* Only a hydrated page navigates or has the effect scheduled. *)
VisitWorksWhenHydrated == effect \/ pending # Visit!NoNavigation => location # Visit!NotHydrated

(***************************************************************************)
(* SettledLanguage is inductive with the two facts it needs of a page that *)
(* navigates: it is hydrated, so that Rendered is the router's path, and   *)
(* every path it can go to is one of the site's.                           *)
(***************************************************************************)
VisitIInv == Visit!TypeOK /\ VisitWorksWhenHydrated /\ Visit!SettledLanguage

LEMMA VisitInitIInv == Visit!Init => VisitIInv
<1> SUFFICES ASSUME Visit!Init PROVE VisitIInv
  OBVIOUS
<1>1. Visit!ResolveLanguage(url) = Visit!UseLanguage(url) /\ Visit!ResolveLanguage(url) \in Languages
  BY VisitServerAgreesWithClient DEF Visit!Init
<1> QED
  BY <1>1 DEF Visit!Init, VisitIInv, Visit!TypeOK, Visit!SettledLanguage, VisitWorksWhenHydrated, Visit!Rendered

LEMMA VisitDocumentIInv ==
    ASSUME NEW path \in Visit!Paths, Visit!Document(path)
    PROVE  VisitIInv'
<1>1. Visit!ResolveLanguage(path) = Visit!UseLanguage(path) /\ Visit!ResolveLanguage(path) \in Languages
  BY VisitServerAgreesWithClient
<1> QED
  BY <1>1 DEF Visit!Document, VisitIInv, Visit!TypeOK, Visit!SettledLanguage, VisitWorksWhenHydrated,
     Visit!Rendered, Visit!NotHydrated

LEMMA VisitRenderedIsPath == Visit!TypeOK => Visit!Rendered \in Visit!Paths
  BY DEF Visit!TypeOK, Visit!Rendered

LEMMA VisitStepIInv == VisitIInv /\ [Visit!Next]_Visit!vars => VisitIInv'
<1> SUFFICES ASSUME VisitIInv, [Visit!Next]_Visit!vars PROVE VisitIInv'
  OBVIOUS
<1> USE DEF VisitIInv
<1>1. ASSUME NEW path \in Visit!Paths, Visit!Load(path) PROVE VisitIInv'
  BY <1>1, VisitDocumentIInv DEF Visit!Load
<1>2. ASSUME NEW path \in Visit!Paths, Visit!Traverse(path) PROVE VisitIInv'
  BY <1>2 DEF Visit!Traverse, Visit!TypeOK, Visit!SettledLanguage, VisitWorksWhenHydrated, Visit!Rendered
<1>3. ASSUME NEW wanted \in Languages, Visit!SwitchLanguage(wanted) PROVE VisitIInv'
  <2>1. Visit!LanguageHref(wanted, Visit!Rendered) \in Visit!Paths
    BY VisitReciprocal, VisitRenderedIsPath DEF Visit!HasAlternates
  <2>2. CASE location = Visit!NotHydrated
    BY <1>3, <2>1, <2>2, VisitDocumentIInv DEF Visit!SwitchLanguage
  <2>3. CASE location # Visit!NotHydrated
    BY <1>3, <2>1, <2>3 DEF Visit!SwitchLanguage, Visit!TypeOK, Visit!SettledLanguage, VisitWorksWhenHydrated,
       Visit!Rendered
  <2> QED
    BY <2>2, <2>3
<1>4. CASE Visit!Hydrate
  <2>1. url # Visit!NotHydrated
    BY VisitServerAgreesWithClient DEF Visit!TypeOK, Visit!NotHydrated
  <2> QED
    BY <1>4, <2>1 DEF Visit!Hydrate, Visit!TypeOK, Visit!SettledLanguage, VisitWorksWhenHydrated
<1>5. CASE Visit!Navigate
  <2>1. pending \in Visit!Paths /\ location # Visit!NotHydrated
    BY <1>5 DEF Visit!Navigate, Visit!TypeOK, VisitWorksWhenHydrated
  <2>2. pending # Visit!NotHydrated
    BY <2>1, VisitServerAgreesWithClient DEF Visit!NotHydrated
  <2>3. Visit!TypeOK'
    BY <1>5, <2>1 DEF Visit!Navigate, Visit!TypeOK, Visit!NoNavigation
  <2>4. VisitWorksWhenHydrated'
    BY <1>5, <2>2 DEF Visit!Navigate, VisitWorksWhenHydrated
  <2>5. Visit!Rendered = location /\ Visit!Rendered' = pending
    BY <1>5, <2>1, <2>2 DEF Visit!Navigate, Visit!Rendered
  <2>6. Visit!SettledLanguage'
    <3>1. Visit!UseLanguage(Visit!Rendered') = Visit!UseLanguage(pending)
      BY <2>5
    <3>2. effect' = (effect \/ Visit!UseLanguage(pending) # Visit!UseLanguage(location)) /\ lang' = lang
      BY <1>5 DEF Visit!Navigate
    <3> QED
      BY <2>5, <3>1, <3>2 DEF Visit!SettledLanguage, Visit!UseLanguage
  <2> QED
    BY <2>3, <2>4, <2>6
<1>6. CASE Visit!EffectRuns
  <2>1. location # Visit!NotHydrated /\ location \in Visit!Paths
    BY <1>6 DEF Visit!EffectRuns, Visit!TypeOK, VisitWorksWhenHydrated
  <2>2. Visit!UseLanguage(location) \in Languages
    BY <2>1, VisitServerAgreesWithClient
  <2> QED
    BY <1>6, <2>1, <2>2 DEF Visit!EffectRuns, Visit!TypeOK, Visit!SettledLanguage, VisitWorksWhenHydrated,
       Visit!Rendered, Visit!UseLanguage
<1>7. CASE UNCHANGED Visit!vars
  BY <1>7 DEF Visit!vars, Visit!TypeOK, Visit!SettledLanguage, VisitWorksWhenHydrated, Visit!Rendered, Visit!UseLanguage
<1> QED
  BY <1>1, <1>2, <1>3, <1>4, <1>5, <1>6, <1>7 DEF Visit!Next, Visit!Visitor, Visit!Page

(* The inductive invariant holds throughout every visit. *)
THEOREM VisitInvariant == Visit!Spec => []VisitIInv
  BY VisitInitIInv, VisitStepIInv, PTL DEF Visit!Spec

(* Every variable stays in its type (TypeOK). *)
THEOREM VisitTypeCorrect == Visit!Spec => []Visit!TypeOK
<1>1. VisitIInv => Visit!TypeOK
  BY DEF VisitIInv
<1> QED
  BY <1>1, VisitInvariant, PTL

(* A document in another language than its page has the effect to come. *)
THEOREM VisitLanguageSettled == Visit!Spec => []Visit!SettledLanguage
<1>1. VisitIInv => Visit!SettledLanguage
  BY DEF VisitIInv
<1> QED
  BY <1>1, VisitInvariant, PTL

(* Every page of every visit has reciprocal alternates that exist. *)
THEOREM VisitAlternatesAgree == Visit!Spec => []Visit!AlternatesReciprocal
<1>1. VisitIInv => Visit!AlternatesReciprocal
  BY VisitReciprocal, VisitRenderedIsPath DEF VisitIInv, Visit!AlternatesReciprocal
<1> QED
  BY <1>1, VisitInvariant, PTL

(* Hydration finds the language that the server put into the document. *)
THEOREM VisitHydrationKeepsLanguage == Visit!Spec => Visit!HydrationAgrees
<1>1. VisitIInv /\ [Visit!Next]_Visit!vars
        => (location = Visit!NotHydrated /\ location' # Visit!NotHydrated
              => lang = Visit!UseLanguage(location'))
  <2> SUFFICES ASSUME VisitIInv, [Visit!Next]_Visit!vars, location = Visit!NotHydrated, location' # Visit!NotHydrated
               PROVE  lang = Visit!UseLanguage(location')
    OBVIOUS
  <2>1. ~effect /\ pending = Visit!NoNavigation
    BY DEF VisitIInv, VisitWorksWhenHydrated
  <2>2. Visit!Hydrate
    BY <2>1 DEF Visit!Next, Visit!Visitor, Visit!Page, Visit!Load, Visit!Document, Visit!SwitchLanguage, Visit!Traverse,
       Visit!Navigate, Visit!EffectRuns, Visit!vars
  <2>3. lang = Visit!UseLanguage(Visit!Rendered)
    BY <2>1 DEF VisitIInv, Visit!SettledLanguage
  <2> QED
    BY <2>2, <2>3 DEF Visit!Hydrate, Visit!Rendered
<1>2. VisitIInv /\ [Visit!Next]_Visit!vars
        => [location = Visit!NotHydrated /\ location' # Visit!NotHydrated
              => lang = Visit!UseLanguage(location')]_Visit!vars
  BY <1>1
<1> QED
  BY <1>2, VisitInvariant, PTL DEF Visit!Spec, Visit!HydrationAgrees

-----------------------------------------------------------------------------
(***************************************************************************)
(* The build.  What a successful build ships is decided by steps far       *)
(* apart, so the inductive invariant follows a build through its phases:   *)
(* what each finished script left, whose pages dist/ holds, which pages    *)
(* the hashes found stand for.                                             *)
(***************************************************************************)
(***************************************************************************)
(* The parts of the inductive invariant that are no properties themselves. *)
(***************************************************************************)

(* The file of public/ is never patched. *)
BuildSourceHeaderKept == working.header = Build!SelfOnly

(* The command was not given in the future. *)
BuildBegunInPast == job.begun <= calendar

(* What a finished prebuild script left; vinxi finds all three finished. *)
BuildFinished(s) ==
    \/ phase = "prebuild" /\ scripts[s] = "done"
    \/ phase \in {"clean", "emit"} /\ job.command = "build"

BuildPrebuildFresh ==
    /\ BuildFinished("fetcher") => working.data >= job.begun
    /\ BuildFinished("yaml") => working.constants = yaml
    /\ BuildFinished("manifest") => working.manifest = yaml

(* Between its two steps vinxi has an empty dist/. *)
BuildEmitIntoEmpty == phase = "emit" => dist = Build!EmptyDist(job.dsn)

(* Since when the pages of a build in progress are its own. *)
BuildPagesOfBuild ==
    job.command = "build" /\ phase \in {"copy", "collect", "hash", "write", "succeeded"} =>
        /\ dist.dsn = job.dsn
        /\ dist.rows >= job.begun
        /\ dist.manifest = dist.constants
        /\ phase = "copy" => dist.rows = working.data
        /\ phase # "copy" => dist.data = dist.rows

(* The hashes found are those of the pages read so far. *)
BuildHashesOfRead ==
    phase = "hash" =>
        \A b \in Bodies :
            b \in csp.found <=> \E p \in Html \ csp.todo : Build!RunsInline(p, b)

(* A process starts from nothing: what an earlier one held is gone. *)
BuildProcessesFresh ==
    /\ phase # "prebuild" => scripts = Build!NotSpawned
    /\ phase \notin {"hash", "write"} => csp = Build!NoMemory

(* The header about to be written is right. *)
BuildPatchedFits ==
    phase = "write" =>
        csp.patched.whole /\ Build!FitsPages(csp.patched.script) /\ Build!FitsDsn(csp.patched, job.dsn)

BuildIInv ==
    /\ Build!TypeOK
    /\ BuildSourceHeaderKept /\ BuildBegunInPast /\ BuildPrebuildFresh /\ BuildEmitIntoEmpty
    /\ BuildPagesOfBuild /\ BuildHashesOfRead /\ BuildProcessesFresh /\ BuildPatchedFits
    /\ Build!HeaderFailsClosed /\ Build!HeaderFitsPages /\ Build!TelemetryFitsDsn

-----------------------------------------------------------------------------

(* The types of the constant records and of an empty dist/. *)
LEMMA BuildHeaderTypes == Build!SelfOnly \in Build!HeaderType /\ Build!NoHeader \in Build!HeaderType
  BY DEF Build!SelfOnly, Build!NoHeader, Build!HeaderType

LEMMA BuildNoMemoryType == Build!NoMemory \in Build!CspType /\ Build!NoMemory.found = {}
  BY BuildHeaderTypes DEF Build!NoMemory, Build!CspType

LEMMA BuildEmptyDistType == ASSUME NEW d \in Dsns PROVE Build!EmptyDist(d) \in Build!DistType
<1>1. [p \in Html |-> {}] \in [Html -> SUBSET Tags]
  OBVIOUS
<1> QED
  BY <1>1, BuildHeaderTypes DEF Build!EmptyDist, Build!DistType, Build!Nothing

(* A fresh checkout satisfies the inductive invariant. *)
LEMMA BuildInitIInv == Build!Init => BuildIInv
<1> SUFFICES ASSUME Build!Init PROVE BuildIInv
  OBVIOUS
<1>1. phase = "ready" /\ csp = Build!NoMemory /\ scripts = Build!NotSpawned
  BY DEF Build!Init
<1>2. Build!TypeOK
  <2>1. calendar \in Nat /\ yaml \in Nat
    BY DEF Build!Init
  <2>2. working \in Build!WorkingType
    BY BuildHeaderTypes DEF Build!Init, Build!WorkingType, Build!Nothing
  <2>3. job \in Build!JobType
    BY DEF Build!Init, Build!JobType, Build!Commands
  <2>4. dist \in Build!DistType
    BY <2>3, BuildEmptyDistType DEF Build!Init, Build!JobType
  <2>5. scripts \in [Build!Prebuilds -> {"waiting", "running", "done"}]
    BY DEF Build!Init, Build!NotSpawned
  <2>6. phase \in Build!Phases
    BY <1>1 DEF Build!Phases, Build!Stopped
  <2> QED
    BY <1>1, <2>1, <2>2, <2>3, <2>4, <2>5, <2>6, BuildNoMemoryType DEF Build!TypeOK
<1>3. BuildSourceHeaderKept /\ BuildBegunInPast
  BY DEF Build!Init, BuildSourceHeaderKept, BuildBegunInPast
<1>4. ~dist.header.whole
  BY DEF Build!Init, Build!EmptyDist, Build!NoHeader, Build!SelfOnly
<1> QED
  BY <1>1, <1>2, <1>3, <1>4 DEF BuildIInv, BuildPrebuildFresh, BuildFinished, BuildEmitIntoEmpty,
     BuildPagesOfBuild, BuildHashesOfRead, BuildProcessesFresh, BuildPatchedFits, Build!HeaderFailsClosed,
     Build!HeaderFitsPages, Build!TelemetryFitsDsn, Build!BuildSucceeded

-----------------------------------------------------------------------------
(* The world and the commands. *)
LEMMA BuildCalendarMovesIInv == BuildIInv /\ Build!CalendarMoves => BuildIInv'
  BY DEF BuildIInv, Build!CalendarMoves, Build!TypeOK, BuildSourceHeaderKept, BuildBegunInPast, Build!JobType,
     BuildPrebuildFresh, BuildFinished, BuildEmitIntoEmpty, BuildPagesOfBuild, BuildHashesOfRead,
     BuildProcessesFresh, BuildPatchedFits, Build!HeaderFailsClosed, Build!HeaderFitsPages,
     Build!TelemetryFitsDsn, Build!BuildSucceeded, Build!FitsPages, Build!RunsInline

LEMMA BuildEditYamlIInv == BuildIInv /\ Build!EditYaml => BuildIInv'
  BY DEF BuildIInv, Build!EditYaml, Build!TypeOK, BuildSourceHeaderKept, BuildBegunInPast, Build!Stopped,
     BuildPrebuildFresh, BuildFinished, BuildEmitIntoEmpty, BuildPagesOfBuild, BuildHashesOfRead,
     BuildProcessesFresh, BuildPatchedFits, Build!HeaderFailsClosed, Build!HeaderFitsPages,
     Build!TelemetryFitsDsn, Build!BuildSucceeded, Build!FitsPages, Build!RunsInline

LEMMA BuildFailIInv == BuildIInv /\ Build!Fail => BuildIInv'
<1> SUFFICES ASSUME BuildIInv, Build!Fail PROVE BuildIInv'
  OBVIOUS
<1>1. Build!TypeOK'
  BY BuildNoMemoryType DEF BuildIInv, Build!Fail, Build!TypeOK, Build!Phases, Build!Stopped, Build!NotSpawned
<1> QED
  BY <1>1 DEF BuildIInv, Build!Fail, BuildSourceHeaderKept, BuildBegunInPast, Build!Stopped,
     BuildPrebuildFresh, BuildFinished, BuildEmitIntoEmpty, BuildPagesOfBuild, BuildHashesOfRead,
     BuildProcessesFresh, BuildPatchedFits, Build!HeaderFailsClosed, Build!HeaderFitsPages,
     Build!TelemetryFitsDsn, Build!BuildSucceeded, Build!FitsPages, Build!RunsInline

LEMMA BuildStartIInv ==
    ASSUME BuildIInv, NEW command \in Build!Commands, NEW dsn \in Dsns, Build!Start(command, dsn)
    PROVE  BuildIInv'
<1>1. Build!TypeOK'
  BY DEF BuildIInv, Build!Start, Build!TypeOK, Build!FirstPhase, Build!Phases, Build!JobType, Build!Commands
<1>2. BuildBegunInPast'
  BY DEF BuildIInv, Build!Start, BuildBegunInPast, Build!TypeOK
<1>3. /\ phase' \in {"prebuild", "clean", "copy"}
      /\ phase' # "prebuild" => job'.command # "build"
  BY DEF Build!Start, Build!FirstPhase, Build!Commands
<1>4. scripts' = Build!NotSpawned /\ csp' = Build!NoMemory
  BY DEF BuildIInv, Build!Start, BuildProcessesFresh, Build!Stopped
<1>5. BuildPrebuildFresh'
  BY <1>3, <1>4 DEF BuildPrebuildFresh, BuildFinished, Build!NotSpawned, Build!Prebuilds
<1>6. BuildPagesOfBuild'
  BY <1>3 DEF BuildPagesOfBuild
<1>7. Build!HeaderFailsClosed'
  BY DEF BuildIInv, Build!Start, Build!HeaderFailsClosed, Build!FitsPages, Build!RunsInline
<1> QED
  BY <1>1, <1>2, <1>3, <1>4, <1>5, <1>6, <1>7 DEF BuildIInv, Build!Start, BuildSourceHeaderKept,
     BuildEmitIntoEmpty, BuildHashesOfRead, BuildProcessesFresh, BuildPatchedFits, Build!HeaderFitsPages,
     Build!TelemetryFitsDsn, Build!BuildSucceeded

-----------------------------------------------------------------------------
(* The prebuild scripts, which may run in any order. *)
LEMMA BuildSpawnPrebuildIInv ==
    ASSUME BuildIInv, NEW s \in Build!Prebuilds, Build!SpawnPrebuild(s) PROVE BuildIInv'
<1>1. Build!TypeOK'
  BY DEF BuildIInv, Build!SpawnPrebuild, Build!TypeOK, Build!Prebuilds, Build!WorkingType, Build!Nothing
<1>2. BuildPrebuildFresh'
  BY DEF BuildIInv, Build!SpawnPrebuild, Build!TypeOK, Build!Prebuilds, Build!WorkingType, BuildPrebuildFresh, BuildFinished
<1>3. BuildSourceHeaderKept'
  BY DEF BuildIInv, Build!SpawnPrebuild, Build!TypeOK, Build!Prebuilds, Build!WorkingType, BuildSourceHeaderKept
<1> QED
  BY <1>1, <1>2, <1>3 DEF BuildIInv, Build!SpawnPrebuild, BuildBegunInPast, BuildEmitIntoEmpty,
     BuildPagesOfBuild, BuildHashesOfRead, BuildProcessesFresh, BuildPatchedFits, Build!HeaderFailsClosed,
     Build!HeaderFitsPages, Build!TelemetryFitsDsn, Build!BuildSucceeded, Build!FitsPages, Build!RunsInline

LEMMA BuildFinishPrebuildIInv ==
    ASSUME BuildIInv, NEW s \in Build!Prebuilds, Build!FinishPrebuild(s) PROVE BuildIInv'
<1>1. Build!TypeOK'
  BY DEF BuildIInv, Build!FinishPrebuild, Build!Generated, Build!TypeOK, Build!Prebuilds, Build!WorkingType
<1>2. BuildPrebuildFresh'
  BY DEF BuildIInv, Build!FinishPrebuild, Build!Generated, Build!TypeOK, Build!Prebuilds, Build!WorkingType,
     BuildPrebuildFresh, BuildFinished, BuildBegunInPast
<1>3. BuildSourceHeaderKept'
  BY DEF BuildIInv, Build!FinishPrebuild, Build!Generated, Build!TypeOK, Build!Prebuilds, Build!WorkingType,
     BuildSourceHeaderKept
<1> QED
  BY <1>1, <1>2, <1>3 DEF BuildIInv, Build!FinishPrebuild, BuildBegunInPast, BuildEmitIntoEmpty,
     BuildPagesOfBuild, BuildHashesOfRead, BuildProcessesFresh, BuildPatchedFits, Build!HeaderFailsClosed,
     Build!HeaderFitsPages, Build!TelemetryFitsDsn, Build!BuildSucceeded, Build!FitsPages, Build!RunsInline

LEMMA BuildEndPrebuildIInv == BuildIInv /\ Build!EndPrebuild => BuildIInv'
<1> SUFFICES ASSUME BuildIInv, Build!EndPrebuild PROVE BuildIInv'
  OBVIOUS
<1>1. Build!TypeOK'
  BY DEF BuildIInv, Build!EndPrebuild, Build!TypeOK, Build!Phases, Build!Stopped, Build!NotSpawned
<1>2. BuildPrebuildFresh'
  BY DEF BuildIInv, Build!EndPrebuild, BuildPrebuildFresh, BuildFinished, Build!Prebuilds
<1> QED
  BY <1>1, <1>2 DEF BuildIInv, Build!EndPrebuild, BuildSourceHeaderKept, BuildBegunInPast, BuildEmitIntoEmpty,
     BuildPagesOfBuild, BuildHashesOfRead, BuildProcessesFresh, BuildPatchedFits, Build!HeaderFailsClosed,
     Build!HeaderFitsPages, Build!TelemetryFitsDsn, Build!BuildSucceeded, Build!FitsPages, Build!RunsInline

-----------------------------------------------------------------------------
(* vinxi: the pages become those of this build. *)
LEMMA BuildVinxiCleanIInv == BuildIInv /\ Build!VinxiClean => BuildIInv'
<1> SUFFICES ASSUME BuildIInv, Build!VinxiClean PROVE BuildIInv'
  OBVIOUS
<1>1. dist' \in Build!DistType
  BY BuildEmptyDistType DEF BuildIInv, Build!VinxiClean, Build!TypeOK, Build!JobType
<1>2. Build!TypeOK'
  BY <1>1 DEF BuildIInv, Build!VinxiClean, Build!TypeOK, Build!Phases
<1>3. ~dist'.header.whole
  BY DEF Build!VinxiClean, Build!EmptyDist, Build!NoHeader, Build!SelfOnly
<1>4. BuildPrebuildFresh' /\ BuildEmitIntoEmpty'
  BY DEF BuildIInv, Build!VinxiClean, BuildPrebuildFresh, BuildFinished, BuildEmitIntoEmpty, Build!EmptyDist
<1> QED
  BY <1>2, <1>3, <1>4 DEF BuildIInv, Build!VinxiClean, BuildSourceHeaderKept, BuildBegunInPast,
     BuildPagesOfBuild, BuildHashesOfRead, BuildProcessesFresh, BuildPatchedFits, Build!HeaderFailsClosed,
     Build!HeaderFitsPages, Build!TelemetryFitsDsn, Build!BuildSucceeded

LEMMA BuildVinxiEmitIInv == BuildIInv /\ Build!VinxiEmit => BuildIInv'
<1> SUFFICES ASSUME BuildIInv, Build!VinxiEmit PROVE BuildIInv'
  OBVIOUS
<1>1. PICK pages \in PageContents :
        dist' = [dist EXCEPT !.pages = pages, !.rows = working.data,
                             !.constants = working.constants,
                             !.manifest = working.manifest,
                             !.header = working.header]
  BY DEF Build!VinxiEmit
<1>2. dist' \in Build!DistType
  BY <1>1, PageAssumption
     DEF Tags, Build!Tags, BuildIInv, Build!TypeOK, Build!DistType, Build!WorkingType
<1>3. Build!TypeOK'
  BY <1>2 DEF BuildIInv, Build!VinxiEmit, Build!TypeOK, Build!Phases, Build!Stopped
<1>4. dist'.header = Build!SelfOnly
  BY <1>1 DEF BuildIInv, Build!TypeOK, Build!DistType, BuildSourceHeaderKept
<1>5. BuildPagesOfBuild'
  <2> SUFFICES ASSUME job.command = "build" PROVE BuildPagesOfBuild'
    BY DEF Build!VinxiEmit, BuildPagesOfBuild
  <2>1. dist.dsn = job.dsn
    BY DEF BuildIInv, Build!VinxiEmit, BuildEmitIntoEmpty, Build!EmptyDist
  <2>2. /\ dist'.dsn = job.dsn /\ dist'.rows = working.data
        /\ dist'.constants = working.constants /\ dist'.manifest = working.manifest
    BY <1>1, <2>1 DEF BuildIInv, Build!TypeOK, Build!DistType
  <2>3. working.data >= job.begun /\ working.constants = working.manifest
    BY DEF BuildIInv, Build!VinxiEmit, BuildPrebuildFresh, BuildFinished
  <2> QED
    BY <2>2, <2>3 DEF Build!VinxiEmit, BuildPagesOfBuild
<1> QED
  BY <1>3, <1>4, <1>5 DEF BuildIInv, Build!VinxiEmit, BuildSourceHeaderKept, BuildBegunInPast,
     BuildPrebuildFresh, BuildFinished, BuildEmitIntoEmpty, BuildHashesOfRead, BuildProcessesFresh,
     BuildPatchedFits, Build!HeaderFailsClosed, Build!HeaderFitsPages, Build!TelemetryFitsDsn,
     Build!BuildSucceeded

-----------------------------------------------------------------------------
(* cp: from now on dist/data.json is what the pages show. *)
LEMMA BuildCopyDataIInv == BuildIInv /\ Build!CopyData => BuildIInv'
<1> SUFFICES ASSUME BuildIInv, Build!CopyData PROVE BuildIInv'
  OBVIOUS
<1>1. dist' \in Build!DistType /\ dist' = [dist EXCEPT !.data = working.data]
  BY DEF BuildIInv, Build!CopyData, Build!TypeOK, Build!DistType, Build!WorkingType
<1>2. Build!TypeOK'
  BY <1>1 DEF BuildIInv, Build!CopyData, Build!TypeOK, Build!Phases
<1>3. /\ dist'.header = dist.header /\ dist'.pages = dist.pages
      /\ dist'.dsn = dist.dsn /\ dist'.rows = dist.rows
      /\ dist'.constants = dist.constants /\ dist'.manifest = dist.manifest
      /\ dist'.data = working.data
  BY <1>1 DEF BuildIInv, Build!TypeOK, Build!DistType
<1>4. BuildPagesOfBuild'
  BY <1>3 DEF BuildIInv, Build!CopyData, BuildPagesOfBuild
<1>5. Build!HeaderFailsClosed'
  BY <1>3 DEF BuildIInv, Build!HeaderFailsClosed, Build!FitsPages, Build!RunsInline, Build!FitsDsn
<1> QED
  BY <1>2, <1>4, <1>5 DEF BuildIInv, Build!CopyData, BuildSourceHeaderKept, BuildBegunInPast,
     BuildPrebuildFresh, BuildFinished, BuildEmitIntoEmpty, BuildHashesOfRead, BuildProcessesFresh,
     BuildPatchedFits, Build!HeaderFitsPages, Build!TelemetryFitsDsn, Build!BuildSucceeded

LEMMA BuildCollectHtmlFilesIInv == BuildIInv /\ Build!CollectHtmlFiles => BuildIInv'
<1> SUFFICES ASSUME BuildIInv, Build!CollectHtmlFiles PROVE BuildIInv'
  OBVIOUS
<1>1. csp = Build!NoMemory
  BY DEF BuildIInv, Build!CollectHtmlFiles, BuildProcessesFresh
<1>2. csp' \in Build!CspType /\ csp'.todo = Html /\ csp'.found = {}
  BY <1>1, BuildNoMemoryType DEF Build!CollectHtmlFiles, Build!CspType
<1>3. Build!TypeOK'
  BY <1>2 DEF BuildIInv, Build!CollectHtmlFiles, Build!TypeOK, Build!Phases
<1>4. BuildHashesOfRead'
  BY <1>2 DEF BuildHashesOfRead
<1> QED
  BY <1>3, <1>4 DEF BuildIInv, Build!CollectHtmlFiles, BuildSourceHeaderKept, BuildBegunInPast,
     BuildPrebuildFresh, BuildFinished, BuildEmitIntoEmpty, BuildPagesOfBuild, BuildProcessesFresh,
     BuildPatchedFits, Build!HeaderFailsClosed, Build!HeaderFitsPages, Build!TelemetryFitsDsn,
     Build!BuildSucceeded, Build!FitsPages, Build!RunsInline

(* The hashes of a page are the bodies that run inline from it. *)
LEMMA BuildHashesOfPage ==
    ASSUME Build!TypeOK, NEW p \in Html
    PROVE  /\ Build!ExtractInlineScriptHashes(dist.pages[p]) \subseteq Bodies
           /\ \A b \in Bodies : b \in Build!ExtractInlineScriptHashes(dist.pages[p])
                                 <=> Build!RunsInline(p, b)
<1>1. dist.pages[p] \subseteq Build!Tags
  BY DEF Build!TypeOK, Build!DistType
<1> QED
  BY <1>1, PageAssumption DEF Build!ExtractInlineScriptHashes, Build!RunsInline, Build!Tags, Tags

LEMMA BuildHashPageIInv == ASSUME BuildIInv, NEW p \in Html, Build!HashPage(p) PROVE BuildIInv'
<1>1. Build!TypeOK
  BY DEF BuildIInv
<1>2. /\ csp'.todo = csp.todo \ {p}
      /\ csp'.found = csp.found \cup Build!ExtractInlineScriptHashes(dist.pages[p])
      /\ csp' \in Build!CspType
  BY <1>1, BuildHashesOfPage DEF Build!HashPage, Build!TypeOK, Build!CspType
<1>3. Build!TypeOK'
  BY <1>2 DEF BuildIInv, Build!HashPage, Build!TypeOK
<1>4. BuildHashesOfRead'
  <2>1. \A b \in Bodies :
          b \in csp.found <=> \E q \in Html \ csp.todo : Build!RunsInline(q, b)
    BY DEF BuildIInv, Build!HashPage, BuildHashesOfRead
  <2>2. dist'.pages = dist.pages
    BY DEF Build!HashPage
  <2> SUFFICES ASSUME NEW b \in Bodies
               PROVE  b \in csp'.found
                        <=> \E q \in Html \ csp'.todo : Build!RunsInline(q, b)
    BY <2>2 DEF BuildHashesOfRead, Build!RunsInline
  <2>3. Html \ csp'.todo = (Html \ csp.todo) \cup {p}
    BY <1>2
  <2> QED
    BY <1>1, <1>2, <2>1, <2>3, BuildHashesOfPage
<1> QED
  BY <1>3, <1>4 DEF BuildIInv, Build!HashPage, BuildSourceHeaderKept, BuildBegunInPast,
     BuildPrebuildFresh, BuildFinished, BuildEmitIntoEmpty, BuildPagesOfBuild, BuildProcessesFresh,
     BuildPatchedFits, Build!HeaderFailsClosed, Build!HeaderFitsPages, Build!TelemetryFitsDsn,
     Build!BuildSucceeded, Build!FitsPages, Build!RunsInline

(* With no page left to read, the hashes found are those of all pages. *)
LEMMA BuildPatchHeadersIInv == BuildIInv /\ Build!PatchHeaders => BuildIInv'
<1> SUFFICES ASSUME BuildIInv, Build!PatchHeaders PROVE BuildIInv'
  OBVIOUS
<1>1. /\ Build!TypeOK /\ job.dsn \in Dsns /\ dist.header = Build!SelfOnly
      /\ csp' = [csp EXCEPT !.patched = Build!InjectCspSources(dist.header)]
  BY DEF BuildIInv, Build!TypeOK, Build!JobType, Build!PatchHeaders, Build!Injectable
<1>2. LET h == Build!InjectCspSources(dist.header)
      IN  /\ h \in Build!HeaderType /\ h.whole /\ h.script = csp.found
          /\ Build!FitsDsn(h, job.dsn)
  <2> DEFINE origin == Build!SentryConnectOrigin(job.dsn)
             worker == {b \in {"blob:"} : origin # {}}
             h == Build!InjectCspSources(dist.header)
  <2>1. /\ origin = {job.dsn} \cap ParsableDsns
        /\ worker \in SUBSET {"blob:"} /\ csp.found \in SUBSET Bodies
        /\ "blob:" \in worker <=> job.dsn \in ParsableDsns
    BY <1>1 DEF Build!SentryConnectOrigin, Build!TypeOK, Build!CspType
  <2>2. h = [whole |-> TRUE, script |-> csp.found, connect |-> origin, worker |-> worker]
    <3>1. h = [dist.header EXCEPT !.script = @ \cup csp.found,
                                  !.connect = @ \cup origin,
                                  !.worker = @ \cup worker]
      BY Zenon DEF Build!InjectCspSources
    <3> HIDE DEF origin, worker, h
    <3>2. {} \cup csp.found = csp.found /\ {} \cup origin = origin /\ {} \cup worker = worker
      OBVIOUS
    <3>3. h = [Build!SelfOnly EXCEPT !.script = csp.found, !.connect = origin, !.worker = worker]
      BY <1>1, <3>1, <3>2 DEF Build!SelfOnly
    <3> QED
      BY <3>3 DEF Build!SelfOnly
  <2> HIDE DEF origin, worker
  <2>3. h \in Build!HeaderType /\ h.whole /\ h.script = csp.found
    BY <2>1, <2>2 DEF Build!HeaderType
  <2>4. Build!FitsDsn(h, job.dsn)
    BY <2>1, <2>2 DEF Build!FitsDsn
  <2> QED
    BY <2>3, <2>4
<1>3. csp' \in Build!CspType /\ csp'.patched = Build!InjectCspSources(dist.header)
  BY <1>1, <1>2 DEF Build!TypeOK, Build!CspType
<1>4. /\ dist' \in Build!DistType /\ ~dist'.header.whole /\ dist'.pages = dist.pages
      /\ dist'.dsn = dist.dsn /\ dist'.rows = dist.rows
      /\ dist'.constants = dist.constants /\ dist'.manifest = dist.manifest
      /\ dist'.data = dist.data
  BY <1>1, BuildHeaderTypes DEF Build!PatchHeaders, Build!TypeOK, Build!DistType, Build!NoHeader, Build!SelfOnly
<1>5. Build!TypeOK'
  BY <1>1, <1>3, <1>4 DEF Build!PatchHeaders, Build!TypeOK, Build!Phases
<1>6. Build!FitsPages(csp.found)
  BY DEF BuildIInv, Build!PatchHeaders, BuildHashesOfRead, Build!FitsPages
<1>7. BuildPatchedFits'
  BY <1>2, <1>3, <1>4, <1>6 DEF Build!PatchHeaders, BuildPatchedFits, Build!FitsPages, Build!RunsInline, Build!FitsDsn
<1>8. BuildPagesOfBuild'
  BY <1>4 DEF BuildIInv, Build!PatchHeaders, BuildPagesOfBuild
<1> QED
  BY <1>4, <1>5, <1>7, <1>8 DEF BuildIInv, Build!PatchHeaders, BuildSourceHeaderKept, BuildBegunInPast,
     BuildPrebuildFresh, BuildFinished, BuildEmitIntoEmpty, BuildHashesOfRead, BuildProcessesFresh,
     Build!HeaderFailsClosed, Build!HeaderFitsPages, Build!TelemetryFitsDsn, Build!BuildSucceeded

LEMMA BuildWriteHeadersIInv == BuildIInv /\ Build!WriteHeaders => BuildIInv'
<1> SUFFICES ASSUME BuildIInv, Build!WriteHeaders PROVE BuildIInv'
  OBVIOUS
<1>1. /\ Build!TypeOK /\ job.dsn \in Dsns /\ csp.patched \in Build!HeaderType
      /\ csp.patched.whole /\ Build!FitsPages(csp.patched.script)
      /\ Build!FitsDsn(csp.patched, job.dsn)
  BY DEF BuildIInv, Build!TypeOK, Build!JobType, Build!CspType, Build!WriteHeaders, BuildPatchedFits
<1>2. /\ dist' \in Build!DistType /\ dist'.header = csp.patched
      /\ dist'.pages = dist.pages
      /\ dist'.dsn = dist.dsn /\ dist'.rows = dist.rows
      /\ dist'.constants = dist.constants /\ dist'.manifest = dist.manifest
      /\ dist'.data = dist.data
  BY <1>1 DEF Build!WriteHeaders, Build!TypeOK, Build!DistType
<1>3. Build!TypeOK'
  BY <1>1, <1>2, BuildNoMemoryType DEF Build!WriteHeaders, Build!TypeOK, Build!Phases, Build!Stopped
<1>4. dist'.header.whole /\ Build!FitsPages(dist.header.script)'
  BY <1>1, <1>2 DEF Build!FitsPages, Build!RunsInline
<1>5. Build!FitsDsn(dist'.header, job.dsn)
  BY <1>1, <1>2
<1>6. Build!HeaderFailsClosed' /\ Build!HeaderFitsPages'
  BY <1>1, <1>4, <1>5 DEF Build!HeaderFailsClosed, Build!HeaderFitsPages, Build!FitsDsn
<1>7. BuildPagesOfBuild'
  BY <1>2 DEF BuildIInv, Build!WriteHeaders, BuildPagesOfBuild
<1>8. Build!TelemetryFitsDsn'
  BY <1>2, <1>5 DEF BuildIInv, Build!WriteHeaders, Build!TelemetryFitsDsn, Build!BuildSucceeded,
     BuildPagesOfBuild, Build!FitsDsn
<1> QED
  BY <1>3, <1>6, <1>7, <1>8 DEF BuildIInv, Build!WriteHeaders, BuildSourceHeaderKept, BuildBegunInPast,
     BuildPrebuildFresh, BuildFinished, BuildEmitIntoEmpty, BuildHashesOfRead, BuildProcessesFresh, BuildPatchedFits

-----------------------------------------------------------------------------
(* Nothing happens. *)
LEMMA BuildStutterIInv == BuildIInv /\ UNCHANGED Build!vars => BuildIInv'
  BY DEF BuildIInv, Build!vars, Build!TypeOK, BuildSourceHeaderKept, BuildBegunInPast,
     BuildPrebuildFresh, BuildFinished, BuildEmitIntoEmpty, BuildPagesOfBuild, BuildHashesOfRead,
     BuildProcessesFresh, BuildPatchedFits, Build!HeaderFailsClosed, Build!HeaderFitsPages,
     Build!TelemetryFitsDsn, Build!BuildSucceeded, Build!FitsPages, Build!RunsInline

(***************************************************************************)
(* The inductive invariant holds in every build, for any pages, DSNs and   *)
(* bounds, however commands fail and are repeated.                         *)
(***************************************************************************)
THEOREM BuildInvariant == Build!Spec => []BuildIInv
<1>1. BuildIInv /\ [Build!Next]_Build!vars => BuildIInv'
  <2> SUFFICES ASSUME BuildIInv, [Build!Next]_Build!vars PROVE BuildIInv'
    OBVIOUS
  <2>1. CASE Build!CalendarMoves \/ Build!EditYaml \/ Build!Fail
    BY <2>1, BuildCalendarMovesIInv, BuildEditYamlIInv, BuildFailIInv
  <2>2. ASSUME NEW command \in Build!Commands, NEW dsn \in Dsns, Build!Start(command, dsn)
        PROVE  BuildIInv'
    BY <2>2, BuildStartIInv
  <2>3. CASE Build!Prebuild
    BY <2>3, BuildSpawnPrebuildIInv, BuildFinishPrebuildIInv, BuildEndPrebuildIInv DEF Build!Prebuild
  <2>4. CASE Build!Vinxi
    BY <2>4, BuildVinxiCleanIInv, BuildVinxiEmitIInv DEF Build!Vinxi
  <2>5. CASE Build!Postbuild
    BY <2>5, BuildCopyDataIInv, BuildCollectHtmlFilesIInv, BuildHashPageIInv, BuildPatchHeadersIInv,
       BuildWriteHeadersIInv DEF Build!Postbuild
  <2>6. CASE UNCHANGED Build!vars
    BY <2>6, BuildStutterIInv
  <2> QED
    BY <2>1, <2>2, <2>3, <2>4, <2>5, <2>6 DEF Build!Next
<1> QED
  BY <1>1, BuildInitIInv, PTL DEF Build!Spec

(* Every variable stays in its type (TypeOK). *)
THEOREM BuildTypeCorrect == Build!Spec => []Build!TypeOK
<1>1. BuildIInv => Build!TypeOK
  BY DEF BuildIInv
<1> QED
  BY <1>1, BuildInvariant, PTL

(* A successful build admits the inline scripts of its pages, and no others. *)
THEOREM BuildPagesRun == Build!Spec => []Build!HeaderFitsPages
<1>1. BuildIInv => Build!HeaderFitsPages
  BY DEF BuildIInv
<1> QED
  BY <1>1, BuildInvariant, PTL

(* Whatever ran, failed or was repeated, a complete header fails closed. *)
THEOREM BuildFailsClosed == Build!Spec => []Build!HeaderFailsClosed
<1>1. BuildIInv => Build!HeaderFailsClosed
  BY DEF BuildIInv
<1> QED
  BY <1>1, BuildInvariant, PTL

(* A successful build allows telemetry as far as its DSN can be used. *)
THEOREM BuildTelemetryAllowed == Build!Spec => []Build!TelemetryFitsDsn
<1>1. BuildIInv => Build!TelemetryFitsDsn
  BY DEF BuildIInv
<1> QED
  BY <1>1, BuildInvariant, PTL

(* A successful build publishes the rows it shows, fetched by itself, and a *)
(* manifest from the constants it shows.                                    *)
THEOREM BuildOutputsAgree == Build!Spec => [](Build!DataFitsPages /\ Build!ManifestFitsPages)
<1>1. BuildIInv => Build!DataFitsPages /\ Build!ManifestFitsPages
  BY DEF BuildIInv, BuildPagesOfBuild, Build!DataFitsPages, Build!ManifestFitsPages, Build!BuildSucceeded
<1> QED
  BY <1>1, BuildInvariant, PTL

-----------------------------------------------------------------------------
(***************************************************************************)
(* The schedule table.  First the numbers of days and dates, then the      *)
(* ranks by which a finite set of events becomes a list, then the table.   *)
(***************************************************************************)

(* A number is made of its quotient and remainder. *)
LEMMA Division ==
  ASSUME NEW d \in Nat \ {0}, NEW t \in Nat
  PROVE  /\ t \div d \in Nat /\ t % d \in Nat /\ t % d < d
         /\ t = (t \div d) * d + (t % d)
  BY Z3

(* A smaller factor makes the product smaller, by one divisor at least. *)
LEMMA SmallerProduct ==
  ASSUME NEW d \in Nat \ {0}, NEW p \in Nat, NEW q \in Nat, p < q
  PROVE  p * d + d <= q * d
  BY Z3

(* The quotient of a multiple and a remainder. *)
LEMMA Quotient ==
  ASSUME NEW d \in Nat \ {0}, NEW q \in Nat, NEW r \in Nat, r < d
  PROVE  (q * d + r) \div d = q
  BY Z3

(* A smaller number has no greater quotient. *)
LEMMA Monotone ==
  ASSUME NEW d \in Nat \ {0}, NEW s \in Nat, NEW t \in Nat, s <= t
  PROVE  s \div d <= t \div d
<1>1. /\ s \div d \in Nat /\ s % d \in Nat /\ s = (s \div d) * d + (s % d)
      /\ t \div d \in Nat /\ t % d < d /\ t % d \in Nat /\ t = (t \div d) * d + (t % d)
  BY Division
<1>2. ASSUME t \div d < s \div d PROVE FALSE
  <2>1. (t \div d) * d + d <= (s \div d) * d BY <1>1, <1>2, SmallerProduct
  <2>2. (t \div d) * d \in Nat /\ (s \div d) * d \in Nat BY <1>1
  <2> QED BY <1>1, <2>1, <2>2
<1> QED BY <1>1, <1>2

(* Numbers of one remainder are a divisor apart. *)
LEMMA SameRemainder ==
  ASSUME NEW y \in Nat \ {0}, NEW s \in Nat, NEW t \in Nat, s % y = t % y, s < t
  PROVE  s + y <= t
<1>1. /\ s \div y \in Nat /\ s % y \in Nat /\ s = (s \div y) * y + (s % y)
      /\ t \div y \in Nat /\ t % y < y /\ t % y \in Nat /\ t = (t \div y) * y + (t % y)
  BY Division
<1>2. (t \div y) * y \in Nat /\ (s \div y) * y \in Nat BY <1>1
<1>3. CASE s \div y < t \div y
  <2>1. (s \div y) * y + y <= (t \div y) * y BY <1>1, <1>3, SmallerProduct
  <2> QED BY <1>1, <1>2, <2>1
<1>4. CASE s \div y = t \div y
  BY <1>1, <1>4
<1>5. CASE t \div y < s \div y
  <2>1. (t \div y) * y + y <= (s \div y) * y BY <1>1, <1>5, SmallerProduct
  <2> QED BY <1>1, <1>2, <2>1
<1> QED BY <1>1, <1>3, <1>4, <1>5

(* A set of natural numbers that is not empty has a least element. *)
LEMMA LeastOfNaturals ==
  ASSUME NEW T, T \subseteq Nat, T # {}
  PROVE  \E x \in T : \A y \in T : x <= y
<1> DEFINE C == {0..x : x \in T}
<1>1. C \subseteq FiniteSubsetsOf(Nat) /\ C # {}
  <2>1. ASSUME NEW x \in T PROVE 0..x \in FiniteSubsetsOf(Nat)
    <3>1. x \in Nat OBVIOUS
    <3>2. IsFiniteSet(0..x) BY <3>1, FS_Interval
    <3>3. 0..x \subseteq Nat BY <3>1
    <3>4. QED BY <3>2, <3>3 DEF FiniteSubsetsOf
  <2>2. QED BY <2>1
<1>2. PICK c \in C : \A d \in C : ~ (<<d, c>> \in StrictSubsetOrdering(Nat))
  BY <1>1, FS_StrictSubsetOrderingWellFounded, WFMin
<1>3. PICK x \in T : c = 0..x
  OBVIOUS
<1>4. ASSUME NEW y \in T, ~ (x <= y) PROVE FALSE
  <2>1. x \in Nat /\ y \in Nat /\ y < x BY <1>4
  <2>2. 0..y \in C OBVIOUS
  <2>3. 0..y \subseteq 0..x /\ x \in 0..x /\ x \notin 0..y BY <2>1
  <2>4. 0..y # 0..x BY <2>3
  <2>5. 0..y \in SUBSET Nat /\ 0..x \in SUBSET Nat BY <2>1
  <2>6. <<0..y, 0..x>> \in StrictSubsetOrdering(Nat) BY <2>3, <2>4, <2>5 DEF StrictSubsetOrdering
  <2>7. QED BY <1>2, <1>3, <2>2, <2>6
<1>5. QED BY <1>4

(* A finite set of natural numbers that is not empty has a greatest element. *)
LEMMA GreatestOfNaturals ==
  ASSUME NEW T, T \subseteq Nat, IsFiniteSet(T), T # {}
  PROVE  \E x \in T : \A y \in T : x >= y
<1> DEFINE From(x) == {y \in T : y >= x}
           C == {From(x) : x \in T}
<1>1. C \subseteq FiniteSubsetsOf(T) /\ C # {}
  <2>1. ASSUME NEW x \in T PROVE From(x) \in FiniteSubsetsOf(T)
    <3>1. From(x) \in SUBSET T OBVIOUS
    <3>2. IsFiniteSet(From(x)) BY <3>1, FS_Subset
    <3> QED BY <3>1, <3>2 DEF FiniteSubsetsOf
  <2> QED BY <2>1
<1>2. PICK c \in C : \A d \in C : ~ (<<d, c>> \in StrictSubsetOrdering(T))
  <2> HIDE DEF C
  <2> QED BY <1>1, FS_StrictSubsetOrderingWellFounded, WFMin
<1>3. PICK x \in T : c = From(x)
  OBVIOUS
<1>4. ASSUME NEW y \in T, ~ (x >= y) PROVE FALSE
  <2>1. x \in Nat /\ y \in Nat /\ y > x BY <1>4
  <2>2. From(y) \in C OBVIOUS
  <2>3. From(y) \subseteq From(x) /\ x \in From(x) /\ x \notin From(y)
    <3>1. ASSUME NEW z \in T, z >= y PROVE z >= x
      <4>1. z \in Nat OBVIOUS
      <4> QED BY <2>1, <3>1, <4>1
    <3>2. x >= x /\ ~ (x >= y) BY <2>1
    <3> QED BY <3>1, <3>2
  <2>4. From(y) # From(x) BY <2>3
  <2>5. From(y) \in SUBSET T /\ From(x) \in SUBSET T OBVIOUS
  <2>6. <<From(y), From(x)>> \in StrictSubsetOrdering(T) BY <2>3, <2>4, <2>5 DEF StrictSubsetOrdering
  <2> QED BY <1>2, <1>3, <2>2, <2>6
<1> QED BY <1>4

(* A part of 1..n that is not empty has a greatest element. *)
LEMMA GreatestIndex ==
  ASSUME NEW n \in Nat, NEW T, T \subseteq 1..n, T # {}
  PROVE  \E x \in T : \A y \in T : x >= y
<1>1. IsFiniteSet(1..n) BY FS_Interval
<1>2. IsFiniteSet(T) BY <1>1, FS_Subset
<1>3. T \subseteq Nat OBVIOUS
<1> QED BY <1>2, <1>3, GreatestOfNaturals

(* What is below an element of a finite set, by some order. *)
Ordered(S, below) ==
  /\ IsFiniteSet(S) /\ below \in [S -> SUBSET S]
  /\ \A x \in S : x \notin below[x]
  /\ \A x, y \in S : x # y => x \in below[y] \/ y \in below[x]
  /\ \A x, y \in S : y \in below[x] => below[y] \subseteq below[x]

(* Of two elements the lower has fewer below it. *)
LEMMA RankGrows ==
  ASSUME NEW S, NEW below, Ordered(S, below), NEW x \in S, NEW y \in S, y \in below[x]
  PROVE  /\ Cardinality(below[y]) < Cardinality(below[x])
         /\ Cardinality(below[y]) \in Nat
         /\ Cardinality(below[x]) \in Nat
<1>1. below[y] \subseteq below[x] /\ y \notin below[y] /\ below[x] \subseteq S
  BY DEF Ordered
<1>2. IsFiniteSet(below[x]) /\ IsFiniteSet(below[y])
  BY <1>1, FS_Subset DEF Ordered
<1>3. below[y] # below[x] BY <1>1
<1>4. Cardinality(below[y]) <= Cardinality(below[x]) /\ (Cardinality(below[y]) = Cardinality(below[x]) <=> below[x] = below[y])
  BY <1>1, <1>2, FS_Subset
<1> QED BY <1>2, <1>3, <1>4, FS_CardinalityType

(* Every rank is that of one element. *)
LEMMA RankIsTaken ==
  ASSUME NEW S, NEW below, Ordered(S, below), NEW n \in 0..(Cardinality(S) - 1)
  PROVE  /\ \E x \in S : Cardinality(below[x]) = n
         /\ \A x, y \in S : Cardinality(below[x]) = n /\ Cardinality(below[y]) = n => x = y
<1> DEFINE k == Cardinality(S)
           rank == [x \in S |-> Cardinality(below[x])]
<1>1. k \in Nat /\ IsFiniteSet(S)
  BY FS_CardinalityType DEF Ordered
<1>2. ASSUME NEW x \in S PROVE rank[x] \in 0..(k - 1)
  <2>1. below[x] \subseteq S /\ x \notin below[x] BY DEF Ordered
  <2>2. IsFiniteSet(below[x]) /\ Cardinality(below[x]) <= k /\ below[x] # S
    BY <1>1, <2>1, FS_Subset
  <2>3. Cardinality(below[x]) # k BY <1>1, <2>1, <2>2, FS_Subset
  <2>4. Cardinality(below[x]) \in Nat BY <2>2, FS_CardinalityType
  <2> QED BY <1>1, <2>2, <2>3, <2>4
<1>3. \A x, y \in S : rank[x] = rank[y] => x = y
  <2>1. SUFFICES ASSUME NEW x \in S, NEW y \in S, rank[x] = rank[y], x # y PROVE FALSE
    OBVIOUS
  <2>2. CASE x \in below[y] BY <2>1, <2>2, RankGrows
  <2>3. CASE y \in below[x] BY <2>1, <2>3, RankGrows
  <2> QED BY <2>1, <2>2, <2>3 DEF Ordered
<1>4. rank \in [S -> 0..(k - 1)]
  BY <1>2
<1>5. rank \in Injection(S, 0..(k - 1))
  <2> HIDE DEF rank
  <2> QED BY <1>3, <1>4 DEF Injection, IsInjective
<1>6. IsFiniteSet(0..(k - 1)) /\ Cardinality(0..(k - 1)) = k
  BY <1>1, FS_Interval
<1>7. rank \in Surjection(S, 0..(k - 1))
  <2> HIDE DEF rank, k
  <2> QED BY <1>5, <1>6, FS_Injection DEF k
<1>8. \E x \in S : rank[x] = n
  BY <1>7 DEF Surjection
<1> QED BY <1>3, <1>8

(* Of every rank there is one element. *)
LEMMA RanksAreTaken ==
  ASSUME NEW S, NEW below, Ordered(S, below)
  PROVE  \A n \in 0..(Cardinality(S) - 1) :
           /\ \E x \in S : Cardinality(below[x]) = n
           /\ \A x, y \in S : Cardinality(below[x]) = n /\ Cardinality(below[y]) = n => x = y
BY RankIsTaken

(* A list of elements of a set is a sequence over it. *)
LEMMA ListIsSeq ==
  ASSUME NEW k \in Nat, NEW S, NEW f \in [1..k -> S]
  PROVE  f \in Seq(S) /\ Len(f) = k
BY SeqDef

(* The days of the week that begins with the day of t. *)
LEMMA DaysOfWeek ==
  ASSUME NEW t \in Nat, NEW d \in 1 .. WEEKDATES
  PROVE  LET q == t \div Day IN
         /\ q \in Nat /\ q + d - 1 \in Nat
         /\ Table!TruncateTime(t) = q * Day /\ q * Day \in Nat
         /\ Table!WeekDates(t)[d] = (q + d - 1) * Day
         /\ Table!WeekDates(Table!TruncateTime(t))[d] = (q + d - 1) * Day
         /\ (q + d - 1) * Day \in Nat
         /\ Table!FormatDate((q + d - 1) * Day) = (q + d - 1) % YearDays
         /\ Table!WeekRange(t).since <= (q + d - 1) * Day
         /\ (q + d - 1) * Day < Table!WeekRange(t).until
         /\ (q + d - 1) * Day + Day <= Table!WeekRange(t).until
<1> DEFINE q == t \div Day
<1>1. /\ Day \in Nat \ {0} /\ q \in Nat /\ WEEKDATES \in Nat /\ d \in Nat /\ d - 1 \in Nat
      /\ q + d - 1 \in Nat /\ WEEKDATES - d \in Nat
  <2>1. Day \in Nat \ {0} /\ WEEKDATES \in Nat BY TableAssumption
  <2>2. q \in Nat BY <2>1, Division
  <2> HIDE DEF q
  <2> QED BY <2>1, <2>2
<1> HIDE DEF q
<1>2. Table!TruncateTime(t) = q * Day /\ q * Day \in Nat
  BY <1>1 DEF Table!TruncateTime, q
<1>3. (q * Day) \div Day = q
  <2>1. (q * Day + 0) \div Day = q BY <1>1, Quotient
  <2> QED BY <1>1, <1>2, <2>1
<1>4. Table!TruncateTime(q * Day) = q * Day
  BY <1>3 DEF Table!TruncateTime
<1>5. q * Day + (d - 1) * Day = (q + d - 1) * Day /\ (q + d - 1) * Day \in Nat
  BY <1>1, Z3
<1>6. /\ Table!WeekDates(t)[d] = (q + d - 1) * Day
      /\ Table!WeekDates(Table!TruncateTime(t))[d] = (q + d - 1) * Day
  BY <1>2, <1>4, <1>5 DEF Table!WeekDates, Table!PlusDate
<1>7. Table!FormatDate((q + d - 1) * Day) = (q + d - 1) % YearDays
  <2>1. ((q + d - 1) * Day + 0) \div Day = q + d - 1 BY <1>1, Quotient
  <2>2. ((q + d - 1) * Day) \div Day = q + d - 1 BY <1>5, <2>1
  <2> QED BY <2>2 DEF Table!FormatDate
<1>8. /\ q * Day <= (q + d - 1) * Day /\ (q + d - 1) * Day < q * Day + WEEKDATES * Day
      /\ (q + d - 1) * Day + Day <= q * Day + WEEKDATES * Day
  <2>1. (d - 1) * Day \in Nat BY <1>1, Z3
  <2>2. d - 1 < WEEKDATES BY <1>1
  <2>3. (d - 1) * Day + Day <= WEEKDATES * Day BY <1>1, <2>2, SmallerProduct
  <2>4. WEEKDATES * Day \in Nat BY <1>1, Z3
  <2> QED BY <1>1, <1>2, <1>5, <2>1, <2>3, <2>4
<1>9. /\ Table!WeekRange(t).since <= (q + d - 1) * Day
      /\ (q + d - 1) * Day < Table!WeekRange(t).until
      /\ (q + d - 1) * Day + Day <= Table!WeekRange(t).until
  BY <1>2, <1>8 DEF Table!WeekRange, Table!PlusDate
<1> QED
  BY <1>1, <1>2, <1>5, <1>6, <1>7, <1>9 DEF q

(* A time of the week lies on one of its days, and its date is that day's. *)
LEMMA TimesOfWeek ==
  ASSUME NEW t \in Nat, NEW x \in Nat, Table!WeekRange(t).since <= x, x < Table!WeekRange(t).until
  PROVE  LET q == t \div Day IN
         /\ x \div Day \in Nat /\ q <= x \div Day /\ x \div Day < q + WEEKDATES
<1> DEFINE q == t \div Day
           p == x \div Day
<1>1. Day \in Nat \ {0} /\ q \in Nat /\ WEEKDATES \in Nat
  BY TableAssumption, Division
<1>2. p \in Nat /\ x % Day \in Nat /\ x = p * Day + (x % Day)
  BY <1>1, Division
<1> HIDE DEF q, p
<1>3. q * Day <= x /\ x < q * Day + WEEKDATES * Day
  BY DEF Table!WeekRange, Table!PlusDate, Table!TruncateTime, q
<1>4. q * Day \in Nat /\ WEEKDATES * Day \in Nat /\ (q + WEEKDATES) * Day = q * Day + WEEKDATES * Day /\ p * Day \in Nat
  BY <1>1, <1>2, Z3
<1>5. q <= p
  <2>1. (q * Day) \div Day <= p BY <1>1, <1>3, <1>4, Monotone DEF p
  <2>2. (q * Day + 0) \div Day = q BY <1>1, Quotient
  <2>3. (q * Day) \div Day = q BY <1>4, <2>2
  <2> QED BY <2>1, <2>3
<1>6. p < q + WEEKDATES
  <2>1. CASE p = q + WEEKDATES BY <1>2, <1>3, <1>4, <2>1
  <2>2. CASE q + WEEKDATES < p
    <3>1. (q + WEEKDATES) * Day + Day <= p * Day BY <1>1, <1>2, <2>2, SmallerProduct
    <3> QED BY <1>1, <1>2, <1>3, <1>4, <3>1
  <2> QED BY <1>1, <1>2, <2>1, <2>2
<1> QED BY <1>2, <1>5, <1>6 DEF q, p

(* Days of one week with one date are one day. *)
LEMMA DatesDiffer ==
  ASSUME NEW q \in Nat, NEW x \in Nat, NEW y \in Nat, q <= x, q <= y,
         x < q + WEEKDATES, y < q + WEEKDATES, x % YearDays = y % YearDays
  PROVE  x = y
<1>1. YearDays \in Nat \ {0} /\ WEEKDATES \in Nat /\ WEEKDATES <= YearDays
  BY TableAssumption
<1>2. ~ (x < y)
  <2>1. ASSUME x < y PROVE x + YearDays <= y BY <1>1, <2>1, SameRemainder
  <2> QED BY <1>1, <2>1
<1>3. ~ (y < x)
  <2>1. ASSUME y < x PROVE y + YearDays <= x BY <1>1, <2>1, SameRemainder
  <2> QED BY <1>1, <2>1
<1> QED BY <1>2, <1>3

(* What the calendars answered, when all of them have. *)
Complete(answers) == answers \in Seq(Answers) /\ Len(answers) = NumTypes

(* An answer has finitely many events of which some are kept. *)
LEMMA KeptIsFinite ==
  ASSUME NEW answers, Complete(answers)
  PROVE  /\ IsFiniteSet(Table!Kept(answers))
         /\ \A p \in Table!Kept(answers) :
              /\ p[1] \in Table!Types /\ p[1] \in Nat /\ p[2] \in Nat /\ p = <<p[1], p[2]>>
              /\ p[2] \in DOMAIN answers[p[1]]
              /\ Table!Epoch(answers[p[1]][p[2]]) \in Nat
<1> DEFINE Answered(t) == {t} \X DOMAIN answers[t]
           one == [t \in Table!Types |-> Answered(t)]
           Each == {Answered(t) : t \in Table!Types}
           All == UNION Each
<1>1. NumTypes \in Nat /\ IsFiniteSet(Table!Types)
  BY TableAssumption, FS_Interval DEF Table!Types
<1>2. \A t \in Table!Types : t \in Nat /\ answers[t] \in Answers
  BY <1>1 DEF Complete, Table!Types
<1>3. \A t \in Table!Types : DOMAIN answers[t] = 1 .. Len(answers[t]) /\ Len(answers[t]) \in Nat
  BY <1>2, TableAssumption
<1>4. ASSUME NEW t \in Table!Types PROVE IsFiniteSet(Answered(t))
  <2>1. IsFiniteSet({t}) BY FS_Singleton
  <2>2. IsFiniteSet(1 .. Len(answers[t])) BY <1>3, FS_Interval
  <2>3. IsFiniteSet(DOMAIN answers[t]) BY <1>3, <2>2
  <2> QED BY <2>1, <2>3, FS_Product
<1>5. IsFiniteSet(Each)
  <2>1. one \in Surjection(Table!Types, Each)
    <3> HIDE DEF Answered
    <3> QED BY DEF Surjection
  <2> HIDE DEF Each, one
  <2> QED BY <1>1, <2>1, FS_Surjection
<1>6. IsFiniteSet(All)
  <2>1. \A T \in Each : IsFiniteSet(T) BY <1>4
  <2> HIDE DEF Each
  <2> QED BY <1>5, <2>1, FS_UNION
<1>7. Table!Kept(answers) \subseteq All
  BY DEF Table!Kept
<1>8. IsFiniteSet(Table!Kept(answers))
  <2> HIDE DEF All
  <2> QED BY <1>6, <1>7, FS_Subset
<1>9. ASSUME NEW p \in Table!Kept(answers)
      PROVE  /\ p[1] \in Table!Types /\ p[1] \in Nat /\ p[2] \in Nat /\ p = <<p[1], p[2]>>
             /\ p[2] \in DOMAIN answers[p[1]]
             /\ Table!Epoch(answers[p[1]][p[2]]) \in Nat
  <2>1. PICK t \in Table!Types : p \in Answered(t)
    BY <1>7
  <2>2. p[1] = t /\ p[2] \in DOMAIN answers[t] /\ p = <<p[1], p[2]>>
    BY <2>1
  <2>3. p[2] \in Nat BY <1>3, <2>1, <2>2
  <2> DEFINE raw == answers[p[1]][p[2]]
  <2>4. raw.dateTime \in Nat \cup {None} /\ raw.date \in Nat \cup {None}
    <3>1. {raw.dateTime, raw.date, raw.end} \subseteq Nat \cup {None} BY <1>2, <2>2, TableAssumption
    <3> QED BY <3>1
  <2>5. Table!Epoch(raw) # None
    BY DEF Table!Kept, Table!Resolvable
  <2> HIDE DEF raw
  <2>6. Table!Epoch(raw) \in Nat
    <3>1. CASE raw.dateTime # None BY <2>4, <3>1 DEF Table!Epoch
    <3>2. CASE raw.dateTime = None /\ raw.date # None
      <4>1. raw.date \in Nat /\ Day \in Nat /\ AllDaySlot \in Nat BY <2>4, <3>2, TableAssumption
      <4>2. raw.date * Day + AllDaySlot \in Nat
        <5>1. raw.date * Day \in Nat BY <4>1
        <5> QED BY <4>1, <5>1
      <4> QED BY <3>2, <4>2 DEF Table!Epoch
    <3>3. CASE raw.dateTime = None /\ raw.date = None BY <2>5, <3>3 DEF Table!Epoch
    <3> QED BY <3>1, <3>2, <3>3
  <2> QED BY <1>2, <2>1, <2>2, <2>3, <2>6 DEF raw
<1> QED BY <1>8, <1>9

(* An event of the table by its parts. *)
PlainEvent(e) ==
  /\ e.epoch \in Nat /\ e.place[1] \in Nat /\ e.place[2] \in Nat /\ e.place = <<e.place[1], e.place[2]>>
  /\ e.date = Table!FormatDate(e.epoch)

(* The events of the answers. *)
LEMMA EventsOfAnswers ==
  ASSUME NEW answers, Complete(answers)
  PROVE  LET all == Table!AllEvents(answers) IN
         /\ IsFiniteSet(all)
         /\ \A e \in all : PlainEvent(e) /\ e.place[1] \in Table!Types /\ e.type = e.place[1]
         /\ \A e \in all : e.vacation = FALSE
         /\ \A e, f \in all : e.place = f.place => e = f
<1> DEFINE K == Table!Kept(answers)
           Ev(p) == Table!ToEvent(p, answers[p[1]][p[2]])
           ev == [p \in K |-> Ev(p)]
           all == Table!AllEvents(answers)
<1>1. all = {Ev(p) : p \in K}
  BY DEF Table!AllEvents
<1>2. IsFiniteSet(K)
  BY KeptIsFinite
<1>3. IsFiniteSet(all)
  <2>1. ev \in Surjection(K, all)
    <3>1. \A e \in all : \E p \in K : e = Ev(p) BY <1>1
    <3>2. \A p \in K : Ev(p) \in all BY <1>1
    <3> HIDE DEF K, all, Ev
    <3> QED BY <3>1, <3>2 DEF Surjection
  <2> HIDE DEF ev, K, all
  <2> QED BY <1>2, <2>1, FS_Surjection
<1>4. ASSUME NEW p \in K
      PROVE  /\ PlainEvent(Ev(p)) /\ Ev(p).place = p /\ p[1] \in Table!Types
             /\ Ev(p).type = p[1]
             /\ Ev(p).vacation = FALSE
  <2> DEFINE e == Ev(p)
             raw == answers[p[1]][p[2]]
  <2>1. /\ p[1] \in Table!Types /\ p[1] \in Nat /\ p[2] \in Nat /\ p = <<p[1], p[2]>>
        /\ Table!Epoch(raw) \in Nat
    BY KeptIsFinite
  <2> HIDE DEF raw
  <2>2. /\ e.epoch = Table!Epoch(raw) /\ e.place = p /\ e.date = Table!FormatDate(Table!Epoch(raw))
        /\ e.type = p[1] /\ e.vacation = FALSE
    BY DEF Table!ToEvent, raw
  <2> HIDE DEF e
  <2>3. PlainEvent(e)
    BY <2>1, <2>2 DEF PlainEvent
  <2> QED BY <2>1, <2>2, <2>3 DEF e
<1> HIDE DEF K, Ev, all
<1>5. ASSUME NEW e \in all
      PROVE  /\ PlainEvent(e) /\ e.place[1] \in Table!Types /\ e.type = e.place[1]
             /\ e.vacation = FALSE /\ e.place \in K /\ e = Ev(e.place)
  <2>1. PICK p \in K : e = Ev(p) BY <1>1
  <2> QED BY <1>4, <2>1
<1>6. \A e, f \in all : e.place = f.place => e = f
  <2>1. SUFFICES ASSUME NEW e \in all, NEW f \in all, e.place = f.place PROVE e = f
    OBVIOUS
  <2>2. e = Ev(e.place) /\ f = Ev(f.place) BY <1>5
  <2> QED BY <2>1, <2>2
<1> QED BY <1>3, <1>5, <1>6 DEF all

(* The events of the week, with its days off. *)
Merged(t, answers) ==
  LET all == Table!AllEvents(answers) IN
  {e \in all \cup Table!VacationEvents(Table!WeekRange(t).since, all) : Table!InSpan(e, Table!WeekRange(t))}

(* Events that have an order. *)
Sortable(L) ==
  /\ IsFiniteSet(L)
  /\ \A e \in L : PlainEvent(e)
  /\ \A e, f \in L : e.place = f.place => e = f

(* Two events of which the one is a day off have two dates. *)
DaysOffAreFree(L) == \A e, f \in L : e.vacation /\ e # f => e.date # f.date

(* A day off of the week. *)
LEMMA DayOff ==
  ASSUME NEW t \in Nat, NEW k \in 1 .. WEEKDATES
  PROVE  LET v == Table!Vacation(Table!WeekRange(t).since, k) IN
         /\ PlainEvent(v) /\ v.place = <<NumTypes + 1, k>> /\ v.vacation
         /\ v.epoch = Table!WeekDates(t)[k] /\ v.date = Table!FormatDate(Table!WeekDates(t)[k])
         /\ Table!InSpan(v, Table!WeekRange(t))
<1> DEFINE v == Table!Vacation(Table!WeekRange(t).since, k)
           x == Table!WeekDates(t)[k]
<1>1. /\ x \in Nat /\ Table!WeekDates(Table!WeekRange(t).since)[k] = x
      /\ Table!WeekRange(t).since <= x /\ x < Table!WeekRange(t).until
  BY DaysOfWeek DEF Table!WeekRange
<1> HIDE DEF x
<1>2. /\ v.epoch = x /\ v.date = Table!FormatDate(x) /\ v.place = <<NumTypes + 1, k>>
      /\ v.vacation = TRUE
  BY <1>1 DEF Table!Vacation
<1>3. NumTypes + 1 \in Nat /\ k \in Nat
  BY TableAssumption
<1> HIDE DEF v
<1>4. PlainEvent(v) /\ Table!InSpan(v, Table!WeekRange(t))
  BY <1>1, <1>2, <1>3 DEF PlainEvent, Table!InSpan
<1> QED BY <1>2, <1>4 DEF v, x

(* Days off lie on days on which nothing starts, each on its own. *)
LEMMA DaysOffDiffer ==
  ASSUME NEW t \in Nat, NEW k \in 1 .. WEEKDATES, NEW d \in 1 .. WEEKDATES,
         Table!FormatDate(Table!WeekDates(t)[k]) = Table!FormatDate(Table!WeekDates(t)[d])
  PROVE  k = d
<1> DEFINE q == t \div Day
<1>1. /\ q \in Nat /\ q + k - 1 \in Nat /\ q + d - 1 \in Nat
      /\ Table!FormatDate(Table!WeekDates(t)[k]) = (q + k - 1) % YearDays
      /\ Table!FormatDate(Table!WeekDates(t)[d]) = (q + d - 1) % YearDays
  <2> HIDE DEF q
  <2> QED BY DaysOfWeek DEF q
<1> HIDE DEF q
<1>2. WEEKDATES \in Nat
  BY TableAssumption
<1>3. /\ q <= q + k - 1 /\ q <= q + d - 1
      /\ q + k - 1 < q + WEEKDATES /\ q + d - 1 < q + WEEKDATES
  BY <1>1, <1>2
<1>4. (q + k - 1) % YearDays = (q + d - 1) % YearDays
  BY <1>1
<1>5. q + k - 1 = q + d - 1
  BY <1>1, <1>3, <1>4, DatesDiffer
<1> QED BY <1>1, <1>2, <1>5

(* The events of the week have an order, and each day has one. *)
LEMMA MergedFits ==
  ASSUME NEW t \in Nat, NEW answers, Complete(answers)
  PROVE  LET L == Merged(t, answers)
             all == Table!AllEvents(answers)
         IN
         /\ Sortable(L) /\ DaysOffAreFree(L)
         /\ \A e \in L : Table!InSpan(e, Table!WeekRange(t))
         /\ \A e \in L : ~ e.vacation => e \in all
         /\ \A e \in all : Table!InSpan(e, Table!WeekRange(t)) => e \in L
         /\ \A d \in 1 .. WEEKDATES :
              \/ \E e \in all : e.date = Table!FormatDate(Table!WeekDates(t)[d])
              \/ \E e \in L : e.epoch = Table!WeekDates(t)[d] /\ e.date = Table!FormatDate(Table!WeekDates(t)[d])
<1> DEFINE all == Table!AllEvents(answers)
           since == Table!WeekRange(t).since
           Off == {k \in 1 .. WEEKDATES : \A e \in all : e.date # Table!FormatDate(Table!WeekDates(since)[k])}
           Vac(k) == Table!Vacation(since, k)
           vac == [k \in Off |-> Vac(k)]
           V == Table!VacationEvents(since, all)
           L == Merged(t, answers)
<1>1. /\ IsFiniteSet(all)
      /\ \A e \in all : PlainEvent(e) /\ e.place[1] \in Table!Types
      /\ \A e \in all : e.vacation = FALSE
      /\ \A e, f \in all : e.place = f.place => e = f
  BY EventsOfAnswers
<1>2. V = {Vac(k) : k \in Off}
  BY DEF Table!VacationEvents
<1>3. ASSUME NEW k \in 1 .. WEEKDATES
      PROVE  /\ PlainEvent(Vac(k)) /\ Vac(k).place = <<NumTypes + 1, k>> /\ Vac(k).vacation
             /\ Vac(k).epoch = Table!WeekDates(t)[k] /\ Vac(k).date = Table!FormatDate(Table!WeekDates(t)[k])
             /\ Table!InSpan(Vac(k), Table!WeekRange(t))
  BY DayOff
<1>4. ASSUME NEW k \in Off
      PROVE  k \in 1 .. WEEKDATES /\ \A e \in all : e.date # Table!FormatDate(Table!WeekDates(t)[k])
  <2>1. Table!WeekDates(since)[k] = Table!WeekDates(t)[k]
    BY DaysOfWeek DEF Table!WeekRange
  <2> QED BY <2>1
<1>5. IsFiniteSet(V)
  <2>1. IsFiniteSet(Off)
    <3>1. WEEKDATES \in Nat BY TableAssumption
    <3>2. IsFiniteSet(1 .. WEEKDATES) BY <3>1, FS_Interval
    <3>3. Off \subseteq 1 .. WEEKDATES OBVIOUS
    <3> HIDE DEF Off
    <3> QED BY <3>2, <3>3, FS_Subset
  <2>2. vac \in Surjection(Off, V)
    <3> HIDE DEF Off, Vac, V
    <3> QED BY <1>2 DEF Surjection
  <2> HIDE DEF Off, vac, V
  <2> QED BY <2>1, <2>2, FS_Surjection
<1>6. L = {e \in all \cup V : Table!InSpan(e, Table!WeekRange(t))}
  BY DEF Merged
<1>7. ASSUME NEW d \in 1 .. WEEKDATES, d \notin Off
      PROVE  \E e \in all : e.date = Table!FormatDate(Table!WeekDates(t)[d])
  <2>1. Table!WeekDates(since)[d] = Table!WeekDates(t)[d]
    BY DaysOfWeek DEF Table!WeekRange
  <2> QED BY <1>7, <2>1
<1> HIDE DEF all, since, Off, Vac, V, L
<1>8. IsFiniteSet(L)
  <2>1. IsFiniteSet(all \cup V) BY <1>1, <1>5, FS_Union
  <2>2. L \subseteq all \cup V BY <1>6
  <2> QED BY <2>1, <2>2, FS_Subset
<1>9. ASSUME NEW e \in V
      PROVE  /\ PlainEvent(e) /\ e.vacation /\ e.place[1] = NumTypes + 1 /\ e.place[2] \in Off
             /\ e = Vac(e.place[2])
             /\ e.date = Table!FormatDate(Table!WeekDates(t)[e.place[2]])
  <2>1. PICK k \in Off : e = Vac(k) BY <1>2
  <2>2. k \in 1 .. WEEKDATES BY <1>4
  <2>3. e.place = <<NumTypes + 1, k>> BY <1>3, <2>1, <2>2
  <2>4. e.place[1] = NumTypes + 1 /\ e.place[2] = k BY <2>3
  <2> QED BY <1>3, <2>1, <2>2, <2>4
<1>10. \A e \in L : PlainEvent(e)
  BY <1>1, <1>6, <1>9
<1>11. ASSUME NEW e \in L, NEW f \in L, e.place = f.place
       PROVE  e = f
  <2>1. NumTypes + 1 \notin Table!Types
    BY TableAssumption DEF Table!Types
  <2>2. CASE e \in all /\ f \in all BY <1>1, <1>11, <2>2
  <2>3. CASE e \in V /\ f \in V
    <3>1. e = Vac(e.place[2]) /\ f = Vac(f.place[2]) BY <1>9, <2>3
    <3> QED BY <1>11, <3>1
  <2>4. CASE e \in all /\ f \in V BY <1>1, <1>9, <1>11, <2>1, <2>4
  <2>5. CASE e \in V /\ f \in all BY <1>1, <1>9, <1>11, <2>1, <2>5
  <2> QED BY <1>6, <2>2, <2>3, <2>4, <2>5
<1>12. Sortable(L)
  BY <1>8, <1>10, <1>11 DEF Sortable
<1>13. ASSUME NEW e \in L, NEW f \in L, e.vacation, e # f, e.date = f.date
       PROVE  FALSE
  <2>1. e \in V BY <1>1, <1>6, <1>13
  <2>2. e.place[2] \in Off /\ e.date = Table!FormatDate(Table!WeekDates(t)[e.place[2]])
    BY <1>9, <2>1
  <2>3. CASE f \in all BY <1>4, <1>13, <2>2, <2>3
  <2>4. CASE f \in V
    <3>1. f.place[2] \in Off /\ f.date = Table!FormatDate(Table!WeekDates(t)[f.place[2]])
      BY <1>9, <2>4
    <3>2. e.place[2] = f.place[2]
      BY <1>4, <1>13, <2>2, <3>1, DaysOffDiffer
    <3>3. e = Vac(e.place[2]) /\ f = Vac(f.place[2]) BY <1>9, <2>1, <2>4
    <3> QED BY <1>13, <3>2, <3>3
  <2> QED BY <1>6, <2>3, <2>4
<1>14. DaysOffAreFree(L)
  BY <1>13 DEF DaysOffAreFree
<1>15. ASSUME NEW d \in 1 .. WEEKDATES
       PROVE  \/ \E e \in all : e.date = Table!FormatDate(Table!WeekDates(t)[d])
              \/ \E e \in L : e.epoch = Table!WeekDates(t)[d] /\ e.date = Table!FormatDate(Table!WeekDates(t)[d])
  <2>1. CASE d \notin Off BY <1>7, <2>1
  <2>2. CASE d \in Off
    <3>1. Vac(d) \in L BY <1>2, <1>3, <1>6, <2>2
    <3> QED BY <1>3, <3>1
  <2> QED BY <2>1, <2>2
<1>16. /\ \A e \in L : Table!InSpan(e, Table!WeekRange(t))
       /\ \A e \in L : ~ e.vacation => e \in all
       /\ \A e \in all : Table!InSpan(e, Table!WeekRange(t)) => e \in L
  BY <1>6, <1>9
<1> QED BY <1>12, <1>14, <1>15, <1>16 DEF all, L

(* Of two events one comes first, by time and then by place. *)
LEMMA BeforeIsOrder ==
  ASSUME NEW L, Sortable(L)
  PROVE  /\ \A e \in L : ~ Table!Before(e, e)
         /\ \A e, f \in L : e # f => Table!Before(e, f) \/ Table!Before(f, e)
         /\ \A e, f, g \in L : Table!Before(e, f) /\ Table!Before(f, g) => Table!Before(e, g)
<1>1. \A e \in L : e.epoch \in Nat /\ e.place[1] \in Nat /\ e.place[2] \in Nat
  BY DEF Sortable, PlainEvent
<1>2. ASSUME NEW e \in L, NEW f \in L, e # f
      PROVE  Table!Before(e, f) \/ Table!Before(f, e)
  <2>1. e.place # f.place BY <1>2 DEF Sortable
  <2>2. e.place = <<e.place[1], e.place[2]>> /\ f.place = <<f.place[1], f.place[2]>>
    BY DEF Sortable, PlainEvent
  <2>3. e.place[1] # f.place[1] \/ e.place[2] # f.place[2]
    BY <2>1, <2>2
  <2> QED BY <1>1, <2>3 DEF Table!Before
<1>3. \A e \in L : ~ Table!Before(e, e)
  BY <1>1 DEF Table!Before
<1>4. ASSUME NEW e \in L, NEW f \in L, NEW g \in L, Table!Before(e, f), Table!Before(f, g)
      PROVE  Table!Before(e, g)
  BY <1>1, <1>4 DEF Table!Before
<1> QED BY <1>2, <1>3, <1>4

(* A list in order. *)
InOrder(q) == \A i, j \in 1 .. Len(q) : i < j => Table!Before(q[i], q[j])

(* The sort gives a list of all events in order. *)
LEMMA SortedFits ==
  ASSUME NEW L, Sortable(L)
  PROVE  LET q == Table!SortedByEpoch(L) IN
         /\ q \in Seq(L) /\ InOrder(q)
         /\ \A e \in L : \E i \in 1 .. Len(q) : q[i] = e
<1> DEFINE below == [e \in L |-> {f \in L : Table!Before(f, e)}]
           k == Cardinality(L)
           rank(e) == Cardinality({f \in L : Table!Before(f, e)})
           nth(i) == CHOOSE e \in L : rank(e) = i - 1
           q == [i \in 1 .. k |-> nth(i)]
<1>1. IsFiniteSet(L) /\ k \in Nat
  BY FS_CardinalityType DEF Sortable
<1>2. Ordered(L, below)
  <2>1. below \in [L -> SUBSET L] OBVIOUS
  <2>2. \A e \in L : e \notin below[e] BY BeforeIsOrder
  <2>3. \A e, f \in L : e # f => e \in below[f] \/ f \in below[e] BY BeforeIsOrder
  <2>4. ASSUME NEW e \in L, NEW f \in L, f \in below[e] PROVE below[f] \subseteq below[e]
    <3>1. Table!Before(f, e) BY <2>4
    <3>2. \A g \in L : Table!Before(g, f) => Table!Before(g, e) BY <3>1, BeforeIsOrder
    <3> QED BY <3>2
  <2> HIDE DEF below
  <2> QED BY <1>1, <2>1, <2>2, <2>3, <2>4 DEF Ordered
<1>3. \A e \in L : rank(e) = Cardinality(below[e])
  OBVIOUS
<1>4. ASSUME NEW i \in 1 .. k
      PROVE  nth(i) \in L /\ rank(nth(i)) = i - 1
  <2>1. i - 1 \in 0 .. (k - 1) BY <1>1
  <2>2. \E e \in L : Cardinality(below[e]) = i - 1
    <3> HIDE DEF below
    <3> QED BY <1>2, <2>1, RanksAreTaken
  <2>3. \E e \in L : rank(e) = i - 1 BY <1>3, <2>2
  <2> HIDE DEF rank
  <2> QED BY <2>3
<1>5. Table!SortedByEpoch(L) = q
  BY DEF Table!SortedByEpoch, Cardinality, Table!Cardinality
<1>6. q \in [1 .. k -> L]
  <2> HIDE DEF nth, k
  <2> QED BY <1>4
<1>7. q \in Seq(L) /\ Len(q) = k
  <2> HIDE DEF q, k
  <2> QED BY <1>1, <1>6, ListIsSeq
<1>8. \A i \in 1 .. k : q[i] = nth(i)
  <2> HIDE DEF nth
  <2> QED OBVIOUS
<1> HIDE DEF q, nth
<1>9. ASSUME NEW i \in 1 .. k, NEW j \in 1 .. k, i < j
      PROVE  Table!Before(q[i], q[j])
  <2>1. /\ q[i] \in L /\ Cardinality(below[q[i]]) = i - 1
        /\ q[j] \in L /\ Cardinality(below[q[j]]) = j - 1
    BY <1>3, <1>4, <1>8
  <2>2. ~ Table!Before(q[j], q[i])
    <3>1. ASSUME Table!Before(q[j], q[i]) PROVE FALSE
      <4>1. q[j] \in below[q[i]] BY <2>1, <3>1
      <4>2. Cardinality(below[q[j]]) < Cardinality(below[q[i]])
        <5> HIDE DEF below
        <5> QED BY <1>2, <2>1, <4>1, RankGrows
      <4>3. j - 1 < i - 1 BY <2>1, <4>2
      <4> QED BY <1>1, <1>9, <4>3
    <3> QED BY <3>1
  <2>3. q[i] # q[j]
    <3>1. i - 1 # j - 1 BY <1>1, <1>9
    <3> QED BY <2>1, <3>1
  <2> QED BY <2>1, <2>2, <2>3, BeforeIsOrder
<1>10. ASSUME NEW e \in L
       PROVE  \E i \in 1 .. k : q[i] = e
  <2>1. Cardinality(below[e]) \in 0 .. (k - 1)
    <3>1. below[e] \subseteq L /\ e \notin below[e] BY <1>2 DEF Ordered
    <3> HIDE DEF below
    <3>2. IsFiniteSet(below[e]) /\ Cardinality(below[e]) <= k BY <1>1, <3>1, FS_Subset
    <3>3. Cardinality(below[e]) # k
      <4>1. below[e] # L BY <3>1
      <4> QED BY <1>1, <3>1, <4>1, FS_Subset
    <3>4. Cardinality(below[e]) \in Nat BY <3>2, FS_CardinalityType
    <3> QED BY <1>1, <3>2, <3>3, <3>4
  <2> DEFINE i == Cardinality(below[e]) + 1
  <2>2. i \in 1 .. k /\ i - 1 = Cardinality(below[e])
    <3> HIDE DEF below, k
    <3> QED BY <1>1, <2>1
  <2> HIDE DEF i
  <2>3. q[i] \in L /\ Cardinality(below[q[i]]) = i - 1
    BY <1>3, <1>4, <1>8, <2>2
  <2>4. q[i] = e
    <3> HIDE DEF below, k
    <3>1. Cardinality(below[e]) = i - 1 BY <2>2
    <3>2. i - 1 \in 0 .. (k - 1) BY <2>1, <2>2
    <3>3. k = Cardinality(L) BY DEF k
    <3> QED BY <1>2, <2>3, <3>1, <3>2, <3>3, RanksAreTaken
  <2> QED BY <2>2, <2>4
<1>11. InOrder(q)
  BY <1>7, <1>9 DEF InOrder
<1> QED BY <1>5, <1>7, <1>10, <1>11

(* A table of the events: the first of them, as many as it has rows. *)
TableOf(q, L) ==
  /\ q \in Seq(L) /\ InOrder(q) /\ Len(q) <= MAX_EVENTS
  /\ \A e \in L :
       \/ \E i \in 1 .. Len(q) : q[i] = e
       \/ Len(q) = MAX_EVENTS /\ Table!Before(q[MAX_EVENTS], e)

(* What the code makes of the answers is such a table. *)
LEMMA TableIsCut ==
  ASSUME NEW t, NEW answers, Sortable(Merged(t, answers))
  PROVE  TableOf(Table!ToEvents(Table!WeekRange(t), answers), Merged(t, answers))
<1> DEFINE L == Merged(t, answers)
           q == Table!SortedByEpoch(L)
           m == IF Len(q) < MAX_EVENTS THEN Len(q) ELSE MAX_EVENTS
           r == SubSeq(q, 1, m)
<1>1. /\ q \in Seq(L) /\ InOrder(q)
      /\ \A e \in L : \E i \in 1 .. Len(q) : q[i] = e
  <2> HIDE DEF L
  <2> QED BY SortedFits DEF L
<1>2. Table!ToEvents(Table!WeekRange(t), answers) = r
  BY DEF Table!ToEvents, Merged
<1> DEFINE n == Len(q)
<1> HIDE DEF q, L
<1>3. n \in Nat /\ MAX_EVENTS \in Nat \ {0} /\ \A i \in 1 .. n : q[i] \in L
  BY <1>1, TableAssumption
<1>4. m = IF n < MAX_EVENTS THEN n ELSE MAX_EVENTS
  OBVIOUS
<1> HIDE DEF m, n
<1>5. m \in Nat /\ m <= n /\ m <= MAX_EVENTS /\ (m = n \/ m = MAX_EVENTS)
  BY <1>3, <1>4
<1>6. r \in Seq(L) /\ Len(r) = m /\ \A i \in 1 .. m : r[i] = q[i]
  <2>1. \A i \in 1 .. m : q[i] \in L BY <1>3, <1>5
  <2>2. /\ r \in Seq(L) /\ Len(r) = IF 1 <= m THEN m - 1 + 1 ELSE 0
        /\ \A i \in 1 .. (m - 1 + 1) : r[i] = q[1 + i - 1]
    BY <1>5, <2>1, SubSeqProperties
  <2>3. m - 1 + 1 = m /\ \A i \in 1 .. m : 1 + i - 1 = i BY <1>5
  <2>4. (IF 1 <= m THEN m - 1 + 1 ELSE 0) = m BY <1>5
  <2> QED BY <2>2, <2>3, <2>4
<1> HIDE DEF r
<1>7. \A i, j \in 1 .. n : i < j => Table!Before(q[i], q[j])
  BY <1>1 DEF InOrder, n
<1>8. InOrder(r)
  <2>1. 1 .. m \subseteq 1 .. n BY <1>3, <1>5
  <2> QED BY <1>6, <1>7, <2>1 DEF InOrder
<1>9. ASSUME NEW e \in L, ~ (\E i \in 1 .. m : r[i] = e)
      PROVE  m = MAX_EVENTS /\ Table!Before(r[MAX_EVENTS], e)
  <2>1. PICK i \in 1 .. n : q[i] = e BY <1>1 DEF n
  <2>2. i \notin 1 .. m BY <1>6, <1>9, <2>1
  <2>3. m < i /\ m = MAX_EVENTS /\ m \in 1 .. n /\ m \in 1 .. m BY <1>3, <1>5, <2>1, <2>2
  <2>4. Table!Before(q[m], q[i]) BY <1>7, <2>1, <2>3
  <2> QED BY <1>6, <2>1, <2>3, <2>4
<1>10. TableOf(r, L)
  BY <1>5, <1>6, <1>8, <1>9 DEF TableOf
<1> QED BY <1>2, <1>10 DEF L

(* Events of one date stand together. *)
Contiguous(q) ==
  /\ Len(q) \in Nat
  /\ \A i \in 1 .. Len(q) : q[i].date \in Nat
  /\ \A i, j, k \in 1 .. Len(q) : i <= j /\ j <= k /\ q[i].date = q[k].date => q[j].date = q[i].date

(* The row of the first event of a date spans the events of that date. *)
LEMMA RowsOfADate ==
  ASSUME NEW q, Contiguous(q), NEW i \in 1 .. Len(q)
  PROVE  LET row == Table!ToRow(q, i)
             first == \A j \in 1 .. Len(q) : q[j].date = q[i].date => i <= j
         IN
         /\ row.date # None <=> first
         /\ first => row.date = q[i].date
         /\ first => \E l \in i .. Len(q) :
                       /\ Table!RowSpan(row) = l - i + 1
                       /\ \A j \in 1 .. Len(q) : q[j].date = q[i].date <=> i <= j /\ j <= l
<1> DEFINE n == Len(q)
           same == {j \in 1 .. n : q[j].date = q[i].date}
           first == \A j \in 1 .. n : q[j].date = q[i].date => i <= j
           row == Table!ToRow(q, i)
<1>1. n \in Nat /\ i \in Nat /\ None \notin Nat /\ q[i].date \in Nat
  BY TableAssumption DEF Contiguous
<1>2. row.date = IF first THEN q[i].date ELSE None
  BY DEF Table!ToRow
<1>3. row.dateSpan = Table!DateSpan(first, Cardinality(same))
  <2>1. (\A j \in same : i <= j) <=> first OBVIOUS
  <2> QED BY <2>1 DEF Table!ToRow, Cardinality, Table!Cardinality
<1> HIDE DEF row
<1>4. ASSUME first
      PROVE  \E l \in i .. n :
               /\ Table!RowSpan(row) = l - i + 1
               /\ \A j \in 1 .. n : q[j].date = q[i].date <=> i <= j /\ j <= l
  <2>1. i \in same /\ same \subseteq 1 .. n OBVIOUS
  <2>2. PICK l \in same : \A j \in same : l >= j
    <3> HIDE DEF same, n
    <3> QED BY <1>1, <2>1, GreatestIndex
  <2>3. l \in 1 .. n /\ i <= l /\ q[l].date = q[i].date BY <1>4, <2>2
  <2>4. ASSUME NEW j \in 1 .. n PROVE q[j].date = q[i].date <=> i <= j /\ j <= l
    <3>1. CASE q[j].date = q[i].date
      <4>1. j \in same BY <3>1
      <4>2. l >= j BY <2>2, <4>1
      <4>3. i <= j BY <1>4, <3>1
      <4> QED BY <1>1, <2>3, <3>1, <4>2, <4>3
    <3>2. CASE i <= j /\ j <= l
      <4>1. q[j].date = q[i].date BY <2>3, <3>2 DEF Contiguous
      <4> QED BY <3>2, <4>1
    <3> QED BY <3>1, <3>2
  <2>5. same = i .. l
    <3>1. \A j \in i .. l : j \in 1 .. n BY <1>1, <2>3
    <3> QED BY <1>1, <2>3, <2>4, <3>1
  <2>6. Cardinality(same) = l - i + 1 /\ l - i + 1 \in Nat
    <3>1. i \in Int /\ l \in Int /\ ~ (i > l) BY <1>1, <2>3
    <3> HIDE DEF same, n
    <3> QED BY <2>5, <3>1, FS_Interval
  <2> DEFINE span == Cardinality(same)
  <2> HIDE DEF same, first, n
  <2>7. Table!RowSpan(row) = span
    <3>1. span \in Nat /\ span # None /\ span >= 1 BY <1>1, <2>3, <2>6
    <3> HIDE DEF span
    <3> QED BY <1>3, <1>4, <3>1 DEF Table!RowSpan, Table!DateSpan, span
  <2>8. l \in i .. n BY <1>1, <2>3
  <2> QED BY <2>4, <2>6, <2>7, <2>8
<1>5. (row.date # None <=> first) /\ (first => row.date = q[i].date)
  <2> HIDE DEF first
  <2> QED BY <1>1, <1>2
<1> QED BY <1>4, <1>5 DEF row

(* The rows of events, and how their date cells tile the table. *)
RowsOf(q) == [i \in 1 .. Len(q) |-> Table!ToRow(q, i)]

(* A row has a date where the cell of a date above it ends. *)
LEMMA CellsTile ==
  ASSUME NEW q, Contiguous(q), NEW i \in 1 .. Len(q)
  PROVE  RowsOf(q)[i].date # None <=>
           \/ i = 1
           \/ \E j \in 1 .. i - 1 :
                 /\ RowsOf(q)[j].date # None
                 /\ j + Table!RowSpan(RowsOf(q)[j]) = i
<1> DEFINE n == Len(q)
           First(j) == \A k \in 1 .. n : q[k].date = q[j].date => j <= k
<1>1. n \in Nat /\ i \in Nat /\ 1 <= i /\ i <= n
  BY DEF Contiguous
<1>2. \A j \in 1 .. n : RowsOf(q)[j] = Table!ToRow(q, j)
  BY DEF RowsOf
<1>3. ASSUME NEW j \in 1 .. n
      PROVE  /\ RowsOf(q)[j].date # None <=> First(j)
             /\ First(j) => \E l \in j .. n :
                              /\ Table!RowSpan(RowsOf(q)[j]) = l - j + 1
                              /\ \A k \in 1 .. n : q[k].date = q[j].date <=> j <= k /\ k <= l
  <2> QED BY <1>2, RowsOfADate
<1> HIDE DEF n
<1>4. ASSUME First(i), i # 1
      PROVE  \E j \in 1 .. i - 1 : First(j) /\ j + Table!RowSpan(RowsOf(q)[j]) = i
  <2>1. i - 1 \in 1 .. n BY <1>1, <1>4
  <2> DEFINE T == {j \in 1 .. n : q[j].date = q[i - 1].date}
  <2>2. PICK j \in T : \A k \in T : j <= k
    <3>1. T \subseteq Nat OBVIOUS
    <3>2. i - 1 \in T BY <2>1
    <3> HIDE DEF T
    <3> QED BY <3>1, <3>2, LeastOfNaturals
  <2>3. j \in 1 .. n /\ q[j].date = q[i - 1].date /\ j <= i - 1
    BY <2>1, <2>2
  <2>4. First(j) BY <2>2, <2>3
  <2>5. PICK l \in j .. n :
          /\ Table!RowSpan(RowsOf(q)[j]) = l - j + 1
          /\ \A k \in 1 .. n : q[k].date = q[j].date <=> j <= k /\ k <= l
    <3> HIDE DEF First
    <3> QED BY <1>3, <2>3, <2>4
  <2>6. i - 1 <= l BY <2>1, <2>3, <2>5
  <2>7. ~ (i <= l)
    <3>1. ASSUME i <= l PROVE FALSE
      <4>1. j <= i BY <1>1, <2>3, <2>1
      <4>2. q[i].date = q[j].date
        <5>1. i \in 1 .. n BY <1>1
        <5> QED BY <2>5, <3>1, <4>1, <5>1
      <4>3. i <= j BY <1>4, <2>3, <4>2
      <4> QED BY <1>1, <2>1, <2>3, <4>3
    <3> QED BY <3>1
  <2>8. l = i - 1 /\ l \in Nat /\ j \in Nat BY <1>1, <2>3, <2>5, <2>6, <2>7
  <2>9. j + (l - j + 1) = i BY <1>1, <2>8
  <2>10. j \in 1 .. i - 1 BY <1>1, <2>3
  <2> QED BY <2>4, <2>5, <2>9, <2>10
<1>5. ASSUME NEW j \in 1 .. i - 1, First(j), j + Table!RowSpan(RowsOf(q)[j]) = i
      PROVE  First(i)
  <2>1. j \in 1 .. n /\ j < i BY <1>1
  <2>2. PICK l \in j .. n :
          /\ Table!RowSpan(RowsOf(q)[j]) = l - j + 1
          /\ \A k \in 1 .. n : q[k].date = q[j].date <=> j <= k /\ k <= l
    <3> HIDE DEF First
    <3> QED BY <1>3, <1>5, <2>1
  <2>3. i = l + 1 /\ i \in 1 .. n BY <1>1, <1>5, <2>1, <2>2
  <2>4. q[i].date # q[j].date BY <2>1, <2>2, <2>3
  <2>5. ASSUME NEW k \in 1 .. n, q[k].date = q[i].date, ~ (i <= k) PROVE FALSE
    <3>1. k < i BY <1>1, <2>5
    <3>2. CASE j <= k
      <4>1. q[k].date = q[j].date BY <1>1, <2>1, <2>2, <2>3, <3>1, <3>2
      <4> QED BY <2>4, <2>5, <4>1
    <3>3. CASE k < j
      <4>1. q[j].date = q[k].date BY <2>1, <2>3, <2>5, <3>3 DEF Contiguous, n
      <4> QED BY <2>4, <2>5, <4>1
    <3> QED BY <2>1, <3>2, <3>3
  <2> QED BY <2>5
<1>6. i = 1 => First(i)
  OBVIOUS
<1>7. i \in 1 .. n /\ \A j \in 1 .. i - 1 : j \in 1 .. n
  BY <1>1
<1> HIDE DEF First
<1>8. RowsOf(q)[i].date # None <=> First(i)
  BY <1>3, <1>7
<1>9. \A j \in 1 .. i - 1 : RowsOf(q)[j].date # None <=> First(j)
  BY <1>3, <1>7
<1> QED BY <1>4, <1>5, <1>6, <1>8, <1>9

(* The events of the table. *)
Shown(t, answers) == Table!ToEvents(Table!WeekRange(t), answers)

(* They are of the week, in order, and those of one date stand together. *)
LEMMA ShownInOrder ==
  ASSUME NEW t \in Nat, NEW answers, Complete(answers)
  PROVE  LET q == Shown(t, answers) IN
         /\ Len(q) \in Nat /\ Len(q) <= MAX_EVENTS /\ Contiguous(q)
         /\ \A i \in 1 .. Len(q) :
              /\ q[i] \in Merged(t, answers) /\ q[i].epoch \in Nat
              /\ q[i].date = (q[i].epoch \div Day) % YearDays
              /\ t \div Day <= q[i].epoch \div Day
              /\ q[i].epoch \div Day < (t \div Day) + WEEKDATES
         /\ \A i, j \in 1 .. Len(q) :
              i < j => Table!Before(q[i], q[j]) /\ q[i].epoch <= q[j].epoch /\ q[i] # q[j]
<1> DEFINE q == Shown(t, answers)
           L == Merged(t, answers)
           a == t \div Day
           Of(i) == q[i].epoch \div Day
<1>1. Sortable(L) /\ \A e \in L : Table!InSpan(e, Table!WeekRange(t))
  BY MergedFits
<1>2. TableOf(q, L)
  BY <1>1, TableIsCut DEF Shown
<1> HIDE DEF q, L
<1>3. Len(q) \in Nat /\ Len(q) <= MAX_EVENTS /\ \A i \in 1 .. Len(q) : q[i] \in L
  BY <1>2 DEF TableOf
<1>4. ASSUME NEW i \in 1 .. Len(q)
      PROVE  /\ q[i].epoch \in Nat /\ q[i].date = Of(i) % YearDays
             /\ Of(i) \in Nat /\ a <= Of(i) /\ Of(i) < a + WEEKDATES
  <2>1. PlainEvent(q[i]) /\ Table!InSpan(q[i], Table!WeekRange(t))
    BY <1>1, <1>3 DEF Sortable
  <2>2. q[i].epoch \in Nat /\ q[i].date = Of(i) % YearDays
    BY <2>1 DEF PlainEvent, Table!FormatDate
  <2>3. Table!WeekRange(t).since <= q[i].epoch /\ q[i].epoch < Table!WeekRange(t).until
    <3>1. Table!WeekRange(t).since \in Nat
      <4>1. Day \in Nat \ {0} /\ t \div Day \in Nat BY TableAssumption, Division
      <4>2. (t \div Day) * Day \in Nat BY <4>1
      <4> QED BY <4>2 DEF Table!WeekRange, Table!TruncateTime
    <3> QED BY <2>1, <2>2, <3>1 DEF Table!InSpan
  <2>4. Of(i) \in Nat /\ a <= Of(i) /\ Of(i) < a + WEEKDATES
    BY <2>2, <2>3, TimesOfWeek
  <2> QED BY <2>2, <2>4
<1>5. ASSUME NEW i \in 1 .. Len(q), NEW j \in 1 .. Len(q), i < j
      PROVE  Table!Before(q[i], q[j]) /\ q[i].epoch <= q[j].epoch /\ q[i] # q[j]
  <2>1. Table!Before(q[i], q[j]) BY <1>2, <1>5 DEF TableOf, InOrder
  <2>2. q[i].epoch <= q[j].epoch BY <1>4, <2>1 DEF Table!Before
  <2>3. ~ Table!Before(q[i], q[i]) BY <1>1, <1>3, BeforeIsOrder
  <2>4. q[i] # q[j] BY <2>1, <2>3
  <2> QED BY <2>1, <2>2, <2>4
<1>6. Day \in Nat \ {0} /\ YearDays \in Nat \ {0} /\ a \in Nat /\ WEEKDATES \in Nat
  BY TableAssumption, Division
<1>7. ASSUME NEW i \in 1 .. Len(q), NEW j \in 1 .. Len(q), i <= j
      PROVE  Of(i) <= Of(j)
  <2>1. q[i].epoch \in Nat /\ q[j].epoch \in Nat BY <1>4
  <2>2. q[i].epoch <= q[j].epoch
    <3>1. i < j \/ i = j BY <1>3, <1>7
    <3> QED BY <1>5, <2>1, <3>1
  <2> QED BY <1>6, <2>1, <2>2, Monotone
<1>8. \A i \in 1 .. Len(q) : q[i].date \in Nat
  <2>1. ASSUME NEW i \in 1 .. Len(q) PROVE q[i].date \in Nat
    <3>1. Of(i) \in Nat /\ q[i].date = Of(i) % YearDays BY <1>4
    <3> HIDE DEF Of
    <3> QED BY <1>6, <3>1, Division
  <2> QED BY <2>1
<1>9. ASSUME NEW i \in 1 .. Len(q), NEW j \in 1 .. Len(q), NEW k \in 1 .. Len(q),
             i <= j, j <= k, q[i].date = q[k].date
      PROVE  q[j].date = q[i].date
  <2>1. /\ Of(i) \in Nat /\ Of(j) \in Nat /\ Of(k) \in Nat
        /\ a <= Of(i) /\ Of(i) < a + WEEKDATES /\ a <= Of(k) /\ Of(k) < a + WEEKDATES
        /\ Of(i) % YearDays = Of(k) % YearDays
    BY <1>4, <1>9
  <2>2. Of(i) <= Of(j) /\ Of(j) <= Of(k) BY <1>7, <1>9
  <2> HIDE DEF a, Of
  <2>3. Of(i) = Of(k) BY <1>6, <2>1, DatesDiffer
  <2>4. Of(j) = Of(i) BY <2>1, <2>2, <2>3
  <2> QED BY <1>4, <2>4
<1>10. Contiguous(q)
  BY <1>3, <1>8, <1>9 DEF Contiguous
<1> QED BY <1>3, <1>4, <1>5, <1>10 DEF q, L

(* What is not shown comes after a full table. *)
LEMMA ShownOrLater ==
  ASSUME NEW t \in Nat, NEW answers, Complete(answers), NEW e \in Merged(t, answers)
  PROVE  LET q == Shown(t, answers) IN
         \/ \E i \in 1 .. Len(q) : q[i] = e
         \/ Len(q) = MAX_EVENTS /\ q[MAX_EVENTS].epoch <= e.epoch
<1> DEFINE q == Shown(t, answers)
           L == Merged(t, answers)
<1>1. Sortable(L)
  BY MergedFits
<1>2. TableOf(q, L)
  BY <1>1, TableIsCut DEF Shown
<1>3. MAX_EVENTS \in 1 .. MAX_EVENTS
  BY TableAssumption
<1>4. \A i \in 1 .. Len(q) : q[i].epoch \in Nat
  BY ShownInOrder
<1> HIDE DEF q, L
<1>5. e.epoch \in Nat
  BY <1>1 DEF Sortable, PlainEvent, L
<1>6. CASE Len(q) = MAX_EVENTS /\ Table!Before(q[MAX_EVENTS], e)
  <2>1. q[MAX_EVENTS].epoch \in Nat BY <1>3, <1>4, <1>6
  <2>2. q[MAX_EVENTS].epoch <= e.epoch BY <1>5, <1>6, <2>1 DEF Table!Before
  <2> QED BY <1>6, <2>2 DEF q
<1> QED BY <1>2, <1>6 DEF TableOf, q, L

(* No event of the answers has the date of a day of the week in another year. *)
NoYearAway(t, answers) ==
  \A e \in Table!AllEvents(answers), d \in 1 .. WEEKDATES :
    e.date = Table!FormatDate(Table!WeekDates(t)[d]) => Table!TruncateTime(e.epoch) = Table!WeekDates(t)[d]

(* Each day of the week is shown, up to the end of a full table. *)
LEMMA DayIsShown ==
  ASSUME NEW t \in Nat, NEW answers, Complete(answers), NoYearAway(t, answers),
         NEW d \in 1 .. WEEKDATES
  PROVE  LET q == Shown(t, answers) IN
         \/ \E i \in 1 .. Len(q) : q[i].date = Table!FormatDate(Table!WeekDates(t)[d])
         \/ /\ Len(q) = MAX_EVENTS
            /\ q[MAX_EVENTS].epoch < Table!WeekDates(t)[d] + Day
<1> DEFINE q == Shown(t, answers)
           L == Merged(t, answers)
           all == Table!AllEvents(answers)
           x == Table!WeekDates(t)[d]
<1>1. /\ x \in Nat /\ Table!WeekRange(t).since <= x /\ x + Day <= Table!WeekRange(t).until
      /\ Table!WeekRange(t).since \in Nat
  BY DaysOfWeek DEF Table!WeekRange
<1>2. Day \in Nat \ {0} /\ MAX_EVENTS \in 1 .. MAX_EVENTS
  BY TableAssumption
<1>3. \E e \in L : e.date = Table!FormatDate(x) /\ e.epoch < x + Day
  <2>1. CASE \E e \in all : e.date = Table!FormatDate(x)
    <3>1. PICK e \in all : e.date = Table!FormatDate(x) BY <2>1
    <3>2. e.epoch \in Nat BY EventsOfAnswers DEF PlainEvent
    <3>3. Table!TruncateTime(e.epoch) = x BY <3>1 DEF NoYearAway
    <3>4. /\ e.epoch \div Day \in Nat /\ e.epoch % Day \in Nat /\ e.epoch % Day < Day
          /\ e.epoch = (e.epoch \div Day) * Day + (e.epoch % Day)
      BY <1>2, <3>2, Division
    <3> HIDE DEF x
    <3>5. e.epoch = x + (e.epoch % Day) BY <3>3, <3>4 DEF Table!TruncateTime
    <3>6. x <= e.epoch /\ e.epoch < x + Day
      <4> DEFINE r == e.epoch % Day
      <4>1. r \in Nat /\ r < Day /\ e.epoch = x + r BY <3>4, <3>5
      <4> HIDE DEF r
      <4> QED BY <1>1, <1>2, <4>1
    <3>7. Table!WeekRange(t).until \in Nat
      <4>1. Table!WeekRange(t).until = Table!WeekRange(t).since + WEEKDATES * Day
        BY DEF Table!WeekRange, Table!PlusDate
      <4>2. WEEKDATES * Day \in Nat BY TableAssumption
      <4> QED BY <1>1, <4>1, <4>2
    <3>8. Table!InSpan(e, Table!WeekRange(t)) BY <1>1, <1>2, <3>2, <3>6, <3>7 DEF Table!InSpan
    <3>9. e \in L BY <3>8, MergedFits
    <3> QED BY <3>1, <3>6, <3>9
  <2>2. CASE \E e \in L : e.epoch = x /\ e.date = Table!FormatDate(x)
    BY <1>1, <1>2, <2>2
  <2> QED BY <2>1, <2>2, MergedFits
<1>4. PICK e \in L : e.date = Table!FormatDate(x) /\ e.epoch < x + Day
  BY <1>3
<1>5. e.epoch \in Nat
  <2>1. Sortable(L) BY MergedFits
  <2> QED BY <2>1 DEF Sortable, PlainEvent
<1>6. \/ \E i \in 1 .. Len(q) : q[i] = e
      \/ Len(q) = MAX_EVENTS /\ q[MAX_EVENTS].epoch <= e.epoch
  BY ShownOrLater
<1>7. \A i \in 1 .. Len(q) : q[i].epoch \in Nat
  BY ShownInOrder
<1> HIDE DEF q, x, L
<1>8. CASE Len(q) = MAX_EVENTS /\ q[MAX_EVENTS].epoch <= e.epoch
  <2>1. q[MAX_EVENTS].epoch \in Nat BY <1>2, <1>7, <1>8
  <2>2. q[MAX_EVENTS].epoch < x + Day BY <1>1, <1>2, <1>4, <1>5, <1>8, <2>1
  <2> QED BY <1>8, <2>2 DEF q, x
<1> QED BY <1>4, <1>6, <1>8 DEF q, x

(* Events and days off have a calendar for their type, and times of day. *)
LEMMA MergedTypes ==
  ASSUME NEW t \in Nat, NEW answers, Complete(answers), NEW e \in Merged(t, answers)
  PROVE  /\ e.type \in Table!Types
         /\ e.time # None => e.time \in [from : 0 .. Day - 1, to : 0 .. Day - 1, next : BOOLEAN]
<1>1. CASE e \in Table!AllEvents(answers)
  <2>1. PICK p \in Table!Kept(answers) : e = Table!ToEvent(p, answers[p[1]][p[2]])
    BY <1>1 DEF Table!AllEvents
  <2> DEFINE raw == answers[p[1]][p[2]]
  <2>2. p[1] \in Table!Types /\ p[2] \in DOMAIN answers[p[1]] /\ Table!Epoch(raw) \in Nat
    BY KeptIsFinite
  <2>3. raw.date # None \/ raw.end # None
    BY DEF Table!Kept, Table!Resolvable
  <2>4. raw.end \in Nat \cup {None}
    <3>1. answers[p[1]] \in Answers BY <2>2 DEF Complete, Table!Types
    <3>2. {raw.dateTime, raw.date, raw.end} \subseteq Nat \cup {None} BY <2>2, <3>1, TableAssumption
    <3> QED BY <3>2
  <2> HIDE DEF raw
  <2>5. /\ e.type = p[1]
        /\ e.time = IF raw.date # None THEN None ELSE Table!FormatTimeRange(Table!Epoch(raw), raw.end)
    BY <2>1 DEF Table!ToEvent, raw
  <2>6. ASSUME raw.date = None
        PROVE  Table!FormatTimeRange(Table!Epoch(raw), raw.end)
                 \in [from : 0 .. Day - 1, to : 0 .. Day - 1, next : BOOLEAN]
    <3>1. Day \in Nat \ {0} /\ raw.end \in Nat BY <2>3, <2>4, <2>6, TableAssumption
    <3>2. /\ Table!Epoch(raw) % Day \in Nat /\ Table!Epoch(raw) % Day < Day
          /\ raw.end % Day \in Nat /\ raw.end % Day < Day
      BY <2>2, <3>1, Division
    <3>3. Table!Epoch(raw) % Day \in 0 .. Day - 1 /\ raw.end % Day \in 0 .. Day - 1
      <4> DEFINE x == Table!Epoch(raw) % Day
                 y == raw.end % Day
      <4>1. x \in Nat /\ x < Day /\ y \in Nat /\ y < Day BY <3>2
      <4> HIDE DEF x, y
      <4>2. x \in 0 .. Day - 1 /\ y \in 0 .. Day - 1 BY <3>1, <4>1
      <4> QED BY <4>2 DEF x, y
    <3> QED BY <3>3 DEF Table!FormatTimeRange
  <2> QED BY <2>2, <2>5, <2>6
<1>2. CASE e \notin Table!AllEvents(answers)
  <2>1. PICK k \in 1 .. WEEKDATES : e = Table!Vacation(Table!WeekRange(t).since, k)
    BY <1>2 DEF Merged, Table!VacationEvents
  <2>2. e.type = 1 /\ e.time = None BY <2>1 DEF Table!Vacation
  <2>3. 1 \in Table!Types BY TableAssumption DEF Table!Types
  <2> QED BY <2>2, <2>3
<1> QED BY <1>1, <1>2

(* Only a row with a date has a span, which the table has room for. *)
LEMMA RowTypes ==
  ASSUME NEW q, Contiguous(q), Len(q) <= MAX_EVENTS, NEW i \in 1 .. Len(q)
  PROVE  LET row == Table!ToRow(q, i) IN
         /\ row.dateSpan # None => row.date # None /\ row.dateSpan \in 2 .. MAX_EVENTS
         /\ row.holiday \in BOOLEAN
<1> DEFINE n == Len(q)
           same == {j \in 1 .. n : q[j].date = q[i].date}
           first == \A j \in same : i <= j
           row == Table!ToRow(q, i)
           span == Cardinality(same)
<1>1. n \in Nat /\ q[i].date \in Nat /\ None \notin Nat /\ MAX_EVENTS \in Nat /\ n <= MAX_EVENTS
  BY TableAssumption DEF Contiguous
<1>2. /\ row.date = IF first THEN q[i].date ELSE None
      /\ row.dateSpan = Table!DateSpan(first, span)
  BY DEF Table!ToRow, Cardinality, Table!Cardinality
<1>3. row.holiday = (first /\ q[i].epoch \div Day \in Holidays)
  BY DEF Table!ToRow
<1>4. span \in Nat /\ span <= n
  <2>1. same \subseteq 1 .. n OBVIOUS
  <2>2. IsFiniteSet(1 .. n) /\ Cardinality(1 .. n) = n
    <3> HIDE DEF n
    <3>1. 1 \in Int /\ n \in Int /\ (1 > n => n = 0) BY <1>1
    <3>2. Cardinality(1 .. n) = (IF 1 > n THEN 0 ELSE n - 1 + 1) /\ IsFiniteSet(1 .. n) BY <3>1, FS_Interval
    <3> QED BY <1>1, <3>1, <3>2
  <2> HIDE DEF same, n
  <2>3. IsFiniteSet(same) /\ Cardinality(same) <= Cardinality(1 .. n) BY <2>1, <2>2, FS_Subset
  <2>4. Cardinality(same) \in Nat BY <2>3, FS_CardinalityType
  <2> QED BY <2>2, <2>3, <2>4
<1> HIDE DEF row, first, span, n
<1>5. ASSUME row.dateSpan # None
      PROVE  row.date # None /\ row.dateSpan \in 2 .. MAX_EVENTS
  <2>1. first /\ span > 1 /\ row.dateSpan = span
    BY <1>2, <1>5 DEF Table!DateSpan
  <2>2. row.date # None BY <1>1, <1>2, <2>1
  <2>3. span \in 2 .. MAX_EVENTS BY <1>1, <1>4, <2>1
  <2> QED BY <2>1, <2>2, <2>3
<1>6. row.holiday \in BOOLEAN
  BY <1>3
<1> QED BY <1>5, <1>6 DEF row

(***************************************************************************)
(* The table is computed in one step from all answers, so that it is what  *)
(* the code computes of them as long as it stands.                         *)
(***************************************************************************)
TableIInv ==
    /\ now \in Clock /\ source \in Seq(Answers) /\ Len(source) <= NumTypes
    /\ stage \in {"fetching", "printed", "failed"}
    /\ stage = "printed" => Complete(source) /\ events = Shown(now, source) /\ rows = RowsOf(events)
    /\ stage # "printed" => events = <<>> /\ rows = <<>>

(* It holds in a fetch, whatever the calendars answer. *)
LEMMA TableInvariant == Table!Spec => []TableIInv
<1>1. Table!Init => TableIInv
  BY TableAssumption DEF Table!Init, TableIInv
<1>2. TableIInv /\ [Table!Next]_Table!vars => TableIInv'
  <2> SUFFICES ASSUME TableIInv, [Table!Next]_Table!vars PROVE TableIInv'
    OBVIOUS
  <2>1. CASE Table!FetchRawEvents
    <3>1. PICK answer \in Answers : source' = Append(source, answer)
      BY <2>1 DEF Table!FetchRawEvents
    <3>2. source' \in Seq(Answers) /\ Len(source') = Len(source) + 1 /\ Len(source) \in Nat
      BY <3>1 DEF TableIInv
    <3>3. Len(source') <= NumTypes BY <2>1, <3>2, TableAssumption DEF Table!FetchRawEvents
    <3> QED BY <2>1, <3>2, <3>3 DEF TableIInv, Table!FetchRawEvents
  <2>2. CASE Table!RequestFails
    BY <2>2 DEF TableIInv, Table!RequestFails
  <2>3. CASE Table!PrintRows
    <3>1. /\ now' = now /\ source' = source /\ stage' = "printed" /\ Len(source) = NumTypes
          /\ events' = Shown(now, source) /\ rows' = RowsOf(events')
      BY <2>3 DEF Table!PrintRows, Shown, RowsOf
    <3> QED BY <3>1, TableAssumption DEF TableIInv, Complete
  <2>4. CASE UNCHANGED Table!vars
    BY <2>4 DEF TableIInv, Table!vars
  <2> QED BY <2>1, <2>2, <2>3, <2>4 DEF Table!Next
<1> QED
  BY <1>1, <1>2, PTL DEF Table!Spec

(* The date cells of a printed table tile it. *)
LEMMA PrintedCellsTile == TableIInv => Table!DateCellsTile
<1> SUFFICES ASSUME TableIInv, stage = "printed", NEW i \in 1 .. Len(rows)
             PROVE  rows[i].date # None <=>
                      \/ i = 1
                      \/ \E j \in 1 .. i - 1 : rows[j].date # None /\ j + Table!RowSpan(rows[j]) = i
  BY DEF Table!DateCellsTile
<1>1. rows = RowsOf(events) /\ Contiguous(events)
  BY ShownInOrder, TableAssumption DEF TableIInv
<1>2. Len(rows) = Len(events)
  BY <1>1 DEF RowsOf, Contiguous
<1> QED BY <1>1, <1>2, CellsTile

(* Events are in the order of time, and at one time in that of the calendars. *)
LEMMA PrintedInOrder == TableIInv => Table!ChronologicalAndStable
<1> SUFFICES ASSUME TableIInv, NEW i \in 1 .. Len(events), NEW j \in 1 .. Len(events), i < j
             PROVE  \/ events[i].epoch < events[j].epoch
                    \/ events[i].epoch = events[j].epoch /\ events[i].type <= events[j].type
  BY DEF Table!ChronologicalAndStable
<1> DEFINE L == Merged(now, source)
<1>1. stage = "printed" /\ now \in Nat /\ Complete(source) /\ events = Shown(now, source)
  <2>1. events # <<>> OBVIOUS
  <2> QED BY <2>1, TableAssumption DEF TableIInv
<1>2. /\ events[i] \in L /\ events[j] \in L /\ events[i] # events[j]
      /\ Table!Before(events[i], events[j])
      /\ events[i].date = (events[i].epoch \div Day) % YearDays
      /\ events[j].date = (events[j].epoch \div Day) % YearDays
  BY <1>1, ShownInOrder
<1>3. CASE events[i].epoch = events[j].epoch
  <2>1. events[i].date = events[j].date BY <1>2, <1>3
  <2>2. ~ events[i].vacation /\ ~ events[j].vacation
    <3>1. DaysOffAreFree(L) BY <1>1, MergedFits
    <3> QED BY <1>2, <2>1, <3>1 DEF DaysOffAreFree
  <2>3. events[i] \in Table!AllEvents(source) /\ events[j] \in Table!AllEvents(source)
    BY <1>1, <1>2, <2>2, MergedFits
  <2>4. /\ events[i].type = events[i].place[1] /\ events[i].place[1] \in Nat /\ events[i].epoch \in Nat
        /\ events[j].type = events[j].place[1] /\ events[j].place[1] \in Nat
    BY <1>1, <2>3, EventsOfAnswers DEF PlainEvent
  <2>5. events[i].place[1] <= events[j].place[1]
    BY <1>2, <1>3, <2>4 DEF Table!Before
  <2> QED BY <1>3, <2>4, <2>5
<1>4. CASE events[i].epoch # events[j].epoch
  BY <1>2, <1>4 DEF Table!Before
<1> QED BY <1>3, <1>4

(* No event of the week is lost but to a table full of earlier ones. *)
LEMMA PrintedLosesNothing == TableIInv => Table!NothingLost
<1> SUFFICES ASSUME TableIInv, stage = "printed", NEW k \in Table!Types, NEW m \in 1 .. Len(source[k]),
                    Table!IsAvailableRaw(source[k][m]), Table!Resolvable(source[k][m]),
                    Table!Epoch(source[k][m]) \in Table!WeekRange(now).since .. Table!WeekRange(now).until - 1
             PROVE  \/ \E i \in 1 .. Len(events) :
                         /\ events[i].epoch = Table!Epoch(source[k][m])
                         /\ events[i].type = k /\ ~ events[i].vacation
                    \/ /\ Len(events) = MAX_EVENTS
                       /\ events[MAX_EVENTS].epoch <= Table!Epoch(source[k][m])
  BY DEF Table!NothingLost
<1> DEFINE raw == source[k][m]
           e == Table!ToEvent(<<k, m>>, raw)
<1>1. now \in Nat /\ Complete(source) /\ events = Shown(now, source)
  BY TableAssumption DEF TableIInv
<1>2. k \in 1 .. NumTypes /\ source[k] \in Answers /\ DOMAIN source[k] = 1 .. Len(source[k])
  <2>1. k \in 1 .. NumTypes BY DEF Table!Types
  <2>2. source[k] \in Answers BY <1>1, <2>1 DEF Complete
  <2> QED BY <2>1, <2>2, TableAssumption
<1>3. <<k, m>> \in Table!Kept(source)
  <2>1. <<k, m>> \in {k} \X DOMAIN source[k] BY <1>2
  <2>2. <<k, m>>[1] = k /\ <<k, m>>[2] = m OBVIOUS
  <2> QED BY <2>1, <2>2 DEF Table!Kept
<1>4. e \in Table!AllEvents(source)
  <2>1. e = Table!ToEvent(<<k, m>>, source[<<k, m>>[1]][<<k, m>>[2]]) OBVIOUS
  <2> HIDE DEF e
  <2> QED BY <1>3, <2>1 DEF Table!AllEvents
<1>5. e.epoch = Table!Epoch(raw) /\ e.type = k /\ e.vacation = FALSE
  BY DEF Table!ToEvent
<1>6. e.epoch \in Nat
  BY <1>1, <1>4, EventsOfAnswers DEF PlainEvent
<1>7. Table!WeekRange(now).since <= e.epoch /\ e.epoch < Table!WeekRange(now).until
  <2>1. Table!WeekRange(now).since \in Nat /\ Table!WeekRange(now).until \in Nat
    <3>1. Day \in Nat \ {0} /\ now \div Day \in Nat BY <1>1, TableAssumption, Division
    <3>2. (now \div Day) * Day \in Nat /\ WEEKDATES * Day \in Nat BY <3>1, TableAssumption
    <3> QED BY <3>2 DEF Table!WeekRange, Table!TruncateTime, Table!PlusDate
  <2> DEFINE a == Table!WeekRange(now).since
             b == Table!WeekRange(now).until
             x == Table!Epoch(raw)
  <2>2. x \in a .. b - 1 /\ a \in Nat /\ b \in Nat BY <2>1
  <2> HIDE DEF a, b, x
  <2>3. a <= x /\ x < b BY <2>2
  <2> QED BY <1>5, <2>3 DEF a, b, x
<1> HIDE DEF e, raw
<1>8. e \in Merged(now, source)
  BY <1>1, <1>4, <1>7, MergedFits DEF Table!InSpan
<1>9. \/ \E i \in 1 .. Len(events) : events[i] = e
      \/ Len(events) = MAX_EVENTS /\ events[MAX_EVENTS].epoch <= e.epoch
  BY <1>1, <1>8, ShownOrLater
<1> QED BY <1>5, <1>9 DEF raw

(* Each day of the week appears, up to the end of a full table. *)
LEMMA PrintedEveryDay == TableIInv => Table!EveryDayAppears
<1> SUFFICES ASSUME TableIInv, stage = "printed" PROVE Table!EveryDayAppears
  BY DEF Table!EveryDayAppears
<1>1. now \in Nat /\ Complete(source) /\ events = Shown(now, source)
  BY TableAssumption DEF TableIInv
<1>2. ASSUME Table!NoneAYearAway, NEW d \in 1 .. WEEKDATES
      PROVE  \/ \E i \in 1 .. Len(events) : events[i].date = Table!FormatDate(Table!WeekDates(now)[d])
             \/ /\ Len(events) = MAX_EVENTS
                /\ events[MAX_EVENTS].epoch < Table!PlusDate(Table!WeekDates(now)[d], 1)
  <2>1. NoYearAway(now, source) BY <1>2 DEF NoYearAway, Table!NoneAYearAway
  <2>2. Table!PlusDate(Table!WeekDates(now)[d], 1) = Table!WeekDates(now)[d] + Day
    BY TableAssumption DEF Table!PlusDate
  <2> QED BY <1>1, <2>1, <2>2, DayIsShown
<1>3. ASSUME NEW i \in 1 .. Len(events), NEW j \in 1 .. Len(events), events[i].vacation, i # j
      PROVE  events[j].date # events[i].date
  <2>1. DaysOffAreFree(Merged(now, source)) BY <1>1, MergedFits
  <2>2. events[i] \in Merged(now, source) /\ events[j] \in Merged(now, source)
    BY <1>1, ShownInOrder
  <2>3. events[i] # events[j]
    <3>1. i < j \/ j < i BY <1>3
    <3> QED BY <1>1, <3>1, ShownInOrder
  <2> QED BY <1>3, <2>1, <2>2, <2>3 DEF DaysOffAreFree
<1> QED BY <1>2, <1>3 DEF Table!EveryDayAppears

(* The first row is of today. *)
LEMMA PrintedStartsToday == TableIInv => Table!StartsToday
<1> SUFFICES ASSUME TableIInv, stage = "printed", Table!NoneAYearAway
             PROVE  Table!DateRangeOf(rows)[1] = Table!FormatDate(now)
  BY DEF Table!StartsToday
<1> DEFINE a == now \div Day
           n == Len(events)
           Of(i) == events[i].epoch \div Day
<1>1. /\ now \in Nat /\ Complete(source) /\ events = Shown(now, source) /\ rows = RowsOf(events)
      /\ NoYearAway(now, source)
  BY TableAssumption DEF TableIInv, NoYearAway, Table!NoneAYearAway
<1>2. Day \in Nat \ {0} /\ 1 \in 1 .. WEEKDATES /\ MAX_EVENTS \in Nat \ {0} /\ a \in Nat /\ WEEKDATES \in Nat
  BY <1>1, TableAssumption, Division
<1>3. /\ Table!WeekDates(now)[1] = a * Day /\ a * Day \in Nat
      /\ Table!FormatDate(Table!WeekDates(now)[1]) = a % YearDays
  <2>1. a + 1 - 1 = a BY <1>2
  <2>2. /\ Table!WeekDates(now)[1] = (a + 1 - 1) * Day /\ (a + 1 - 1) * Day \in Nat
        /\ Table!FormatDate((a + 1 - 1) * Day) = (a + 1 - 1) % YearDays
    BY <1>1, <1>2, DaysOfWeek
  <2> HIDE DEF a
  <2> QED BY <2>1, <2>2
<1>4. /\ n \in Nat /\ Contiguous(events)
      /\ \A i \in 1 .. n :
           /\ events[i].epoch \in Nat /\ events[i].date = Of(i) % YearDays /\ Of(i) \in Nat
           /\ a <= Of(i) /\ Of(i) < a + WEEKDATES
      /\ \A i \in 1 .. n : 1 < i => events[1].epoch <= events[i].epoch
  <2>1. /\ n \in Nat /\ Contiguous(events)
        /\ \A i \in 1 .. n :
             /\ events[i].epoch \in Nat /\ events[i].date = Of(i) % YearDays
             /\ a <= Of(i) /\ Of(i) < a + WEEKDATES
        /\ \A i, j \in 1 .. n : i < j => events[i].epoch <= events[j].epoch
    BY <1>1, ShownInOrder
  <2>2. \A i \in 1 .. n : Of(i) \in Nat BY <1>2, <2>1, Division
  <2>3. \A i \in 1 .. n : 1 \in 1 .. n BY <2>1
  <2> QED BY <2>1, <2>2, <2>3
<1>5. /\ 1 \in 1 .. n /\ Of(1) = a
  <2>1. CASE \E i \in 1 .. n : events[i].date = a % YearDays
    <3>1. PICK i \in 1 .. n : events[i].date = a % YearDays BY <2>1
    <3>2. Of(i) \in Nat /\ a <= Of(i) /\ Of(i) < a + WEEKDATES /\ Of(i) % YearDays = a % YearDays
      BY <1>4, <3>1
    <3> HIDE DEF Of, a, n
    <3>3. Of(i) = a BY <1>2, <3>2, DatesDiffer
    <3>4. 1 \in 1 .. n /\ (1 < i \/ i = 1) BY <1>4, <3>1
    <3>5. events[1].epoch \in Nat /\ events[i].epoch \in Nat /\ events[1].epoch <= events[i].epoch
      BY <1>4, <3>1, <3>4
    <3>6. Of(1) <= Of(i) BY <1>2, <3>5, Monotone DEF Of
    <3> QED BY <1>2, <1>4, <3>3, <3>4, <3>6
  <2>2. CASE n = MAX_EVENTS /\ events[MAX_EVENTS].epoch < a * Day + Day
    <3> HIDE DEF Of, a, n
    <3>1. n \in 1 .. n /\ 1 \in 1 .. n /\ (1 < n \/ n = 1) BY <1>2, <1>4, <2>2
    <3>2. events[1].epoch \in Nat /\ events[n].epoch \in Nat /\ events[1].epoch <= events[n].epoch
      BY <1>4, <3>1
    <3>3. events[1].epoch < a * Day + Day BY <1>2, <1>3, <2>2, <3>2
    <3>4. Of(1) \in Nat /\ a <= Of(1) BY <1>4, <3>1
    <3>5. events[1].epoch % Day \in Nat /\ events[1].epoch = Of(1) * Day + (events[1].epoch % Day) /\ Of(1) * Day \in Nat
      BY <1>2, <3>2, <3>4, Division DEF Of
    <3>6. ~ (a < Of(1))
      <4>1. ASSUME a < Of(1) PROVE FALSE
        <5>1. a * Day + Day <= Of(1) * Day BY <1>2, <3>4, <4>1, SmallerProduct
        <5> QED BY <1>2, <1>3, <3>2, <3>3, <3>5, <5>1
      <4> QED BY <4>1
    <3> QED BY <1>2, <3>1, <3>4, <3>6
  <2>3. \/ \E i \in 1 .. n : events[i].date = a % YearDays
        \/ n = MAX_EVENTS /\ events[MAX_EVENTS].epoch < a * Day + Day
    BY <1>1, <1>2, <1>3, DayIsShown
  <2> QED BY <2>1, <2>2, <2>3
<1> DEFINE dated == {i \in 1 .. n : rows[i].date # None}
<1>6. Len(rows) = n
  <2> HIDE DEF n
  <2> QED BY <1>1, <1>4 DEF RowsOf, n
<1>7. rows[1] = Table!ToRow(events, 1)
  BY <1>1, <1>5 DEF RowsOf
<1>8. rows[1].date # None /\ rows[1].date = events[1].date
  <2>1. \A j \in 1 .. n : events[j].date = events[1].date => 1 <= j BY <1>4
  <2> QED BY <1>4, <1>5, <1>7, <2>1, RowsOfADate
<1>9. Table!Min(dated) = 1
  <2>1. 1 \in dated BY <1>5, <1>8
  <2>2. \A j \in dated : 1 <= j /\ j \in Nat BY <1>4
  <2> HIDE DEF dated
  <2>3. \A j \in dated : (\A k \in dated : j <= k) => j = 1 BY <2>1, <2>2
  <2>4. Table!Min(dated) = CHOOSE x \in dated : \A k \in dated : x <= k BY DEF Table!Min
  <2> QED BY <2>1, <2>2, <2>3, <2>4
<1>10. Table!DateRangeOf(rows)[1] = rows[1].date
  <2>1. dated = {i \in 1 .. Len(rows) : rows[i].date # None} /\ dated # {}
    BY <1>5, <1>6, <1>8
  <2> HIDE DEF dated
  <2> QED BY <1>9, <2>1 DEF Table!DateRangeOf
<1>11. Table!FormatDate(now) = a % YearDays
  BY DEF Table!FormatDate
<1> QED BY <1>4, <1>5, <1>8, <1>10, <1>11

(* Each part of the table has its type. *)
LEMMA PrintedTypes == TableIInv => Table!TypeOK
<1> SUFFICES ASSUME TableIInv PROVE Table!TypeOK
  OBVIOUS
<1>1. \A t \in 1 .. Len(source) : source[t] \in Answers
  BY DEF TableIInv
<1>2. CASE stage # "printed"
  <2>1. events = <<>> /\ rows = <<>> /\ Len(<<>>) = 0 BY <1>2 DEF TableIInv
  <2>2. Len(events) = 0 /\ Len(rows) = 0 /\ 1 .. 0 = {} BY <2>1
  <2> QED BY <1>1, <2>2 DEF TableIInv, Table!TypeOK
<1>3. CASE stage = "printed"
  <2>1. now \in Nat /\ Complete(source) /\ events = Shown(now, source) /\ rows = RowsOf(events)
    BY <1>3, TableAssumption DEF TableIInv
  <2>2. Contiguous(events) /\ Len(events) \in Nat /\ Len(events) <= MAX_EVENTS
    BY <2>1, ShownInOrder
  <2>3. ASSUME NEW i \in 1 .. Len(events)
        PROVE  /\ events[i].epoch \in Nat /\ events[i].type \in Table!Types
               /\ events[i].date \in 0 .. YearDays - 1
               /\ events[i].time # None =>
                     events[i].time \in [from : 0 .. Day - 1, to : 0 .. Day - 1, next : BOOLEAN]
    <3>1. events[i].epoch \in Nat /\ events[i].date = (events[i].epoch \div Day) % YearDays
      BY <2>1, ShownInOrder
    <3>2. events[i].date \in 0 .. YearDays - 1
      <4> DEFINE x == events[i].epoch \div Day
      <4>1. Day \in Nat \ {0} /\ YearDays \in Nat \ {0} BY TableAssumption
      <4>2. x \in Nat BY <3>1, <4>1, Division
      <4>3. events[i].date = x % YearDays BY <3>1
      <4> HIDE DEF x
      <4>4. x % YearDays \in Nat /\ x % YearDays < YearDays BY <4>1, <4>2, Division
      <4> QED BY <4>1, <4>3, <4>4
    <3>3. events[i] \in Merged(now, source) BY <2>1, ShownInOrder
    <3> QED BY <2>1, <3>1, <3>2, <3>3, MergedTypes
  <2>4. Len(rows) = Len(events) /\ \A i \in 1 .. Len(events) : rows[i] = Table!ToRow(events, i)
    BY <2>1, <2>2 DEF RowsOf
  <2>5. ASSUME NEW i \in 1 .. Len(events)
        PROVE  /\ rows[i].dateSpan # None => rows[i].date # None /\ rows[i].dateSpan \in 2 .. MAX_EVENTS
               /\ rows[i].holiday \in BOOLEAN
    BY <2>2, <2>4, RowTypes
  <2> QED BY <1>1, <2>3, <2>4, <2>5 DEF TableIInv, Table!TypeOK
<1> QED BY <1>2, <1>3

-----------------------------------------------------------------------------
(***************************************************************************)
(* The site.  A behaviour of one part leaves the others where they began,  *)
(* so that it is a behaviour of every part.                                *)
(***************************************************************************)

(* The site begins as each of its parts does. *)
LEMMA SiteBegins == SiteInit => Init /\ Build!Init
  BY DEF SiteInit, NoCarousel, NoBuild

(* A step of the site is a step of the carousel or leaves it alone. *)
LEMMA SiteStepsCarousel == [SiteNext]_<<part, vars, visit, table, build>> => [Next]_vars
  BY DEF SiteNext, CarouselNext, LanguageNext, TableNext, BuildNext

(* A step of the site is a step of the build or leaves it alone. *)
LEMMA SiteStepsBuild ==
    [SiteNext]_<<part, vars, visit, table, build>> => [Build!Next]_Build!vars
  BY DEF SiteNext, CarouselNext, LanguageNext, TableNext, BuildNext, build, Build!vars

(* What the site does, each part does. *)
LEMMA SiteImplementsParts == SiteSpec => Spec /\ Build!Spec
  BY SiteBegins, SiteStepsCarousel, SiteStepsBuild, PTL DEF SiteSpec, Spec, Build!Spec

(***************************************************************************)
(* Whatever part of the site moves, the carousel has a timer exactly while *)
(* autoplay is eligible (Carousel.tsx, scheduleAdvance and its effects).   *)
(***************************************************************************)
THEOREM SiteTimer == SiteSpec => []TimerIffEligible
  BY SiteImplementsParts, NeverStuckNorStray, PTL

(* In the site, too, the carousel moves under the visitor's hand only, as  *)
(* long as reduced motion is wished (Carousel.tsx, the scroll effect).     *)
THEOREM SiteCarouselRests == SiteSpec => ReducedMotionRests
  BY SiteImplementsParts, VisitorMovesAlone, PTL

(* A successful build of the site admits the inline scripts of its pages,  *)
(* and no others (package.json, generate-csp-headers.mjs).                 *)
THEOREM SiteHeaderFitsPages == SiteSpec => []HeaderFitsPages
<1>1. Build!HeaderFitsPages => HeaderFitsPages
  BY DEF HeaderFitsPages
<1> QED
  BY <1>1, SiteImplementsParts, BuildPagesRun, PTL

(* Whatever commands ran, failed or were repeated, a header of the site    *)
(* that is complete fails closed (generate-csp-headers.mjs).               *)
THEOREM SiteHeaderFailsClosed == SiteSpec => []HeaderFailsClosed
<1>1. Build!HeaderFailsClosed => HeaderFailsClosed
  BY DEF HeaderFailsClosed
<1> QED
  BY <1>1, SiteImplementsParts, BuildFailsClosed, PTL

(* The table of a behaviour of the site. *)
LEMMA SiteStepsTable ==
    [SiteNext]_<<part, vars, visit, table, build>> => [Table!Next]_Table!vars
  BY DEF SiteNext, CarouselNext, LanguageNext, TableNext, BuildNext, table, Table!vars

(* What the site does, its table does. *)
LEMMA SiteImplementsTable == SiteSpec => Table!Spec
<1>1. SiteInit => Table!Init
  BY DEF SiteInit, NoTable
<1> QED
  BY <1>1, SiteStepsTable, PTL DEF SiteSpec, Table!Spec

(***************************************************************************)
(* Whatever the calendars answer, the rows are those of the week, in the   *)
(* order of time and of the calendars, the date cells tile them, nothing   *)
(* is lost but at the end of a full table, and a day off stands alone      *)
(* (parseEvent.mts, toRow.mts, dateRange.ts).                              *)
(***************************************************************************)
THEOREM SiteTable == SiteSpec => []TableFits
<1>1. TableIInv => TableFits
  BY PrintedTypes, PrintedCellsTile, PrintedInOrder, PrintedLosesNothing, PrintedStartsToday, PrintedEveryDay
     DEF TableFits
<1> QED
  BY <1>1, SiteImplementsTable, TableInvariant, PTL
=============================================================================
