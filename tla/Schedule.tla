------------------------------ MODULE Schedule ------------------------------
(***************************************************************************)
(* The schedule table of the website: how the fetcher turns the answers of *)
(* the calendars into the rows of data.json (packages/fetcher/src: bin,    *)
(* fetchRaw, parseEvent, toRow), and how the web package lays those rows   *)
(* out (packages/web/src: dateRange, calendar/Row).                        *)
(*                                                                         *)
(* Time is counted in slots of the JST clock, Day slots to a day, so that  *)
(* a day begins at a multiple of Day.  An all-day event carries a date,    *)
(* which parses as UTC midnight: slot AllDaySlot of the day in JST.        *)
(***************************************************************************)
EXTENDS Naturals, Sequences, FiniteSetsExt, SiteInputs

Types == 1 .. NumTypes

VARIABLES
    now,     \* new Date() at the start of the fetcher
    source,  \* the answers received so far, in the order of eventTypes
    stage,   \* "fetching", "printed" or "failed"
    events,  \* the events of the table
    rows     \* the rows of data.json

vars == <<now, source, stage, events, rows>>

-----------------------------------------------------------------------------
(* packages/lib/src/datetime.mts *)

TruncateTime(t) == (t \div Day) * Day
PlusDate(t, days) == t + days * Day

WeekDates(start) == [i \in 1 .. WEEKDATES |-> PlusDate(TruncateTime(start), i - 1)]

WeekRange(start) == [since |-> TruncateTime(start),
                     until |-> PlusDate(TruncateTime(start), WEEKDATES)]

(* Month and day of the month: the same again a year later. *)
FormatDate(t) == (t \div Day) % YearDays

(* The clock times, and whether the end is marked as on the next day. *)
FormatTimeRange(from, to) ==
    [from |-> from % Day, to |-> to % Day, next |-> from \div Day # to \div Day]

-----------------------------------------------------------------------------
(* packages/fetcher/src/parseEvent.mts.  A raw event has a status, a start *)
(* with a dateTime or a date, and an end; any of them may be None.         *)

IsAvailableRaw(raw) == raw.status # "cancelled"

Epoch(raw) ==
    IF raw.dateTime # None THEN raw.dateTime
    ELSE IF raw.date # None THEN raw.date * Day + AllDaySlot
    ELSE None

(* An event without a start, or timed and without an end, is skipped. *)
Resolvable(raw) == Epoch(raw) # None /\ (raw.date # None \/ raw.end # None)

(***************************************************************************)
(* An event has its place in the list of all: the number of its calendar   *)
(* and its position in the answer of that; days off come last.             *)
(***************************************************************************)
ToEvent(place, raw) ==
    [date |-> FormatDate(Epoch(raw)), epoch |-> Epoch(raw), type |-> place[1], place |-> place,
     vacation |-> FALSE,
     time |-> IF raw.date # None THEN None ELSE FormatTimeRange(Epoch(raw), raw.end)]

Kept(answers) ==
    {p \in UNION {{t} \X DOMAIN answers[t] : t \in Types} :
        LET raw == answers[p[1]][p[2]] IN IsAvailableRaw(raw) /\ Resolvable(raw)}

AllEvents(answers) == {ToEvent(p, answers[p[1]][p[2]]) : p \in Kept(answers)}

(* A placeholder at midnight of the d-th day of the week. *)
Vacation(since, d) ==
    [date |-> FormatDate(WeekDates(since)[d]), epoch |-> WeekDates(since)[d], type |-> 1,
     place |-> <<NumTypes + 1, d>>, vacation |-> TRUE, time |-> None]

VacationEvents(since, all) ==
    {Vacation(since, d) : d \in
        {k \in 1 .. WEEKDATES : \A e \in all : e.date # FormatDate(WeekDates(since)[k])}}

(* Whether e comes before f once they are sorted by epoch: toSorted is stable. *)
Before(e, f) ==
    \/ e.epoch < f.epoch
    \/ /\ e.epoch = f.epoch
       /\ \/ e.place[1] < f.place[1]
          \/ e.place[1] = f.place[1] /\ e.place[2] < f.place[2]

SortedByEpoch(list) ==
    [i \in 1 .. Cardinality(list) |->
        CHOOSE e \in list : Cardinality({f \in list : Before(f, e)}) = i - 1]

InSpan(e, span) == e.epoch >= span.since /\ e.epoch < span.until

ToEvents(span, answers) ==
    LET all == AllEvents(answers)
        merged == all \cup VacationEvents(span.since, all)
        sorted == SortedByEpoch({e \in merged : InSpan(e, span)})
    IN  SubSeq(sorted, 1, IF Len(sorted) < MAX_EVENTS THEN Len(sorted) ELSE MAX_EVENTS)

(* MUTANT of DateSpan: two rows of a date are taken for one. *)
DateSpanFromThree(first, span) == IF first /\ span > 2 THEN span ELSE None

(* The rows that the date cell spans, for the first of several rows. *)
DateSpan(first, span) == IF first /\ span > 1 THEN span ELSE None

(* packages/fetcher/src/toRow.mts: only the first row of a date has the *)
(* date, and its span if it has more than one row.                      *)
ToRow(array, index) ==
    LET same == {j \in 1 .. Len(array) : array[j].date = array[index].date}
        first == \A j \in same : index <= j
        span == Cardinality(same)
    IN  [date |-> IF first THEN array[index].date ELSE None,
         dateSpan |-> DateSpan(first, span),
         holiday |-> first /\ array[index].epoch \div Day \in Holidays,
         time |-> array[index].time,
         type |-> array[index].type]

-----------------------------------------------------------------------------
Init ==
    /\ now \in Clock
    /\ source = <<>>
    /\ stage = "fetching"
    /\ events = <<>>
    /\ rows = <<>>

(* One calendar after the other answers. *)
FetchRawEvents ==
    /\ stage = "fetching"
    /\ Len(source) < NumTypes
    /\ \E answer \in Answers : source' = Append(source, answer)
    /\ UNCHANGED <<now, stage, events, rows>>

(* One failed request rejects the whole fetch: nothing is printed. *)
RequestFails ==
    /\ stage = "fetching"
    /\ Len(source) < NumTypes
    /\ stage' = "failed"
    /\ UNCHANGED <<now, source, events, rows>>

PrintRows ==
    /\ stage = "fetching"
    /\ Len(source) = NumTypes
    /\ stage' = "printed"
    /\ events' = ToEvents(WeekRange(now), source)
    /\ rows' = [i \in 1 .. Len(events') |-> ToRow(events', i)]
    /\ UNCHANGED <<now, source>>

Next == FetchRawEvents \/ RequestFails \/ PrintRows

Spec == Init /\ [][Next]_vars

-----------------------------------------------------------------------------
(* packages/web/src/modules/dateRange.ts: the range in the table's header. *)
DateRangeOf(table) ==
    LET dated == {i \in 1 .. Len(table) : table[i].date # None}
    IN  IF dated = {} THEN <<None, None>>
        ELSE <<table[Min(dated)].date, table[Max(dated)].date>>

(* packages/web/src/components/atoms/calendar/Row.tsx: how many rows the *)
(* date cell of this row covers; rowSpan is one when it is not given.    *)
RowSpan(row) == IF row.dateSpan = None THEN 1 ELSE row.dateSpan

TypeOK ==
    /\ now \in Clock
    /\ Len(source) <= NumTypes
    /\ \A t \in 1 .. Len(source) : source[t] \in Answers
    /\ stage \in {"fetching", "printed", "failed"}
    /\ \A i \in 1 .. Len(events) :
          /\ events[i].epoch \in Nat /\ events[i].type \in Types
          /\ events[i].date \in 0 .. YearDays - 1
          /\ events[i].time # None =>
                events[i].time \in [from : 0 .. Day - 1, to : 0 .. Day - 1, next : BOOLEAN]
    /\ Len(rows) = Len(events)
    /\ \A i \in 1 .. Len(rows) :
          /\ rows[i].dateSpan # None => rows[i].date # None /\ rows[i].dateSpan \in 2 .. MAX_EVENTS
          /\ rows[i].holiday \in BOOLEAN

(***************************************************************************)
(* The date cells tile the table: the first row begins one, and where the  *)
(* cell of a date ends the next begins.  A span that is too long or too    *)
(* short would shift every cell after it (toRow.mts:19-26, Row.tsx:37-39). *)
(***************************************************************************)
DateCellsTile ==
    stage = "printed" =>
        \A i \in 1 .. Len(rows) :
            rows[i].date # None <=>
                \/ i = 1
                \/ \E j \in 1 .. i - 1 :
                      /\ rows[j].date # None
                      /\ j + RowSpan(rows[j]) = i

(***************************************************************************)
(* A date comes again a year later.  The calendars are asked for a week,   *)
(* so that this holds unless an event lasts for nearly a year: none starts *)
(* on a day of the same date as one of the week, but in another year.      *)
(***************************************************************************)
NoneAYearAway ==
    \A e \in AllEvents(source), d \in 1 .. WEEKDATES :
        e.date = FormatDate(WeekDates(now)[d]) => TruncateTime(e.epoch) = WeekDates(now)[d]

(***************************************************************************)
(* The table starts with today, whatever the hour at which the fetcher     *)
(* starts: so the text of data.json changes at every midnight, which is    *)
(* what the change detector sees (parseEvent.mts:106-126).                 *)
(***************************************************************************)
StartsToday ==
    stage = "printed" /\ NoneAYearAway => DateRangeOf(rows)[1] = FormatDate(now)

(***************************************************************************)
(* Up to the last row of a table that was cut at MAX_EVENTS, no day of the *)
(* week is left out, and a day off is one on which no event starts.        *)
(***************************************************************************)
EveryDayAppears ==
    stage = "printed" =>
        /\ NoneAYearAway =>
              \A d \in 1 .. WEEKDATES :
                  \/ \E i \in 1 .. Len(events) : events[i].date = FormatDate(WeekDates(now)[d])
                  \/ /\ Len(events) = MAX_EVENTS
                     /\ events[MAX_EVENTS].epoch < PlusDate(WeekDates(now)[d], 1)
        /\ \A i, j \in 1 .. Len(events) :
              events[i].vacation /\ i # j => events[j].date # events[i].date

(***************************************************************************)
(* The rows are in chronological order and at equal times in the order of  *)
(* eventTypes, so that an unchanged calendar prints an unchanged text      *)
(* (fetchRaw.mts:43-46, parseEvent.mts:121-124).                           *)
(***************************************************************************)
ChronologicalAndStable ==
    \A i, j \in 1 .. Len(events) :
        i < j => \/ events[i].epoch < events[j].epoch
                 \/ events[i].epoch = events[j].epoch /\ events[i].type <= events[j].type

(***************************************************************************)
(* No available, resolvable event of the week is lost unless the table is  *)
(* full of events that start no later (parseEvent.mts:120-124).            *)
(***************************************************************************)
NothingLost ==
    stage = "printed" =>
        \A t \in Types : \A k \in 1 .. Len(source[t]) :
            LET raw == source[t][k] IN
            /\ IsAvailableRaw(raw) /\ Resolvable(raw)
            /\ Epoch(raw) \in WeekRange(now).since .. WeekRange(now).until - 1
            => \/ \E i \in 1 .. Len(events) :
                     events[i].epoch = Epoch(raw) /\ events[i].type = t /\ ~events[i].vacation
               \/ /\ Len(events) = MAX_EVENTS
                  /\ events[MAX_EVENTS].epoch <= Epoch(raw)
=============================================================================
