-------------------------------- MODULE MCSite --------------------------------
(***************************************************************************)
(* Four parts of the website that share no state: the carousel (Carousel,  *)
(* with zero to three items), the language during a visit (Locale, with    *)
(* the site's two languages), the schedule table (Schedule, with two       *)
(* calendars, a table of three days and four rows, and days of four slots; *)
(* today is day 1, so that events may start yesterday, and the day after   *)
(* the week is day 4), and the commands that build the site in one working *)
(* copy (SiteBuild).  A behaviour is one of one part.                      *)
(***************************************************************************)
EXTENDS Carousel, Sequences, SiteInputs

CONSTANTS index, enIndex,          \* dist/index.html and dist/en/index.html
          hydration, manifest,     \* two inline scripts
          blank,                   \* an empty script element
          malformed, dsn1, dsn2

VARIABLES part, url, lang, location, pending, effect,
          now, source, stage, events, rows,
          calendar, yaml, working, dist, job, phase, scripts, csp

Raw(dateTime, date, end, status) ==
    [dateTime |-> dateTime, date |-> date, end |-> end, status |-> status]
Timed(start, end) == Raw(start, None, end, "confirmed")
AllDay(day) == Raw(None, day, None, "confirmed")

(***************************************************************************)
(* Timed events that end the same day or the next, that begin yesterday,   *)
(* at midnight and just before the week ends; all-day events; one without  *)
(* a start, one without an end, one that was cancelled.                    *)
(***************************************************************************)
RawEvents ==
    {Timed(3, 5), Timed(4, 5), Timed(5, 9), Timed(9, 10), Timed(15, 17)}
    \cup {AllDay(0), AllDay(1), AllDay(2)}
    \cup {Raw(None, None, 6, "confirmed"), Raw(13, None, None, "confirmed"),
          Raw(14, None, 15, "cancelled")}

(* The API answers in the order of the starts; an event comes once. *)
StartOf(raw) ==
    CASE raw.dateTime # None -> raw.dateTime
      [] raw.dateTime = None /\ raw.date # None -> raw.date * Day + AllDaySlot
      [] OTHER -> 0
MCAnswers ==
    {s \in UNION {[1 .. n -> RawEvents] : n \in 0 .. 3} :
        \A i, j \in 1 .. Len(s) : i < j => StartOf(s[i]) <= StartOf(s[j]) /\ s[i] # s[j]}

Visit == INSTANCE Locale

visit == <<url, lang, location, pending, effect>>

Table == INSTANCE Schedule

table == <<now, source, stage, events, rows>>

TwoPages == {index, enIndex}
RootPage == {index}
TwoBodies == {hydration, manifest}
SomeDsns == {malformed, dsn1, dsn2}
GoodDsns == {dsn1, dsn2}

Inline(b) == [src |-> FALSE, body |-> b]
External == [src |-> TRUE, body |-> hydration]

(* The root page has a blank script element besides its own script, the    *)
(* nested one an external script.                                          *)
Hydrated == {Inline(blank), Inline(hydration)}
Manifest == {External, Inline(manifest)}
TwoPageContents == {[p \in TwoPages |-> IF p = index THEN Hydrated ELSE Manifest]}

Build == INSTANCE SiteBuild

build == <<calendar, yaml, working, dist, job, phase, scripts, csp>>

(* The index, and a second page, which the site does not have yet. *)
IndexAndAbout == {"", "about"}

(* The other parts stay: a carousel without items that is not mounted, a   *)
(* page that is hydrated, a fetch that did not begin, a working copy that  *)
(* nobody built in.                                                        *)
NoCarousel == Init /\ items = 0 /\ layout /\ ~ reduced /\ visible
NoVisit == url = <<"">> /\ location = url /\ lang = Fallback /\ pending = <<>> /\ effect = FALSE
NoTable == Table!Init /\ now = CHOOSE t \in Clock : TRUE
NoBuild == Build!Init /\ job.dsn = dsn1

SiteInit ==
    \/ part = "carousel" /\ Init /\ NoVisit /\ NoTable /\ NoBuild
    \/ part = "language" /\ Visit!Init /\ NoCarousel /\ NoTable /\ NoBuild
    \/ part = "table" /\ Table!Init /\ NoCarousel /\ NoVisit /\ NoBuild
    \/ part = "build" /\ Build!Init /\ NoCarousel /\ NoVisit /\ NoTable

CarouselNext == part = "carousel" /\ Next /\ UNCHANGED <<part, visit, table, build>>
LanguageNext == part = "language" /\ Visit!Next /\ UNCHANGED <<part, vars, table, build>>
TableNext == part = "table" /\ Table!Next /\ UNCHANGED <<part, vars, visit, build>>
BuildNext == part = "build" /\ Build!Next /\ UNCHANGED <<part, vars, visit, table>>

(* A step of the site is one of the part that the behaviour is of. *)
SiteNext == CarouselNext \/ LanguageNext \/ TableNext \/ BuildNext

SiteSpec ==
    /\ SiteInit
    /\ [][SiteNext]_<<part, vars, visit, table, build>>
    /\ WF_vars(part = "carousel" /\ Tick) /\ WF_vars(part = "carousel" /\ TimerFires)
    /\ WF_vars(part = "carousel" /\ SmoothScrollStep)
    /\ WF_visit(part = "language" /\ Visit!Page)
    /\ WF_build(part = "build" /\ (Build!Prebuild \/ Build!Vinxi \/ Build!Postbuild))

-----------------------------------------------------------------------------
(***************************************************************************)
(* The properties of the table, as Schedule states them: date cells span   *)
(* the rows of their date (toRow.mts), rows are in the order of time,      *)
(* those of equal starts in the order of the calendars (fetchRaw.mts), no  *)
(* event is lost but to later ones of a full table, and no day of the week *)
(* is left out (parseEvent.mts).                                           *)
(***************************************************************************)
TableFits ==
    /\ Table!TypeOK /\ Table!DateCellsTile /\ Table!ChronologicalAndStable
    /\ Table!NothingLost /\ Table!StartsToday /\ Table!EveryDayAppears

(* When the visitor stops, address, page and document agree (Head.tsx).    *)
LanguageSettles == Visit!LanguageSettles

(* What is shipped fits together (package.json, generate-csp-headers.mjs). *)
HeaderFitsPages == Build!HeaderFitsPages

(* A header that is not written as a whole allows nothing (generate-csp-headers.mjs). *)
HeaderFailsClosed == Build!HeaderFailsClosed

(* No failed or partial command keeps a later build from succeeding (package.json). *)
BuildRecovers == part = "build" => Build!BuildRecovers
=============================================================================
