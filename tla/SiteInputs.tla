------------------------------ MODULE SiteInputs ------------------------------
(***************************************************************************)
(* What the website consists of: the languages and pages that a visitor    *)
(* may ask for, what the fetcher of the schedule is given, and what a      *)
(* build is: its files, the values of the environment, and how often its   *)
(* sources may change.                                                     *)
(***************************************************************************)
EXTENDS Naturals, Sequences

CONSTANTS
    Languages,     \* the languages with a dictionary
    Fallback,      \* the language of a path without one
    Pages,         \* the pages of src/routes/[[language]], "" for index
    NumTypes,      \* how many calendars (eventTypes lists three)
    WEEKDATES,     \* days of the schedule (seven)
    MAX_EVENTS,    \* rows of the schedule (twelve)
    Day,           \* slots of a day
    AllDaySlot,    \* the slot of UTC midnight in the JST day
    YearDays,      \* days after which a formatted date comes again
    Holidays,      \* the days that are public holidays in Japan
    Clock,         \* when the fetcher may start
    Answers,       \* what a calendar may answer: sequences of raw events
    None,          \* an absent or unparsable value
    Html,          \* the .html files of a built site, at any depth of dist/
    TopLevel,      \* those of them that lie directly in dist/
    Bodies,        \* the bodies of inline scripts
    Blank,         \* the body that consists of white space only
    PageContents,  \* what vinxi may emit: functions from Html to sets of tags
    Dsns,          \* the values of VITE_SENTRY_DSN, "unset" included
    ParsableDsns,  \* those that `new URL` accepts
    MaxCalendar,   \* bound: versions of the calendar
    MaxYaml        \* bound: versions of constants.yaml

Tags == [src : BOOLEAN, body : Bodies \cup {Blank}]

ASSUME LocaleAssumption ==
    /\ Fallback \in Languages
    /\ "" \in Pages
    /\ Languages \cap Pages = {}
(* A week has no date twice; the answers are finite lists.                 *)
ASSUME TableAssumption ==
    /\ NumTypes \in Nat \ {0} /\ MAX_EVENTS \in Nat \ {0} /\ AllDaySlot \in Nat
    /\ Day \in Nat \ {0} /\ YearDays \in Nat \ {0} /\ WEEKDATES \in 1 .. YearDays
    /\ Clock \subseteq Nat /\ None \notin Nat
    /\ \A answer \in Answers :
          /\ Len(answer) \in Nat /\ DOMAIN answer = 1 .. Len(answer)
          /\ \A k \in DOMAIN answer :
                {answer[k].dateTime, answer[k].date, answer[k].end} \subseteq Nat \cup {None}
ASSUME PageAssumption ==
    /\ PageContents \subseteq [Html -> SUBSET Tags]
    /\ TopLevel \subseteq Html
    /\ Blank \notin Bodies
ASSUME DsnAssumption == ParsableDsns \subseteq Dsns
=============================================================================
