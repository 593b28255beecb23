SPECIFICATION SiteSpec
CONSTANTS
    MaxItems = 3
    Interval = 3
    NoTimer = NoTimer
    Languages = {"en", "ja"}
    Fallback = "ja"
    Pages <- IndexAndAbout
    NumTypes = 2
    WEEKDATES = 3
    MAX_EVENTS = 4
    Day = 4
    AllDaySlot = 1
    YearDays = 100
    Holidays = {2}
    Clock = {4, 7}
    Answers <- MCAnswers
    None = None
    index = index
    enIndex = enIndex
    hydration = hydration
    manifest = manifest
    blank = blank
    malformed = malformed
    dsn1 = dsn1
    dsn2 = dsn2
    Html <- TwoPages
    TopLevel <- RootPage
    Bodies <- TwoBodies
    Blank = blank
    PageContents <- TwoPageContents
    Dsns <- SomeDsns
    ParsableDsns <- GoodDsns
    MaxCalendar = 2
    MaxYaml = 2
INVARIANTS
    TimerIffEligible
    TableFits
    HeaderFitsPages
    HeaderFailsClosed
PROPERTIES
    ReducedMotionRests
    AutoplayShowsEveryItem
    LanguageSettles
    BuildRecovers
CHECK_DEADLOCK FALSE
