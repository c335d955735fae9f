\* Three zones; two years and three months from January, the second leap;
\* days of four hours, one longer and one shorter; chunks of four days.
CONSTANTS
    Zones <- TariffZones
    None = None
    NoTime = NoTime
    MonthLengths <- Lengths
    HoursPerDay = 4
    DayLengths <- ShortDays
    RANGE_FETCH_CHUNK_DAYS = 4
    BACKFILL_MAX_CONSECUTIVE_EMPTY = 2
    MeteredHours <- SomeHours
    BillWindows <- SomeWindows
    Households <- SomeHouseholds
    Answers <- SomeAnswers
    Histories <- SomeHistories

SPECIFICATION Spec

CHECK_DEADLOCK FALSE

INVARIANTS
    NetMeteringConserves
    BillsAddUp
    FactsAreRight
    DaysAreWhole
    ScanFindsHistory
