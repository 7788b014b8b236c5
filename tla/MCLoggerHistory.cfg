SPECIFICATION BoundedSpec
CONSTANTS
    DateId = DateId
    TimeId = TimeId
    OtherId = {Depth, Unmapped}
    Mapped = {DateId, TimeId, Depth}
    Boat = Boat
    Utc = Utc
    JulianDate <- MCJulianDate
    TickOfDay <- MCTickOfDay
    Reading <- MCReading
    CommandLine <- AnyFlags
    DayTicks = 12
    Header = Header
    Blank = Blank
    NoFile = NoFile
    EarlyLog = EarlyLog
    MaxObs = 6
    MaxBoots = 2
INVARIANTS TypeOK RowTimesIncrease HeadingsFirst LatestStored UntimedRowBeforeHeadings TrackingHasFiles IInv
PROPERTIES RowsAreArchived RowHoldsInterval TimesAreArchived
CHECK_DEADLOCK FALSE
