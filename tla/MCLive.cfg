SPECIFICATION FairSpec
CONSTANTS
    Batches = 1
    TestFlags = {TRUE, FALSE}
    Message <- MCMessage
    DateId <- MCDateId
    TimeId <- MCTimeId
    OtherId <- MCOtherId
    Mapped <- MCMapped
    Boat = Boat
    Utc = Utc
    JulianDate <- MCJulianDate
    TickOfDay <- MCTickOfDay
    Reading <- MCReading
    CommandLine <- BothLogs
    DayTicks = 12
    Header = Header
    Blank = Blank
    NoFile = NoFile
    EarlyLog = EarlyLog
    MaxObs = 4
    MaxBoots = 2
INVARIANTS LogHoldsReceived
PROPERTIES IsLogger ProcessEnds
CHECK_DEADLOCK FALSE
