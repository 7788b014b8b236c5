SPECIFICATION HSpec
CONSTANTS
    DateId = DateId
    TimeId = TimeId
    OtherId = {Depth}
    Mapped = {DateId, TimeId, Depth}
    Boat = Boat
    Utc = Utc
    JulianDate <- MCJulianDate
    TickOfDay <- MCAfternoon
    Reading <- MCReading
    CommandLine <- CsvOnly
    DayTicks = 12
    Header = Header
    Blank = Blank
    NoFile = NoFile
    EarlyLog = EarlyLog
    MaxObs = 6
    MaxBoots = 2
PROPERTY RowHasOldTimestamp
CHECK_DEADLOCK FALSE
