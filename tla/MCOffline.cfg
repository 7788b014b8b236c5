SPECIFICATION OSpec
CONSTANTS
    DateId <- MCDateId
    TimeId <- MCTimeId
    OtherId <- MCOtherId
    Mapped = {34, 35, 41}
    Boat = Boat
    Utc = Utc
    JulianDate <- MCJulianDate
    TickOfDay <- MCTickOfDay
    Reading <- MCReading
    CommandLine <- OfflineFlags
    DayTicks = 172800
    Header = Header
    Blank = Blank
    NoFile = NoFile
    EarlyLog = EarlyLog
    MaxObs = 10
    MaxBoots = 1
    InputLog <- MCInputLog
    Logged <- MCLogged
PROPERTY TornLineIgnoredOrWhole
\* The conversion ends.
CHECK_DEADLOCK FALSE
