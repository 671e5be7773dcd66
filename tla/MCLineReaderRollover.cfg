SPECIFICATION ReaderSpec
CONSTANTS
    Day = 24
    Year <- MCYear
    Leap = {2024}
    YearStart <- MCStart
    Summer <- MCSummer
    Shift = 1
    Now <- MCNow
    Lag <- MCLag
    MaxTicks = 1
    MaxLines = 4
INVARIANTS
    RolloverIsGuarded
CHECK_DEADLOCK FALSE
