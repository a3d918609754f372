SPECIFICATION BamSpec
CONSTANTS
    Reported = {0, 2, 3}
    Configurations <- BaConfigurations
    RecomputeLimit = 2
    MaxDrift = 20
    MaxCommands = 2
    DayLength = 4
    WeekLength = 2
    RangeLists <- DayRanges
    Shifts <- ClockShifts
    MaxLength = 6
    Services <- TwoServices
    Statuses <- ThreeStatuses
    Connectives = {"AND", "IS", "%"}
    Alphabet = {"OK", "IS", "!", "(", ")", ",", "MAX", "SERVICESTATUS"}
    MaxText = 3
INVARIANTS BaInv DowntimeInherited PeriodInv ExpressionInv
CHECK_DEADLOCK FALSE
