SPECIFICATION MCSpec
CONSTANTS
    Sessions = {e1, e2, e3}
    Tabs = {t1, t2}
    Resolution = 2
    MaxTime = 5
    MaxInvoices = 3
    Nothing = Nothing
    TicksPerSecond = 2
    DayCount = 3
    Midnights <- ThreeDays
    MaxSessions = 2
    MaxLines = 4
    MaxSeconds = 5
    MaxCents = 12
    Years = {2021, 2022, 2024, 2025, 2026, 2027, 2032}
SYMMETRY Symmetric
CHECK_DEADLOCK FALSE
INVARIANTS
    
    DaysAddUp
    CostsAddUp
    FirstBusinessDay
