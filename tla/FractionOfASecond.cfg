SPECIFICATION Spec
CONSTANTS
    Sessions = {e1, e2, e3}
    Tabs = {t1, t2}
    Resolution = 2
    MaxTime = 5
    MaxInvoices = 3
    Nothing = Nothing
INVARIANT NothingLeftBehind
CHECK_DEADLOCK FALSE
