SPECIFICATION SessionSpec
CONSTANTS
    Tabs = {t1, t2}
    First = t1
    MaxToken = 3
    Requests = {r1}
    MaxFaults = 0
CHECK_DEADLOCK FALSE
INVARIANT CookieListed
