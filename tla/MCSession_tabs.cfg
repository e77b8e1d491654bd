SPECIFICATION FairSessionSpec
CONSTANTS
    Tabs = {t1, t2}
    First = t1
    MaxToken = 3
    Requests = {r1}
    MaxFaults = 1
CHECK_DEADLOCK FALSE
INVARIANT RefreshGranted
PROPERTIES GuestsOnlyAfterRefresh RequestsEnd
