SPECIFICATION LocksSpec
CONSTANTS
    Tabs = {t1, t2, t3}
    NoOwner = NoOwner
    Dead = Dead
    TTL = 18
    RenewInterval = 3
    MaxLate = 14
    LongLate = 18
    AtomicStorage = TRUE
    WithReset = FALSE
    Servers = {r1, r2}
    Off = off
    AutoStart = TRUE
    OtherHolders = TRUE
    MayFail = TRUE
    ChangeAnytime = TRUE
INVARIANTS MutualExclusion PendingHasServer LockedWhileWorking
PROPERTIES MutexSpec DeadLockExpires NoStealingLate PendingTaken
