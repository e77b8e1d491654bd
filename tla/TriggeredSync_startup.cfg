SPECIFICATION FairSpec
CONSTANTS
    Servers = {r1}
    Off = off
    AutoStart = TRUE
    OtherHolders = FALSE
    MayFail = FALSE
    ChangeAnytime = FALSE
PROPERTY TriggersServed
