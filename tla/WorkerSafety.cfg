SPECIFICATION FairSpec
CONSTANTS
    gun = gun
    mon = mon
    oth = oth
    upl = upl
    None = None
    Plugins <- AllPlugins
    PluginOrders <- SomeOrders
    Generators <- JustGun
    Monitors <- JustMon
    Bare <- JustMon
    Masks <- JustOth
    Uploaders <- JustUpl
    Manual = TRUE
    GenCodes <- PlainCodes
    MaxFaults = 1
    MaxSigints = 1
    Killable = TRUE
INVARIANT EndsCleanly
CHECK_DEADLOCK FALSE
PROPERTIES Implements StopReturns
