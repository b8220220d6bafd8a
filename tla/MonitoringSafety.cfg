CONSTANTS
    Hosts <- MCHosts
    Local <- MCLocal
    Series <- MCSeries
    Options <- MCOptions
    Services <- MCServices
    Watched = "remote"
    Levels <- MCLevels
    Limit = 2
SPECIFICATION FairMonitoring
INVARIANTS
    SecondsExact
    TriggersExactly
    PanelsGiveAll
PROPERTIES
    PluginEnds
CHECK_DEADLOCK FALSE
