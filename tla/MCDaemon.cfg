CONSTANTS
    Workers = {w1, w2}
    Capacity = 2
    MaxPushes = 3
SPECIFICATION FairSpec
INVARIANTS TypeOK SamplesAccounted DrainedOnExit OvertakingBounded StatsNeverOvercount
PROPERTIES ShutdownCompletes SourceReachesLog
