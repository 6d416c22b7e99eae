\* Four clients, two of which may vanish, and two workers; every queue type.
CONSTANTS
    N = 4
    Persistent = {3}
    NumWorkers = 2
    Stock = 2
    Cap = 1
    Configs <- MCConfigs
    Arrivals <- MCArrivals
SPECIFICATION FairSpec
INVARIANTS TypeOK FailsOnlyAfterClear QueueMatchesStates GateBehindLatest
PROPERTIES ImplementsSale OldBinsAreClosed EverybodyIsConsidered
CHECK_DEADLOCK FALSE
