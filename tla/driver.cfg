\* Three clients race for two units through two workers: queue, rate tracker
\* and stock hold them back.
CONSTANTS
    Clients = {c1, c2, c3}
    NoClient = NoClient
    Workers = {w1, w2}
    NoWorker = NoWorker
    Stock = 2
    MaxCheckoutsPerWindow = 1
    MaxSkpdLowPollingUtilCount = 1
    LowUtilNum = 1
    LowUtilDen = 1
    ReqCap = 1
    MaxInt64 = 1000
    MaxWindow = 1
SPECIFICATION Spec
SYMMETRY Symmetry
INVARIANTS OversellBounded ThroughputBounded SoldOnlyFromOpenBins QueueMatchesState QueueKeptWhileStockLeft
PROPERTIES ImplementsSale ImplementsQueue
CHECK_DEADLOCK FALSE
