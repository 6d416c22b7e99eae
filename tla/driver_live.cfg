\* Two clients and one unit, with fairness; no symmetry.
CONSTANTS
    Clients = {c1, c2}
    NoClient = NoClient
    Workers = {w1, w2}
    NoWorker = NoWorker
    Stock = 1
    MaxCheckoutsPerWindow = 1
    MaxSkpdLowPollingUtilCount = 1
    LowUtilNum = 1
    LowUtilDen = 1
    ReqCap = 1
    MaxInt64 = 1000
    MaxWindow = 0
SPECIFICATION FairSpec
PROPERTIES SoldOutCancels RequestsAnswered
CHECK_DEADLOCK FALSE
