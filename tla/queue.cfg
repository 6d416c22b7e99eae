\* Four clients in bins of two, two threads, one Clear.
CONSTANTS
    Clients = {c1, c2, c3, c4}
    Threads = {t1, t2}
    NoThread = NoThread
    NoClient = NoClient
    BinSize = 2
    CheckoutsPerWindow = 2
    MaxInt64 = 1000
    MaxClears = 1
    WorkingBinBound = 2
SPECIFICATION Spec
SYMMETRY Symmetry
INVARIANTS TypeOK BinsPacked CountsAccurate NilBinOnlyAfterClear
PROPERTIES ArrivalOrderKept CandidateStaysCandidate
CHECK_DEADLOCK FALSE
