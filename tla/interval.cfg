\* Two clients, three bins, two threads, one Clear.  No symmetry: liveness is
\* checked.
CONSTANTS
    Clients = {c1, c2}
    Threads = {t1, t2}
    NoClient = NoClient
    MaxBin = 2
    MaxClears = 1
SPECIFICATION FairSpec
INVARIANTS GateBehindLatest CountsCoverBins
PROPERTIES EverybodyIsConsidered
CHECK_DEADLOCK FALSE
