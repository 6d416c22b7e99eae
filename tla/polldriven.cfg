\* Three clients: one in the first bin, two in the second.  No symmetry:
\* liveness is checked.
CONSTANTS
    Clients = {c1, c2, c3}
    Threads = {t1, t2}
    NoClient = NoClient
    NoThread = NoThread
    BinSize = 1
    TargetPolls = 1
    MaxPolls = 2
    MaxBin = 1
    MaxClears = 1
SPECIFICATION FairSpec
INVARIANTS BinsFilledInTurn
PROPERTIES GateMovesOn
CHECK_DEADLOCK FALSE
