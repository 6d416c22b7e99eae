\* A greedy client and a disappearing one with one server worker; no symmetry.
CONSTANTS
    Clients = {c1, c2}
    NoClient = NoClient
    Lazy = {}
    Jit = {c1}
    Disappearing = {c2}
    Servers = {s1}
    NoServer = NoServer
    PollsBeforeDisappearing = 1
    GreedyPollsCount = 2
    ReqCap = 1
    RespCap = 2
SPECIFICATION FairSpec
INVARIANTS SignOffOnce
PROPERTIES SimulationEnds
CHECK_DEADLOCK FALSE
