\* One routinely polling client and two server workers.
CONSTANTS
    Clients = {c1}
    NoClient = NoClient
    Lazy = {}
    Jit = {}
    Disappearing = {}
    Servers = {s1, s2}
    NoServer = NoServer
    PollsBeforeDisappearing = 1
    GreedyPollsCount = 2
    ReqCap = 2
    RespCap = 2
SPECIFICATION Spec
INVARIANTS ResponsesSymmetric
CHECK_DEADLOCK FALSE
