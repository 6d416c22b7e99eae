\* A lazy and a greedy client with two server workers; channels of one, so that they fill up.
CONSTANTS
    Clients = {c1, c2}
    NoClient = NoClient
    Lazy = {c1}
    Jit = {c2}
    Disappearing = {}
    Servers = {s1, s2}
    NoServer = NoServer
    PollsBeforeDisappearing = 1
    GreedyPollsCount = 2
    ReqCap = 1
    RespCap = 1
SPECIFICATION Spec
SYMMETRY Symmetry
INVARIANTS TypeOK NobodyForgotten ChannelsClosedOnce
PROPERTIES NoWayBack
CHECK_DEADLOCK FALSE
