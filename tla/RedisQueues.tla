----------------------------- MODULE RedisQueues -----------------------------
(***************************************************************************)
(* The queues that keep their state in Redis, behind the calls the throttle *)
(* driver makes: the sorted set queue and the Lua driven queue of           *)
(* internal/throttle/queue/impl/redis_queue, the latter with each set of    *)
(* scripts under redis-lua/bins-queue.  NoopQueue shares the interface and  *)
(* is one more type.                                                        *)
(*                                                                          *)
(* A command or a script is one atomic step of Redis; between the steps of  *)
(* one worker every other worker, the expiry of timer keys and the feedback *)
(* goroutine interleave.  A key that is missing counts as 0: no script ever *)
(* stores a 0 in a bin index.  Clients are numbered in the order of their   *)
(* queue entry times, which are taken to be distinct.                       *)
(***************************************************************************)
EXTENDS Integers, FiniteSets

CONSTANTS
    N,             \* number of clients
    Persistent,    \* clients that poll until they are let in; others may vanish
    NumWorkers,    \* numServerWorkers
    Stock,         \* inventoryStockTotal
    Cap,           \* maxCheckoutsAllowedPerWindow
    Configs,       \* the configurations to start from
    Arrivals       \* bound: how many of the clients come, for each queue type

Clients == 1 .. N

LuaBinTypes == {"fairness_interval_driven", "opt_fairness_interval"}
LuaTypes == LuaBinTypes \cup {"noop"}        \* directories that hold scripts
QueueTypes == LuaTypes \cup {"sorted_set", "noop_queue"}

ASSUME RedisAssumption ==
    /\ N \in Nat /\ Stock \in Nat /\ NumWorkers \in Nat
    /\ Cap \in Nat \ {0}
    /\ Persistent \subseteq Clients
    /\ Configs \subseteq [queueType: STRING, luaQueueDirPath: STRING, redisUp: BOOLEAN]
    /\ Arrivals \in [QueueTypes -> 0 .. N]

VARIABLES
    config,        \* the constants of config.go, and whether Redis answers
    queueType,     \* the queue main has made, "none" before
    \* Redis
    zset,          \* the sorted set; scores are the clients' numbers
    latest,        \* latest_queue_bin
    working,       \* working_bin
    counts,        \* bin counts: field -> value, for the fields that exist
    total,         \* total_clients, or the field size
    timers,        \* the timer keys that exist
    \* the process
    cookie,        \* cookie[c]: the client's LuaUserBinKey, 0 if it has none
    state,         \* throttle state
    pc,            \* pc[c]: what the worker that serves c does next
    inventory,     \* GlobalInventoryCounter
    windowSize,    \* SortedSetQueue.WindowSize
    growBy,        \* ReceiveTrackerFeedback has decided to add this to it
    polled,        \* clients the rate tracker has seen in this window
    feedback,      \* how many it saw in the window the notifier was told of, or none
    fault,         \* what the process panicked with
    \* history
    cleared,       \* Clear has run
    binExpired     \* the timer set with the latest bin has run out

binKeys == <<latest, working, counts, total, timers>>
redisVars == <<zset, binKeys>>
feedbackVars == <<windowSize, growBy, polled, feedback>>
vars == <<config, queueType, redisVars, cookie, state, pc, inventory, feedbackVars, fault,
          cleared, binExpired>>

\* Exited has no value of its own.  No queue is told of a client that leaves; it
\* stays "queued" here and need not poll any more, or, if an old request of it is
\* still on the way, polls once more where the driver would do nothing.
States == {"initial", "queued", "inCheckout"}
NoFeedback == -1
Pcs == {"idle", "add", "poll", "rate", "sell", "remove", "removeLast", "clear"}

TypeOK ==
    /\ config \in Configs /\ queueType \in QueueTypes \cup {"none"}
    /\ zset \subseteq Clients
    /\ latest \in Nat /\ working \in Nat /\ total \in Int
    /\ DOMAIN counts \subseteq Nat /\ \A b \in DOMAIN counts : counts[b] \in Int
    /\ timers \subseteq {"latest", "working"}
    /\ cookie \in [Clients -> Nat]
    /\ state \in [Clients -> States] /\ pc \in [Clients -> Pcs]
    /\ inventory \in -1 .. Stock
    /\ windowSize \in Nat \ {0} /\ growBy \in Nat
    /\ polled \subseteq Clients /\ feedback \in {NoFeedback} \cup 0 .. N
    /\ fault \in {"none", "startUp", "noRedis", "noRank", "scriptError"}
    /\ cleared \in BOOLEAN /\ binExpired \in BOOLEAN

\* main clears the queue before anything else uses it.
Init ==
    /\ config \in Configs /\ queueType = "none"
    /\ zset = {} /\ latest = 0 /\ working = 0 /\ total = 0
    /\ counts = [b \in {} |-> 0]
    /\ timers = {}
    /\ cookie = [c \in Clients |-> 0]
    /\ state = [c \in Clients |-> "initial"]
    /\ pc = [c \in Clients |-> "idle"]
    /\ inventory = Stock
    /\ windowSize = Cap /\ growBy = 0 /\ polled = {} /\ feedback = NoFeedback
    /\ fault = "none" /\ cleared = FALSE /\ binExpired = FALSE

Goto(c, p) == pc' = [pc EXCEPT ![c] = p]

-----------------------------------------------------------------------------
(* main *)

\* Without Redis, the ping stops a Lua driven queue and the first Clear a
\* sorted set; directories without scripts cannot be read, and a queue type
\* that main does not know ("other") stops it, too.  The queues that are held in
\* memory have modules of their own.
CanStart ==
    \/ config.queueType = "noop_queue"
    \/ config.queueType = "sorted_set" /\ config.redisUp
    \/ /\ config.queueType = "lua_driven_bins_queue" /\ config.redisUp
       /\ config.luaQueueDirPath \in LuaTypes

MakeUserQueue ==
    /\ fault = "none" /\ queueType = "none"
    /\ IF CanStart
       THEN /\ queueType' = IF config.queueType = "lua_driven_bins_queue"
                            THEN config.luaQueueDirPath ELSE config.queueType
            /\ UNCHANGED fault
       ELSE /\ fault' = "startUp"
            /\ UNCHANGED queueType
    /\ UNCHANGED <<config, redisVars, cookie, state, pc, inventory, feedbackVars, cleared,
                   binExpired>>

-----------------------------------------------------------------------------
(* The scripts *)

\* HSET for HINCRBY.
HIncrBy_Sets(dict, field, by) ==
    [f \in DOMAIN dict \cup {field} |-> IF f = field THEN by ELSE dict[f]]

HIncrBy(dict, field, by) ==
    [f \in DOMAIN dict \cup {field} |->
        (IF f \in DOMAIN dict THEN dict[f] ELSE 0) + (IF f = field THEN by ELSE 0)]

\* Every type suffers from the shared key.
LatestTimerKey_Shared(type) == "working"

\* The key add.lua times the bins with.  append(keys[0:2], keys[3]) in the
\* parameters of opt_fairness_interval writes into the array the keys of add
\* are a slice of, so that add is passed poll's timer.
LatestTimerKey(type) == IF type = "opt_fairness_interval" THEN "working" ELSE "latest"
WorkingTimerKey == "working"

OpensBin == LatestTimerKey(queueType) \notin timers
BinForArrival == IF OpensBin THEN latest + 1 ELSE latest

\* HINCRBY of nil.
AddScriptFails == queueType = "fairness_interval_driven" /\ BinForArrival = 0

AddScript(c) ==
    IF queueType = "noop"
    THEN /\ cookie' = [cookie EXCEPT ![c] = 1]
         /\ UNCHANGED <<binKeys, binExpired>>
    ELSE /\ latest' = BinForArrival
         /\ counts' = HIncrBy(counts, BinForArrival, 1)
         /\ total' = total + 1
         /\ timers' = timers \cup {LatestTimerKey(queueType)}
         /\ cookie' = [cookie EXCEPT ![c] = BinForArrival]
         /\ binExpired' = (binExpired /\ ~OpensBin)
         /\ UNCHANGED working

\* Arithmetic on, or a comparison with, a value that is missing.
PollScriptFails(c) ==
    \/ cookie[c] = 0
    \/ /\ queueType = "fairness_interval_driven" /\ latest = 0
       /\ working # 0 \/ WorkingTimerKey \notin timers
    \/ queueType \in LuaBinTypes /\ working \in 1 .. latest - 1 /\ working \notin DOMAIN counts

\* The gate is opened one bin too far.
GateMayMove_OffByOne == working <= latest

\* The poll that finds the timer expired sets it, and opens the next bin.
GateMayMove == working = 0 \/ working < latest
WorkingAfterPoll ==
    IF WorkingTimerKey \notin timers /\ GateMayMove THEN working + 1 ELSE working

PollScript ==
    IF queueType = "noop" THEN UNCHANGED binKeys
    ELSE /\ working' = WorkingAfterPoll
         /\ timers' = timers \cup {WorkingTimerKey}
         /\ UNCHANGED <<latest, counts, total>>
PollPasses(c) == queueType = "noop" \/ cookie[c] <= WorkingAfterPoll

RemoveScriptFails(c) == cookie[c] = 0

RemoveScript(c) ==
    IF queueType = "noop" THEN UNCHANGED binKeys
    ELSE /\ counts' = HIncrBy(counts, cookie[c], -1)
         /\ total' = total - 1
         /\ UNCHANGED <<latest, working, timers>>

ClearScript ==
    IF queueType = "noop" THEN UNCHANGED binKeys
    ELSE /\ latest' = 0 /\ working' = 0 /\ total' = 0 /\ timers' = {}
         /\ counts' = [b \in {} |-> 0]

\* A timer key reaches the end of its life time.
Expire(key) ==
    /\ fault = "none" /\ key \in timers
    /\ timers' = timers \ {key}
    /\ binExpired' = (binExpired \/ key = LatestTimerKey(queueType))
    /\ UNCHANGED <<config, queueType, zset, latest, working, counts, total, cookie, state, pc,
                   inventory, feedbackVars, fault, cleared>>

-----------------------------------------------------------------------------
(* The driver's calls of the queue, one action per call *)

Busy == {c \in Clients : pc[c] # "idle"}

\* The case of a queued client takes in one that is in checkout.
MayPoll_InCheckout(c) == state[c] # "initial"
MayPoll(c) == state[c] = "queued"

\* A worker takes up a request: a client seen for the first time is marked
\* queued, and gets its entry time, before it is added.
Request(c) ==
    /\ fault = "none" /\ queueType # "none"
    /\ pc[c] = "idle" /\ Cardinality(Busy) < NumWorkers
    /\ \/ /\ state[c] = "initial" /\ c <= Arrivals[queueType]
          /\ \A d \in Clients : d < c => state[d] # "initial"
          /\ Goto(c, "add")
       \/ MayPoll(c) /\ Goto(c, "poll")
    /\ state' = [state EXCEPT ![c] = "queued"]
    /\ UNCHANGED <<config, queueType, redisVars, cookie, inventory, feedbackVars, fault, cleared,
                   binExpired>>

\* Redis does not answer a command or a script.
NoRedis == queueType # "noop_queue" /\ ~config.redisUp

\* The scripts run whatever is left.
ScriptRuns_Unchecked == queueType \in LuaTypes

\* The stock checks that keep the scripts from running on deleted keys.
ScriptRuns == queueType \in LuaTypes /\ inventory > 0
RemoveScriptRuns == queueType \in LuaTypes /\ inventory > -1

\* ZRANK
Rank(c) == Cardinality({d \in zset : d < c})
NoRank(c) == queueType = "sorted_set" /\ c \notin zset

\* What the queue operation that c is about to run panics with.
PanicCause(c) ==
    IF pc[c] \in {"idle", "rate", "sell"} THEN "none"
    ELSE IF NoRedis THEN "noRedis"
    ELSE IF pc[c] = "poll" /\ NoRank(c) THEN "noRank"
    ELSE IF \/ pc[c] = "add" /\ ScriptRuns /\ AddScriptFails
            \/ pc[c] = "poll" /\ ScriptRuns /\ PollScriptFails(c)
            \/ pc[c] \in {"remove", "removeLast"} /\ RemoveScriptRuns /\ RemoveScriptFails(c)
         THEN "scriptError"
    ELSE "none"

\* What the sorted set holds after each operation.
ZAddNX(c) == IF queueType = "sorted_set" THEN zset \cup {c} ELSE zset
ZRem(c) == IF queueType = "sorted_set" THEN zset \ {c} ELSE zset
ZRemRangeByRank == IF queueType = "sorted_set" THEN {} ELSE zset

Add(c) ==
    /\ fault = "none" /\ pc[c] = "add" /\ PanicCause(c) = "none"
    /\ zset' = ZAddNX(c)
    /\ IF ScriptRuns THEN AddScript(c)
       ELSE UNCHANGED <<binKeys, cookie, binExpired>>
    /\ Goto(c, "poll")
    /\ UNCHANGED <<config, queueType, state, inventory, feedbackVars, fault, cleared>>

IsCandidate(c) ==
    \/ queueType = "noop_queue"
    \/ queueType = "sorted_set" /\ Rank(c) < windowSize
    \/ ScriptRuns /\ PollPasses(c)

IsCandidateToProceed(c) ==
    /\ fault = "none" /\ pc[c] = "poll" /\ PanicCause(c) = "none"
    /\ IF ScriptRuns THEN PollScript ELSE UNCHANGED binKeys
    /\ Goto(c, IF IsCandidate(c) THEN "rate" ELSE "idle")
    /\ UNCHANGED <<config, queueType, zset, cookie, state, inventory, feedbackVars, fault,
                   cleared, binExpired>>

\* The rate tracker counts the client, for the sorted set's feedback, and lets
\* it through or not.
ShouldProceed(c, canPass) ==
    /\ fault = "none" /\ pc[c] = "rate"
    /\ polled' = IF queueType = "sorted_set" THEN polled \cup {c} ELSE polled
    /\ Goto(c, IF canPass THEN "sell" ELSE "idle")
    /\ UNCHANGED <<config, queueType, redisVars, cookie, state, inventory, windowSize, growBy,
                   feedback, fault, cleared, binExpired>>

TakeInventory(c) ==
    /\ fault = "none" /\ pc[c] = "sell"
    /\ IF inventory < 0 THEN Goto(c, "idle") /\ UNCHANGED <<state, inventory>>
       ELSE /\ state' = [state EXCEPT ![c] = "inCheckout"]
            /\ inventory' = inventory - 1
            /\ Goto(c, IF inventory - 1 <= 0 THEN "removeLast" ELSE "remove")
    /\ UNCHANGED <<config, queueType, redisVars, cookie, feedbackVars, fault, cleared, binExpired>>

Remove(c) ==
    /\ fault = "none" /\ pc[c] \in {"remove", "removeLast"} /\ PanicCause(c) = "none"
    /\ zset' = ZRem(c)
    /\ IF RemoveScriptRuns THEN RemoveScript(c)
       ELSE UNCHANGED binKeys
    /\ Goto(c, IF pc[c] = "remove" THEN "idle" ELSE "clear")
    /\ UNCHANGED <<config, queueType, cookie, state, inventory, feedbackVars, fault, cleared,
                   binExpired>>

Clear(c) ==
    /\ fault = "none" /\ pc[c] = "clear" /\ PanicCause(c) = "none"
    /\ zset' = ZRemRangeByRank
    /\ IF queueType \in LuaTypes THEN ClearScript
       ELSE UNCHANGED binKeys
    /\ cleared' = TRUE
    /\ Goto(c, "idle")
    /\ UNCHANGED <<config, queueType, cookie, state, inventory, feedbackVars, fault, binExpired>>

Panic(c) ==
    /\ fault = "none" /\ PanicCause(c) # "none"
    /\ fault' = PanicCause(c)
    /\ UNCHANGED <<config, queueType, redisVars, cookie, state, pc, inventory, feedbackVars,
                   cleared, binExpired>>

ServerStep(c) ==
    \/ Add(c) \/ IsCandidateToProceed(c) \/ TakeInventory(c) \/ Remove(c) \/ Clear(c) \/ Panic(c)
    \/ \E canPass \in BOOLEAN : ShouldProceed(c, canPass)

-----------------------------------------------------------------------------
(* The end of a rate tracker window; PollingUtil is p / Cap *)

CeilDiv(a, b) == (a + b - 1) \div b

\* ceil((1.2 - util) * WindowSize), for a utilization below 1
Growth(p) == CeilDiv((12 * Cap - 10 * p) * windowSize, 10 * Cap)

\* The reduction is not limited to half of the window.
Shrunk_Unlimited(p) == windowSize - CeilDiv((10 * p - 12 * Cap) * windowSize, 10 * Cap)

\* The window size after a utilization above 1.2.
Shrunk(p) ==
    LET diff == CeilDiv((10 * p - 12 * Cap) * windowSize, 10 * Cap)
        size == windowSize - (IF diff < windowSize \div 2 THEN diff ELSE windowSize \div 2)
    IN IF size <= 0 THEN Cap ELSE size

\* Clients inside the window do not count.
QueueIsLong_BehindWindow(p) == Cardinality(zset) - windowSize > windowSize + Growth(p)

\* A comparison with the size of the queue decides whether the window grows.
QueueIsLong(p) == Cardinality(zset) > windowSize + Growth(p)

\* The window ends.  Its feedback is lost if the notifier is busy, and without
\* effect if it says to ignore the utilization.  The other queues only print it.
RollWindow(lost) ==
    /\ fault = "none" /\ queueType = "sorted_set"
    /\ polled' = {}
    /\ IF lost THEN UNCHANGED feedback
       ELSE /\ feedback = NoFeedback /\ growBy = 0
            /\ feedback' = Cardinality(polled)
    /\ UNCHANGED <<config, queueType, redisVars, cookie, state, pc, inventory, windowSize, growBy,
                   fault, cleared, binExpired>>

ReceiveTrackerFeedback ==
    /\ fault = "none" /\ feedback # NoFeedback
    /\ feedback' = NoFeedback
    /\ growBy' = IF feedback < Cap /\ QueueIsLong(feedback) THEN Growth(feedback) ELSE 0
    /\ windowSize' = IF 10 * feedback > 12 * Cap THEN Shrunk(feedback) ELSE windowSize
    /\ UNCHANGED <<config, queueType, redisVars, cookie, state, pc, inventory, polled, fault,
                   cleared, binExpired>>

\* The size was read; the window is enlarged.
ExpandWindow ==
    /\ fault = "none" /\ growBy > 0
    /\ windowSize' = windowSize + growBy
    /\ growBy' = 0
    /\ UNCHANGED <<config, queueType, redisVars, cookie, state, pc, inventory, polled, feedback,
                   fault, cleared, binExpired>>

-----------------------------------------------------------------------------
Next ==
    \/ MakeUserQueue
    \/ \E c \in Clients : Request(c) \/ ServerStep(c)
    \/ \E key \in {"latest", "working"} : Expire(key)
    \/ ReceiveTrackerFeedback \/ ExpandWindow \/ \E lost \in BOOLEAN : RollWindow(lost)

Spec == Init /\ [][Next]_vars

\* Goroutines that can run do; a client that polls again and again gets a
\* worker, and one the rate tracker is asked about again and again is let
\* through by it in some window; timers run out; feedback gets through.
FairSpec ==
    /\ Spec
    /\ \A c \in Clients : WF_vars(ServerStep(c)) /\ SF_vars(ShouldProceed(c, TRUE))
    /\ \A c \in Persistent : SF_vars(Request(c))
    /\ \A key \in {"latest", "working"} : WF_vars(Expire(key))
    /\ SF_vars(RollWindow(FALSE)) /\ WF_vars(ReceiveTrackerFeedback) /\ WF_vars(ExpandWindow)

-----------------------------------------------------------------------------
(***************************************************************************)
(* Properties                                                              *)
(***************************************************************************)

\* Who the queue should hold: added and not yet removed, whether or not the client
\* is still there.
Waiting(c) == \/ state[c] = "queued" /\ pc[c] # "add"
              \/ pc[c] \in {"remove", "removeLast"}

\* Once main has made the queue, the process dies of it in one way only: a poll
\* of a sorted set that has been cleared.  Redis answers, and no interleaving
\* makes a script run on missing keys or without a cookie.
FailsOnlyAfterClear ==
    fault # "none" /\ queueType # "none" => fault = "noRank" /\ cleared

\* As long as there is stock, Redis knows exactly the clients that were added
\* and not removed, each in the bin its cookie names.  Only a client let into
\* checkout is removed: one that gave up waiting (Exited) still counts.
QueueMatchesStates ==
    inventory > 0 =>
        /\ queueType = "sorted_set" => zset = {c \in Clients : Waiting(c)}
        /\ queueType \in LuaBinTypes =>
              /\ \A b \in DOMAIN counts :
                    counts[b] = Cardinality({c \in Clients : Waiting(c) /\ cookie[c] = b})
              /\ \A c \in Clients : Waiting(c) => cookie[c] \in DOMAIN counts
              /\ total = Cardinality({c \in Clients : Waiting(c)})

\* The gate of the bins never runs ahead of the bin that new clients get, or
\* a late arrival would be let in at once; every bin behind it has its count.
GateBehindLatest ==
    /\ working <= latest
    /\ ~cleared => DOMAIN counts = 1 .. latest

\* A bin that is older than max_unfair_ms takes no more clients: the fairness
\* guarantee of add.lua.  (The shared timer key breaks it for
\* opt_fairness_interval.)
OldBinsAreClosed ==
    [][\A c \in Clients :
          queueType = "fairness_interval_driven" /\ binExpired /\ cookie[c] = 0
             => cookie'[c] \in {0, latest + 1}]_vars

\* Whichever queue is configured, and whatever it answers, the process implements
\* the abstract sale: a client joins once and is sold one unit at most, after it
\* joined.  The first Clear closes the sale.
Sale == INSTANCE CheckoutSale WITH
    hitCheckoutStep <- [c \in Clients |-> state[c] = "inCheckout"],
    ctxDone <- cleared
ImplementsSale == Sale!Spec

Stuck == queueType = "sorted_set" /\ Cardinality(zset) <= windowSize + Growth(0)

\* A client that keeps polling becomes a candidate, if the stock lasts.  In
\* the sorted set queue those behind vanished clients wait for ever when the
\* queue is not long enough for the window to be expanded.
EverybodyIsConsidered ==
    \A c \in Persistent :
        \/ pc[c] = "poll" ~> (pc[c] = "rate" \/ inventory <= 0)
        \/ <>[]Stuck
=============================================================================
