-------------------------- MODULE RedisQueues_proofs --------------------------
(***************************************************************************)
(* Proofs about RedisQueues, for any number of clients and workers, any    *)
(* stock, cap and set of configurations: the process panics in one way     *)
(* only, the gate stays behind the latest bin, a bin whose timer has run   *)
(* out takes no more clients, and what Redis holds agrees with the         *)
(* throttle states while there is stock.  Whichever queue is configured,   *)
(* the process implements the abstract sale of CheckoutSale.               *)
(***************************************************************************)
EXTENDS RedisQueues, FiniteSetTheorems, TLAPS

(***************************************************************************)
(* The inductive invariant.  That a script never runs on deleted keys is   *)
(* the work of ClearedIsSoldOut: Clear comes after the sale of the last    *)
(* unit, and add.lua and poll.lua are not run from then on.  That none     *)
(* runs without a cookie needs WaitingHaveCookie: who was added too late   *)
(* for a cookie never passes a poll, so it is never removed.               *)
(***************************************************************************)
PcMatchesState == \A c \in Clients :
    /\ pc[c] \in {"add", "poll", "rate", "sell"} => state[c] = "queued"
    /\ pc[c] \in {"remove", "removeLast", "clear"} => state[c] = "inCheckout"
NothingBeforeStart == queueType = "none" =>
    /\ timers = {} /\ ~binExpired
    /\ \A c \in Clients : pc[c] = "idle" /\ state[c] = "initial"
RedisAnswers == queueType \notin {"none", "noop_queue"} => config.redisUp
ClearedIsSoldOut ==
    /\ cleared => inventory <= 0
    /\ \A c \in Clients : pc[c] \in {"removeLast", "clear"} => inventory <= 0
WaitingHaveRank == queueType = "sorted_set" /\ ~cleared =>
    \A c \in Clients : Waiting(c) => c \in zset
WaitingHaveCookie == queueType \in LuaTypes => \A c \in Clients :
    \/ state[c] = "queued" /\ pc[c] # "add" /\ inventory > 0
    \/ pc[c] \in {"rate", "sell", "remove", "removeLast"}
    => cookie[c] >= 1
CookiesNameBins == queueType \in LuaBinTypes \cup {"none"} /\ ~cleared =>
    \A c \in Clients : cookie[c] <= latest
TimerMeansBin == queueType \in LuaBinTypes /\ LatestTimerKey(queueType) \in timers =>
    latest >= 1
ExpiredMeansNoTimer == queueType = "fairness_interval_driven" /\ binExpired =>
    "latest" \notin timers

ProcessInv == PcMatchesState /\ NothingBeforeStart /\ RedisAnswers /\ ClearedIsSoldOut
QueueInv == WaitingHaveRank /\ WaitingHaveCookie /\ CookiesNameBins /\ TimerMeansBin
            /\ ExpiredMeansNoTimer /\ GateBehindLatest
RedisInv == TypeOK /\ ProcessInv /\ QueueInv /\ FailsOnlyAfterClear

USE DEF LuaTypes, LuaBinTypes, QueueTypes, LatestTimerKey, WorkingTimerKey,
        ZAddNX, ZRem, ZRemRangeByRank, MayPoll

-----------------------------------------------------------------------------
(* Lemmas about the helpers *)

\* A quotient rounded up is an integer, and natural when the dividend is.
LEMMA CeilDivType ==
    ASSUME NEW a \in Int, NEW b \in Nat \ {0}
    PROVE  CeilDiv(a, b) \in Int /\ (a >= 0 => CeilDiv(a, b) >= 0)
BY DEF CeilDiv

\* The window grows by a natural number.
LEMMA GrowthType ==
    ASSUME NEW p \in Nat, p < Cap, windowSize \in Nat
    PROVE  Growth(p) \in Nat
<1>1. 12 * Cap - 10 * p \in Nat /\ 10 * Cap \in Nat \ {0}
  BY RedisAssumption
<1>2. \A m, n \in Nat : m * n \in Nat
  OBVIOUS
<1>3. (12 * Cap - 10 * p) * windowSize \in Nat
  BY <1>1, <1>2
<1> QED
  BY <1>1, <1>3, CeilDivType DEF Growth

\* The window never shrinks to nothing.
LEMMA ShrunkType ==
    ASSUME NEW p \in Nat, windowSize \in Nat
    PROVE  Shrunk(p) \in Nat \ {0}
<1>1. 10 * p - 12 * Cap \in Int /\ 10 * Cap \in Nat \ {0}
  BY RedisAssumption
<1>2. \A m, n \in Int : m * n \in Int
  OBVIOUS
<1>3. (10 * p - 12 * Cap) * windowSize \in Int
  BY <1>1, <1>2
<1>4. CeilDiv((10 * p - 12 * Cap) * windowSize, 10 * Cap) \in Int
  BY <1>1, <1>3, CeilDivType
<1> QED
  BY <1>4, RedisAssumption DEF Shrunk

\* HINCRBY adds a field and keeps the values integers.
LEMMA HIncrByType ==
    ASSUME NEW dict, \A b \in DOMAIN dict : dict[b] \in Int, NEW field, NEW by \in Int
    PROVE  /\ DOMAIN HIncrBy(dict, field, by) = DOMAIN dict \cup {field}
           /\ \A b \in DOMAIN HIncrBy(dict, field, by) : HIncrBy(dict, field, by)[b] \in Int
BY DEF HIncrBy

\* The rate tracker sees at most every client in a window.
LEMMA PolledType ==
    ASSUME TypeOK
    PROVE  Cardinality(polled) \in 0 .. N
<1>1. IsFiniteSet(Clients) /\ Cardinality(Clients) = N
  BY FS_Interval, RedisAssumption DEF Clients
<1> QED
  BY <1>1, FS_Subset, FS_CardinalityType, RedisAssumption DEF TypeOK

\* While there is stock, a waiting client has a cookie that names a bin.
LEMMA PollHasBin ==
    ASSUME RedisInv, NEW c \in Clients, queueType \in LuaBinTypes, inventory > 0,
           pc[c] = "poll"
    PROVE  cookie[c] >= 1 /\ latest >= 1 /\ cookie[c] <= latest /\ ~cleared
<1> USE DEF RedisInv, ProcessInv, QueueInv
<1>1. state[c] = "queued" /\ ~cleared
  BY DEF PcMatchesState, ClearedIsSoldOut, TypeOK
<1>2. cookie[c] >= 1 /\ cookie[c] <= latest
  BY <1>1 DEF WaitingHaveCookie, CookiesNameBins
<1> QED
  BY <1>1, <1>2 DEF TypeOK

\* A queue operation panics in one way only.
LEMMA OnlyRankIsMissing ==
    ASSUME RedisInv, NEW c \in Clients, queueType # "none", PanicCause(c) # "none"
    PROVE  PanicCause(c) = "noRank" /\ cleared
<1> USE DEF RedisInv, ProcessInv, QueueInv
<1>1. pc[c] \notin {"idle", "rate", "sell"}
  BY DEF PanicCause
<1>2. ~NoRedis
  BY DEF NoRedis, RedisAnswers
<1>3. CASE pc[c] = "poll" /\ NoRank(c)
  <2>1. PanicCause(c) = "noRank"
    BY <1>1, <1>2, <1>3 DEF PanicCause
  <2>2. Waiting(c)
    BY <1>3 DEF Waiting, PcMatchesState
  <2> QED
    BY <1>3, <2>1, <2>2 DEF NoRank, WaitingHaveRank
<1>4. CASE pc[c] = "add" /\ ScriptRuns /\ AddScriptFails
  BY <1>4 DEF ScriptRuns, AddScriptFails, BinForArrival, OpensBin, TimerMeansBin, TypeOK
<1>5. CASE pc[c] = "poll" /\ ScriptRuns /\ PollScriptFails(c)
  <2>1. CASE queueType \in LuaBinTypes
    <3>1. cookie[c] >= 1 /\ latest >= 1 /\ ~cleared
      BY <1>5, <2>1, PollHasBin DEF ScriptRuns
    <3>2. DOMAIN counts = 1 .. latest
      BY <3>1 DEF GateBehindLatest
    <3>3. \A b \in 1 .. latest - 1 : b \in 1 .. latest
      BY DEF TypeOK
    <3> QED
      BY <1>5, <3>1, <3>2, <3>3 DEF PollScriptFails
  <2>2. CASE queueType \notin LuaBinTypes
    BY <1>5, <2>2 DEF PollScriptFails, ScriptRuns, WaitingHaveCookie, PcMatchesState
  <2> QED
    BY <2>1, <2>2
<1>6. CASE pc[c] \in {"remove", "removeLast"} /\ RemoveScriptRuns /\ RemoveScriptFails(c)
  BY <1>6 DEF RemoveScriptRuns, RemoveScriptFails, WaitingHaveCookie
<1> QED
  BY <1>1, <1>2, <1>3, <1>4, <1>5, <1>6 DEF PanicCause

-----------------------------------------------------------------------------
(* Every step keeps the types *)

CountsType == DOMAIN counts \subseteq Nat /\ \A b \in DOMAIN counts : counts[b] \in Int

\* A script that does not run, and the scripts of noop, leave Redis alone.
LEMMA KeepBins ==
    ASSUME TypeOK, UNCHANGED binKeys
    PROVE  UNCHANGED <<latest, working, counts, total, timers>> /\ CountsType'
BY DEF binKeys, TypeOK, CountsType

LEMMA CountsChange ==
    ASSUME TypeOK, NEW b \in Nat, NEW by \in Int, counts' = HIncrBy(counts, b, by)
    PROVE  CountsType' /\ DOMAIN counts' = DOMAIN counts \cup {b}
<1>1. /\ DOMAIN counts' = DOMAIN counts \cup {b}
      /\ \A f \in DOMAIN counts' : counts'[f] \in Int
  BY HIncrByType DEF TypeOK
<1> QED
  BY <1>1 DEF CountsType, TypeOK

LEMMA AddScriptType ==
    ASSUME TypeOK, NEW c \in Clients, AddScript(c)
    PROVE  /\ latest' \in Nat /\ working' \in Nat /\ total' \in Int /\ CountsType'
           /\ timers' \subseteq {"latest", "working"}
           /\ cookie' \in [Clients -> Nat] /\ binExpired' \in BOOLEAN
<1>1. BinForArrival \in Nat
  BY DEF BinForArrival, TypeOK
<1>2. CASE queueType = "noop"
  <2>1. /\ UNCHANGED binKeys /\ binExpired' = binExpired
        /\ cookie' = [cookie EXCEPT ![c] = 1]
    BY <1>2 DEF AddScript
  <2> QED
    BY <2>1, KeepBins DEF TypeOK
<1>3. CASE queueType # "noop"
  <2>1. /\ latest' = BinForArrival /\ working' = working /\ total' = total + 1
        /\ counts' = HIncrBy(counts, BinForArrival, 1)
        /\ timers' = timers \cup {LatestTimerKey(queueType)}
        /\ cookie' = [cookie EXCEPT ![c] = BinForArrival]
        /\ binExpired' = (binExpired /\ ~OpensBin)
    BY <1>3 DEF AddScript
  <2>2. CountsType'
    <3>1. 1 \in Int
      OBVIOUS
    <3> QED
      BY <1>1, <2>1, <3>1, CountsChange, Zenon
  <2>3. binExpired' \in BOOLEAN
    BY <2>1
  <2> QED
    BY <1>1, <2>1, <2>2, <2>3 DEF TypeOK
<1> QED
  BY <1>2, <1>3

LEMMA PollScriptType ==
    ASSUME TypeOK, PollScript
    PROVE  /\ UNCHANGED <<latest, counts, total>> /\ CountsType' /\ working' \in Nat
           /\ timers' \subseteq {"latest", "working"}
<1>1. CASE queueType = "noop"
  BY <1>1, KeepBins DEF PollScript, TypeOK
<1>2. CASE queueType # "noop"
  <2>1. /\ working' = WorkingAfterPoll /\ timers' = timers \cup {"working"}
        /\ UNCHANGED <<latest, counts, total>>
    BY <1>2 DEF PollScript
  <2>2. WorkingAfterPoll \in Nat
    BY DEF WorkingAfterPoll, TypeOK
  <2> QED
    BY <2>1, <2>2 DEF TypeOK, CountsType
<1> QED
  BY <1>1, <1>2

LEMMA RemoveScriptType ==
    ASSUME TypeOK, NEW c \in Clients, RemoveScript(c)
    PROVE  /\ UNCHANGED <<latest, working, timers>> /\ total' \in Int /\ CountsType'
<1>1. CASE queueType = "noop"
  BY <1>1, KeepBins DEF RemoveScript, TypeOK
<1>2. CASE queueType # "noop"
  <2>1. /\ counts' = HIncrBy(counts, cookie[c], -1) /\ cookie[c] \in Nat
        /\ total' = total - 1 /\ UNCHANGED <<latest, working, timers>>
    BY <1>2 DEF RemoveScript, TypeOK
  <2>2. CountsType'
    <3>1. -1 \in Int
      OBVIOUS
    <3> QED
      BY <2>1, <3>1, CountsChange, Zenon
  <2> QED
    BY <2>1, <2>2 DEF TypeOK
<1> QED
  BY <1>1, <1>2

LEMMA StepKeepsType ==
    ASSUME TypeOK, [Next]_vars
    PROVE  TypeOK'
<1> USE DEF TypeOK, CountsType, feedbackVars, Goto, Pcs, States
<1>1. CASE MakeUserQueue
  BY <1>1, RedisAssumption DEF MakeUserQueue, CanStart, redisVars, binKeys
<1>2. ASSUME NEW c \in Clients, Request(c) PROVE TypeOK'
  BY <1>2 DEF Request, redisVars, binKeys
<1>3. ASSUME NEW c \in Clients, Add(c) PROVE TypeOK'
  <2>1. CASE AddScript(c)
    BY <1>3, <2>1, AddScriptType DEF Add
  <2>2. CASE UNCHANGED <<binKeys, cookie, binExpired>>
    BY <1>3, <2>2 DEF Add, binKeys
  <2> QED
    BY <1>3, <2>1, <2>2 DEF Add
<1>4. ASSUME NEW c \in Clients, IsCandidateToProceed(c) PROVE TypeOK'
  <2>1. Goto(c, "rate") \/ Goto(c, "idle")
    BY <1>4 DEF IsCandidateToProceed
  <2>2. CASE PollScript
    BY <1>4, <2>1, <2>2, PollScriptType DEF IsCandidateToProceed
  <2>3. CASE UNCHANGED binKeys
    BY <1>4, <2>1, <2>3 DEF IsCandidateToProceed, binKeys
  <2> QED
    BY <1>4, <2>2, <2>3 DEF IsCandidateToProceed
<1>5. ASSUME NEW c \in Clients, NEW canPass \in BOOLEAN, ShouldProceed(c, canPass) PROVE TypeOK'
  BY <1>5 DEF ShouldProceed, redisVars, binKeys
<1>6. ASSUME NEW c \in Clients, TakeInventory(c) PROVE TypeOK'
  BY <1>6, RedisAssumption DEF TakeInventory, redisVars, binKeys
<1>7. ASSUME NEW c \in Clients, Remove(c) PROVE TypeOK'
  <2>1. CASE RemoveScript(c)
    BY <1>7, <2>1, RemoveScriptType DEF Remove
  <2>2. CASE UNCHANGED binKeys
    BY <1>7, <2>2 DEF Remove, binKeys
  <2> QED
    BY <1>7, <2>1, <2>2 DEF Remove
<1>8. ASSUME NEW c \in Clients, Clear(c) PROVE TypeOK'
  <2>1. CASE queueType \in LuaBinTypes
    BY <1>8, <2>1 DEF Clear, ClearScript
  <2>2. CASE queueType \notin LuaBinTypes
    BY <1>8, <2>2 DEF Clear, ClearScript, binKeys
  <2> QED
    BY <2>1, <2>2
<1>9. ASSUME NEW c \in Clients, Panic(c) PROVE TypeOK'
  <2>1. PanicCause(c) \in {"none", "noRedis", "noRank", "scriptError"}
    BY DEF PanicCause
  <2> QED
    BY <1>9, <2>1 DEF Panic, redisVars, binKeys
<1>10. ASSUME NEW key \in {"latest", "working"}, Expire(key) PROVE TypeOK'
  BY <1>10 DEF Expire
<1>11. CASE ReceiveTrackerFeedback
  <2>3. feedback \in Nat
    BY <1>11, RedisAssumption DEF ReceiveTrackerFeedback, NoFeedback
  <2>1. windowSize' \in Nat \ {0}
    BY <1>11, <2>3, ShrunkType DEF ReceiveTrackerFeedback
  <2>2. growBy' \in Nat
    BY <1>11, <2>3, GrowthType DEF ReceiveTrackerFeedback
  <2> QED
    BY <1>11, <2>1, <2>2 DEF ReceiveTrackerFeedback, redisVars, binKeys
<1>12. CASE ExpandWindow
  BY <1>12 DEF ExpandWindow, redisVars, binKeys
<1>13. ASSUME NEW lost \in BOOLEAN, RollWindow(lost) PROVE TypeOK'
  BY <1>13, PolledType DEF RollWindow, redisVars, binKeys
<1>14. CASE UNCHANGED vars
  BY <1>14 DEF vars, redisVars, binKeys
<1> QED
  BY <1>1, <1>2, <1>3, <1>4, <1>5, <1>6, <1>7, <1>8, <1>9, <1>10, <1>11, <1>12, <1>13, <1>14
     DEF Next, ServerStep

-----------------------------------------------------------------------------
(* Every step keeps the invariant of the process *)

\* A step of the worker that serves c.
LEMMA WorkerKeepsProcess ==
    ASSUME ProcessInv, TypeOK, inventory' <= inventory, inventory' \in Int, NEW c \in Clients,
           queueType # "none", UNCHANGED <<config, queueType, cleared>>,
           \A d \in Clients \ {c} : pc'[d] = pc[d] /\ state'[d] = state[d],
           pc'[c] \in {"add", "poll", "rate", "sell"} => state'[c] = "queued",
           pc'[c] \in {"remove", "removeLast", "clear"} => state'[c] = "inCheckout",
           pc'[c] \in {"removeLast", "clear"} => inventory' <= 0
    PROVE  ProcessInv'
<1> USE DEF ProcessInv, TypeOK
<1>1. PcMatchesState'
  BY DEF PcMatchesState
<1>2. NothingBeforeStart' /\ RedisAnswers'
  BY DEF NothingBeforeStart, RedisAnswers
<1>3. inventory <= 0 => inventory' <= 0
  OBVIOUS
<1>4. ClearedIsSoldOut'
  BY <1>3 DEF ClearedIsSoldOut
<1> QED
  BY <1>1, <1>2, <1>4

\* A step of main, of Redis or of the feedback goroutine.
LEMMA OthersKeepProcess ==
    ASSUME ProcessInv, UNCHANGED <<config, pc, state, inventory, cleared>>,
           \/ queueType' # "none" /\ (queueType' # "noop_queue" => config.redisUp)
           \/ UNCHANGED <<queueType, timers, binExpired>>
    PROVE  ProcessInv'
<1> USE DEF ProcessInv
<1>1. PcMatchesState' /\ ClearedIsSoldOut'
  BY DEF PcMatchesState, ClearedIsSoldOut
<1>2. NothingBeforeStart'
  BY DEF NothingBeforeStart
<1>3. RedisAnswers'
  BY DEF RedisAnswers
<1> QED
  BY <1>1, <1>2, <1>3

LEMMA StepKeepsProcess ==
    ASSUME RedisInv, [Next]_vars
    PROVE  ProcessInv'
<1> USE DEF RedisInv, Goto, TypeOK
<1>1. CASE MakeUserQueue
  BY OthersKeepProcess, <1>1 DEF MakeUserQueue, CanStart, redisVars, binKeys
<1>2. ASSUME NEW c \in Clients, Request(c) PROVE ProcessInv'
  <2>1. PICK p \in {"add", "poll"} : Goto(c, p)
    BY <1>2 DEF Request
  <2> QED
    BY WorkerKeepsProcess, <1>2, <2>1 DEF Request
<1>3. ASSUME NEW c \in Clients, Add(c) PROVE ProcessInv'
  <2>1. queueType # "none" /\ state[c] = "queued"
    BY <1>3 DEF ProcessInv, Add, NothingBeforeStart, PcMatchesState
  <2>2. state' = [state EXCEPT ![c] = "queued"]
    BY <1>3, <2>1 DEF Add
  <2> QED
    BY WorkerKeepsProcess, <1>3, <2>1, <2>2 DEF Add
<1>4. ASSUME NEW c \in Clients, IsCandidateToProceed(c) PROVE ProcessInv'
  <2>1. queueType # "none" /\ state[c] = "queued"
    BY <1>4 DEF ProcessInv, IsCandidateToProceed, NothingBeforeStart, PcMatchesState
  <2>2. state' = [state EXCEPT ![c] = "queued"]
    BY <1>4, <2>1 DEF IsCandidateToProceed
  <2>3. PICK p \in {"rate", "idle"} : Goto(c, p)
    BY <1>4 DEF IsCandidateToProceed
  <2> QED
    BY WorkerKeepsProcess, <1>4, <2>1, <2>2, <2>3 DEF IsCandidateToProceed
<1>5. ASSUME NEW c \in Clients, NEW canPass \in BOOLEAN, ShouldProceed(c, canPass)
      PROVE  ProcessInv'
  <2>1. queueType # "none" /\ state[c] = "queued"
    BY <1>5 DEF ProcessInv, ShouldProceed, NothingBeforeStart, PcMatchesState
  <2>2. state' = [state EXCEPT ![c] = "queued"]
    BY <1>5, <2>1 DEF ShouldProceed
  <2>3. PICK p \in {"sell", "idle"} : Goto(c, p)
    BY <1>5 DEF ShouldProceed
  <2> QED
    BY WorkerKeepsProcess, <1>5, <2>1, <2>2, <2>3 DEF ShouldProceed
<1>6. ASSUME NEW c \in Clients, TakeInventory(c) PROVE ProcessInv'
  <2>1. queueType # "none" /\ state[c] = "queued"
    BY <1>6 DEF ProcessInv, TakeInventory, NothingBeforeStart, PcMatchesState
  <2>2. CASE inventory < 0
    <3>1. state' = [state EXCEPT ![c] = "queued"]
      BY <1>6, <2>1, <2>2 DEF TakeInventory
    <3> QED
      BY WorkerKeepsProcess, <1>6, <2>1, <2>2, <3>1 DEF TakeInventory
  <2>3. CASE ~(inventory < 0)
    <3>1. PICK p \in {"remove", "removeLast"} :
             Goto(c, p) /\ (p = "removeLast" => inventory' <= 0)
      BY <1>6, <2>3 DEF TakeInventory
    <3> QED
      BY WorkerKeepsProcess, <1>6, <2>1, <2>3, <3>1 DEF TakeInventory
  <2> QED
    BY <2>2, <2>3
<1>7. ASSUME NEW c \in Clients, Remove(c) PROVE ProcessInv'
  <2>1. queueType # "none" /\ state[c] = "inCheckout"
    BY <1>7 DEF ProcessInv, Remove, NothingBeforeStart, PcMatchesState
  <2>2. state' = [state EXCEPT ![c] = "inCheckout"]
    BY <1>7, <2>1 DEF Remove
  <2>3. PICK p \in {"idle", "clear"} : Goto(c, p) /\ (p = "clear" => inventory <= 0)
    BY <1>7 DEF ProcessInv, Remove, ClearedIsSoldOut
  <2> QED
    BY WorkerKeepsProcess, <1>7, <2>1, <2>2, <2>3 DEF Remove
<1>8. ASSUME NEW c \in Clients, Clear(c) PROVE ProcessInv'
  <2>1. queueType # "none" /\ state[c] = "inCheckout" /\ inventory <= 0
    BY <1>8 DEF ProcessInv, Clear, NothingBeforeStart, PcMatchesState, ClearedIsSoldOut
  <2> QED
    BY <1>8, <2>1
       DEF ProcessInv, Clear, PcMatchesState, NothingBeforeStart, RedisAnswers, ClearedIsSoldOut
<1>9. ASSUME NEW c \in Clients, Panic(c) PROVE ProcessInv'
  BY OthersKeepProcess, <1>9 DEF Panic, redisVars, binKeys
<1>10. ASSUME NEW key \in {"latest", "working"}, Expire(key) PROVE ProcessInv'
  <2>1. queueType # "none"
    BY <1>10 DEF ProcessInv, Expire, NothingBeforeStart
  <2> QED
    BY OthersKeepProcess, <1>10, <2>1 DEF ProcessInv, Expire, RedisAnswers
<1>11. CASE ReceiveTrackerFeedback
  BY OthersKeepProcess, <1>11 DEF ReceiveTrackerFeedback, redisVars, binKeys
<1>12. CASE ExpandWindow
  BY OthersKeepProcess, <1>12 DEF ExpandWindow, redisVars, binKeys
<1>13. ASSUME NEW lost \in BOOLEAN, RollWindow(lost) PROVE ProcessInv'
  BY OthersKeepProcess, <1>13 DEF RollWindow, redisVars, binKeys
<1>14. CASE UNCHANGED vars
  BY OthersKeepProcess, <1>14 DEF vars, redisVars, binKeys
<1> QED
  BY <1>1, <1>2, <1>3, <1>4, <1>5, <1>6, <1>7, <1>8, <1>9, <1>10, <1>11, <1>12, <1>13, <1>14
     DEF Next, ServerStep

-----------------------------------------------------------------------------
(* Every step keeps the invariant of the queues *)

QueueVars == <<queueType, zset, binKeys, cookie, binExpired>>

\* A step that leaves the queue alone, and makes nobody wait who did not.
LEMMA OthersKeepQueue ==
    ASSUME QueueInv, TypeOK, UNCHANGED <<QueueVars, cleared>>, inventory' <= inventory,
           inventory' \in Int,
           \A c \in Clients : Waiting(c)' => Waiting(c),
           \A c \in Clients : pc'[c] \in {"rate", "sell", "remove", "removeLast"}
               => pc[c] \in {"rate", "sell", "remove", "removeLast"},
           \A c \in Clients : state'[c] = "queued" /\ pc'[c] # "add"
               => state[c] = "queued" /\ pc[c] # "add"
    PROVE  QueueInv'
<1> USE DEF QueueInv, QueueVars, binKeys
<1>1. WaitingHaveRank'
  BY DEF WaitingHaveRank
<1>2. inventory' > 0 => inventory > 0
  BY DEF TypeOK
<1>3. WaitingHaveCookie'
  BY <1>2 DEF WaitingHaveCookie
<1>4. CookiesNameBins' /\ TimerMeansBin' /\ ExpiredMeansNoTimer'
  BY DEF CookiesNameBins, TimerMeansBin, ExpiredMeansNoTimer
<1>5. GateBehindLatest'
  BY DEF GateBehindLatest
<1> QED
  BY <1>1, <1>3, <1>4, <1>5

LEMMA AddKeepsQueue ==
    ASSUME RedisInv, NEW c \in Clients, Add(c)
    PROVE  QueueInv'
<1> USE DEF RedisInv, QueueInv, ProcessInv, Goto
<1>1. /\ UNCHANGED <<queueType, state, inventory, cleared>> /\ pc[c] = "add"
      /\ state[c] = "queued" /\ pc' = [pc EXCEPT ![c] = "poll"] /\ queueType # "none"
  BY DEF Add, PcMatchesState, NothingBeforeStart
<1>2. WaitingHaveRank'
  BY <1>1 DEF Add, WaitingHaveRank, Waiting, TypeOK
<1>3. CASE ~ScriptRuns
  <2>1. UNCHANGED <<latest, working, counts, total, timers, cookie, binExpired>>
    BY <1>3 DEF Add, binKeys
  <2>2. queueType \in LuaTypes => ~(inventory > 0)
    BY <1>3 DEF ScriptRuns
  <2>3. WaitingHaveCookie'
    BY <1>1, <2>1, <2>2 DEF WaitingHaveCookie, TypeOK
  <2>4. CookiesNameBins' /\ TimerMeansBin' /\ ExpiredMeansNoTimer' /\ GateBehindLatest'
    BY <1>1, <2>1 DEF CookiesNameBins, TimerMeansBin, ExpiredMeansNoTimer, GateBehindLatest
  <2> QED
    BY <1>2, <2>3, <2>4
<1>4. CASE ScriptRuns /\ queueType = "noop"
  <2>1. /\ UNCHANGED <<latest, working, counts, total, timers, binExpired>>
        /\ cookie' = [cookie EXCEPT ![c] = 1]
    BY <1>4 DEF Add, AddScript, binKeys
  <2>2. WaitingHaveCookie'
    BY <1>1, <2>1 DEF WaitingHaveCookie, TypeOK
  <2>3. CookiesNameBins' /\ TimerMeansBin' /\ ExpiredMeansNoTimer' /\ GateBehindLatest'
    BY <1>1, <1>4, <2>1 DEF CookiesNameBins, TimerMeansBin, ExpiredMeansNoTimer, GateBehindLatest
  <2> QED
    BY <1>2, <2>2, <2>3
<1>5. CASE ScriptRuns /\ queueType # "noop"
  <2>1. /\ latest' = BinForArrival /\ counts' = HIncrBy(counts, BinForArrival, 1)
        /\ timers' = timers \cup {LatestTimerKey(queueType)} /\ working' = working
        /\ cookie' = [cookie EXCEPT ![c] = BinForArrival]
        /\ binExpired' = (binExpired /\ ~OpensBin)
    BY <1>5 DEF Add, AddScript
  <2>2. queueType \in LuaBinTypes /\ ~cleared
    BY <1>5 DEF ScriptRuns, ClearedIsSoldOut, TypeOK
  <2>3. /\ BinForArrival \in Nat /\ BinForArrival >= 1
        /\ BinForArrival = latest \/ BinForArrival = latest + 1
    BY <2>2 DEF BinForArrival, OpensBin, TimerMeansBin, TypeOK
  <2>4. WaitingHaveCookie'
    BY <1>1, <2>1, <2>3 DEF WaitingHaveCookie, TypeOK
  <2>5. CookiesNameBins'
    BY <1>1, <2>1, <2>2, <2>3 DEF CookiesNameBins, TypeOK
  <2>6. TimerMeansBin'
    BY <1>1, <2>1, <2>3 DEF TimerMeansBin
  <2>7. ExpiredMeansNoTimer'
    BY <1>1, <2>1 DEF ExpiredMeansNoTimer, OpensBin
  <2>8. DOMAIN counts' = DOMAIN counts \cup {BinForArrival}
    <3>1. 1 \in Int
      OBVIOUS
    <3> QED
      BY <2>1, <2>3, <3>1, CountsChange, Zenon
  <2>9. GateBehindLatest'
    <3>1. DOMAIN counts' = 1 .. latest'
      <4>1. DOMAIN counts = 1 .. latest /\ latest \in Nat
        BY <2>2 DEF GateBehindLatest, TypeOK
      <4>2. \A m \in Nat : 1 .. m \cup {m + 1} = 1 .. m + 1
        OBVIOUS
      <4>3. \A m \in Nat : m >= 1 => 1 .. m \cup {m} = 1 .. m
        OBVIOUS
      <4> QED
        BY <2>1, <2>3, <2>8, <4>1, <4>2, <4>3
    <3> QED
      BY <2>1, <2>3, <3>1 DEF GateBehindLatest, TypeOK
  <2> QED
    BY <1>2, <2>4, <2>5, <2>6, <2>7, <2>9
<1> QED
  BY <1>3, <1>4, <1>5

LEMMA PollKeepsQueue ==
    ASSUME RedisInv, NEW c \in Clients, IsCandidateToProceed(c)
    PROVE  QueueInv'
<1> USE DEF RedisInv, QueueInv, ProcessInv, Goto
<1>1. /\ UNCHANGED <<queueType, zset, cookie, state, inventory, cleared, binExpired>>
      /\ pc[c] = "poll" /\ state[c] = "queued"
      /\ pc' = [pc EXCEPT ![c] = IF IsCandidate(c) THEN "rate" ELSE "idle"]
  BY DEF IsCandidateToProceed, PcMatchesState
<1>2. WaitingHaveRank'
  BY <1>1 DEF WaitingHaveRank, Waiting, TypeOK
<1>3. queueType \in LuaTypes /\ IsCandidate(c) => cookie[c] >= 1
  BY <1>1 DEF IsCandidate, ScriptRuns, WaitingHaveCookie
<1>4. WaitingHaveCookie'
  BY <1>1, <1>3 DEF WaitingHaveCookie, TypeOK
<1>5. UNCHANGED <<latest, counts, total>>
  BY DEF IsCandidateToProceed, PollScript, binKeys
<1>6. CASE UNCHANGED <<working, timers>>
  BY <1>1, <1>2, <1>4, <1>5, <1>6
     DEF CookiesNameBins, TimerMeansBin, ExpiredMeansNoTimer, GateBehindLatest
<1>7. CASE ScriptRuns /\ queueType # "noop"
  <2>1. working' = WorkingAfterPoll /\ timers' = timers \cup {"working"}
    BY <1>7 DEF IsCandidateToProceed, PollScript
  <2>2. queueType \in LuaBinTypes /\ inventory > 0
    BY <1>7 DEF ScriptRuns
  <2>3. latest >= 1
    BY <1>1, <2>2, PollHasBin
  <2>4. CookiesNameBins' /\ TimerMeansBin'
    BY <1>1, <1>5, <2>3 DEF CookiesNameBins, TimerMeansBin
  <2>5. ExpiredMeansNoTimer'
    BY <1>1, <2>1 DEF ExpiredMeansNoTimer
  <2>6. working' <= latest'
    BY <1>5, <2>1, <2>3 DEF WorkingAfterPoll, GateMayMove, GateBehindLatest, TypeOK
  <2>7. GateBehindLatest'
    BY <1>1, <1>5, <2>6 DEF GateBehindLatest
  <2> QED
    BY <1>2, <1>4, <2>4, <2>5, <2>7
<1> QED
  BY <1>6, <1>7 DEF IsCandidateToProceed, PollScript, binKeys

LEMMA RemoveKeepsQueue ==
    ASSUME RedisInv, NEW c \in Clients, Remove(c)
    PROVE  QueueInv'
<1> USE DEF RedisInv, QueueInv, ProcessInv, Goto
<1>1. /\ UNCHANGED <<queueType, cookie, state, inventory, cleared, binExpired>>
      /\ pc[c] \in {"remove", "removeLast"} /\ state[c] = "inCheckout"
      /\ pc' = [pc EXCEPT ![c] = IF pc[c] = "remove" THEN "idle" ELSE "clear"]
      /\ \A d \in Clients \ {c} : d \in zset => d \in zset'
  BY DEF Remove, PcMatchesState
<1>2. WaitingHaveRank'
  BY <1>1 DEF WaitingHaveRank, Waiting, TypeOK
<1>3. WaitingHaveCookie'
  BY <1>1 DEF WaitingHaveCookie, TypeOK
<1>4. UNCHANGED <<latest, working, timers>>
  BY RemoveScriptType DEF Remove, binKeys
<1>5. CookiesNameBins' /\ TimerMeansBin' /\ ExpiredMeansNoTimer'
  BY <1>1, <1>4 DEF CookiesNameBins, TimerMeansBin, ExpiredMeansNoTimer
<1>6. CASE UNCHANGED counts
  BY <1>1, <1>2, <1>3, <1>4, <1>5, <1>6 DEF GateBehindLatest
<1>7. CASE RemoveScriptRuns /\ queueType # "noop"
  <2>1. /\ counts' = HIncrBy(counts, cookie[c], -1)
        /\ cookie[c] \in Nat /\ cookie[c] >= 1
    BY <1>1, <1>7 DEF Remove, RemoveScript, RemoveScriptRuns, WaitingHaveCookie, TypeOK
  <2>2. DOMAIN counts' = DOMAIN counts \cup {cookie[c]}
    <3>1. -1 \in Int
      OBVIOUS
    <3> QED
      BY <2>1, <3>1, CountsChange, Zenon
  <2>3. ~cleared => cookie[c] <= latest
    BY <1>7 DEF CookiesNameBins, RemoveScriptRuns
  <2>4. ~cleared => DOMAIN counts' = 1 .. latest
    <3>1. ~cleared => DOMAIN counts = 1 .. latest /\ cookie[c] \in 1 .. latest
      BY <2>1, <2>3 DEF GateBehindLatest, TypeOK
    <3> QED
      BY <2>2, <3>1
  <2>5. GateBehindLatest'
    BY <1>1, <1>4, <2>4 DEF GateBehindLatest
  <2> QED
    BY <1>2, <1>3, <1>5, <2>5
<1> QED
  BY <1>6, <1>7 DEF Remove, RemoveScript, binKeys

LEMMA ClearKeepsQueue ==
    ASSUME RedisInv, NEW c \in Clients, Clear(c)
    PROVE  QueueInv'
<1> USE DEF RedisInv, QueueInv, ProcessInv, Goto
<1>1. /\ UNCHANGED <<queueType, cookie, state, inventory, binExpired>> /\ cleared' = TRUE
      /\ pc' = [pc EXCEPT ![c] = "idle"] /\ inventory <= 0
  BY DEF Clear, ClearedIsSoldOut
<1>2. WaitingHaveRank' /\ CookiesNameBins'
  BY <1>1 DEF WaitingHaveRank, CookiesNameBins
<1>3. WaitingHaveCookie'
  BY <1>1 DEF WaitingHaveCookie, TypeOK
<1>4. \/ UNCHANGED <<latest, working, timers>>
      \/ latest' = 0 /\ working' = 0 /\ timers' = {}
  BY DEF Clear, ClearScript, binKeys
<1>5. TimerMeansBin' /\ ExpiredMeansNoTimer' /\ GateBehindLatest'
  BY <1>1, <1>4 DEF TimerMeansBin, ExpiredMeansNoTimer, GateBehindLatest
<1> QED
  BY <1>2, <1>3, <1>5

LEMMA StepKeepsQueue ==
    ASSUME RedisInv, [Next]_vars
    PROVE  QueueInv'
<1> USE DEF RedisInv
<1>1. CASE MakeUserQueue
  <2>1. UNCHANGED <<latest, working, counts, total, timers, cookie, state, pc, inventory,
                    cleared, binExpired>>
    BY <1>1 DEF MakeUserQueue, redisVars, binKeys
  <2>2. CASE queueType' = queueType
    BY <1>1, <2>1, <2>2, OthersKeepQueue
       DEF MakeUserQueue, redisVars, QueueVars, Waiting, TypeOK
  <2>3. CASE queueType' # queueType
    <3>1. /\ \A c \in Clients : pc[c] = "idle" /\ state[c] = "initial"
          /\ timers = {} /\ ~binExpired /\ queueType = "none"
      BY <1>1 DEF MakeUserQueue, ProcessInv, NothingBeforeStart
    <3>2. CookiesNameBins' /\ GateBehindLatest'
      BY <2>1, <3>1 DEF QueueInv, CookiesNameBins, GateBehindLatest
    <3>3. WaitingHaveRank' /\ WaitingHaveCookie'
      BY <2>1, <3>1 DEF WaitingHaveRank, WaitingHaveCookie, Waiting
    <3>4. TimerMeansBin' /\ ExpiredMeansNoTimer'
      BY <2>1, <3>1 DEF TimerMeansBin, ExpiredMeansNoTimer
    <3> QED
      BY <3>2, <3>3, <3>4 DEF QueueInv
  <2> QED
    BY <2>2, <2>3
<1>2. ASSUME NEW c \in Clients, Request(c) PROVE QueueInv'
  <2>1. \/ pc' = [pc EXCEPT ![c] = "add"]
        \/ pc' = [pc EXCEPT ![c] = "poll"] /\ state[c] = "queued"
    BY <1>2 DEF Request, Goto
  <2>2. /\ UNCHANGED <<QueueVars, cleared, inventory>> /\ pc[c] = "idle"
        /\ state' = [state EXCEPT ![c] = "queued"]
    BY <1>2 DEF Request, redisVars, QueueVars
  <2> QED
    BY <2>1, <2>2, OthersKeepQueue DEF Waiting, TypeOK
<1>3. ASSUME NEW c \in Clients, NEW canPass \in BOOLEAN, ShouldProceed(c, canPass)
      PROVE  QueueInv'
  <2>1. \/ pc' = [pc EXCEPT ![c] = "sell"]
        \/ pc' = [pc EXCEPT ![c] = "idle"]
    BY <1>3 DEF ShouldProceed, Goto
  <2>2. UNCHANGED <<QueueVars, cleared, inventory, state>> /\ pc[c] = "rate"
    BY <1>3 DEF ShouldProceed, redisVars, QueueVars
  <2>3. state[c] = "queued"
    BY <2>2 DEF ProcessInv, PcMatchesState
  <2> QED
    BY <2>1, <2>2, <2>3, OthersKeepQueue DEF Waiting, TypeOK
<1>4. ASSUME NEW c \in Clients, TakeInventory(c) PROVE QueueInv'
  <2>1. UNCHANGED <<QueueVars, cleared>> /\ pc[c] = "sell"
    BY <1>4 DEF TakeInventory, redisVars, QueueVars
  <2>2. state[c] = "queued"
    BY <2>1 DEF ProcessInv, PcMatchesState
  <2>3. \/ /\ pc' = [pc EXCEPT ![c] = "idle"] /\ UNCHANGED <<state, inventory>>
        \/ /\ \/ pc' = [pc EXCEPT ![c] = "removeLast"]
              \/ pc' = [pc EXCEPT ![c] = "remove"]
           /\ state' = [state EXCEPT ![c] = "inCheckout"]
           /\ inventory' = inventory - 1
    BY <1>4 DEF TakeInventory, Goto
  <2> QED
    BY <2>1, <2>2, <2>3, OthersKeepQueue DEF Waiting, TypeOK
<1>5. ASSUME NEW key \in {"latest", "working"}, Expire(key) PROVE QueueInv'
  <2>1. /\ UNCHANGED <<queueType, zset, latest, working, counts, cookie, state, pc, inventory,
                       cleared>>
        /\ timers' = timers \ {key}
        /\ binExpired' = (binExpired \/ key = LatestTimerKey(queueType))
    BY <1>5 DEF Expire
  <2>2. WaitingHaveRank' /\ WaitingHaveCookie'
    BY <2>1 DEF QueueInv, WaitingHaveRank, WaitingHaveCookie, Waiting
  <2>3. CookiesNameBins' /\ TimerMeansBin' /\ GateBehindLatest'
    BY <2>1 DEF QueueInv, CookiesNameBins, TimerMeansBin, GateBehindLatest
  <2>4. ExpiredMeansNoTimer'
    BY <2>1 DEF QueueInv, ExpiredMeansNoTimer
  <2> QED
    BY <2>2, <2>3, <2>4 DEF QueueInv
<1>6. ASSUME UNCHANGED <<queueType, redisVars, cookie, state, pc, inventory, cleared, binExpired>>
      PROVE  QueueInv'
  BY <1>6, OthersKeepQueue DEF redisVars, QueueVars, Waiting, TypeOK
<1> QED
  BY <1>1, <1>2, <1>3, <1>4, <1>5, <1>6, AddKeepsQueue, PollKeepsQueue, RemoveKeepsQueue,
     ClearKeepsQueue
     DEF Next, ServerStep, Panic, ReceiveTrackerFeedback, ExpandWindow, RollWindow, vars

-----------------------------------------------------------------------------
(***************************************************************************)
(* What Redis holds, while there is stock: who waits, and how many in      *)
(* which bin.  A bin without a field counts 0, and so does everything      *)
(* before main has made the queue.                                         *)
(***************************************************************************)
WaitingSet == {c \in Clients : Waiting(c)}
WaitingIn(b) == {c \in WaitingSet : cookie[c] = b}
CountOf(b) == IF b \in DOMAIN counts THEN counts[b] ELSE 0

SetMatches == queueType \in {"none", "sorted_set"} => zset = WaitingSet
CountsMatch == queueType \in {"none"} \cup LuaBinTypes =>
    /\ total = Cardinality(WaitingSet)
    /\ \A b \in Nat : CountOf(b) = Cardinality(WaitingIn(b))
MatchInv == inventory > 0 => SetMatches /\ CountsMatch

LEMMA WaitingFinite ==
    /\ IsFiniteSet(WaitingSet) /\ Cardinality(WaitingSet) \in Nat
    /\ \A b : IsFiniteSet(WaitingIn(b)) /\ Cardinality(WaitingIn(b)) \in Nat
<1>1. IsFiniteSet(Clients)
  BY FS_Interval, RedisAssumption DEF Clients
<1>2. WaitingSet \subseteq Clients /\ \A b : WaitingIn(b) \subseteq Clients
  BY DEF WaitingSet, WaitingIn
<1> QED
  BY <1>1, <1>2, FS_Subset, FS_CardinalityType

\* HINCRBY changes the count of one bin.
LEMMA CountOfChanges ==
    ASSUME TypeOK, NEW k \in Nat, NEW by \in Int, counts' = HIncrBy(counts, k, by), NEW b \in Nat
    PROVE  CountOf(b)' = IF b = k THEN CountOf(b) + by ELSE CountOf(b)
<1>1. CountOf(b) \in Int
  BY DEF TypeOK, CountOf
<1>2. DOMAIN counts' = DOMAIN counts \cup {k}
  BY DEF HIncrBy
<1>3. b \in DOMAIN counts' => counts'[b] = CountOf(b) + (IF b = k THEN by ELSE 0)
  BY <1>2 DEF HIncrBy, CountOf
<1> QED
  BY <1>1, <1>2, <1>3 DEF CountOf

\* A step after which the same clients wait.
LEMMA OthersKeepMatch ==
    ASSUME MatchInv, UNCHANGED <<zset, counts, total, cookie>>, WaitingSet' = WaitingSet,
           queueType' = queueType \/ queueType = "none",
           inventory' > 0 => inventory > 0
    PROVE  MatchInv'
<1>1. \A b \in Nat : CountOf(b)' = CountOf(b) /\ WaitingIn(b)' = WaitingIn(b)
  BY DEF CountOf, WaitingIn
<1>2. inventory' > 0 => SetMatches'
  BY DEF MatchInv, SetMatches
<1>3. inventory' > 0 => CountsMatch'
  BY <1>1 DEF MatchInv, CountsMatch
<1> QED
  BY <1>2, <1>3 DEF MatchInv

LEMMA AddKeepsMatch ==
    ASSUME RedisInv, MatchInv, NEW c \in Clients, Add(c)
    PROVE  MatchInv'
<1>1. /\ pc[c] = "add" /\ state[c] = "queued" /\ queueType # "none"
      /\ pc' = [pc EXCEPT ![c] = "poll"] /\ UNCHANGED <<state, queueType, inventory>>
  BY DEF Add, Goto, RedisInv, ProcessInv, PcMatchesState, NothingBeforeStart
<1>2. WaitingSet' = WaitingSet \cup {c} /\ c \notin WaitingSet
  BY <1>1 DEF WaitingSet, Waiting, RedisInv, TypeOK
<1> SUFFICES ASSUME inventory > 0
             PROVE  SetMatches' /\ CountsMatch'
  BY <1>1 DEF MatchInv
<1>3. SetMatches'
  BY <1>1, <1>2 DEF MatchInv, SetMatches, Add
<1>4. ASSUME queueType \in LuaBinTypes
      PROVE  CountsMatch'
  <2>1. /\ counts' = HIncrBy(counts, BinForArrival, 1) /\ total' = total + 1
        /\ cookie' = [cookie EXCEPT ![c] = BinForArrival]
    BY <1>4 DEF Add, ScriptRuns, AddScript
  <2>2. BinForArrival \in Nat /\ TypeOK /\ total = Cardinality(WaitingSet)
    BY <1>4 DEF RedisInv, TypeOK, BinForArrival, MatchInv, CountsMatch
  <2>3. total' = Cardinality(WaitingSet)'
    <3>1. Cardinality(WaitingSet)' = Cardinality(WaitingSet) + 1
      BY <1>2, WaitingFinite, FS_AddElement
    <3> QED
      BY <2>1, <2>2, <3>1
  <2>4. ASSUME NEW b \in Nat
        PROVE  CountOf(b)' = Cardinality(WaitingIn(b))'
    <3>1. CountOf(b) = Cardinality(WaitingIn(b)) /\ Cardinality(WaitingIn(b)) \in Nat
      BY <1>4, WaitingFinite DEF MatchInv, CountsMatch
    <3>2. CountOf(b)' = IF b = BinForArrival THEN CountOf(b) + 1 ELSE CountOf(b)
      <4> DEFINE k == BinForArrival
                 by == 1
      <4>1. k \in Nat /\ by \in Int /\ counts' = HIncrBy(counts, k, by)
        BY <2>1, <2>2
      <4> HIDE DEF k, by
      <4>2. CountOf(b)' = IF b = k THEN CountOf(b) + by ELSE CountOf(b)
        BY <2>2, <4>1, CountOfChanges
      <4> QED
        BY <4>2 DEF k, by
    <3>3. cookie'[c] = BinForArrival /\ \A d \in Clients \ {c} : cookie'[d] = cookie[d]
      BY <2>1, <2>2 DEF TypeOK
    <3>4. c \notin WaitingIn(b) /\ WaitingSet \subseteq Clients \ {c}
      BY <1>2 DEF WaitingIn, WaitingSet
    <3>5. CASE b = BinForArrival
      <4>1. WaitingIn(b)' = WaitingIn(b) \cup {c}
        BY <1>2, <3>3, <3>4, <3>5 DEF WaitingIn
      <4>2. Cardinality(WaitingIn(b))' = Cardinality(WaitingIn(b)) + 1
        BY <3>4, <4>1, WaitingFinite, FS_AddElement
      <4> QED
        BY <3>1, <3>2, <3>5, <4>2
    <3>6. CASE b # BinForArrival
      <4>1. WaitingIn(b)' = WaitingIn(b)
        BY <1>2, <3>3, <3>4, <3>6 DEF WaitingIn
      <4> QED
        BY <3>1, <3>2, <3>6, <4>1
    <3> QED
      BY <3>5, <3>6
  <2> QED
    BY <2>3, <2>4 DEF CountsMatch
<1>5. queueType \notin LuaBinTypes => CountsMatch'
  BY <1>1 DEF CountsMatch
<1> QED
  BY <1>3, <1>4, <1>5

LEMMA RemoveKeepsMatch ==
    ASSUME RedisInv, MatchInv, NEW c \in Clients, Remove(c)
    PROVE  MatchInv'
<1>1. /\ pc[c] \in {"remove", "removeLast"} /\ state[c] = "inCheckout" /\ queueType # "none"
      /\ pc' = [pc EXCEPT ![c] = IF pc[c] = "remove" THEN "idle" ELSE "clear"]
      /\ UNCHANGED <<state, queueType, inventory, cookie>>
  BY DEF Remove, Goto, RedisInv, ProcessInv, PcMatchesState, NothingBeforeStart
<1>2. WaitingSet' = WaitingSet \ {c} /\ c \in WaitingSet
  BY <1>1 DEF WaitingSet, Waiting, RedisInv, TypeOK
<1> SUFFICES ASSUME inventory > 0
             PROVE  SetMatches' /\ CountsMatch'
  BY <1>1 DEF MatchInv
<1>3. SetMatches'
  BY <1>1, <1>2 DEF MatchInv, SetMatches, Remove
<1>4. ASSUME queueType \in LuaBinTypes
      PROVE  CountsMatch'
  <2>1. TypeOK /\ inventory \in Int /\ cookie[c] \in Nat /\ total = Cardinality(WaitingSet)
    BY <1>4, RedisAssumption DEF RedisInv, TypeOK, MatchInv, CountsMatch
  <2>2. counts' = HIncrBy(counts, cookie[c], -1) /\ total' = total - 1
    BY <1>4, <2>1 DEF Remove, RemoveScriptRuns, RemoveScript
  <2>3. total' = Cardinality(WaitingSet)'
    <3>1. Cardinality(WaitingSet)' = Cardinality(WaitingSet) - 1
      BY <1>2, WaitingFinite, FS_RemoveElement
    <3> QED
      BY <2>1, <2>2, <3>1
  <2>4. ASSUME NEW b \in Nat
        PROVE  CountOf(b)' = Cardinality(WaitingIn(b))'
    <3>1. CountOf(b) = Cardinality(WaitingIn(b)) /\ Cardinality(WaitingIn(b)) \in Nat
      BY <1>4, WaitingFinite DEF MatchInv, CountsMatch
    <3>2. CountOf(b)' = IF b = cookie[c] THEN CountOf(b) + (-1) ELSE CountOf(b)
      <4> DEFINE k == cookie[c]
                 by == -1
      <4>1. k \in Nat /\ by \in Int /\ counts' = HIncrBy(counts, k, by)
        BY <2>1, <2>2
      <4> HIDE DEF k, by
      <4>2. CountOf(b)' = IF b = k THEN CountOf(b) + by ELSE CountOf(b)
        BY <2>1, <4>1, CountOfChanges
      <4> QED
        BY <4>2 DEF k, by
    <3>3. CASE b = cookie[c]
      <4>1. WaitingIn(b)' = WaitingIn(b) \ {c} /\ c \in WaitingIn(b)
        BY <1>1, <1>2, <3>3 DEF WaitingIn
      <4>2. Cardinality(WaitingIn(b))' = Cardinality(WaitingIn(b)) - 1
        BY <4>1, WaitingFinite, FS_RemoveElement
      <4> QED
        BY <3>1, <3>2, <3>3, <4>2
    <3>4. CASE b # cookie[c]
      <4>1. WaitingIn(b)' = WaitingIn(b)
        BY <1>1, <1>2, <3>4 DEF WaitingIn
      <4> QED
        BY <3>1, <3>2, <3>4, <4>1
    <3> QED
      BY <3>3, <3>4
  <2> QED
    BY <2>3, <2>4 DEF CountsMatch
<1>5. queueType \notin LuaBinTypes => CountsMatch'
  BY <1>1 DEF CountsMatch
<1> QED
  BY <1>3, <1>4, <1>5

LEMMA StepKeepsMatch ==
    ASSUME RedisInv, MatchInv, [Next]_vars
    PROVE  MatchInv'
<1> USE DEF RedisInv, TypeOK
<1>1. CASE MakeUserQueue
  BY <1>1, OthersKeepMatch DEF MakeUserQueue, redisVars, binKeys, WaitingSet, Waiting
<1>2. ASSUME NEW c \in Clients, Request(c) PROVE MatchInv'
  <2>1. WaitingSet' = WaitingSet
    BY <1>2 DEF Request, Goto, WaitingSet, Waiting
  <2> QED
    BY <1>2, <2>1, OthersKeepMatch DEF Request, redisVars, binKeys
<1>3. ASSUME NEW c \in Clients, IsCandidateToProceed(c) PROVE MatchInv'
  <2>1. /\ pc[c] = "poll" /\ state[c] = "queued" /\ state' = state
        /\ pc' = [pc EXCEPT ![c] = IF IsCandidate(c) THEN "rate" ELSE "idle"]
    BY <1>3 DEF IsCandidateToProceed, Goto, ProcessInv, PcMatchesState
  <2>2. WaitingSet' = WaitingSet
    BY <2>1 DEF WaitingSet, Waiting
  <2>3. UNCHANGED <<zset, counts, total, cookie, queueType, inventory>>
    BY <1>3 DEF IsCandidateToProceed, PollScript, binKeys
  <2> QED
    BY <2>2, <2>3, OthersKeepMatch
<1>4. ASSUME NEW c \in Clients, NEW canPass \in BOOLEAN, ShouldProceed(c, canPass)
      PROVE  MatchInv'
  <2>1. /\ pc[c] = "rate" /\ state[c] = "queued" /\ state' = state
        /\ pc' = [pc EXCEPT ![c] = IF canPass THEN "sell" ELSE "idle"]
    BY <1>4 DEF ShouldProceed, Goto, ProcessInv, PcMatchesState
  <2>2. WaitingSet' = WaitingSet
    BY <2>1 DEF WaitingSet, Waiting
  <2> QED
    BY <1>4, <2>2, OthersKeepMatch DEF ShouldProceed, redisVars, binKeys
<1>5. ASSUME NEW c \in Clients, TakeInventory(c) PROVE MatchInv'
  <2>1. /\ pc[c] = "sell" /\ state[c] = "queued" /\ inventory \in Int
        /\ \/ state' = state /\ pc' = [pc EXCEPT ![c] = "idle"] /\ inventory' = inventory
           \/ /\ state' = [state EXCEPT ![c] = "inCheckout"] /\ inventory' = inventory - 1
              /\ \/ pc' = [pc EXCEPT ![c] = "removeLast"]
                 \/ pc' = [pc EXCEPT ![c] = "remove"]
    BY <1>5, RedisAssumption DEF TakeInventory, Goto, ProcessInv, PcMatchesState
  <2>2. WaitingSet' = WaitingSet
    BY <2>1 DEF WaitingSet, Waiting
  <2> QED
    BY <1>5, <2>1, <2>2, OthersKeepMatch DEF TakeInventory, redisVars, binKeys
<1>6. ASSUME NEW c \in Clients, Clear(c) PROVE MatchInv'
  BY <1>6 DEF Clear, ProcessInv, ClearedIsSoldOut, MatchInv
<1>7. ASSUME UNCHANGED <<queueType, zset, counts, total, cookie, state, pc, inventory>>
      PROVE  MatchInv'
  BY <1>7, OthersKeepMatch DEF WaitingSet, Waiting
<1> QED
  BY <1>1, <1>2, <1>3, <1>4, <1>5, <1>6, <1>7, AddKeepsMatch, RemoveKeepsMatch
     DEF Next, ServerStep, Panic, Expire, ReceiveTrackerFeedback, ExpandWindow, RollWindow, vars,
         redisVars, binKeys

-----------------------------------------------------------------------------
(* The theorems *)

\* No step panics but a poll of a cleared sorted set.
LEMMA StepKeepsFaults ==
    ASSUME RedisInv, [Next]_vars
    PROVE  FailsOnlyAfterClear'
<1> USE DEF FailsOnlyAfterClear
<1>1. CASE MakeUserQueue
  BY <1>1 DEF MakeUserQueue
<1>2. ASSUME NEW c \in Clients, Panic(c) PROVE FailsOnlyAfterClear'
  BY <1>2, OnlyRankIsMissing DEF Panic
<1>3. CASE UNCHANGED <<fault, queueType>> /\ (cleared => cleared')
  BY <1>3 DEF RedisInv
<1> QED
  BY <1>1, <1>2, <1>3
     DEF Next, ServerStep, Request, Add, IsCandidateToProceed, ShouldProceed, TakeInventory,
         Remove, Clear, Expire, ReceiveTrackerFeedback, ExpandWindow, RollWindow, vars

LEMMA InitInv == Init => RedisInv
<1> SUFFICES ASSUME Init PROVE RedisInv
  OBVIOUS
<1>1. TypeOK
  <2>1. /\ counts = [b \in {} |-> 0] /\ latest = 0 /\ working = 0 /\ total = 0
        /\ inventory = Stock /\ windowSize = Cap /\ growBy = 0 /\ feedback = NoFeedback
    BY DEF Init
  <2>2. CountsType /\ latest \in Nat /\ working \in Nat /\ total \in Int
    BY <2>1 DEF CountsType
  <2>3. inventory \in -1 .. Stock /\ windowSize \in Nat \ {0} /\ growBy \in Nat
        /\ feedback \in {NoFeedback} \cup 0 .. N
    BY <2>1, RedisAssumption
  <2>4. cookie \in [Clients -> Nat] /\ state \in [Clients -> States] /\ pc \in [Clients -> Pcs]
    BY DEF Init, States, Pcs
  <2>5. /\ config \in Configs /\ queueType \in QueueTypes \cup {"none"}
        /\ zset \subseteq Clients /\ timers \subseteq {"latest", "working"}
        /\ polled \subseteq Clients /\ cleared \in BOOLEAN /\ binExpired \in BOOLEAN
        /\ fault \in {"none", "startUp", "noRedis", "noRank", "scriptError"}
    BY DEF Init
  <2> QED
    BY <2>2, <2>3, <2>4, <2>5 DEF TypeOK, CountsType
<1>2. ProcessInv
  BY DEF Init, ProcessInv, PcMatchesState, NothingBeforeStart, RedisAnswers, ClearedIsSoldOut
<1>3. QueueInv
  BY DEF Init, QueueInv, WaitingHaveRank, WaitingHaveCookie, CookiesNameBins, TimerMeansBin,
         ExpiredMeansNoTimer, GateBehindLatest, Waiting
<1> QED
  BY <1>1, <1>2, <1>3 DEF Init, RedisInv, FailsOnlyAfterClear

\* The invariant is inductive.
THEOREM RedisInvariant == Spec => []RedisInv
<1>1. RedisInv /\ [Next]_vars => RedisInv'
  BY StepKeepsType, StepKeepsProcess, StepKeepsQueue, StepKeepsFaults DEF RedisInv
<1> QED
  BY <1>1, InitInv, PTL DEF Spec

\* The variables keep their types: indices of bins and window sizes stay
\* natural numbers whatever the feedback computes.
THEOREM RedisTypeCorrect == Spec => []TypeOK
BY RedisInvariant, PTL DEF RedisInv

\* Once the queue is made, only a poll of a cleared sorted set panics.
THEOREM RedisFailsOnlyAfterClear == Spec => []FailsOnlyAfterClear
BY RedisInvariant, PTL DEF RedisInv

\* The gate never runs ahead of the bin new clients get.
THEOREM RedisGateBehindLatest == Spec => []GateBehindLatest
BY RedisInvariant, PTL DEF RedisInv, QueueInv

\* A bin of fairness_interval_driven whose timer has run out takes no more
\* clients: the next one opens a new bin.
THEOREM OldBinsStayClosed == Spec => OldBinsAreClosed
<1>1. ASSUME RedisInv, [Next]_vars, NEW c \in Clients, queueType = "fairness_interval_driven",
             binExpired, cookie[c] = 0
      PROVE  cookie'[c] \in {0, latest + 1}
  <2>1. ASSUME NEW d \in Clients, Add(d) PROVE cookie'[c] \in {0, latest + 1}
    <3>1. BinForArrival = latest + 1
      BY <1>1 DEF RedisInv, QueueInv, ExpiredMeansNoTimer, BinForArrival, OpensBin
    <3>2. cookie' = cookie \/ cookie' = [cookie EXCEPT ![d] = BinForArrival]
      BY <1>1, <2>1 DEF Add, AddScript
    <3> QED
      BY <1>1, <3>1, <3>2 DEF RedisInv, TypeOK
  <2>2. CASE UNCHANGED cookie
    BY <1>1, <2>2
  <2> QED
    BY <1>1, <2>1, <2>2
       DEF Next, ServerStep, MakeUserQueue, Request, IsCandidateToProceed, ShouldProceed,
           TakeInventory, Remove, Clear, Panic, Expire, ReceiveTrackerFeedback, ExpandWindow,
           RollWindow, vars
<1>2. RedisInv /\ [Next]_vars =>
        [\A c \in Clients : queueType = "fairness_interval_driven" /\ binExpired /\ cookie[c] = 0
             => cookie'[c] \in {0, latest + 1}]_vars
  BY <1>1
<1> QED
  BY <1>2, RedisInvariant, PTL DEF Spec, OldBinsAreClosed

\* As long as there is stock, Redis agrees with what the driver has called: the
\* sorted set holds the clients added and not removed, the fields of the bins
\* count them bin by bin, and each has a cookie that names an existing bin.
THEOREM RedisQueueMatchesStates == Spec => []QueueMatchesStates
<1>1. Init => MatchInv
  <2> SUFFICES ASSUME Init
               PROVE  SetMatches /\ CountsMatch
    BY DEF MatchInv
  <2>1. WaitingSet = {} /\ \A b \in Nat : WaitingIn(b) = {} /\ CountOf(b) = 0
    BY DEF Init, WaitingSet, Waiting, WaitingIn, CountOf
  <2> QED
    BY <2>1, FS_EmptySet DEF Init, SetMatches, CountsMatch
<1>2. RedisInv /\ MatchInv /\ [Next]_vars => MatchInv'
  BY StepKeepsMatch
<1>3. RedisInv /\ MatchInv => QueueMatchesStates
  <2> SUFFICES ASSUME RedisInv, MatchInv, inventory > 0
               PROVE  QueueMatchesStates
    BY DEF QueueMatchesStates
  <2>1. queueType = "sorted_set" => zset = {c \in Clients : Waiting(c)}
    BY DEF MatchInv, SetMatches, WaitingSet
  <2>2. ASSUME queueType \in LuaBinTypes
        PROVE  /\ \A b \in DOMAIN counts :
                     counts[b] = Cardinality({c \in Clients : Waiting(c) /\ cookie[c] = b})
               /\ total = Cardinality({c \in Clients : Waiting(c)})
    <3>1. total = Cardinality(WaitingSet) /\ DOMAIN counts \subseteq Nat
          /\ \A b \in Nat : CountOf(b) = Cardinality(WaitingIn(b))
      BY <2>2 DEF MatchInv, CountsMatch, RedisInv, TypeOK
    <3>2. \A b : WaitingIn(b) = {c \in Clients : Waiting(c) /\ cookie[c] = b}
      BY DEF WaitingIn, WaitingSet
    <3> QED
      BY <3>1, <3>2 DEF CountOf, WaitingSet
  <2>3. ASSUME queueType \in LuaBinTypes, NEW c \in Clients, Waiting(c)
        PROVE  cookie[c] \in DOMAIN counts
    <3>1. ~cleared
      BY DEF RedisInv, ProcessInv, ClearedIsSoldOut, TypeOK
    <3>2. cookie[c] \in Nat /\ latest \in Nat /\ cookie[c] >= 1 /\ cookie[c] <= latest
      BY <2>3, <3>1
         DEF RedisInv, QueueInv, WaitingHaveCookie, CookiesNameBins, Waiting, TypeOK
    <3>3. DOMAIN counts = 1 .. latest
      BY <3>1 DEF RedisInv, QueueInv, GateBehindLatest
    <3> QED
      BY <3>2, <3>3
  <2> QED
    BY <2>1, <2>2, <2>3 DEF QueueMatchesStates
<1> QED
  BY <1>1, <1>2, <1>3, RedisInvariant, PTL DEF Spec

-----------------------------------------------------------------------------
(* The abstract sale *)

LEMMA StepSells ==
    ASSUME RedisInv, [Next]_vars
    PROVE  [Sale!Next]_(Sale!saleVars)
<1> DEFINE hit == [c \in Clients |-> state[c] = "inCheckout"]
<1> USE DEF RedisInv, TypeOK
<1>1. ASSUME UNCHANGED <<state, inventory, cleared>>
      PROVE  UNCHANGED Sale!saleVars
  BY <1>1 DEF Sale!saleVars
<1>2. ASSUME NEW c \in Clients, Request(c) PROVE [Sale!Next]_(Sale!saleVars)
  <2>1. CASE state[c] = "initial"
    <3>1. state' = [state EXCEPT ![c] = "queued"] /\ UNCHANGED <<inventory, cleared>>
      BY <1>2 DEF Request
    <3>2. hit' = hit
      BY <2>1, <3>1
    <3>3. Sale!Join(c)
      BY <2>1, <3>1, <3>2 DEF Sale!Join
    <3> QED
      BY <3>3 DEF Sale!Next
  <2>2. CASE state[c] = "queued"
    BY <1>1, <1>2, <2>2 DEF Request
  <2> QED
    BY <1>2, <2>1, <2>2 DEF Request
<1>3. ASSUME NEW c \in Clients, TakeInventory(c) PROVE [Sale!Next]_(Sale!saleVars)
  <2>1. state[c] = "queued"
    BY <1>3 DEF TakeInventory, ProcessInv, PcMatchesState
  <2>2. CASE inventory < 0
    BY <1>1, <1>3, <2>2 DEF TakeInventory
  <2>3. CASE inventory >= 0
    <3>1. /\ state' = [state EXCEPT ![c] = "inCheckout"] /\ inventory' = inventory - 1
          /\ cleared' = cleared
      BY <1>3, <2>3 DEF TakeInventory
    <3>2. ~hit[c] /\ hit' = [hit EXCEPT ![c] = TRUE]
      BY <2>1, <3>1
    <3>3. Sale!Sell(c)
      BY <2>1, <2>3, <3>1, <3>2 DEF Sale!Sell
    <3> QED
      BY <3>3 DEF Sale!Next
  <2> QED
    BY <2>2, <2>3
<1>4. ASSUME NEW c \in Clients, Clear(c) PROVE [Sale!Next]_(Sale!saleVars)
  <2>1. UNCHANGED <<state, inventory>> /\ cleared' = TRUE
    BY <1>4 DEF Clear
  <2>2. CASE cleared
    BY <1>1, <2>1, <2>2
  <2>3. CASE ~cleared
    BY <2>1, <2>3 DEF Sale!Close, Sale!Next
  <2> QED
    BY <2>2, <2>3
<1>5. \/ UNCHANGED <<state, inventory, cleared>>
      \/ \E c \in Clients : Request(c) \/ TakeInventory(c) \/ Clear(c)
  BY DEF Next, ServerStep, MakeUserQueue, Add, IsCandidateToProceed, ShouldProceed, Remove, Panic,
     Expire, ReceiveTrackerFeedback, ExpandWindow, RollWindow, vars
<1> QED
  BY <1>1, <1>2, <1>3, <1>4, <1>5

\* With any of the queues in Redis, or none, the throttle implements the abstract
\* sale: no answer of the queue sells to a client twice or before it has joined.
THEOREM RedisImplementsSale == Spec => ImplementsSale
<1>1. Init => Sale!Init
  BY DEF Init, Sale!Init
<1> QED
  BY <1>1, StepSells, RedisInvariant, PTL DEF Spec, ImplementsSale, Sale!Spec

Sold == {c \in Clients : state[c] = "inCheckout"}

LEMMA SoldType == IsFiniteSet(Sold) /\ Cardinality(Sold) \in Nat
<1>1. IsFiniteSet(Clients)
  BY FS_Interval, RedisAssumption DEF Clients
<1> QED
  BY <1>1, FS_Subset, FS_CardinalityType DEF Sold

\* The stock counter and the clients in checkout agree whatever the queue is, and
\* two workers that race for the last unit sell at most one too many.
THEOREM RedisOversellBounded ==
    Spec => [](inventory = Stock - Cardinality(Sold) /\ Cardinality(Sold) <= Stock + 1)
<1> DEFINE Accounting == inventory = Stock - Cardinality(Sold)
<1>1. Init => Accounting
  <2> SUFFICES ASSUME Init PROVE Accounting
    OBVIOUS
  <2>1. Sold = {}
    BY DEF Init, Sold
  <2> QED
    BY <2>1, FS_EmptySet, RedisAssumption DEF Init
<1>2. RedisInv /\ Accounting /\ [Next]_vars => Accounting'
  <2> SUFFICES ASSUME RedisInv, Accounting, [Next]_vars
               PROVE  Accounting'
    OBVIOUS
  <2>1. ASSUME NEW c \in Clients, TakeInventory(c) PROVE Accounting'
    <3>1. c \notin Sold
      BY <2>1 DEF TakeInventory, RedisInv, ProcessInv, PcMatchesState, Sold
    <3>2. CASE UNCHANGED <<state, inventory>>
      BY <3>2 DEF Sold
    <3>3. CASE state' = [state EXCEPT ![c] = "inCheckout"] /\ inventory' = inventory - 1
      <4>1. Sold' = Sold \cup {c}
        BY <3>3 DEF Sold, RedisInv, TypeOK
      <4>2. Cardinality(Sold') = Cardinality(Sold) + 1
        BY <3>1, <4>1, SoldType, FS_AddElement
      <4> QED
        BY <3>3, <4>2, SoldType, RedisAssumption
    <3> QED
      BY <2>1, <3>2, <3>3 DEF TakeInventory
  <2>2. ASSUME NEW c \in Clients, Request(c) PROVE Accounting'
    <3>1. Sold' = Sold /\ inventory' = inventory
      BY <2>2 DEF Request, Sold, RedisInv, TypeOK
    <3> QED
      BY <3>1
  <2>3. CASE UNCHANGED <<state, inventory>>
    BY <2>3 DEF Sold
  <2>4. \/ UNCHANGED <<state, inventory>>
        \/ \E c \in Clients : Request(c) \/ TakeInventory(c)
    BY DEF Next, ServerStep, MakeUserQueue, Add, IsCandidateToProceed, ShouldProceed, Remove, Clear,
       Panic, Expire, ReceiveTrackerFeedback, ExpandWindow, RollWindow, vars
  <2> QED
    BY <2>1, <2>2, <2>3, <2>4
<1>3. RedisInv /\ Accounting => Cardinality(Sold) <= Stock + 1
  BY SoldType, RedisAssumption DEF RedisInv, TypeOK
<1> QED
  BY <1>1, <1>2, <1>3, RedisInvariant, PTL DEF Spec
=============================================================================
