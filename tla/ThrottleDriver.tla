---------------------------- MODULE ThrottleDriver ----------------------------
(***************************************************************************)
(* The checkout throttle as a whole: the server workers of                 *)
(* internal/simulator/simulator.go, which run TryThrottleStateTransition   *)
(* of internal/throttle/throttle_driver.go, composed with the queue        *)
(* (CappedBinsQueue), the rate tracker (FixedWindowTracker), the goroutine *)
(* that hands the tracker's feedback to the queue, and the shared stock    *)
(* counter.                                                                *)
(*                                                                         *)
(* The clients are the environment: they send requests under their own     *)
(* lock, and may leave.  ClientSession models them in detail.  A response  *)
(* is not kept: the response channels are taken to have room.              *)
(***************************************************************************)
EXTENDS Integers, Sequences, FiniteSets

CONSTANTS
    Clients, NoClient,
    Workers, NoWorker,           \* server worker goroutines
    Stock,                       \* inventoryStockTotal
    MaxCheckoutsPerWindow,       \* maxCheckoutsAllowedPerWindow
    MaxSkpdLowPollingUtilCount,  \* maxSkpdLowCheckoutUtilCount
    LowUtilNum, LowUtilDen,      \* lowCheckoutUtilMaxThresholdPct
    ReqCap,                      \* capacity of RequestTargetChannel
    MaxInt64,
    MaxWindow                    \* bound: index of the last tracker window

ASSUME DriverAssumption ==
    /\ IsFiniteSet(Clients) /\ NoClient \notin Clients
    /\ NoWorker \notin Workers
    /\ Stock \in Nat
    /\ MaxCheckoutsPerWindow \in Nat \ {0}
    /\ MaxSkpdLowPollingUtilCount \in Nat
    /\ LowUtilNum \in Nat /\ LowUtilDen \in Nat \ {0}
    /\ ReqCap \in Nat \ {0}
    /\ MaxInt64 \in Nat \ {0, 1}
    /\ MaxWindow \in Nat

VARIABLES
    \* FixedWindowTracker and the goroutine MonitorUtilAndNotifyQueue
    curWindowIndex, windowedPollingUtil, windowedCheckoutUtil,
    lowPollingUtilConsecCount, monitor, feedback, notifier, received, ctxDone,
    \* CappedBinsQueue
    maps, bins, curWindowDequeues, queueBin, workingBin, totalQueuedClients,
    mu, cookie, qpc, qarg, localBins, localBin, localTotal, fpc, fbLocal,
    clears, phase, fault,
    \* clients
    state,              \* throttle state
    hitCheckoutStep,    \* HitCheckoutStep
    lock,               \* lock[c]: the server worker that holds the client's mutex
    handshake,          \* clients that have not sent their checkout request yet
    \* server
    requests,           \* RequestTargetChannel: ids of the requesting clients
    inventory,          \* GlobalInventoryCounter
    pc,                 \* pc[w]: where worker w is
    client,             \* client[w]: the client that w serves
    remInventory        \* remInventory[w]: local of TryThrottleStateTransition

MaxClears == 2

\* binSize of MakeCappedBinsQueue: ceil(1.5 * maxCheckoutsAllowedPerWindow).
BinSize == (3 * MaxCheckoutsPerWindow + 1) \div 2

T == INSTANCE FixedWindowTracker
Q == INSTANCE CappedBinsQueue WITH
        Threads <- Workers, NoThread <- NoWorker,
        CheckoutsPerWindow <- MaxCheckoutsPerWindow,
        WorkingBinBound <- MaxInt64 + 1

trackerVars == <<curWindowIndex, windowedPollingUtil, windowedCheckoutUtil,
                 lowPollingUtilConsecCount, monitor, feedback, notifier, received, ctxDone>>
queueVars == <<maps, bins, curWindowDequeues, queueBin, workingBin, totalQueuedClients,
               mu, cookie, qpc, qarg, localBins, localBin, localTotal, fpc, fbLocal,
               clears, phase, fault>>
clientVars == <<state, hitCheckoutStep, lock, handshake>>
workerVars == <<pc, client, remInventory>>
serverVars == <<requests, inventory, workerVars>>
vars == <<trackerVars, queueVars, clientVars, serverVars>>

States == {"initial", "queued", "inCheckout", "exited"}
Pcs == {"idle", "lock", "transition", "adding", "rate", "inventory", "removing",
        "clearing", "respond"}

TypeOK ==
    /\ state \in [Clients -> States]
    /\ hitCheckoutStep \in [Clients -> BOOLEAN]
    /\ lock \in [Clients -> Workers \cup {NoWorker}]
    /\ handshake \subseteq Clients
    /\ requests \in Seq(Clients)
    /\ inventory \in -1 .. Stock
    /\ pc \in [Workers -> Pcs]
    /\ client \in [Workers -> Clients \cup {NoClient}]
    /\ remInventory \in [Workers -> Int]

Init ==
    /\ T!Init
    /\ Q!Init
    /\ state = [c \in Clients |-> "initial"]
    /\ hitCheckoutStep = [c \in Clients |-> FALSE]
    /\ lock = [c \in Clients |-> NoWorker]
    /\ handshake = Clients
    /\ requests = <<>>
    /\ inventory = Stock
    /\ pc = [w \in Workers |-> "idle"]
    /\ client = [w \in Workers |-> NoClient]
    /\ remInventory = [w \in Workers |-> 0]

-----------------------------------------------------------------------------
(* runServerWorker *)

Goto(w, p) == pc' = [pc EXCEPT ![w] = p]

ReceiveRequest(w) ==
    /\ pc[w] = "idle" /\ requests # <<>>
    /\ requests' = Tail(requests)
    /\ client' = [client EXCEPT ![w] = Head(requests)]
    /\ Goto(w, "lock")
    /\ UNCHANGED <<trackerVars, queueVars, clientVars, inventory, remInventory>>

CanLock_Ignored(w) == TRUE
CanLock(w) == lock[client[w]] = NoWorker

LockClient(w) ==
    /\ pc[w] = "lock" /\ CanLock(w)
    /\ lock' = [lock EXCEPT ![client[w]] = w]
    /\ Goto(w, "transition")
    /\ UNCHANGED <<trackerVars, queueVars, state, hitCheckoutStep, handshake,
                   requests, inventory, client, remInventory>>

\* Send the response and unlock the client; the locals of the worker are dead.
Respond(w) ==
    /\ pc[w] = "respond"
    /\ lock' = [lock EXCEPT ![client[w]] = NoWorker]
    /\ client' = [client EXCEPT ![w] = NoClient]
    /\ remInventory' = [remInventory EXCEPT ![w] = 0]
    /\ Goto(w, "idle")
    /\ UNCHANGED <<trackerVars, queueVars, state, hitCheckoutStep, handshake,
                   requests, inventory>>

-----------------------------------------------------------------------------
(* TryThrottleStateTransition *)

TellQueue_Forgotten(w) == UNCHANGED queueVars
TellQueue(w) == Q!CallAdd(w, client[w])

\* A client seen for the first time is marked queued and added to the queue.
Enqueue(w) ==
    /\ pc[w] = "transition" /\ state[client[w]] = "initial"
    /\ state' = [state EXCEPT ![client[w]] = "queued"]
    /\ TellQueue(w)
    /\ Goto(w, "adding")
    /\ UNCHANGED <<trackerVars, hitCheckoutStep, lock, handshake, requests, inventory,
                   client, remInventory>>

\* The case of a queued client: reached by a poll, or directly after Add.
AtQueuedCase(w) ==
    \/ pc[w] = "transition" /\ state[client[w]] = "queued"
    \/ pc[w] = "adding" /\ qpc[w] = "idle"

IsCandidate_Unasked(w) == TRUE
IsCandidate(w) == Q!IsCandidateToProceed(client[w])

CheckCandidate(w) ==
    /\ AtQueuedCase(w)
    /\ Goto(w, IF IsCandidate(w) THEN "rate" ELSE "respond")
    /\ UNCHANGED <<trackerVars, queueVars, clientVars, requests, inventory, client, remInventory>>

AfterRate_Ignored(canPass) == "inventory"
AfterRate(canPass) == IF canPass THEN "inventory" ELSE "respond"

CheckRate(w) ==
    /\ pc[w] = "rate"
    /\ \E canPass \in BOOLEAN :
          /\ T!ShouldProceed(client[w], canPass)
          /\ Goto(w, AfterRate(canPass))
    /\ UNCHANGED <<queueVars, clientVars, requests, inventory, client, remInventory>>

\* AtomicAdd(-1) of the stock counter.
Spent_Twice == inventory - 2
Spent == inventory - 1

\* The critical section of GlobalInventoryCounter, then the call of Remove.
TakeInventory(w) ==
    /\ pc[w] = "inventory" /\ inventory >= 0
    /\ state' = [state EXCEPT ![client[w]] = "inCheckout"]
    /\ hitCheckoutStep' = [hitCheckoutStep EXCEPT ![client[w]] = TRUE]
    /\ inventory' = Spent
    /\ remInventory' = [remInventory EXCEPT ![w] = Spent]
    /\ Q!CallRemove(w, client[w])
    /\ Goto(w, "removing")
    /\ UNCHANGED <<trackerVars, lock, handshake, requests, client>>

SoldOut(w) ==
    /\ pc[w] = "inventory" /\ inventory < 0
    /\ Goto(w, "respond")
    /\ UNCHANGED <<trackerVars, queueVars, clientVars, requests, inventory, client, remInventory>>

IsLastUnit_OffByOne(w) == remInventory[w] <= 1
IsLastUnit(w) == remInventory[w] <= 0

\* Remove has returned; the sale of the last unit clears the queue.
AfterRemove(w) ==
    /\ pc[w] = "removing" /\ qpc[w] = "idle"
    /\ IF IsLastUnit(w) THEN Q!CallClear(w) /\ Goto(w, "clearing")
                               ELSE UNCHANGED queueVars /\ Goto(w, "respond")
    /\ UNCHANGED <<trackerVars, clientVars, requests, inventory, client, remInventory>>

CancelContext_Forgotten == UNCHANGED trackerVars
CancelContext == T!Cancel

\* Clear has returned; cancel the context.
AfterClear(w) ==
    /\ pc[w] = "clearing" /\ qpc[w] = "idle"
    /\ CancelContext
    /\ Goto(w, "respond")
    /\ UNCHANGED <<queueVars, clientVars, requests, inventory, client, remInventory>>

\* Nothing to do for a client in checkout or gone.
Finished(w) ==
    /\ pc[w] = "transition" /\ state[client[w]] \in {"inCheckout", "exited"}
    /\ Goto(w, "respond")
    /\ UNCHANGED <<trackerVars, queueVars, clientVars, requests, inventory, client, remInventory>>

\* A step of Add, Remove or Clear.
QueueStep(w) == Q!ThreadStep(w) /\ UNCHANGED <<trackerVars, clientVars, serverVars>>

WorkerStep(w) ==
    \/ LockClient(w) \/ Respond(w) \/ Enqueue(w) \/ CheckCandidate(w) \/ CheckRate(w)
    \/ TakeInventory(w) \/ SoldOut(w) \/ AfterRemove(w) \/ AfterClear(w) \/ Finished(w)
    \/ QueueStep(w)

-----------------------------------------------------------------------------
(* MonitorAndEmitFeedback and MonitorUtilAndNotifyQueue *)

MonitorStep ==
    /\ T!RollWindow \/ T!EmitFeedback \/ T!StopMonitor
    /\ UNCHANGED <<queueVars, clientVars, serverVars>>

\* The notifier passes the message on ...
NotifyQueue ==
    /\ notifier = "busy" /\ received # T!NoFeedback
    /\ \/ Q!ReceiveTrackerFeedback(received)
       \/ Q!AdjustWorkingBin
    /\ UNCHANGED <<trackerVars, clientVars, serverVars>>

\* ... and goes back to its select when the call has returned.
NotifierLoop ==
    /\ T!NotifierLoop
    /\ IF received = T!NoFeedback THEN UNCHANGED queueVars ELSE Q!FeedbackReturn
    /\ UNCHANGED <<clientVars, serverVars>>

StopNotifier == T!StopNotifier /\ UNCHANGED <<queueVars, clientVars, serverVars>>

-----------------------------------------------------------------------------
(* The environment *)

\* A client sends its checkout request, or polls.
SendRequest(c) ==
    /\ lock[c] = NoWorker
    /\ c \in handshake \/ state[c] = "queued"
    /\ Len(requests) < ReqCap
    /\ requests' = Append(requests, c)
    /\ handshake' = handshake \ {c}
    /\ UNCHANGED <<trackerVars, queueVars, state, hitCheckoutStep, lock, inventory, workerVars>>

\* A client leaves: its request does not fit into the channel, it has been
\* told that it is in checkout, or it is a disappearing client.
Exit(c) ==
    /\ lock[c] = NoWorker
    /\ \/ (c \in handshake \/ state[c] = "queued") /\ Len(requests) = ReqCap
       \/ state[c] \in {"queued", "inCheckout"}
    /\ state' = [state EXCEPT ![c] = "exited"]
    /\ handshake' = handshake \ {c}
    /\ UNCHANGED <<trackerVars, queueVars, hitCheckoutStep, lock, serverVars>>

\* main cancels the context when the process is interrupted.
Interrupt ==
    /\ ~ctxDone /\ T!Cancel
    /\ UNCHANGED <<queueVars, clientVars, serverVars>>

-----------------------------------------------------------------------------
Next ==
    /\ fault = "none"
    /\ \/ \E w \in Workers : ReceiveRequest(w) \/ WorkerStep(w)
       \/ MonitorStep \/ NotifyQueue \/ NotifierLoop \/ StopNotifier
       \/ \E c \in Clients : SendRequest(c) \/ Exit(c)
       \/ Interrupt

Spec == Init /\ [][Next]_vars

\* A goroutine that can run is scheduled.  A mutex is not withheld from a
\* waiter for ever (starvation mode of sync.Mutex).
FairSpec ==
    /\ Spec
    /\ \A w \in Workers :
          /\ WF_vars(fault = "none" /\ WorkerStep(w))
          /\ SF_vars(fault = "none" /\ LockClient(w))
          /\ SF_vars(fault = "none" /\ QueueStep(w))

-----------------------------------------------------------------------------
(***************************************************************************)
(* Properties                                                              *)
(***************************************************************************)

Sold == {c \in Clients : hitCheckoutStep[c]}

Sale == INSTANCE CheckoutSale

\* Queue, tracker, workers and locks together implement the abstract sale:
\* every step joins, sells to or removes one client, closes the sale, or is
\* invisible to it.
ImplementsSale == Sale!Spec

\* Workers, locks and notifier use the queue as its specification expects of
\* its callers: however they interleave, a client is added once, removed once
\* and only after its Add has returned, Clear is called twice at most, and one
\* feedback is handled at a time.  So what is proved of the queue holds here.
ImplementsQueue == Q!Spec

\* The stock count agrees with the clients that reached checkout, and two
\* workers that race for the last unit sell at most one unit too many.
OversellBounded ==
    /\ inventory = Stock - Cardinality(Sold)
    /\ Cardinality(Sold) <= Stock + 1

\* End to end, the clients that reached checkout were all let through by the
\* rate tracker, and after k windows there are at most k times
\* maxCheckoutsPerWindow + 1 of them, however long a worker waits between
\* its rate check and the sale.
ThroughputBounded ==
    /\ Sold \subseteq UNION {windowedCheckoutUtil[w] : w \in 0 .. curWindowIndex}
    /\ Cardinality(Sold) <= (curWindowIndex + 1) * (MaxCheckoutsPerWindow + 1)

\* Until the queue is cleared, a client that reached checkout is in a bin the
\* gate has opened, although the gate is read and moved without a lock.
SoldOnlyFromOpenBins ==
    clears = 0 => \A c \in Sold : /\ cookie[c] # 0
                                  /\ Q!IsCandidateToProceed(c)

\* The queue and the throttle states agree whenever no worker is busy with
\* the client: a queued client waits in the queue, one that reached checkout
\* has been removed from it, and neither operation ran twice.
QueueMatchesState ==
    /\ \A c \in Clients : lock[c] = NoWorker =>
          /\ state[c] = "queued" => phase[c] = "waiting"
          /\ hitCheckoutStep[c] => phase[c] = "left"
    /\ clears = 0 =>
          totalQueuedClients = Cardinality({c \in Clients : phase[c] \in {"waiting", "leaving"}})

\* The queue keeps its clients as long as a unit is left: whatever the order in
\* which workers sell, remove and clear, although a worker clears on the
\* strength of a count that it took some steps before.
QueueKeptWhileStockLeft == inventory > 0 => clears = 0

\* When the stock is gone the context gets cancelled, unless the process dies.
SoldOutCancels == inventory <= 0 ~> (ctxDone \/ fault # "none")

\* A request that a worker has taken is answered, unless the process dies.
RequestsAnswered ==
    \A w \in Workers : pc[w] # "idle" ~> (pc[w] = "idle" \/ fault # "none")

\* config.go:67: "Max available inventory (simulation terminates when
\* depleted)".
DocumentedInventory == Cardinality(Sold) <= Stock
=============================================================================
