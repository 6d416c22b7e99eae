------------------------ MODULE ThrottleDriver_proofs ------------------------
(***************************************************************************)
(* Proofs about ThrottleDriver, for any number of clients, workers, stock, *)
(* windows and any capacity of the request channel: the locking discipline *)
(* of the server workers, that the throttle implements CheckoutSale, that  *)
(* it uses the queue as CappedBinsQueue expects of its callers, and what   *)
(* follows for the throttle from the theorems about the queue.             *)
(***************************************************************************)
EXTENDS ThrottleDriver, FiniteSetTheorems, TLAPS

(***************************************************************************)
(* The inductive invariant.  LockHeld alone is not inductive without       *)
(* ServesClient, and the refinement of a sale needs GatedIsQueued and      *)
(* FreshUntilCheckout: a worker that is past the candidate check serves a  *)
(* client that is still queued, because it holds the client's lock all     *)
(* the way and every other step on that client needs the lock.             *)
(***************************************************************************)
ServesClient == \A w \in Workers : pc[w] # "idle" => client[w] \in Clients
LockHeld == \A w \in Workers : pc[w] \notin {"idle", "lock"} => lock[client[w]] = w
GatedIsQueued == \A w \in Workers :
    pc[w] \in {"adding", "rate", "inventory"} => state[client[w]] = "queued"
FreshUntilCheckout == \A c \in Clients :
    state[c] \in {"initial", "queued"} => ~hitCheckoutStep[c]

DriverInv ==
    /\ TypeOK
    /\ ctxDone \in BOOLEAN
    /\ ServesClient
    /\ LockHeld
    /\ GatedIsQueued
    /\ FreshUntilCheckout

\* A step that leaves clients and workers alone and cancels the context at
\* most keeps the invariant.
LEMMA OtherStepsKeepInv ==
    ASSUME DriverInv, UNCHANGED <<clientVars, serverVars>>,
           ctxDone' \in BOOLEAN
    PROVE  DriverInv'
BY DEF DriverInv, TypeOK, ServesClient, LockHeld, GatedIsQueued, FreshUntilCheckout,
       clientVars, serverVars, workerVars

\* A step that only moves worker w on, with its client still locked.
LEMMA MoveKeepsInv ==
    ASSUME DriverInv, NEW w \in Workers, NEW p \in Pcs,
           pc[w] \notin {"idle", "lock"},
           Goto(w, p),
           p \in {"adding", "rate", "inventory"} => state[client[w]] = "queued",
           UNCHANGED <<clientVars, requests, inventory, client, remInventory>>,
           ctxDone' \in BOOLEAN
    PROVE  DriverInv'
<1> USE DEF DriverInv, Goto, clientVars
<1>1. TypeOK'
  BY DEF TypeOK
<1>2. ServesClient' /\ LockHeld'
  BY DEF TypeOK, ServesClient, LockHeld
<1>3. GatedIsQueued'
  BY DEF TypeOK, GatedIsQueued
<1>4. FreshUntilCheckout'
  BY DEF FreshUntilCheckout
<1> QED
  BY <1>1, <1>2, <1>3, <1>4

\* The tracker's and the notifier's steps leave the context alone.
LEMMA MonitorKeepsContext ==
    ASSUME MonitorStep \/ NotifyQueue \/ NotifierLoop \/ StopNotifier
    PROVE  UNCHANGED <<ctxDone, clientVars, serverVars>>
BY DEF MonitorStep, NotifyQueue, NotifierLoop, StopNotifier, trackerVars, T!RollWindow,
       T!EmitFeedback, T!StopMonitor, T!NotifierLoop, T!StopNotifier

\* What the steps of a worker leave alone.
LEMMA WorkerFrames ==
    ASSUME NEW w \in Workers
    PROVE  /\ ReceiveRequest(w) \/ LockClient(w) \/ Respond(w) \/ Enqueue(w)
                \/ CheckCandidate(w) \/ CheckRate(w) \/ TakeInventory(w) \/ SoldOut(w)
                \/ AfterRemove(w) \/ Finished(w) \/ QueueStep(w)
                => UNCHANGED ctxDone
           /\ CheckCandidate(w) \/ CheckRate(w) \/ SoldOut(w) \/ AfterRemove(w)
                \/ AfterClear(w) \/ Finished(w)
                => UNCHANGED <<clientVars, requests, inventory, client, remInventory>>
BY DEF ReceiveRequest, LockClient, Respond, Enqueue, CheckCandidate, CheckRate,
       TakeInventory, SoldOut, AfterRemove, AfterClear, Finished, QueueStep, trackerVars,
       T!ShouldProceed

LEMMA StepKeepsInv ==
    ASSUME DriverInv, [Next]_vars
    PROVE  DriverInv'
<1> USE DriverAssumption
<1>1. ASSUME NEW w \in Workers, ReceiveRequest(w) PROVE DriverInv'
  <2>1. Head(requests) \in Clients /\ Tail(requests) \in Seq(Clients)
    BY <1>1 DEF ReceiveRequest, DriverInv, TypeOK
  <2> USE <1>1, <2>1, WorkerFrames DEF ReceiveRequest, DriverInv, Goto, clientVars, TypeOK, Pcs
  <2>2. TypeOK'
    OBVIOUS
  <2>3. ServesClient'
    BY DEF ServesClient
  <2>4. LockHeld'
    BY DEF LockHeld
  <2>5. GatedIsQueued'
    BY DEF GatedIsQueued
  <2>6. FreshUntilCheckout'
    BY DEF FreshUntilCheckout
  <2> QED
    BY <2>2, <2>3, <2>4, <2>5, <2>6
<1>2. ASSUME NEW w \in Workers, LockClient(w) PROVE DriverInv'
  <2> USE <1>2, WorkerFrames DEF LockClient, CanLock, DriverInv, Goto, TypeOK, Pcs
  <2>1. client[w] \in Clients
    BY DEF ServesClient
  <2>2. TypeOK'
    BY <2>1
  <2>3. ServesClient'
    BY DEF ServesClient
  <2>4. LockHeld'
    BY <2>1 DEF LockHeld, ServesClient
  <2>5. GatedIsQueued'
    BY DEF GatedIsQueued
  <2>6. FreshUntilCheckout'
    BY DEF FreshUntilCheckout
  <2> QED
    BY <2>2, <2>3, <2>4, <2>5, <2>6
<1>3. ASSUME NEW w \in Workers, Respond(w) PROVE DriverInv'
  <2> USE <1>3, WorkerFrames DEF Respond, DriverInv, Goto, TypeOK, Pcs
  <2>1. client[w] \in Clients /\ lock[client[w]] = w
    BY DEF ServesClient, LockHeld
  <2>2. TypeOK'
    BY <2>1
  <2>3. ServesClient'
    BY DEF ServesClient
  <2>4. LockHeld'
    BY <2>1 DEF LockHeld, ServesClient
  <2>5. GatedIsQueued'
    BY DEF GatedIsQueued
  <2>6. FreshUntilCheckout'
    BY DEF FreshUntilCheckout
  <2> QED
    BY <2>2, <2>3, <2>4, <2>5, <2>6
<1>4. ASSUME NEW w \in Workers, Enqueue(w) PROVE DriverInv'
  <2> USE <1>4, WorkerFrames DEF Enqueue, DriverInv, Goto, TypeOK, Pcs, States
  <2>1. client[w] \in Clients /\ lock[client[w]] = w
    BY DEF ServesClient, LockHeld
  <2>2. TypeOK'
    BY <2>1
  <2>3. ServesClient' /\ LockHeld'
    BY DEF ServesClient, LockHeld
  <2>4. GatedIsQueued'
    BY <2>1 DEF GatedIsQueued, LockHeld, ServesClient
  <2>5. FreshUntilCheckout'
    BY <2>1 DEF FreshUntilCheckout
  <2> QED
    BY <2>2, <2>3, <2>4, <2>5
<1>5. ASSUME NEW w \in Workers, CheckCandidate(w) PROVE DriverInv'
  <2>1. PICK p \in {"rate", "respond"} : Goto(w, p)
    BY <1>5 DEF CheckCandidate
  <2>2. pc[w] \in {"transition", "adding"} /\ state[client[w]] = "queued"
    BY <1>5 DEF CheckCandidate, AtQueuedCase, DriverInv, GatedIsQueued
  <2> QED
    BY <1>5, <2>1, <2>2, WorkerFrames, MoveKeepsInv DEF Pcs, DriverInv
<1>6. ASSUME NEW w \in Workers, CheckRate(w) PROVE DriverInv'
  <2>1. PICK p \in {"inventory", "respond"} : Goto(w, p)
    BY <1>6 DEF CheckRate, AfterRate
  <2>2. pc[w] = "rate" /\ state[client[w]] = "queued"
    BY <1>6 DEF CheckRate, DriverInv, GatedIsQueued
  <2> QED
    BY <1>6, <2>1, <2>2, WorkerFrames, MoveKeepsInv DEF Pcs, DriverInv
<1>7. ASSUME NEW w \in Workers, TakeInventory(w) PROVE DriverInv'
  <2> USE <1>7, WorkerFrames DEF TakeInventory, Spent, DriverInv, Goto, TypeOK, Pcs, States
  <2>1. client[w] \in Clients /\ lock[client[w]] = w
    BY DEF ServesClient, LockHeld
  <2>2. inventory - 1 \in -1 .. Stock
    OBVIOUS
  <2>3. TypeOK'
    BY <2>1, <2>2
  <2>4. ServesClient' /\ LockHeld'
    BY DEF ServesClient, LockHeld
  <2>5. GatedIsQueued'
    <3> SUFFICES ASSUME NEW u \in Workers, pc'[u] \in {"adding", "rate", "inventory"}
                 PROVE  state'[client'[u]] = "queued"
      BY DEF GatedIsQueued
    <3>1. u # w /\ pc[u] \in {"adding", "rate", "inventory"} /\ client' = client
      OBVIOUS
    <3>2. lock[client[u]] = u /\ client[u] \in Clients /\ state[client[u]] = "queued"
      BY <3>1 DEF GatedIsQueued, LockHeld, ServesClient
    <3> QED
      BY <2>1, <3>1, <3>2
  <2>6. FreshUntilCheckout'
    BY <2>1 DEF FreshUntilCheckout
  <2> QED
    BY <2>3, <2>4, <2>5, <2>6
<1>8. ASSUME NEW w \in Workers, SoldOut(w) \/ Finished(w) \/ AfterClear(w) PROVE DriverInv'
  <2>1. Goto(w, "respond") /\ pc[w] \notin {"idle", "lock"}
    BY <1>8 DEF SoldOut, Finished, AfterClear
  <2>2. ctxDone' \in BOOLEAN
    BY <1>8, WorkerFrames DEF DriverInv, AfterClear, CancelContext, T!Cancel
  <2> QED
    BY <1>8, <2>1, <2>2, WorkerFrames, MoveKeepsInv DEF Pcs
<1>9. ASSUME NEW w \in Workers, AfterRemove(w) PROVE DriverInv'
  <2>1. PICK p \in {"clearing", "respond"} : Goto(w, p)
    BY <1>9 DEF AfterRemove
  <2>2. pc[w] = "removing"
    BY <1>9 DEF AfterRemove
  <2> QED
    BY <1>9, <2>1, <2>2, WorkerFrames, MoveKeepsInv DEF Pcs, DriverInv
<1>10. ASSUME NEW w \in Workers, QueueStep(w) PROVE DriverInv'
  BY <1>10, WorkerFrames, OtherStepsKeepInv DEF QueueStep, DriverInv
<1>11. CASE MonitorStep \/ NotifyQueue \/ NotifierLoop \/ StopNotifier
  BY <1>11, MonitorKeepsContext, OtherStepsKeepInv DEF DriverInv
<1>12. ASSUME NEW c \in Clients, SendRequest(c) PROVE DriverInv'
  <2> USE <1>12 DEF SendRequest, DriverInv, workerVars
  <2>1. TypeOK' /\ ctxDone' \in BOOLEAN
    BY DEF TypeOK, trackerVars
  <2>2. ServesClient' /\ LockHeld' /\ GatedIsQueued' /\ FreshUntilCheckout'
    BY DEF ServesClient, LockHeld, GatedIsQueued, FreshUntilCheckout
  <2> QED
    BY <2>1, <2>2
<1>13. ASSUME NEW c \in Clients, Exit(c) PROVE DriverInv'
  <2> USE <1>13 DEF Exit, DriverInv, serverVars, workerVars, TypeOK, States
  <2>1. TypeOK' /\ ctxDone' \in BOOLEAN
    BY DEF trackerVars
  <2>2. ServesClient' /\ LockHeld'
    BY DEF ServesClient, LockHeld
  <2>3. GatedIsQueued'
    <3> SUFFICES ASSUME NEW w \in Workers, pc[w] \in {"adding", "rate", "inventory"}
                 PROVE  state'[client[w]] = "queued"
      BY DEF GatedIsQueued
    <3>1. client[w] \in Clients /\ lock[client[w]] = w /\ state[client[w]] = "queued"
      BY DEF ServesClient, LockHeld, GatedIsQueued
    <3>2. client[w] # c
      BY <3>1
    <3> QED
      BY <3>1, <3>2
  <2>4. FreshUntilCheckout'
    BY DEF FreshUntilCheckout
  <2> QED
    BY <2>1, <2>2, <2>3, <2>4
<1>14. CASE Interrupt
  BY <1>14, OtherStepsKeepInv DEF Interrupt, T!Cancel
<1>15. CASE UNCHANGED vars
  BY <1>15, OtherStepsKeepInv DEF vars, trackerVars, DriverInv
<1> QED
  BY <1>1, <1>2, <1>3, <1>4, <1>5, <1>6, <1>7, <1>8, <1>9, <1>10, <1>11, <1>12, <1>13,
     <1>14, <1>15 DEF Next, WorkerStep

LEMMA InitInv == Init => DriverInv
<1> SUFFICES ASSUME Init PROVE DriverInv
  OBVIOUS
<1> USE DriverAssumption DEF Init
<1>1. /\ state \in [Clients -> States] /\ lock \in [Clients -> Workers \cup {NoWorker}]
      /\ handshake \subseteq Clients /\ requests \in Seq(Clients)
      /\ inventory \in -1 .. Stock
      /\ pc \in [Workers -> Pcs] /\ client \in [Workers -> Clients \cup {NoClient}]
      /\ remInventory \in [Workers -> Int]
  BY DEF States, Pcs
<1>2. hitCheckoutStep \in [Clients -> BOOLEAN] /\ ctxDone \in BOOLEAN
  BY DEF T!Init
<1>3. ServesClient /\ LockHeld /\ GatedIsQueued /\ FreshUntilCheckout
  BY DEF ServesClient, LockHeld, GatedIsQueued, FreshUntilCheckout
<1> QED
  BY <1>1, <1>2, <1>3 DEF DriverInv, TypeOK

\* Type correctness of the driver and the locking discipline of its workers.
THEOREM DriverInvariant == Spec => []DriverInv
BY InitInv, StepKeepsInv, PTL DEF Spec

\* The variables of the driver keep their types; in particular the stock
\* counter stays between -1 and the stock.
THEOREM DriverTypeCorrect == Spec => []TypeOK
<1>1. DriverInv => TypeOK
  BY DEF DriverInv
<1> QED
  BY <1>1, DriverInvariant, PTL

-----------------------------------------------------------------------------
\* Every step of the throttle is a step of the abstract sale or changes
\* nothing of it.
LEMMA StepSimulates ==
    ASSUME DriverInv, [Next]_vars
    PROVE  [Sale!Next]_(Sale!saleVars)
<1> USE DEF Sale!saleVars
<1>1. ASSUME NEW w \in Workers,
             ReceiveRequest(w) \/ LockClient(w) \/ Respond(w) \/ CheckCandidate(w)
                \/ CheckRate(w) \/ SoldOut(w) \/ AfterRemove(w) \/ Finished(w) \/ QueueStep(w)
      PROVE  UNCHANGED Sale!saleVars
  BY <1>1, WorkerFrames DEF ReceiveRequest, LockClient, Respond, QueueStep, clientVars, serverVars
<1>2. ASSUME NEW w \in Workers, Enqueue(w) PROVE Sale!Next
  <2>1. client[w] \in Clients
    BY <1>2 DEF Enqueue, DriverInv, ServesClient
  <2>2. Sale!Join(client[w])
    BY <1>2, WorkerFrames DEF Enqueue, Sale!Join
  <2> QED
    BY <2>1, <2>2 DEF Sale!Next
<1>3. ASSUME NEW w \in Workers, TakeInventory(w) PROVE Sale!Next
  <2>1. client[w] \in Clients
    BY <1>3 DEF TakeInventory, DriverInv, ServesClient
  <2>2. state[client[w]] = "queued" /\ ~hitCheckoutStep[client[w]]
    BY <1>3, <2>1 DEF TakeInventory, DriverInv, GatedIsQueued, FreshUntilCheckout
  <2>3. Sale!Sell(client[w])
    BY <1>3, <2>2, WorkerFrames DEF TakeInventory, Spent, Sale!Sell
  <2> QED
    BY <2>1, <2>3 DEF Sale!Next
<1>4. ASSUME NEW w \in Workers, AfterClear(w) PROVE [Sale!Next]_(Sale!saleVars)
  <2>1. UNCHANGED <<state, hitCheckoutStep, inventory>> /\ ctxDone' = TRUE
    BY <1>4, WorkerFrames DEF AfterClear, CancelContext, clientVars, T!Cancel
  <2>2. CASE ctxDone
    BY <2>1, <2>2 DEF DriverInv
  <2>3. CASE ~ctxDone
    BY <2>1, <2>3 DEF Sale!Next, Sale!Close
  <2> QED
    BY <2>2, <2>3
<1>5. CASE MonitorStep \/ NotifyQueue \/ NotifierLoop \/ StopNotifier
  BY <1>5, MonitorKeepsContext DEF clientVars, serverVars
<1>6. ASSUME NEW c \in Clients, SendRequest(c) PROVE UNCHANGED Sale!saleVars
  BY <1>6 DEF SendRequest, trackerVars
<1>7. ASSUME NEW c \in Clients, Exit(c) PROVE Sale!Next
  <2>1. Sale!Leave(c)
    BY <1>7 DEF Exit, Sale!Leave, trackerVars, serverVars
  <2> QED
    BY <2>1 DEF Sale!Next
<1>8. CASE Interrupt
  BY <1>8 DEF Interrupt, T!Cancel, Sale!Next, Sale!Close, clientVars, serverVars
<1>9. CASE UNCHANGED vars
  BY <1>9 DEF vars, trackerVars, clientVars, serverVars
<1> QED
  BY <1>1, <1>2, <1>3, <1>4, <1>5, <1>6, <1>7, <1>8, <1>9 DEF Next, WorkerStep

\* The throttle driver, with any number of workers racing, implements the
\* abstract sale.
THEOREM DriverImplementsSale == Spec => ImplementsSale
<1>1. Init => Sale!Init
  BY DEF Init, Sale!Init, T!Init
<1> QED
  BY <1>1, StepSimulates, DriverInvariant, PTL DEF Spec, ImplementsSale, Sale!Spec

\* What the sales left of the stock.
Accounting == inventory = Stock - Cardinality(Sold)

\* The number of clients that reached checkout is a natural number.
LEMMA SoldType == IsFiniteSet(Sold) /\ Cardinality(Sold) \in Nat
<1>1. IsFiniteSet(Sold)
  BY DriverAssumption, FS_Subset DEF Sold
<1> QED
  BY <1>1, FS_CardinalityType

\* The counter and the clients that reached checkout move together, because
\* a worker at its sale serves a client that was not sold to before.
LEMMA StepKeepsAccounting ==
    ASSUME DriverInv, Accounting, [Next]_vars
    PROVE  Accounting'
<1>1. [Sale!Next]_(Sale!saleVars)
  BY StepSimulates
<1>2. CASE UNCHANGED <<hitCheckoutStep, inventory>>
  BY <1>2 DEF Accounting, Sold
<1>3. ASSUME NEW c \in Clients, Sale!Sell(c) PROVE Accounting'
  <2>1. Sold' = Sold \cup {c} /\ c \notin Sold
    BY <1>3 DEF Sale!Sell, Sold, DriverInv, TypeOK
  <2>2. Cardinality(Sold') = Cardinality(Sold) + 1
    BY <2>1, SoldType, FS_AddElement
  <2> QED
    BY <1>3, <2>2, SoldType, DriverAssumption DEF Accounting, Sale!Sell
<1> QED
  BY <1>1, <1>2, <1>3 DEF Sale!Next, Sale!saleVars, Sale!Join, Sale!Leave, Sale!Close

\* With any number of workers racing for the last unit, the stock counter
\* counts the sales exactly and at most one unit too many is sold.
THEOREM DriverOversellBounded == Spec => []OversellBounded
<1>1. Init => Accounting
  <2> SUFFICES ASSUME Init PROVE Accounting
    OBVIOUS
  <2>1. Sold = {}
    BY DEF Init, Sold
  <2> QED
    BY <2>1, FS_EmptySet, DriverAssumption DEF Init, Accounting
<1>2. DriverInv /\ Accounting => OversellBounded
  BY SoldType, DriverAssumption DEF DriverInv, TypeOK, Accounting, OversellBounded
<1> QED
  BY <1>1, <1>2, StepKeepsAccounting, DriverInvariant, PTL DEF Spec
-----------------------------------------------------------------------------
(***************************************************************************)
(* The queue is only cleared when the stock is gone.  A worker clears on   *)
(* the strength of a count it took before its Remove; the counter only     *)
(* falls, so the count is never below the stock.                           *)
(***************************************************************************)
StockCounts ==
    /\ qpc \in [Workers -> {"idle"} \cup Q!AddPcs \cup Q!RemovePcs \cup Q!ClearPcs]
    /\ \A w \in Workers : pc[w] = "removing" => inventory <= remInventory[w]
    /\ \A w \in Workers : qpc[w] = "clear" => inventory <= 0
    /\ inventory > 0 => clears = 0

\* What a step of a queue call may do: leave the count of Clears alone, or be
\* the first step of a Clear.
LEMMA QueueStepFrame ==
    ASSUME StockCounts, NEW w \in Workers, Q!ThreadStep(w)
    PROVE  /\ clears' = clears \/ qpc[w] = "clear"
           /\ qpc' \in [Workers -> {"idle"} \cup Q!AddPcs \cup Q!RemovePcs \cup Q!ClearPcs]
           /\ \A u \in Workers : qpc'[u] = "clear" => qpc[u] = "clear"
<1> USE DEF StockCounts, Q!AddPcs, Q!RemovePcs, Q!ClearPcs, Q!Goto, Q!Return
<1>1. CASE Q!AddStep(w)
  BY <1>1 DEF Q!AddStep, Q!AddBegin, Q!AddRoll, Q!AddIncr, Q!AddMake, Q!AddInsert, Q!AddCookie
<1>2. CASE Q!RemoveStep(w)
  BY <1>2 DEF Q!RemoveStep, Q!RemoveBegin, Q!RemoveFinish
<1>3. CASE Q!ClearStep(w)
  BY <1>3 DEF Q!ClearStep, Q!ClearMaps, Q!ClearWorkingBin, Q!ClearQueueBin, Q!ClearTotal
<1> QED
  BY <1>1, <1>2, <1>3 DEF Q!ThreadStep

LEMMA StepKeepsStockCounts ==
    ASSUME DriverInv, StockCounts, [Next]_vars
    PROVE  StockCounts'
<1> USE DriverAssumption DEF DriverInv, TypeOK, StockCounts
<1>1. ASSUME NEW w \in Workers, ReceiveRequest(w) \/ LockClient(w) \/ Respond(w)
               \/ CheckCandidate(w) \/ CheckRate(w) \/ SoldOut(w) \/ AfterClear(w) \/ Finished(w)
      PROVE  StockCounts'
  <2>1. /\ UNCHANGED queueVars /\ inventory' = inventory
        /\ \E p \in Pcs \ {"removing"} : pc' = [pc EXCEPT ![w] = p]
        /\ \A u \in Workers \ {w} : remInventory'[u] = remInventory[u]
    BY <1>1 DEF ReceiveRequest, LockClient, Respond, CheckCandidate, CheckRate, AfterRate,
       SoldOut, AfterClear, Finished, Goto, Pcs
  <2> QED
    BY <2>1 DEF queueVars
<1>2. ASSUME NEW w \in Workers, Enqueue(w)
      PROVE  StockCounts'
  BY <1>2 DEF Enqueue, TellQueue, Q!CallAdd, Q!Call, Goto, Q!AddPcs
<1>3. ASSUME NEW w \in Workers, TakeInventory(w)
      PROVE  StockCounts'
  BY <1>3 DEF TakeInventory, Spent, Q!CallRemove, Q!Call, Goto, Q!RemovePcs
<1>4. ASSUME NEW w \in Workers, AfterRemove(w)
      PROVE  StockCounts'
  <2>1. /\ UNCHANGED <<inventory, remInventory>> /\ pc[w] = "removing"
        /\ \E p \in {"clearing", "respond"} : pc' = [pc EXCEPT ![w] = p]
    BY <1>4 DEF AfterRemove, Goto
  <2>2. CASE IsLastUnit(w)
    <3>1. inventory <= 0
      BY <2>1, <2>2 DEF IsLastUnit
    <3>2. qpc' = [qpc EXCEPT ![w] = "clear"] /\ clears' = clears
      BY <1>4, <2>2 DEF AfterRemove, Q!CallClear, Q!Call
    <3> QED
      BY <2>1, <3>1, <3>2 DEF Q!ClearPcs
  <2>3. CASE ~IsLastUnit(w)
    BY <1>4, <2>1, <2>3 DEF AfterRemove, queueVars
  <2> QED
    BY <2>2, <2>3
<1>5. ASSUME NEW w \in Workers, QueueStep(w)
      PROVE  StockCounts'
  <2>1. UNCHANGED <<inventory, remInventory, pc>>
    BY <1>5 DEF QueueStep, serverVars, workerVars
  <2> QED
    BY <1>5, <2>1, QueueStepFrame DEF QueueStep
<1>6. CASE MonitorStep \/ NotifyQueue \/ NotifierLoop \/ StopNotifier \/ Interrupt
             \/ (\E c \in Clients : SendRequest(c) \/ Exit(c)) \/ UNCHANGED vars
  <2>1. UNCHANGED <<qpc, clears, inventory, remInventory, pc>>
    BY <1>6 DEF MonitorStep, NotifyQueue, NotifierLoop, StopNotifier, Interrupt, SendRequest, Exit,
       vars, queueVars, serverVars, workerVars, Q!ReceiveTrackerFeedback, Q!AdjustWorkingBin,
       Q!FeedbackReturn, Q!threadVars
  <2> QED
    BY <2>1
<1> QED
  BY <1>1, <1>2, <1>3, <1>4, <1>5, <1>6 DEF Next, WorkerStep

\* Whatever the order in which workers sell, remove and clear, the queue
\* keeps its clients until the last unit is sold.
THEOREM DriverKeepsQueue == Spec => []QueueKeptWhileStockLeft
<1>1. Init => StockCounts
  BY DEF Init, StockCounts, Q!Init
<1>2. StockCounts => QueueKeptWhileStockLeft
  BY DEF StockCounts, QueueKeptWhileStockLeft
<1> QED
  BY <1>1, <1>2, StepKeepsStockCounts, DriverInvariant, PTL DEF Spec

-----------------------------------------------------------------------------
(***************************************************************************)
(* End to end throughput.  The clients admitted in the windows that are    *)
(* closed are counted as a whole, so that a roll-over adds one window to   *)
(* them and no sum over the windows is needed.                             *)
(***************************************************************************)
Admitted(n) == UNION {windowedCheckoutUtil[v] : v \in 0 .. n}

WindowCounts ==
    /\ curWindowIndex \in 0 .. MaxWindow
    /\ windowedCheckoutUtil \in [0 .. MaxWindow -> SUBSET Clients]
    /\ \A v \in 0 .. MaxWindow : Cardinality(windowedCheckoutUtil[v]) <= MaxCheckoutsPerWindow + 1
    /\ Cardinality(Admitted(curWindowIndex - 1)) <= curWindowIndex * (MaxCheckoutsPerWindow + 1)
SoldWereAdmitted ==
    /\ Sold \subseteq Admitted(curWindowIndex)
    /\ \A w \in Workers : pc[w] = "inventory" => client[w] \in Admitted(curWindowIndex)

RateInv == WindowCounts /\ SoldWereAdmitted

LEMMA UnionBound ==
    ASSUME NEW S, IsFiniteSet(S), NEW U, IsFiniteSet(U)
    PROVE  /\ Cardinality(S) \in Nat /\ Cardinality(U) \in Nat /\ Cardinality(S \cup U) \in Nat
           /\ Cardinality(S \cup U) <= Cardinality(S) + Cardinality(U)
<1>1. IsFiniteSet(S \cup U) /\ IsFiniteSet(S \cap U)
  BY FS_Union, FS_Subset
<1>2. /\ Cardinality(S) \in Nat /\ Cardinality(U) \in Nat
      /\ Cardinality(S \cup U) \in Nat /\ Cardinality(S \cap U) \in Nat
  BY <1>1, FS_CardinalityType
<1>3. Cardinality(S \cup U) = Cardinality(S) + Cardinality(U) - Cardinality(S \cap U)
  BY FS_Union
<1> QED
  BY <1>2, <1>3

\* Adding the open window to the closed ones adds at most its clients.
LEMMA AdmittedBound ==
    ASSUME WindowCounts
    PROVE  /\ Admitted(curWindowIndex)
                = Admitted(curWindowIndex - 1) \cup windowedCheckoutUtil[curWindowIndex]
           /\ Cardinality(Admitted(curWindowIndex))
                <= (curWindowIndex + 1) * (MaxCheckoutsPerWindow + 1)
<1> USE DriverAssumption DEF WindowCounts
<1> DEFINE closed == Admitted(curWindowIndex - 1)
           open == windowedCheckoutUtil[curWindowIndex]
<1>1. Admitted(curWindowIndex) = closed \cup open
  BY DEF Admitted
<1>2. closed \subseteq Clients /\ open \subseteq Clients
  BY DEF Admitted
<1>3. IsFiniteSet(closed) /\ IsFiniteSet(open)
  BY <1>2, FS_Subset
<1>4. /\ Cardinality(closed) \in Nat /\ Cardinality(open) \in Nat
      /\ Cardinality(closed \cup open) \in Nat
      /\ Cardinality(closed \cup open) <= Cardinality(closed) + Cardinality(open)
  BY <1>3, UnionBound
<1>5. /\ Cardinality(closed) <= curWindowIndex * (MaxCheckoutsPerWindow + 1)
      /\ Cardinality(open) <= MaxCheckoutsPerWindow + 1
  OBVIOUS
<1>6. (curWindowIndex + 1) * (MaxCheckoutsPerWindow + 1)
        = curWindowIndex * (MaxCheckoutsPerWindow + 1) + MaxCheckoutsPerWindow + 1
  OBVIOUS
<1>7. curWindowIndex * (MaxCheckoutsPerWindow + 1) \in Nat
  OBVIOUS
<1> HIDE DEF closed, open
<1>8. Cardinality(closed \cup open) <= (curWindowIndex + 1) * (MaxCheckoutsPerWindow + 1)
  BY <1>4, <1>5, <1>6, <1>7
<1> QED
  BY <1>1, <1>8 DEF closed, open

\* The tracker's copy of Cardinality is the operator itself.
LEMMA TrackerCardinality == \A S : T!Cardinality(S) = Cardinality(S)
BY DEF T!Cardinality, Cardinality

\* A window grows by the client that its rate check lets through, and only
\* while it has room.
LEMMA CheckRateKeepsWindows ==
    ASSUME DriverInv, WindowCounts, NEW w \in Workers, CheckRate(w)
    PROVE  /\ WindowCounts'
           /\ Admitted(curWindowIndex) \subseteq Admitted(curWindowIndex)'
           /\ pc'[w] = "inventory" => client[w] \in Admitted(curWindowIndex)'
<1> USE DriverAssumption DEF WindowCounts
<1>1. PICK pass \in BOOLEAN : T!ShouldProceed(client[w], pass) /\ Goto(w, AfterRate(pass))
  BY DEF CheckRate
<1>2. client[w] \in Clients
  BY DEF CheckRate, DriverInv, ServesClient
<1>3. /\ curWindowIndex' = curWindowIndex
      /\ \A v \in 0 .. MaxWindow \ {curWindowIndex} :
            windowedCheckoutUtil'[v] = windowedCheckoutUtil[v]
      /\ windowedCheckoutUtil'[curWindowIndex] =
            IF pass THEN windowedCheckoutUtil[curWindowIndex] \cup {client[w]}
                    ELSE windowedCheckoutUtil[curWindowIndex]
      /\ DOMAIN windowedCheckoutUtil' = 0 .. MaxWindow
      /\ windowedCheckoutUtil' \in [0 .. MaxWindow -> SUBSET Clients]
  BY <1>1, <1>2 DEF T!ShouldProceed, T!OpenWindow
<1>4. Admitted(curWindowIndex - 1)' = Admitted(curWindowIndex - 1)
  BY <1>3 DEF Admitted
<1>5. \A v \in 0 .. MaxWindow : windowedCheckoutUtil[v] \subseteq windowedCheckoutUtil'[v]
  BY <1>3
<1>6. Cardinality(windowedCheckoutUtil'[curWindowIndex]) <= MaxCheckoutsPerWindow + 1
  <2>1. CASE ~pass
    BY <1>3, <2>1
  <2>2. CASE pass
    <3>1. Cardinality(windowedCheckoutUtil[curWindowIndex]) <= MaxCheckoutsPerWindow
      <4>1. T!CanPass
        BY <1>1, <2>2 DEF T!ShouldProceed
      <4> QED
        BY <4>1, TrackerCardinality DEF T!CanPass, T!CheckoutUtilization
    <3>2. windowedCheckoutUtil[curWindowIndex] \in SUBSET Clients
      OBVIOUS
    <3>3. /\ IsFiniteSet(windowedCheckoutUtil[curWindowIndex])
          /\ Cardinality(windowedCheckoutUtil[curWindowIndex]) \in Nat
      BY <3>2, FS_Subset, FS_CardinalityType
    <3>4. Cardinality(windowedCheckoutUtil[curWindowIndex] \cup {client[w]})
            \in {Cardinality(windowedCheckoutUtil[curWindowIndex]),
                 Cardinality(windowedCheckoutUtil[curWindowIndex]) + 1}
      BY <3>3, FS_AddElement
    <3> QED
      BY <1>3, <2>2, <3>1, <3>3, <3>4
  <2> QED
    BY <2>1, <2>2
<1>7. WindowCounts'
  BY <1>3, <1>4, <1>6
<1>8. Admitted(curWindowIndex) \subseteq Admitted(curWindowIndex)'
  BY <1>3, <1>5 DEF Admitted
<1>9. ASSUME pc'[w] = "inventory"
      PROVE  client[w] \in Admitted(curWindowIndex)'
  <2>1. pass
    BY <1>1, <1>9 DEF Goto, AfterRate, DriverInv, TypeOK
  <2> QED
    BY <1>3, <2>1 DEF Admitted
<1> QED
  BY <1>7, <1>8, <1>9

\* A roll-over puts the open window among the closed ones.
LEMMA RollKeepsWindows ==
    ASSUME WindowCounts, T!RollWindow
    PROVE  WindowCounts' /\ Admitted(curWindowIndex) \subseteq Admitted(curWindowIndex)'
<1>1. /\ curWindowIndex \in 0 .. MaxWindow /\ curWindowIndex < MaxWindow
      /\ curWindowIndex' = curWindowIndex + 1
      /\ windowedCheckoutUtil' = windowedCheckoutUtil
  BY DEF WindowCounts, T!RollWindow, T!NextWindow
<1>2. curWindowIndex' - 1 = curWindowIndex /\ curWindowIndex' \in 0 .. MaxWindow
  BY <1>1, DriverAssumption
<1>3. Admitted(curWindowIndex - 1)' = Admitted(curWindowIndex)
  BY <1>1, <1>2 DEF Admitted
<1>4. Admitted(curWindowIndex) \subseteq Admitted(curWindowIndex)'
  BY <1>1 DEF Admitted
<1> QED
  BY <1>1, <1>2, <1>3, <1>4, AdmittedBound DEF WindowCounts

\* No other step touches the windows.
LEMMA OthersKeepWindows ==
    ASSUME [Next]_vars
    PROVE  \/ UNCHANGED <<curWindowIndex, windowedCheckoutUtil>>
           \/ (\E w \in Workers : CheckRate(w))
           \/ T!RollWindow
BY DEF Next, WorkerStep, ReceiveRequest, LockClient, Respond, Enqueue, CheckCandidate,
   TakeInventory, SoldOut, AfterRemove, AfterClear, CancelContext, Finished, QueueStep, MonitorStep,
   NotifyQueue, NotifierLoop, StopNotifier, SendRequest, Exit, Interrupt, vars, trackerVars,
   T!EmitFeedback, T!StopMonitor, T!NotifierLoop, T!StopNotifier, T!Cancel, T!windowVars

LEMMA StepKeepsRate ==
    ASSUME DriverInv, RateInv, [Next]_vars
    PROVE  RateInv'
<1>1. WindowCounts' /\ Admitted(curWindowIndex) \subseteq Admitted(curWindowIndex)'
  <2>1. CASE UNCHANGED <<curWindowIndex, windowedCheckoutUtil>>
    BY <2>1 DEF RateInv, WindowCounts, Admitted
  <2> QED
    BY <2>1, OthersKeepWindows, CheckRateKeepsWindows, RollKeepsWindows DEF RateInv
<1>2. SoldWereAdmitted'
  <2> USE DEF RateInv, SoldWereAdmitted, DriverInv, TypeOK
  <2>1. ASSUME NEW w \in Workers, CheckRate(w)
        PROVE  SoldWereAdmitted'
    <3>1. Sold' = Sold /\ client' = client /\ \A u \in Workers \ {w} : pc'[u] = pc[u]
      BY <2>1 DEF CheckRate, Sold, clientVars, Goto
    <3> QED
      BY <1>1, <2>1, <3>1, CheckRateKeepsWindows
  <2>2. ASSUME NEW w \in Workers, TakeInventory(w)
        PROVE  SoldWereAdmitted'
    <3>1. Sold' = Sold \cup {client[w]} /\ client' = client
      BY <2>2 DEF TakeInventory, Sold, ServesClient
    <3>2. \A u \in Workers : pc'[u] = "inventory" => pc[u] = "inventory"
      BY <2>2 DEF TakeInventory, Goto
    <3>3. client[w] \in Admitted(curWindowIndex)
      BY <2>2 DEF TakeInventory
    <3> QED
      BY <1>1, <3>1, <3>2, <3>3
  <2>3. ASSUME NEW w \in Workers, ReceiveRequest(w) \/ LockClient(w) \/ Respond(w) \/ Enqueue(w)
                 \/ CheckCandidate(w) \/ SoldOut(w) \/ AfterRemove(w) \/ AfterClear(w)
                 \/ Finished(w) \/ QueueStep(w)
        PROVE  SoldWereAdmitted'
    <3>1. /\ Sold' = Sold
          /\ \A u \in Workers : pc'[u] = "inventory" => pc[u] = "inventory" /\ client'[u] = client[u]
      BY <2>3 DEF ReceiveRequest, LockClient, Respond, Enqueue, CheckCandidate, SoldOut, AfterRemove,
         AfterClear, Finished, QueueStep, Goto, Sold, clientVars, serverVars, workerVars
    <3> QED
      BY <1>1, <3>1
  <2>4. CASE MonitorStep \/ NotifyQueue \/ NotifierLoop \/ StopNotifier \/ Interrupt
               \/ (\E c \in Clients : SendRequest(c) \/ Exit(c)) \/ UNCHANGED vars
    <3>1. Sold' = Sold /\ UNCHANGED <<pc, client>>
      BY <2>4 DEF MonitorStep, NotifyQueue, NotifierLoop, StopNotifier, Interrupt, SendRequest,
         Exit, vars, Sold, clientVars, serverVars, workerVars
    <3> QED
      BY <1>1, <3>1
  <2> QED
    BY <2>1, <2>2, <2>3, <2>4 DEF Next, WorkerStep
<1> QED
  BY <1>1, <1>2 DEF RateInv

LEMMA DriverRateInvariant == Spec => []RateInv
<1>1. Init => RateInv
  <2> SUFFICES ASSUME Init PROVE RateInv
    OBVIOUS
  <2>1. /\ curWindowIndex = 0 /\ windowedCheckoutUtil = [v \in 0 .. MaxWindow |-> {}]
        /\ Sold = {} /\ \A w \in Workers : pc[w] = "idle"
    BY DEF Init, T!Init, T!Windows, Sold
  <2>2. Admitted(curWindowIndex - 1) = {}
    BY <2>1 DEF Admitted
  <2>3. Cardinality({}) = 0
    BY FS_EmptySet
  <2>4. WindowCounts
    <3>1. curWindowIndex \in 0 .. MaxWindow
      BY <2>1, DriverAssumption
    <3>2. Cardinality(Admitted(curWindowIndex - 1)) <= curWindowIndex * (MaxCheckoutsPerWindow + 1)
      <4>1. Cardinality(Admitted(curWindowIndex - 1)) = 0
        BY <2>2, <2>3
      <4>2. curWindowIndex * (MaxCheckoutsPerWindow + 1) = 0
        BY <2>1, DriverAssumption
      <4> QED
        BY <4>1, <4>2
    <3>3. \A v \in 0 .. MaxWindow :
            Cardinality(windowedCheckoutUtil[v]) <= MaxCheckoutsPerWindow + 1
      BY <2>1, <2>3, DriverAssumption
    <3>4. windowedCheckoutUtil \in [0 .. MaxWindow -> SUBSET Clients]
      BY <2>1
    <3> QED
      BY <3>1, <3>2, <3>3, <3>4 DEF WindowCounts
  <2>5. SoldWereAdmitted
    BY <2>1 DEF SoldWereAdmitted
  <2> QED
    BY <2>4, <2>5 DEF RateInv
<1> QED
  BY <1>1, StepKeepsRate, DriverInvariant, PTL DEF Spec

\* However long a worker waits between its rate check and its sale, what was
\* sold by the k-th window was admitted in the first k windows, and is at most
\* k times what one of them lets through.
THEOREM DriverThroughputBounded == Spec => []ThroughputBounded
<1>1. RateInv => ThroughputBounded
  <2> SUFFICES ASSUME RateInv PROVE ThroughputBounded
    OBVIOUS
  <2>1. Admitted(curWindowIndex) \in SUBSET Clients
    BY DriverAssumption DEF RateInv, WindowCounts, Admitted
  <2>2. IsFiniteSet(Admitted(curWindowIndex)) /\ Sold \in SUBSET Admitted(curWindowIndex)
    BY <2>1, FS_Subset, DriverAssumption DEF RateInv, SoldWereAdmitted
  <2>3. /\ Cardinality(Sold) <= Cardinality(Admitted(curWindowIndex))
        /\ Cardinality(Admitted(curWindowIndex)) \in Nat
    BY <2>2, FS_Subset, FS_CardinalityType
  <2>4. Cardinality(Admitted(curWindowIndex)) <= (curWindowIndex + 1) * (MaxCheckoutsPerWindow + 1)
    BY AdmittedBound DEF RateInv
  <2>5. (curWindowIndex + 1) * (MaxCheckoutsPerWindow + 1) \in Nat
    BY DriverAssumption DEF RateInv, WindowCounts
  <2>6. Cardinality(Sold) <= (curWindowIndex + 1) * (MaxCheckoutsPerWindow + 1)
    BY <2>3, <2>4, <2>5, SoldType
  <2> QED
    BY <2>2, <2>6 DEF ThroughputBounded, Admitted
<1> QED
  BY <1>1, DriverRateInvariant, PTL

-----------------------------------------------------------------------------
(***************************************************************************)
(* The driver as a caller of the queue.  What the queue specification asks *)
(* of its callers - a client is added once, removed once and only after    *)
(* its Add, and Clear is called twice at most - is nowhere checked by the  *)
(* code.  It follows from where the workers are: a call belongs to the     *)
(* place its worker is at and to the client it serves, and the worker's    *)
(* lock on the client keeps the others away until the call is over.        *)
(***************************************************************************)
CallTypes ==
    /\ qpc \in [Workers -> {"idle"} \cup Q!AddPcs \cup Q!RemovePcs \cup Q!ClearPcs]
    /\ qarg \in [Workers -> Clients \cup {NoClient}]
    /\ phase \in [Clients -> {"new", "adding", "waiting", "leaving", "left"}]

CallPlaced(w) ==
    /\ qpc[w] \in Q!AddPcs =>
          pc[w] = "adding" /\ qarg[w] = client[w] /\ phase[client[w]] = "adding"
    /\ qpc[w] \in Q!RemovePcs =>
          pc[w] = "removing" /\ qarg[w] = client[w] /\ phase[client[w]] = "leaving"
    /\ qpc[w] \in Q!ClearPcs => pc[w] = "clearing"
    /\ pc[w] = "removing" /\ qpc[w] = "idle" => phase[client[w]] = "left"
CallsPlaced == \A w \in Workers : CallPlaced(w)

\* Client c's lock is held by a worker at place p in a call of ops.
InCall(c, p, ops) ==
    LET w == lock[c] IN w \in Workers /\ pc[w] = p /\ client[w] = c /\ qpc[w] \in ops

PhasesFollow == \A c \in Clients :
    /\ state[c] = "initial" => phase[c] = "new"
    /\ state[c] = "queued" => phase[c] \in {"adding", "waiting"}
    /\ hitCheckoutStep[c] => phase[c] \in {"leaving", "left"}
    /\ phase[c] = "adding" => InCall(c, "adding", Q!AddPcs)
    /\ phase[c] = "leaving" => InCall(c, "removing", Q!RemovePcs)

CallerInv == CallTypes /\ CallsPlaced /\ PhasesFollow

\* A step of a queue call moves its thread on within the call, or ends it and
\* records that.
LEMMA QueueStepMoves ==
    ASSUME CallTypes, NEW w \in Workers, Q!ThreadStep(w)
    PROVE  \/ /\ UNCHANGED <<qarg, phase>>
              /\ \E ops \in {Q!AddPcs, Q!RemovePcs, Q!ClearPcs} : \E p \in ops :
                    qpc[w] \in ops /\ qpc' = [qpc EXCEPT ![w] = p]
           \/ /\ qpc' = [qpc EXCEPT ![w] = "idle"] /\ qarg' = [qarg EXCEPT ![w] = NoClient]
              /\ \/ qpc[w] \in Q!AddPcs /\ phase' = [phase EXCEPT ![qarg[w]] = "waiting"]
                 \/ qpc[w] \in Q!RemovePcs /\ phase' = [phase EXCEPT ![qarg[w]] = "left"]
                 \/ qpc[w] \in Q!ClearPcs /\ UNCHANGED phase
<1> USE DEF CallTypes, Q!AddPcs, Q!RemovePcs, Q!ClearPcs, Q!Goto, Q!Return
<1>1. CASE Q!AddStep(w)
  BY <1>1 DEF Q!AddStep, Q!AddBegin, Q!AddRoll, Q!AddIncr, Q!AddMake, Q!AddInsert, Q!AddCookie
<1>2. CASE Q!RemoveStep(w)
  BY <1>2 DEF Q!RemoveStep, Q!RemoveBegin, Q!RemoveFinish
<1>3. CASE Q!ClearStep(w)
  BY <1>3 DEF Q!ClearStep, Q!ClearMaps, Q!ClearWorkingBin, Q!ClearQueueBin, Q!ClearTotal
<1> QED
  BY <1>1, <1>2, <1>3 DEF Q!ThreadStep

\* The steps of the tracker, the notifier and the clients call nothing.
LEMMA OthersCallNothing ==
    ASSUME \/ MonitorStep \/ NotifyQueue \/ NotifierLoop \/ StopNotifier \/ Interrupt
           \/ (\E c \in Clients : SendRequest(c) \/ Exit(c))
           \/ UNCHANGED vars
    PROVE  UNCHANGED <<qpc, qarg, phase, clears, pc, client, remInventory, inventory,
                       hitCheckoutStep, lock>>
BY DEF MonitorStep, NotifyQueue, NotifierLoop, StopNotifier, Interrupt, SendRequest, Exit, vars,
   queueVars, clientVars, serverVars, workerVars, Q!ReceiveTrackerFeedback, Q!AdjustWorkingBin,
   Q!FeedbackReturn, Q!threadVars

LEMMA CallerInvStep ==
    ASSUME DriverInv, CallerInv, [Next]_vars
    PROVE  CallerInv'
<1> USE DriverAssumption DEF DriverInv, TypeOK
<1>1. ASSUME NEW w \in Workers, ReceiveRequest(w) \/ LockClient(w) \/ Respond(w)
               \/ CheckCandidate(w) \/ CheckRate(w) \/ SoldOut(w) \/ AfterClear(w) \/ Finished(w)
      PROVE  CallerInv'
  <2>1. /\ UNCHANGED <<qpc, qarg, phase, state, hitCheckoutStep>>
        /\ \E p \in Pcs \ {"adding", "removing", "clearing"} : pc' = [pc EXCEPT ![w] = p]
        /\ \A u \in Workers \ {w} : client'[u] = client[u]
        /\ \A c \in Clients : \/ lock'[c] = lock[c]
                              \/ lock[c] = NoWorker /\ lock'[c] = w
                              \/ lock[c] = w /\ lock'[c] = NoWorker
        /\ pc[w] \notin {"adding", "removing", "clearing"} \/ qpc[w] = "idle"
    BY <1>1 DEF ReceiveRequest, LockClient, CanLock, Respond, CheckCandidate, AtQueuedCase, CheckRate,
       AfterRate, SoldOut, AfterClear, Finished, Goto, Pcs, queueVars, clientVars, LockHeld,
       ServesClient
  <2>2. qpc[w] = "idle" /\ qpc' = qpc
    BY <2>1 DEF CallerInv, CallTypes, CallsPlaced, CallPlaced
  <2>3. CallTypes'
    BY <2>1 DEF CallerInv, CallTypes
  <2>4. CallsPlaced'
    BY <2>1, <2>2 DEF CallerInv, CallsPlaced, CallPlaced, Q!AddPcs, Q!RemovePcs, Q!ClearPcs
  <2>5. PhasesFollow'
    <3>1. ASSUME NEW c \in Clients, NEW p, NEW ops, InCall(c, p, ops), "idle" \notin ops
          PROVE  InCall(c, p, ops)'
      <4>1. lock[c] \in Workers /\ lock[c] # w
        BY <2>2, <3>1 DEF InCall
      <4>2. lock'[c] = lock[c]
        BY <2>1, <4>1
      <4> QED
        BY <2>1, <3>1, <4>1, <4>2 DEF InCall
    <3> QED
      BY <2>1, <3>1 DEF CallerInv, PhasesFollow, Q!AddPcs, Q!RemovePcs
  <2> QED
    BY <2>3, <2>4, <2>5 DEF CallerInv
<1>2. ASSUME NEW w \in Workers, Enqueue(w)
      PROVE  CallerInv'
  <2>1. client[w] \in Clients /\ lock[client[w]] = w /\ client[w] # NoClient
    BY <1>2 DEF Enqueue, ServesClient, LockHeld
  <2>2. /\ qpc[w] = "idle" /\ qpc' = [qpc EXCEPT ![w] = "add"]
        /\ qarg' = [qarg EXCEPT ![w] = client[w]]
        /\ phase' = [phase EXCEPT ![client[w]] = "adding"]
        /\ state' = [state EXCEPT ![client[w]] = "queued"]
        /\ pc' = [pc EXCEPT ![w] = "adding"]
        /\ UNCHANGED <<client, lock, hitCheckoutStep>>
        /\ state[client[w]] = "initial"
    BY <1>2 DEF Enqueue, TellQueue, Q!CallAdd, Q!Call, Goto
  <2>3. CallTypes'
    BY <2>1, <2>2 DEF CallerInv, CallTypes, Q!AddPcs
  <2>4. CallsPlaced'
    <3>1. \A u \in Workers \ {w} : pc[u] \in {"adding", "removing"} => client[u] # client[w]
      BY <2>1, <2>2, <1>2 DEF LockHeld, Enqueue
    <3>2. \A u \in Workers \ {w} : qpc'[u] = qpc[u] /\ qarg'[u] = qarg[u] /\ pc'[u] = pc[u]
      BY <2>2 DEF CallerInv, CallTypes
    <3>3. \A u \in Workers \ {w} :
             pc[u] \in {"adding", "removing"} => phase'[client[u]] = phase[client[u]]
      BY <2>2, <3>1
    <3>4. /\ qpc'[w] = "add" /\ qarg'[w] = client[w] /\ pc'[w] = "adding" /\ client' = client
          /\ phase'[client[w]] = "adding"
      BY <2>1, <2>2 DEF CallerInv, CallTypes
    <3> QED
      BY <3>2, <3>3, <3>4 DEF CallerInv, CallsPlaced, CallPlaced, Q!AddPcs, Q!RemovePcs, Q!ClearPcs
  <2>5. PhasesFollow'
    <3>1. ASSUME NEW c \in Clients, c # client[w], NEW p, NEW ops, InCall(c, p, ops)
          PROVE  InCall(c, p, ops)'
      BY <2>1, <2>2, <3>1 DEF InCall, CallerInv, CallTypes
    <3>2. InCall(client[w], "adding", Q!AddPcs)'
      BY <2>1, <2>2 DEF InCall, CallerInv, CallTypes, Q!AddPcs
    <3>3. ~hitCheckoutStep[client[w]]
      BY <2>1, <2>2 DEF FreshUntilCheckout
    <3> QED
      BY <2>1, <2>2, <3>1, <3>2, <3>3 DEF CallerInv, PhasesFollow, CallTypes
  <2> QED
    BY <2>3, <2>4, <2>5 DEF CallerInv
<1>3. ASSUME NEW w \in Workers, TakeInventory(w)
      PROVE  CallerInv'
  <2>1. client[w] \in Clients /\ lock[client[w]] = w
    BY <1>3 DEF TakeInventory, ServesClient, LockHeld
  <2>2. /\ qpc[w] = "idle" /\ qpc' = [qpc EXCEPT ![w] = "remove"]
        /\ qarg' = [qarg EXCEPT ![w] = client[w]]
        /\ phase' = [phase EXCEPT ![client[w]] = "leaving"]
        /\ state' = [state EXCEPT ![client[w]] = "inCheckout"]
        /\ hitCheckoutStep' = [hitCheckoutStep EXCEPT ![client[w]] = TRUE]
        /\ pc' = [pc EXCEPT ![w] = "removing"] /\ pc[w] = "inventory"
        /\ UNCHANGED <<client, lock>>
    BY <1>3 DEF TakeInventory, Q!CallRemove, Q!Call, Goto
  <2>3. CallTypes'
    BY <2>1, <2>2 DEF CallerInv, CallTypes, Q!RemovePcs
  <2>4. CallsPlaced'
    <3>1. \A u \in Workers \ {w} : pc[u] \in {"adding", "removing"} => client[u] # client[w]
      BY <2>1, <2>2 DEF LockHeld
    <3>2. \A u \in Workers \ {w} : qpc'[u] = qpc[u] /\ qarg'[u] = qarg[u] /\ pc'[u] = pc[u]
      BY <2>2 DEF CallerInv, CallTypes
    <3>3. \A u \in Workers \ {w} :
             pc[u] \in {"adding", "removing"} => phase'[client[u]] = phase[client[u]]
      BY <2>2, <3>1
    <3>4. /\ qpc'[w] = "remove" /\ qarg'[w] = client[w] /\ pc'[w] = "removing" /\ client' = client
          /\ phase'[client[w]] = "leaving"
      BY <2>1, <2>2 DEF CallerInv, CallTypes
    <3> QED
      BY <3>2, <3>3, <3>4 DEF CallerInv, CallsPlaced, CallPlaced, Q!AddPcs, Q!RemovePcs, Q!ClearPcs
  <2>5. PhasesFollow'
    <3>1. ASSUME NEW c \in Clients, c # client[w], NEW p, NEW ops, InCall(c, p, ops)
          PROVE  InCall(c, p, ops)'
      BY <2>1, <2>2, <3>1 DEF InCall, CallerInv, CallTypes
    <3>2. InCall(client[w], "removing", Q!RemovePcs)'
      BY <2>1, <2>2 DEF InCall, CallerInv, CallTypes, Q!RemovePcs
    <3> QED
      BY <2>1, <2>2, <3>1, <3>2 DEF CallerInv, PhasesFollow, CallTypes
  <2> QED
    BY <2>3, <2>4, <2>5 DEF CallerInv
<1>4. ASSUME NEW w \in Workers, AfterRemove(w)
      PROVE  CallerInv'
  <2>1. /\ qpc[w] = "idle" /\ pc[w] = "removing"
        /\ UNCHANGED <<phase, client, state, hitCheckoutStep, lock>>
        /\ \/ /\ qpc' = [qpc EXCEPT ![w] = "clear"] /\ qarg' = [qarg EXCEPT ![w] = NoClient]
              /\ pc' = [pc EXCEPT ![w] = "clearing"]
           \/ UNCHANGED <<qpc, qarg>> /\ pc' = [pc EXCEPT ![w] = "respond"]
    BY <1>4 DEF AfterRemove, Q!CallClear, Q!Call, Goto, queueVars, clientVars
  <2>2. CallTypes'
    BY <2>1 DEF CallerInv, CallTypes, Q!ClearPcs
  <2>3. CallsPlaced'
    BY <2>1 DEF CallerInv, CallTypes, CallsPlaced, CallPlaced, Q!AddPcs, Q!RemovePcs, Q!ClearPcs
  <2>4. PhasesFollow'
    <3>1. ASSUME NEW c \in Clients, NEW p, NEW ops, InCall(c, p, ops), "idle" \notin ops
          PROVE  InCall(c, p, ops)'
      <4>1. lock[c] \in Workers /\ lock[c] # w
        BY <2>1, <3>1 DEF InCall
      <4> QED
        BY <2>1, <3>1, <4>1 DEF InCall, CallerInv, CallTypes
    <3> QED
      BY <2>1, <3>1 DEF CallerInv, PhasesFollow, Q!AddPcs, Q!RemovePcs
  <2> QED
    BY <2>2, <2>3, <2>4 DEF CallerInv
<1>5. ASSUME NEW w \in Workers, QueueStep(w)
      PROVE  CallerInv'
  <2>1. UNCHANGED <<pc, client, state, hitCheckoutStep, lock>>
    BY <1>5 DEF QueueStep, clientVars, serverVars, workerVars
  <2>2. Q!ThreadStep(w)
    BY <1>5 DEF QueueStep
  <2>3. ASSUME UNCHANGED <<qarg, phase>>,
               NEW ops \in {Q!AddPcs, Q!RemovePcs, Q!ClearPcs}, NEW p \in ops,
               qpc[w] \in ops, qpc' = [qpc EXCEPT ![w] = p]
        PROVE  CallerInv'
    <3> USE <2>1, <2>3 DEF CallerInv, CallTypes, Q!AddPcs, Q!RemovePcs, Q!ClearPcs
    <3>1. CallTypes'
      OBVIOUS
    <3>2. CallsPlaced'
      <4>1. \A u \in Workers \ {w} : qpc'[u] = qpc[u]
        OBVIOUS
      <4>2. CallPlaced(w)'
        <5>1. /\ qpc'[w] \in Q!AddPcs => qpc[w] \in Q!AddPcs
              /\ qpc'[w] \in Q!RemovePcs => qpc[w] \in Q!RemovePcs
              /\ qpc'[w] \in Q!ClearPcs => qpc[w] \in Q!ClearPcs
              /\ qpc'[w] # "idle"
          OBVIOUS
        <5>2. CallPlaced(w)
          BY DEF CallsPlaced
        <5> QED
          BY <5>1, <5>2 DEF CallPlaced
      <4>3. ASSUME NEW u \in Workers, u # w
            PROVE  CallPlaced(u)'
        BY <4>1, <4>3 DEF CallsPlaced, CallPlaced
      <4> QED
        BY <4>2, <4>3 DEF CallsPlaced, CallPlaced
    <3>3. \A u \in Workers : /\ qpc[u] \in Q!AddPcs => qpc'[u] \in Q!AddPcs
                             /\ qpc[u] \in Q!RemovePcs => qpc'[u] \in Q!RemovePcs
      OBVIOUS
    <3>4. PhasesFollow'
      BY <3>3 DEF PhasesFollow, InCall
    <3> QED
      BY <3>1, <3>2, <3>4
  <2>4. ASSUME NEW new \in {"waiting", "left"},
               qpc[w] \in (IF new = "waiting" THEN Q!AddPcs ELSE Q!RemovePcs),
               qpc' = [qpc EXCEPT ![w] = "idle"], qarg' = [qarg EXCEPT ![w] = NoClient],
               phase' = [phase EXCEPT ![qarg[w]] = new]
        PROVE  CallerInv'
    <3>1. /\ pc[w] = (IF new = "waiting" THEN "adding" ELSE "removing")
          /\ qarg[w] = client[w] /\ client[w] \in Clients /\ lock[client[w]] = w
      BY <2>4 DEF CallerInv, CallsPlaced, CallPlaced, ServesClient, LockHeld, Q!AddPcs, Q!RemovePcs
    <3>2. CallTypes'
      BY <2>4, <3>1 DEF CallerInv, CallTypes
    <3>3. CallsPlaced'
      <4>1. \A u \in Workers \ {w} : qpc'[u] = qpc[u] /\ qarg'[u] = qarg[u]
        BY <2>4 DEF CallerInv, CallTypes
      <4>2. ASSUME NEW u \in Workers, u # w, pc[u] \in {"adding", "removing"}
            PROVE  phase'[client[u]] = phase[client[u]]
        <5>1. client[u] # client[w]
          BY <3>1, <4>2 DEF LockHeld
        <5> QED
          BY <2>4, <3>1, <5>1
      <4>3. qpc'[w] = "idle"
        BY <2>4 DEF CallerInv, CallTypes
      <4>4. pc[w] = "removing" => phase'[client[w]] = "left"
        BY <2>4, <3>1 DEF CallerInv, CallTypes
      <4>5. CallPlaced(w)'
        BY <2>1, <4>3, <4>4 DEF CallPlaced, Q!AddPcs, Q!RemovePcs, Q!ClearPcs
      <4>6. ASSUME NEW u \in Workers, u # w
            PROVE  CallPlaced(u)'
        BY <2>1, <4>1, <4>2, <4>6 DEF CallerInv, CallsPlaced, CallPlaced
      <4> QED
        BY <4>5, <4>6 DEF CallsPlaced, CallPlaced
    <3>4. PhasesFollow'
      <4>1. ASSUME NEW c \in Clients, c # client[w], NEW p, NEW ops, InCall(c, p, ops)
            PROVE  InCall(c, p, ops)'
        BY <2>1, <2>4, <4>1 DEF InCall, CallerInv, CallTypes
      <4>2. CASE new = "waiting"
        <5>1. state[client[w]] = "queued" /\ ~hitCheckoutStep[client[w]]
          BY <3>1, <4>2 DEF GatedIsQueued, FreshUntilCheckout
        <5> QED
          BY <2>1, <2>4, <3>1, <4>1, <4>2, <5>1 DEF CallerInv, PhasesFollow, CallTypes
      <4>3. CASE new = "left"
        <5>1. phase[client[w]] = "leaving" /\ phase'[client[w]] = "left"
          BY <2>4, <3>1, <4>3 DEF CallerInv, CallsPlaced, CallPlaced, CallTypes
        <5> QED
          BY <2>1, <2>4, <3>1, <4>1, <4>3, <5>1 DEF CallerInv, PhasesFollow, CallTypes
      <4> QED
        BY <4>2, <4>3
    <3> QED
      BY <3>2, <3>3, <3>4 DEF CallerInv
  <2>5. ASSUME qpc[w] \in Q!ClearPcs, UNCHANGED phase,
               qpc' = [qpc EXCEPT ![w] = "idle"], qarg' = [qarg EXCEPT ![w] = NoClient]
        PROVE  CallerInv'
    <3> USE <2>1, <2>5 DEF CallerInv, CallTypes, Q!AddPcs, Q!RemovePcs, Q!ClearPcs
    <3>1. CallTypes'
      OBVIOUS
    <3>2. CallsPlaced'
      BY DEF CallsPlaced, CallPlaced
    <3>3. PhasesFollow'
      BY DEF PhasesFollow, InCall
    <3> QED
      BY <3>1, <3>2, <3>3
  <2> QED
    BY <2>2, <2>3, <2>4, <2>5, QueueStepMoves DEF CallerInv
<1>6. CASE \/ MonitorStep \/ NotifyQueue \/ NotifierLoop \/ StopNotifier \/ Interrupt
           \/ (\E c \in Clients : SendRequest(c) \/ Exit(c))
           \/ UNCHANGED vars
  <2>1. UNCHANGED <<qpc, qarg, phase, pc, client, hitCheckoutStep, lock>>
    BY <1>6, OthersCallNothing
  <2>2. \A c \in Clients : state'[c] = state[c] \/ state'[c] = "exited"
    BY <1>6 DEF MonitorStep, NotifyQueue, NotifierLoop, StopNotifier, Interrupt, SendRequest, Exit,
       vars, clientVars
  <2> QED
    BY <2>1, <2>2 DEF CallerInv, CallTypes, CallsPlaced, CallPlaced, PhasesFollow, InCall
<1> QED
  BY <1>1, <1>2, <1>3, <1>4, <1>5, <1>6 DEF Next, WorkerStep

\* The workers that are going to clear the queue: each of them sold the last
\* unit, or the one sold too many.  So there are two Clears at most.
Clearing == {w \in Workers : (pc[w] = "removing" /\ IsLastUnit(w)) \/ qpc[w] = "clear"}
ClearsLeft == IF inventory > 0 THEN 0 ELSE 1 - inventory
ClearsPlanned ==
    /\ clears \in Nat
    /\ IsFiniteSet(Clearing)
    /\ clears + Cardinality(Clearing) <= ClearsLeft

LEMMA ClearsPlannedStep ==
    ASSUME DriverInv, CallerInv, ClearsPlanned, [Next]_vars
    PROVE  ClearsPlanned'
<1> USE DriverAssumption
<1>0. Cardinality(Clearing) \in Nat /\ inventory \in -1 .. Stock
  BY FS_CardinalityType DEF ClearsPlanned, DriverInv, TypeOK
<1>1. CASE UNCHANGED <<clears, inventory>> /\ Clearing' = Clearing
  BY <1>1 DEF ClearsPlanned, ClearsLeft
<1>2. ASSUME NEW w \in Workers, ReceiveRequest(w) \/ LockClient(w) \/ Respond(w)
               \/ CheckCandidate(w) \/ CheckRate(w) \/ SoldOut(w) \/ AfterClear(w) \/ Finished(w)
               \/ Enqueue(w)
      PROVE  UNCHANGED <<clears, inventory>> /\ Clearing' = Clearing
  <2>1. /\ UNCHANGED <<clears, inventory>>
        /\ \E p \in Pcs \ {"removing"} : pc' = [pc EXCEPT ![w] = p]
        /\ pc[w] # "removing"
        /\ \A u \in Workers \ {w} : remInventory'[u] = remInventory[u]
        /\ \A u \in Workers : (qpc'[u] = "clear") <=> (qpc[u] = "clear")
    BY <1>2 DEF ReceiveRequest, LockClient, Respond, CheckCandidate, AtQueuedCase, CheckRate,
       AfterRate, SoldOut, AfterClear, Finished, Enqueue, TellQueue, Q!CallAdd, Q!Call, Goto, Pcs,
       queueVars, DriverInv, TypeOK, CallerInv, CallTypes
  <2> QED
    BY <2>1 DEF Clearing, IsLastUnit, DriverInv, TypeOK
<1>3. ASSUME NEW w \in Workers, TakeInventory(w)
      PROVE  ClearsPlanned'
  <2>1. /\ clears' = clears /\ inventory' = inventory - 1 /\ inventory >= 0
        /\ remInventory' = [remInventory EXCEPT ![w] = inventory - 1]
        /\ pc' = [pc EXCEPT ![w] = "removing"] /\ pc[w] = "inventory"
        /\ qpc' = [qpc EXCEPT ![w] = "remove"] /\ qpc[w] = "idle"
    BY <1>3 DEF TakeInventory, Spent, Q!CallRemove, Q!Call, Goto
  <2>2. w \notin Clearing
    BY <2>1 DEF Clearing
  <2>3. Clearing' = IF inventory - 1 <= 0 THEN Clearing \cup {w} ELSE Clearing
    BY <2>1 DEF Clearing, IsLastUnit, DriverInv, TypeOK, CallerInv, CallTypes
  <2>4. /\ IsFiniteSet(Clearing \cup {w})
        /\ Cardinality(Clearing \cup {w}) = Cardinality(Clearing) + 1
    BY <2>2, FS_AddElement DEF ClearsPlanned
  <2>5. CASE inventory - 1 <= 0
    BY <1>0, <2>1, <2>3, <2>4, <2>5 DEF ClearsPlanned, ClearsLeft
  <2>6. CASE inventory - 1 > 0
    BY <1>0, <2>1, <2>3, <2>6 DEF ClearsPlanned, ClearsLeft
  <2> QED
    BY <1>0, <2>5, <2>6
<1>4. ASSUME NEW w \in Workers, AfterRemove(w)
      PROVE  UNCHANGED <<clears, inventory>> /\ Clearing' = Clearing
  <2>1. /\ UNCHANGED <<clears, inventory, remInventory>> /\ pc[w] = "removing" /\ qpc[w] = "idle"
        /\ \/ /\ IsLastUnit(w) /\ qpc' = [qpc EXCEPT ![w] = "clear"]
              /\ pc' = [pc EXCEPT ![w] = "clearing"]
           \/ ~IsLastUnit(w) /\ qpc' = qpc /\ pc' = [pc EXCEPT ![w] = "respond"]
    BY <1>4 DEF AfterRemove, Q!CallClear, Q!Call, Goto, queueVars
  <2> QED
    BY <2>1 DEF Clearing, IsLastUnit, DriverInv, TypeOK, CallerInv, CallTypes
<1>5. ASSUME NEW w \in Workers, QueueStep(w)
      PROVE  ClearsPlanned'
  <2>1. UNCHANGED <<inventory, remInventory, pc>>
    BY <1>5 DEF QueueStep, serverVars, workerVars
  <2>2. CASE Q!ClearMaps(w)
    <3>1. /\ qpc[w] = "clear" /\ clears' = clears + 1
          /\ qpc' = [qpc EXCEPT ![w] = "clearWorking"]
      BY <2>2 DEF Q!ClearMaps, Q!Goto
    <3>2. pc[w] = "clearing" /\ w \in Clearing
      BY <3>1 DEF CallerInv, CallsPlaced, CallPlaced, Q!ClearPcs, Clearing
    <3>3. Clearing' = Clearing \ {w}
      BY <2>1, <3>1, <3>2 DEF Clearing, IsLastUnit, CallerInv, CallTypes
    <3>4. /\ IsFiniteSet(Clearing \ {w})
          /\ Cardinality(Clearing \ {w}) = Cardinality(Clearing) - 1
      BY <3>2, FS_RemoveElement DEF ClearsPlanned
    <3> QED
      BY <1>0, <2>1, <3>1, <3>3, <3>4 DEF ClearsPlanned, ClearsLeft
  <2>3. CASE ~Q!ClearMaps(w)
    <3>1. /\ clears' = clears /\ qpc[w] # "clear"
          /\ \E p \in {"idle"} \cup Q!AddPcs \cup Q!RemovePcs \cup (Q!ClearPcs \ {"clear"}) :
                qpc' = [qpc EXCEPT ![w] = p]
      <4> USE <2>3 DEF Q!AddPcs, Q!RemovePcs, Q!ClearPcs, Q!Goto, Q!Return
      <4>1. CASE Q!AddStep(w)
        BY <4>1 DEF Q!AddStep, Q!AddBegin, Q!AddRoll, Q!AddIncr, Q!AddMake, Q!AddInsert, Q!AddCookie
      <4>2. CASE Q!RemoveStep(w)
        BY <4>2 DEF Q!RemoveStep, Q!RemoveBegin, Q!RemoveFinish
      <4>3. CASE Q!ClearStep(w)
        BY <4>3 DEF Q!ClearStep, Q!ClearWorkingBin, Q!ClearQueueBin, Q!ClearTotal
      <4> QED
        BY <1>5, <4>1, <4>2, <4>3 DEF QueueStep, Q!ThreadStep
    <3>2. Clearing' = Clearing
      BY <2>1, <3>1 DEF Clearing, IsLastUnit, CallerInv, CallTypes, Q!AddPcs, Q!RemovePcs, Q!ClearPcs
    <3> QED
      BY <1>1, <2>1, <3>1, <3>2
  <2> QED
    BY <2>2, <2>3
<1>6. CASE \/ MonitorStep \/ NotifyQueue \/ NotifierLoop \/ StopNotifier \/ Interrupt
           \/ (\E c \in Clients : SendRequest(c) \/ Exit(c))
           \/ UNCHANGED vars
  <2>1. UNCHANGED <<clears, inventory, qpc, pc, remInventory>>
    BY <1>6, OthersCallNothing
  <2> QED
    BY <1>1, <2>1 DEF Clearing, IsLastUnit
<1> QED
  BY <1>1, <1>2, <1>3, <1>4, <1>5, <1>6 DEF Next, WorkerStep

\* The messages of the tracker report a window that holds the overrun of one
\* client at most, as the queue's arithmetic expects.
MessageFits(m) ==
    m.CheckoutUtil \in 0 .. MaxCheckoutsPerWindow + 1 /\ m.shouldIgnorePollUtil \in BOOLEAN
MessagesFit == MessageFits(feedback) /\ MessageFits(received)

LEMMA MessagesFitStep ==
    ASSUME WindowCounts, MessagesFit, [Next]_vars
    PROVE  MessagesFit'
<1>1. CASE MonitorStep /\ T!RollWindow
  <2> DEFINE n == Cardinality(windowedCheckoutUtil[curWindowIndex])
  <2>1. feedback'.CheckoutUtil = n /\ feedback'.shouldIgnorePollUtil \in BOOLEAN
    BY <1>1, TrackerCardinality
    DEF T!RollWindow, T!Measured, T!CheckoutUtilization, T!ShouldIgnore
  <2>2. n \in 0 .. MaxCheckoutsPerWindow + 1
    <3>1. windowedCheckoutUtil[curWindowIndex] \in SUBSET Clients
      BY DEF WindowCounts
    <3>2. n \in Nat
      BY <3>1, DriverAssumption, FS_Subset, FS_CardinalityType
    <3> QED
      BY <3>2, DriverAssumption DEF WindowCounts
  <2>3. received' = received
    BY <1>1 DEF T!RollWindow, T!notifyVars
  <2> QED
    BY <2>1, <2>2, <2>3 DEF MessagesFit, MessageFits
<1>2. CASE MonitorStep /\ T!EmitFeedback
  <2>1. MessageFits(T!NoFeedback)
    BY DriverAssumption DEF MessageFits, T!NoFeedback
  <2>2. feedback' = T!NoFeedback /\ received' \in {feedback, received}
    BY <1>2 DEF T!EmitFeedback, T!notifyVars
  <2> QED
    BY <2>1, <2>2 DEF MessagesFit, MessageFits
<1>3. CASE NotifierLoop
  <2>1. MessageFits(T!NoFeedback)
    BY DriverAssumption DEF MessageFits, T!NoFeedback
  <2>2. received' = T!NoFeedback /\ feedback' = feedback
    BY <1>3 DEF NotifierLoop, T!NotifierLoop, T!monitorVars
  <2> QED
    BY <2>1, <2>2 DEF MessagesFit, MessageFits
<1>4. \/ UNCHANGED <<feedback, received>> \/ NotifierLoop
      \/ (MonitorStep /\ T!RollWindow) \/ (MonitorStep /\ T!EmitFeedback)
  BY DEF Next, WorkerStep, ReceiveRequest, LockClient, Respond, Enqueue, CheckCandidate, CheckRate,
     T!ShouldProceed, TakeInventory, SoldOut, AfterRemove, AfterClear, CancelContext, Finished,
     QueueStep, MonitorStep, NotifyQueue, StopNotifier, SendRequest, Exit, Interrupt, vars,
     trackerVars, T!StopMonitor, T!StopNotifier, T!Cancel, T!monitorVars, T!notifyVars
<1> QED
  BY <1>1, <1>2, <1>3, <1>4 DEF MessagesFit, MessageFits

\* The gate and what a feedback has read of it are int64 values.
GateType == workingBin \in Q!Int64 /\ fbLocal.bin \in Q!Int64

LEMMA GateTypeStep ==
    ASSUME GateType, [Next]_vars
    PROVE  GateType'
<1> USE DriverAssumption
<1>1. 1 \in Q!Int64
  BY DEF Q!Int64
<1>2. CASE NotifyQueue /\ Q!AdjustWorkingBin
  <2>1. ASSUME NEW x \in Q!Int64, NEW y \in Q!Int64
        PROVE  Q!Adjusted(x, y) \in Q!Int64
    <3>1. \A n \in -2 * MaxInt64 - 2 .. 2 * MaxInt64 + 2 : Q!Wrap(n) \in Q!Int64
      BY DEF Q!Wrap, Q!Int64
    <3>2. /\ x + y + 2 \in -2 * MaxInt64 - 2 .. 2 * MaxInt64 + 2
          /\ x + 1 \in -2 * MaxInt64 - 2 .. 2 * MaxInt64 + 2
      BY <2>1 DEF Q!Int64
    <3> QED
      BY <2>1, <3>1, <3>2 DEF Q!Adjusted
  <2>2. /\ fbLocal' = fbLocal
        /\ \E x, y \in {fbLocal.bin, workingBin} : workingBin' = Q!Adjusted(x, y)
    BY <1>2 DEF Q!AdjustWorkingBin
  <2> QED
    BY <2>1, <2>2 DEF GateType
<1>3. CASE NotifyQueue /\ Q!ReceiveTrackerFeedback(received)
  BY <1>3 DEF Q!ReceiveTrackerFeedback, Q!feedVars, GateType
<1>4. CASE NotifierLoop
  BY <1>1, <1>4 DEF NotifierLoop, Q!FeedbackReturn, Q!NoFbLocal, queueVars, GateType
<1>5. ASSUME NEW w \in Workers, QueueStep(w)
      PROVE  GateType'
  <2>1. workingBin' \in {workingBin, 1} /\ fbLocal' = fbLocal
    BY <1>5 DEF QueueStep, Q!ThreadStep, Q!AddStep, Q!AddBegin, Q!AddRoll, Q!AddIncr, Q!AddMake,
       Q!AddInsert, Q!AddCookie, Q!RemoveStep, Q!RemoveBegin, Q!RemoveFinish, Q!ClearStep,
       Q!ClearMaps, Q!ClearWorkingBin, Q!ClearQueueBin, Q!ClearTotal, Q!feedVars
  <2> QED
    BY <1>1, <2>1 DEF GateType
<1>6. \/ UNCHANGED <<workingBin, fbLocal>> \/ NotifyQueue \/ NotifierLoop
      \/ \E w \in Workers : QueueStep(w)
  BY DEF Next, WorkerStep, ReceiveRequest, LockClient, Respond, Enqueue, TellQueue, Q!CallAdd,
     CheckCandidate, CheckRate, TakeInventory, Q!CallRemove, SoldOut, AfterRemove, Q!CallClear,
     Q!Call, Q!feedVars, AfterClear, Finished, MonitorStep, StopNotifier, SendRequest, Exit,
     Interrupt, vars, queueVars
<1> QED
  BY <1>2, <1>3, <1>4, <1>5, <1>6 DEF NotifyQueue, GateType

\* Everything a caller has to know for the queue's specification.
QueueInv == CallerInv /\ ClearsPlanned /\ MessagesFit /\ GateType

\* Every step of the throttle is a step of the queue's specification or
\* changes nothing of the queue.
LEMMA StepCallsQueue ==
    ASSUME DriverInv, QueueInv, [Next]_vars
    PROVE  [Q!Next]_(Q!queueVars)
<1> USE DriverAssumption DEF QueueInv
<1>1. ASSUME UNCHANGED queueVars
      PROVE  UNCHANGED Q!queueVars
  BY <1>1 DEF queueVars, Q!queueVars, Q!mapVars, Q!muVars, Q!feedVars, Q!threadVars
<1>2. ASSUME fault = "none", NEW w \in Workers, Q!Callers(w) \/ Q!ThreadStep(w)
      PROVE  Q!Next
  BY <1>2 DEF Q!Next
<1>3. ASSUME NEW w \in Workers, Enqueue(w), fault = "none"
      PROVE  Q!Next
  <2>1. client[w] \in Clients /\ phase[client[w]] = "new" /\ Q!CallAdd(w, client[w])
    BY <1>3 DEF Enqueue, TellQueue, DriverInv, ServesClient, CallerInv, PhasesFollow
  <2>2. Q!Callers(w)
    BY <2>1 DEF Q!Callers
  <2> QED
    BY <1>2, <1>3, <2>2
<1>4. ASSUME NEW w \in Workers, TakeInventory(w), fault = "none"
      PROVE  Q!Next
  <2>1. /\ pc[w] = "inventory" /\ client[w] \in Clients /\ Q!CallRemove(w, client[w])
        /\ state[client[w]] = "queued" /\ lock[client[w]] = w
    BY <1>4 DEF TakeInventory, DriverInv, ServesClient, GatedIsQueued, LockHeld
  <2>2. phase[client[w]] = "waiting"
    BY <2>1 DEF CallerInv, PhasesFollow, InCall
  <2>3. Q!Callers(w)
    BY <2>1, <2>2 DEF Q!Callers
  <2> QED
    BY <1>2, <1>4, <2>3
<1>5. ASSUME NEW w \in Workers, AfterRemove(w), fault = "none"
      PROVE  [Q!Next]_(Q!queueVars)
  <2>1. CASE ~IsLastUnit(w)
    BY <1>1, <1>5, <2>1 DEF AfterRemove
  <2>2. CASE IsLastUnit(w)
    <3>1. Q!CallClear(w) /\ pc[w] = "removing" /\ qpc[w] = "idle"
      BY <1>5, <2>2 DEF AfterRemove
    <3>2. client[w] \in Clients /\ phase[client[w]] = "left"
      BY <3>1 DEF DriverInv, ServesClient, CallerInv, CallsPlaced, CallPlaced
    <3>3. clears + Cardinality({u \in Workers : qpc[u] = "clear"}) < MaxClears
      <4> DEFINE begun == {u \in Workers : qpc[u] = "clear"}
      <4>1. w \in Clearing /\ begun \subseteq Clearing \ {w}
        BY <2>2, <3>1 DEF Clearing
      <4>2. /\ IsFiniteSet(Clearing \ {w}) /\ Cardinality(Clearing) \in Nat
            /\ Cardinality(Clearing \ {w}) = Cardinality(Clearing) - 1
        BY <4>1, FS_RemoveElement, FS_CardinalityType DEF ClearsPlanned
      <4>3. begun \in SUBSET (Clearing \ {w})
        BY <4>1
      <4> HIDE DEF begun
      <4>4. /\ Cardinality(begun) \in Nat
            /\ Cardinality(begun) <= Cardinality(Clearing \ {w})
        BY <4>2, <4>3, FS_Subset, FS_CardinalityType
      <4>5. ClearsLeft <= 2
        BY DEF ClearsLeft, DriverInv, TypeOK
      <4>6. clears + Cardinality(begun) < 2
        BY <4>2, <4>4, <4>5 DEF ClearsPlanned, ClearsLeft, DriverInv, TypeOK
      <4> QED
        BY <4>6 DEF begun, MaxClears
    <3>4. Q!Cardinality({u \in Workers : qpc[u] = "clear"})
             = Cardinality({u \in Workers : qpc[u] = "clear"})
      BY DEF Q!Cardinality, Cardinality
    <3>5. Q!Callers(w)
      BY <3>1, <3>2, <3>3, <3>4 DEF Q!Callers
    <3> QED
      BY <1>2, <1>5, <3>5
  <2> QED
    BY <2>1, <2>2
<1>6. ASSUME NEW w \in Workers, QueueStep(w), fault = "none"
      PROVE  Q!Next
  BY <1>2, <1>6 DEF QueueStep
<1>7. ASSUME NotifyQueue, fault = "none"
      PROVE  Q!Next
  <2>1. CASE Q!AdjustWorkingBin
    BY <1>7, <2>1 DEF Q!Next, Q!FeedbackStep
  <2>2. CASE Q!ReceiveTrackerFeedback(received)
    <3> DEFINE fb == [CheckoutUtil |-> received.CheckoutUtil,
                      shouldIgnorePollUtil |-> received.shouldIgnorePollUtil]
    <3>1. fb \in Q!Feedbacks
      BY DEF Q!Feedbacks, MessagesFit, MessageFits
    <3>2. fb.CheckoutUtil = received.CheckoutUtil
          /\ fb.shouldIgnorePollUtil = received.shouldIgnorePollUtil
      OBVIOUS
    <3>3. Q!ReceiveTrackerFeedback(fb)
      BY <2>2, <3>2 DEF Q!ReceiveTrackerFeedback
    <3>4. workingBin \in -(MaxInt64 + 1) .. MaxInt64 + 1
      BY DEF GateType, Q!Int64
    <3> HIDE DEF fb
    <3> QED
      BY <1>7, <3>1, <3>3, <3>4 DEF Q!Next, Q!FeedbackStep
  <2> QED
    BY <1>7, <2>1, <2>2 DEF NotifyQueue
<1>8. ASSUME NotifierLoop, fault = "none"
      PROVE  [Q!Next]_(Q!queueVars)
  <2>1. CASE received = T!NoFeedback
    BY <1>1, <1>8, <2>1 DEF NotifierLoop
  <2>2. CASE received # T!NoFeedback
    BY <1>8, <2>2 DEF NotifierLoop, Q!Next, Q!FeedbackStep
  <2> QED
    BY <2>1, <2>2
<1>9. ASSUME \/ \E w \in Workers : \/ ReceiveRequest(w) \/ LockClient(w) \/ Respond(w)
                                   \/ CheckCandidate(w) \/ CheckRate(w) \/ SoldOut(w)
                                   \/ AfterClear(w) \/ Finished(w)
             \/ MonitorStep \/ StopNotifier \/ Interrupt
             \/ (\E c \in Clients : SendRequest(c) \/ Exit(c))
             \/ UNCHANGED vars
      PROVE  UNCHANGED queueVars
  BY <1>9 DEF ReceiveRequest, LockClient, Respond, CheckCandidate, CheckRate, SoldOut, AfterClear,
     Finished, MonitorStep, StopNotifier, Interrupt, SendRequest, Exit, vars
<1> QED
  BY <1>1, <1>3, <1>4, <1>5, <1>6, <1>7, <1>8, <1>9 DEF Next, WorkerStep

\* The facts a caller has to know hold in every reachable state.
LEMMA QueueInvHolds == Spec => []QueueInv
<1>1. Init => QueueInv
  <2> SUFFICES ASSUME Init PROVE QueueInv
    OBVIOUS
  <2> USE DriverAssumption DEF Init, Q!Init, T!Init
  <2>1. CallerInv
    BY DEF CallerInv, CallTypes, CallsPlaced, CallPlaced, PhasesFollow, Q!AddPcs, Q!RemovePcs,
       Q!ClearPcs
  <2>2. Clearing = {}
    BY DEF Clearing
  <2>3. ClearsPlanned
    BY <2>2, FS_EmptySet DEF ClearsPlanned, ClearsLeft
  <2>4. MessagesFit
    BY DEF MessagesFit, MessageFits, T!NoFeedback
  <2>5. GateType
    BY DEF GateType, Q!Int64, Q!NoFbLocal
  <2> QED
    BY <2>1, <2>3, <2>4, <2>5 DEF QueueInv
<1>2. DriverInv /\ RateInv /\ QueueInv /\ [Next]_vars => QueueInv'
  BY CallerInvStep, ClearsPlannedStep, MessagesFitStep, GateTypeStep DEF QueueInv, RateInv
<1> QED
  BY <1>1, <1>2, DriverRateInvariant, DriverInvariant, PTL DEF Spec

\* However workers, notifier and clients interleave, they use the queue as its
\* specification asks, so that every behaviour of the throttle is one of the
\* queue and what is proved of the queue holds here.
THEOREM DriverImplementsQueue == Spec => ImplementsQueue
<1>1. Init => Q!Init
  BY DEF Init
<1> QED
  BY <1>1, StepCallsQueue, DriverInvariant, QueueInvHolds, PTL DEF Spec, ImplementsQueue, Q!Spec

-----------------------------------------------------------------------------
(***************************************************************************)
(* What is proved of the queue for any callers, carried over.              *)
(***************************************************************************)
QP == INSTANCE CappedBinsQueue_proofs WITH
        Threads <- Workers, NoThread <- NoWorker,
        CheckoutsPerWindow <- MaxCheckoutsPerWindow,
        WorkingBinBound <- MaxInt64 + 1

LEMMA QueueParameters == QP!QueueAssumption
<1>1. BinSize \in Nat \ {0}
  BY DriverAssumption DEF BinSize
<1>2. QP!IsFiniteSet(Clients)
  BY DriverAssumption DEF IsFiniteSet, QP!IsFiniteSet
<1> QED
  BY <1>1, <1>2, DriverAssumption DEF QP!QueueAssumption, MaxClears

\* The specification that the proofs are about is the one that the driver
\* instantiates.
LEMMA SameQueue == Q!Spec => QP!Spec
<1>1. Q!Init => QP!Init
  BY DEF Q!Init, QP!Init, Q!MapNo, QP!MapNo, Q!EmptyMap, QP!EmptyMap, Q!NoFbLocal, QP!NoFbLocal
<1>2. [Q!Next]_(Q!queueVars) => [QP!Next]_(QP!queueVars)
  <2> SUFFICES ASSUME [Q!Next]_(Q!queueVars)
               PROVE  [QP!Next]_(QP!queueVars)
    OBVIOUS
  <2>1. CASE UNCHANGED Q!queueVars
    BY <2>1 DEF Q!queueVars, QP!queueVars, Q!mapVars, QP!mapVars, Q!muVars, QP!muVars, Q!feedVars,
       QP!feedVars, Q!threadVars, QP!threadVars
  <2>2. ASSUME NEW t \in Workers, Q!Callers(t)
        PROVE  QP!Callers(t)
    BY <2>2 DEF Q!Callers, QP!Callers, Q!CallAdd, QP!CallAdd, Q!CallRemove, QP!CallRemove,
       Q!CallClear, QP!CallClear, Q!Call, QP!Call, Q!mapVars, QP!mapVars, Q!muVars, QP!muVars,
       Q!feedVars, QP!feedVars, Q!Cardinality, QP!Cardinality
  <2>3. ASSUME NEW t \in Workers, Q!AddStep(t)
        PROVE  QP!AddStep(t)
    BY <2>3 DEF Q!AddStep, QP!AddStep, Q!AddBegin, QP!AddBegin, Q!AddRoll, QP!AddRoll, Q!AddIncr,
       QP!AddIncr, Q!AddMake, QP!AddMake, Q!AddInsert, QP!AddInsert, Q!AddCookie, QP!AddCookie,
       Q!MakeBin, QP!MakeBin, Q!Put, QP!Put, Q!BinIsFull, QP!BinIsFull, Q!BinLen, QP!BinLen,
       Q!CookieValue, QP!CookieValue, Q!Unlock, QP!Unlock, Q!Return, QP!Return, Q!Goto, QP!Goto,
       Q!mapVars, QP!mapVars, Q!muVars, QP!muVars, Q!feedVars, QP!feedVars,
       Q!Cardinality, QP!Cardinality
  <2>4. ASSUME NEW t \in Workers, Q!RemoveStep(t)
        PROVE  QP!RemoveStep(t)
    BY <2>4 DEF Q!RemoveStep, QP!RemoveStep, Q!RemoveBegin, QP!RemoveBegin, Q!RemoveFinish,
       QP!RemoveFinish, Q!Dequeues, QP!Dequeues, Q!OneDequeued, QP!OneDequeued, Q!OneLess,
       QP!OneLess, Q!Put, QP!Put, Q!Unlock, QP!Unlock, Q!Return, QP!Return, Q!Goto, QP!Goto,
       Q!mapVars, QP!mapVars, Q!feedVars, QP!feedVars
  <2>5. ASSUME NEW t \in Workers, Q!ClearStep(t)
        PROVE  QP!ClearStep(t)
    BY <2>5 DEF Q!ClearStep, QP!ClearStep, Q!ClearMaps, QP!ClearMaps, Q!ClearWorkingBin,
       QP!ClearWorkingBin, Q!ClearQueueBin, QP!ClearQueueBin, Q!ClearTotal, QP!ClearTotal,
       Q!EmptyMap, QP!EmptyMap, Q!Return, QP!Return, Q!Goto, QP!Goto, Q!mapVars, QP!mapVars,
       Q!muVars, QP!muVars, Q!feedVars, QP!feedVars
  <2>6. ASSUME Q!FeedbackStep
        PROVE  QP!FeedbackStep
    BY <2>6 DEF Q!FeedbackStep, QP!FeedbackStep, Q!Feedbacks, QP!Feedbacks,
       Q!ReceiveTrackerFeedback, QP!ReceiveTrackerFeedback, Q!AdjustWorkingBin, QP!AdjustWorkingBin,
       Q!FeedbackReturn, QP!FeedbackReturn, Q!Adjusted, QP!Adjusted, Q!Wrap, QP!Wrap, Q!UtilIsLow,
       QP!UtilIsLow, Q!UtilIsMiddle, QP!UtilIsMiddle, Q!Dequeues, QP!Dequeues, Q!NoFbLocal,
       QP!NoFbLocal, Q!mapVars, QP!mapVars, Q!muVars, QP!muVars, Q!feedVars, QP!feedVars,
       Q!threadVars, QP!threadVars
  <2> QED
    BY <2>1, <2>2, <2>3, <2>4, <2>5, <2>6 DEF Q!Next, QP!Next, Q!ThreadStep, QP!ThreadStep
<1> QED
  BY <1>1, <1>2, PTL DEF Q!Spec, QP!Spec

\* The queue and the throttle states agree whenever no worker is busy with the
\* client, and until a Clear the queue's total counts the clients in it.
THEOREM DriverQueueMatchesState == Spec => []QueueMatchesState
<1>1. DriverInv /\ QueueInv /\ QP!CountsAccurate => QueueMatchesState
  <2> SUFFICES ASSUME DriverInv, QueueInv, QP!CountsAccurate
               PROVE  QueueMatchesState
    OBVIOUS
  <2>1. ASSUME NEW c \in Clients, lock[c] = NoWorker
        PROVE  /\ state[c] = "queued" => phase[c] = "waiting"
               /\ hitCheckoutStep[c] => phase[c] = "left"
    BY <2>1, DriverAssumption DEF QueueInv, CallerInv, PhasesFollow, InCall
  <2>2. clears = 0 =>
          totalQueuedClients = Cardinality({c \in Clients : phase[c] \in {"waiting", "leaving"}})
    BY DEF QP!CountsAccurate, QP!Cardinality, Cardinality
  <2> QED
    BY <2>1, <2>2 DEF QueueMatchesState
<1>2. QP!Spec => []QP!CountsAccurate
  BY QueueParameters, QP!QueueCountsAccurate
<1> QED
  BY <1>1, <1>2, DriverImplementsQueue, SameQueue, DriverInvariant, QueueInvHolds, PTL
  DEF ImplementsQueue

\* As long as a unit is left, no worker's store into a bin ends the process: the
\* Clear it would take has not begun.
THEOREM DriverLivesWhileStockLeft == Spec => [](inventory > 0 => fault # "nilBin")
<1>1. QueueKeptWhileStockLeft /\ QP!NilBinOnlyAfterClear /\ QueueInv
      => (inventory > 0 => fault # "nilBin")
  BY DEF QueueKeptWhileStockLeft, QP!NilBinOnlyAfterClear, QueueInv, ClearsPlanned
<1>2. QP!Spec => []QP!NilBinOnlyAfterClear
  BY QueueParameters, QP!QueueNilBinOnlyAfterClear
<1> QED
  BY <1>1, <1>2, DriverImplementsQueue, SameQueue, DriverKeepsQueue, QueueInvHolds, PTL
  DEF ImplementsQueue

\* Until a Clear, the workers that are past the candidate check and the clients
\* that reached checkout are behind the gate.
GatedAreOpen == clears = 0 =>
    /\ \A w \in Workers : pc[w] \in {"rate", "inventory"} => QP!BinIsOpen(client[w])
    /\ \A c \in Sold : QP!BinIsOpen(c)

\* Clears are only ever counted up.
LEMMA ClearsGrow ==
    ASSUME DriverInv, QueueInv, [Next]_vars
    PROVE  clears' = 0 => clears = 0
<1>1. [Q!Next]_(Q!queueVars)
  BY StepCallsQueue
<1>2. clears' \in {clears, clears + 1}
  BY <1>1 DEF Q!Next, Q!Callers, Q!CallAdd, Q!CallRemove, Q!CallClear, Q!Call, Q!ThreadStep,
     Q!AddStep, Q!AddBegin, Q!AddRoll, Q!AddIncr, Q!AddMake, Q!AddInsert, Q!AddCookie,
     Q!RemoveStep, Q!RemoveBegin, Q!RemoveFinish, Q!ClearStep, Q!ClearMaps, Q!ClearWorkingBin,
     Q!ClearQueueBin, Q!ClearTotal, Q!FeedbackStep, Q!ReceiveTrackerFeedback,
     Q!AdjustWorkingBin, Q!FeedbackReturn, Q!queueVars
<1> QED
  BY <1>2 DEF QueueInv, ClearsPlanned

LEMMA GatedAreOpenStep ==
    ASSUME DriverInv, QueueInv, QP!ServedHaveCookies, GatedAreOpen, [Next]_vars,
           [clears' = 0 => \A c \in Clients : QP!BinIsOpen(c) => QP!BinIsOpen(c)']_(QP!queueVars)
    PROVE  GatedAreOpen'
<1> SUFFICES ASSUME clears' = 0
             PROVE  /\ \A w \in Workers : pc'[w] \in {"rate", "inventory"} =>
                          QP!BinIsOpen(client[w])' /\ client'[w] \in Clients
                    /\ \A c \in Sold' : QP!BinIsOpen(c)'
  BY DEF GatedAreOpen, QP!BinIsOpen, QP!IsCandidateToProceed, QP!getUserBin
<1> USE DEF DriverInv, TypeOK
<1>1. clears = 0
  BY ClearsGrow
<1>2. \A c \in Clients : QP!BinIsOpen(c) => QP!BinIsOpen(c)'
  <2>1. CASE UNCHANGED QP!queueVars
    BY <2>1 DEF QP!queueVars, QP!BinIsOpen, QP!IsCandidateToProceed, QP!getUserBin
  <2> QED
    BY <2>1
<1>3. \A w \in Workers : pc[w] \in {"rate", "inventory"} =>
         client[w] \in Clients /\ QP!BinIsOpen(client[w])
  BY <1>1 DEF GatedAreOpen, ServesClient
<1>4. \A c \in Sold : c \in Clients /\ QP!BinIsOpen(c)
  BY <1>1 DEF GatedAreOpen, Sold
<1>5. ASSUME NEW w \in Workers, CheckCandidate(w), IsCandidate(w)
      PROVE  client[w] \in Clients /\ QP!BinIsOpen(client[w])
  <2>1. client[w] \in Clients /\ state[client[w]] = "queued" /\ lock[client[w]] = w
    BY <1>5 DEF CheckCandidate, AtQueuedCase, ServesClient, LockHeld, GatedIsQueued
  <2>2. phase[client[w]] = "waiting"
    BY <1>5, <2>1 DEF CheckCandidate, AtQueuedCase, QueueInv, CallerInv, PhasesFollow, InCall,
       Q!AddPcs
  <2> QED
    BY <1>5, <2>1, <2>2 DEF IsCandidate, Q!IsCandidateToProceed, Q!getUserBin, QP!BinIsOpen,
       QP!IsCandidateToProceed, QP!getUserBin, QP!ServedHaveCookies
<1>6. \A w \in Workers : pc'[w] \in {"rate", "inventory"} =>
         /\ client'[w] = client[w]
         /\ pc[w] \in {"rate", "inventory"} \/ (CheckCandidate(w) /\ IsCandidate(w))
  <2>1. ASSUME NEW w \in Workers, CheckCandidate(w)
        PROVE  client' = client /\ pc' = [pc EXCEPT ![w] = IF IsCandidate(w) THEN "rate" ELSE "respond"]
    BY <2>1 DEF CheckCandidate, Goto
  <2>2. ASSUME NEW w \in Workers, CheckRate(w)
        PROVE  /\ client' = client /\ pc[w] = "rate"
               /\ \A u \in Workers \ {w} : pc'[u] = pc[u]
    BY <2>2 DEF CheckRate, Goto
  <2>3. ASSUME NEW w \in Workers, ReceiveRequest(w) \/ LockClient(w) \/ Respond(w) \/ Enqueue(w)
                 \/ TakeInventory(w) \/ SoldOut(w) \/ AfterRemove(w) \/ AfterClear(w)
                 \/ Finished(w) \/ QueueStep(w)
        PROVE  \A u \in Workers : pc'[u] \in {"rate", "inventory"} =>
                  pc'[u] = pc[u] /\ client'[u] = client[u]
    BY <2>3 DEF ReceiveRequest, LockClient, Respond, Enqueue, TakeInventory, SoldOut, AfterRemove,
       AfterClear, Finished, QueueStep, Goto, serverVars, workerVars
  <2>4. CASE \/ MonitorStep \/ NotifyQueue \/ NotifierLoop \/ StopNotifier \/ Interrupt
             \/ (\E c \in Clients : SendRequest(c) \/ Exit(c))
             \/ UNCHANGED vars
    BY <2>4, OthersCallNothing
  <2> QED
    BY <2>1, <2>2, <2>3, <2>4 DEF Next, WorkerStep
<1>7. \A w \in Workers : pc'[w] \in {"rate", "inventory"} =>
         client'[w] = client[w] /\ client[w] \in Clients /\ QP!BinIsOpen(client[w])
  BY <1>3, <1>5, <1>6
<1>8. \A w \in Workers : pc'[w] \in {"rate", "inventory"} =>
         QP!BinIsOpen(client[w])' /\ client'[w] \in Clients
  <2> SUFFICES ASSUME NEW w \in Workers, pc'[w] \in {"rate", "inventory"}
               PROVE  QP!BinIsOpen(client[w])' /\ client'[w] \in Clients
    OBVIOUS
  <2>1. client'[w] = client[w] /\ client[w] \in Clients /\ QP!BinIsOpen(client[w])
    BY <1>7
  <2>2. cookie'[client[w]] # 0 /\ cookie'[client[w]] <= workingBin'
    BY <1>2, <2>1 DEF QP!BinIsOpen, QP!IsCandidateToProceed, QP!getUserBin
  <2> QED
    BY <2>1, <2>2 DEF QP!BinIsOpen, QP!IsCandidateToProceed, QP!getUserBin
<1>9. \A c \in Sold' : c \in Clients /\ QP!BinIsOpen(c)
  <2>1. ASSUME NEW w \in Workers, TakeInventory(w)
        PROVE  pc[w] = "inventory" /\ Sold' = Sold \cup {client[w]}
    BY <2>1 DEF TakeInventory, Sold, ServesClient
  <2>2. ASSUME NEW w \in Workers, ReceiveRequest(w) \/ LockClient(w) \/ Respond(w) \/ Enqueue(w)
                 \/ CheckCandidate(w) \/ CheckRate(w) \/ SoldOut(w) \/ AfterRemove(w)
                 \/ AfterClear(w) \/ Finished(w) \/ QueueStep(w)
        PROVE  hitCheckoutStep' = hitCheckoutStep
    BY <2>2 DEF ReceiveRequest, LockClient, Respond, Enqueue, CheckCandidate, CheckRate, SoldOut,
       AfterRemove, AfterClear, Finished, QueueStep, clientVars
  <2>3. ASSUME \/ MonitorStep \/ NotifyQueue \/ NotifierLoop \/ StopNotifier \/ Interrupt
               \/ (\E c \in Clients : SendRequest(c) \/ Exit(c))
               \/ UNCHANGED vars
        PROVE  hitCheckoutStep' = hitCheckoutStep
    BY <2>3, OthersCallNothing
  <2>4. Sold' = Sold \/ \E w \in Workers : pc[w] = "inventory" /\ Sold' = Sold \cup {client[w]}
    BY <2>1, <2>2, <2>3 DEF Next, WorkerStep, Sold
  <2> QED
    BY <1>3, <1>4, <2>4
<1> QED
  BY <1>2, <1>8, <1>9

\* Until the queue is cleared, a client that reached checkout is in a bin the
\* gate has opened, as long as no store of workingBin overflows int64: although
\* the gate is read and moved without a lock, it never moves back between
\* the check of a client and its sale, nor afterwards.
THEOREM DriverSoldFromOpenBins == Spec /\ []QP!GateNotFull => []SoldOnlyFromOpenBins
<1>1. Init => GatedAreOpen
  BY DEF Init, GatedAreOpen, Sold
<1>2. GatedAreOpen => SoldOnlyFromOpenBins
  BY DEF GatedAreOpen, SoldOnlyFromOpenBins, QP!BinIsOpen, QP!IsCandidateToProceed, QP!getUserBin,
     Q!IsCandidateToProceed, Q!getUserBin
<1>3. QP!Spec => []QP!ServedHaveCookies
  BY QueueParameters, QP!QueueServedHaveCookies
<1>4. QP!Spec /\ []QP!GateNotFull => QP!OpenBinsStayOpen
  BY QueueParameters, QP!QueueOpenBinsStayOpen
<1> QED
  BY <1>1, <1>2, <1>3, <1>4, GatedAreOpenStep, DriverImplementsQueue, SameQueue, DriverInvariant,
     QueueInvHolds, PTL DEF Spec, ImplementsQueue, QP!OpenBinsStayOpen

\* First come, first served, up to the size of a bin: who reaches checkout has
\* not left behind the gate anybody who had a cookie before it got its own.  It
\* holds until a Clear, however workers race for the queue's mutex, the rate
\* tracker and the stock.
THEOREM DriverFirstComeFirstServed ==
    ASSUME NEW early \in Clients, NEW late \in Clients
    PROVE  Spec /\ []QP!GateNotFull =>
             [](QP!QueuedBefore(early, late) =>
                  [](clears = 0 /\ late \in Sold => QP!IsCandidateToProceed(early)))
<1>1. SoldOnlyFromOpenBins => (clears = 0 /\ late \in Sold => clears = 0 /\ QP!BinIsOpen(late))
  BY DEF SoldOnlyFromOpenBins, QP!BinIsOpen, QP!IsCandidateToProceed, QP!getUserBin,
     Q!IsCandidateToProceed, Q!getUserBin
<1>2. QP!Spec => [](QP!QueuedBefore(early, late) =>
                      [](clears = 0 /\ QP!BinIsOpen(late) => QP!IsCandidateToProceed(early)))
  BY QueueParameters, QP!QueueFirstComeFirstConsidered
<1> QED
  BY <1>1, <1>2, DriverSoldFromOpenBins, DriverImplementsQueue, SameQueue, PTL DEF ImplementsQueue

\* How far a client can be overtaken at most: it shares its bin, inside of which
\* the order of arrival is not kept, with fewer than BinSize others.
THEOREM DriverBinsSharedByFew ==
    Spec => [](clears = 0 => \A b \in Nat \ {0} :
                  Cardinality({c \in Clients : cookie[c] = b}) <= BinSize)
<1> DEFINE Few == clears = 0 => \A b \in Nat \ {0} :
               Cardinality({c \in Clients : cookie[c] = b}) <= BinSize
<1>1. QP!BinsPacked /\ QP!TypeOK => Few
  <2> SUFFICES ASSUME QP!BinsPacked, QP!TypeOK, clears = 0, NEW b \in Nat \ {0}
               PROVE  Cardinality({c \in Clients : cookie[c] = b}) <= BinSize
    OBVIOUS
  <2> DEFINE sharing == {c \in Clients : cookie[c] = b}
  <2>1. BinSize \in Nat
    BY DriverAssumption DEF BinSize
  <2>2. CASE sharing = {}
    BY <2>1, <2>2, FS_EmptySet
  <2>3. CASE sharing # {}
    <3>1. b \in DOMAIN maps[0] /\ sharing \subseteq maps[0][b]
      BY <2>3 DEF QP!BinsPacked
    <3>2. IsFiniteSet(maps[0][b])
      <4>1. maps[0][b] \in SUBSET Clients
        BY <3>1 DEF QP!TypeOK, QP!MapNo
      <4> QED
        BY <4>1, FS_Subset, DriverAssumption
    <3>3. Cardinality(maps[0][b]) <= BinSize
      BY <3>1 DEF QP!BinsPacked, QP!Cardinality, Cardinality
    <3>4. Cardinality(sharing) <= Cardinality(maps[0][b])
      BY <3>1, <3>2, FS_Subset
    <3> QED
      BY <2>1, <3>1, <3>2, <3>3, <3>4, FS_Subset, FS_CardinalityType
  <2> QED
    BY <2>2, <2>3
<1>2. QP!Spec => []QP!BinsPacked /\ []QP!TypeOK
  BY QueueParameters, QP!QueueBinsPacked, QP!QueueTypeCorrect
<1> QED
  BY <1>1, <1>2, DriverImplementsQueue, SameQueue, PTL DEF ImplementsQueue

(***************************************************************************)
(* The gate at most doubles, and two more, with each feedback, so that the *)
(* windows that were closed tell how far it can be.  growth bounds it: no  *)
(* such function into int64 exists for more than some sixty windows.       *)
(***************************************************************************)
GrowthFits(growth) ==
    /\ growth \in [0 .. MaxWindow -> 1 .. MaxInt64]
    /\ \A n \in 0 .. MaxWindow - 1 : 2 * growth[n] + 2 <= growth[n + 1]

\* The closed windows whose feedback is lost or has been handled: neither on
\* its way to the notifier nor with it.
Handled == curWindowIndex - (IF monitor = "emit" THEN 1 ELSE 0)
                          - (IF received # T!NoFeedback /\ fpc # "done" THEN 1 ELSE 0)

OneAtATime ==
    /\ notifier # "busy" => received = T!NoFeedback
    /\ received = T!NoFeedback => fpc = "idle"

GateReach(growth) ==
    /\ OneAtATime
    /\ Handled \in Nat
    /\ clears = 0 => /\ workingBin \in 1 .. growth[Handled]
                     /\ fpc = "adjust" => fbLocal.bin \in 1 .. growth[Handled]

LEMMA GateReachStep ==
    ASSUME NEW growth, GrowthFits(growth), DriverInv, WindowCounts, QueueInv, GateReach(growth),
           curWindowIndex' \in 0 .. MaxWindow, [Next]_vars
    PROVE  GateReach(growth)'
<1> USE DriverAssumption
<1>0. /\ curWindowIndex \in 0 .. MaxWindow /\ Handled \in 0 .. curWindowIndex
      /\ \A n \in 0 .. MaxWindow : growth[n] \in 1 .. MaxInt64
      /\ \A n \in 0 .. MaxWindow - 1 : 2 * growth[n] + 2 <= growth[n + 1]
  BY DEF WindowCounts, GrowthFits, GateReach, Handled
<1>1. clears' = 0 => clears = 0
  BY ClearsGrow
<1>2. ASSUME UNCHANGED <<curWindowIndex, monitor, notifier, received, fpc, fbLocal>>,
             workingBin' \in {workingBin, 1}
      PROVE  GateReach(growth)'
  BY <1>0, <1>1, <1>2 DEF GateReach, OneAtATime, Handled
\* The feedback of one more window is handled or lost, and the gate stays.
<1>3. ASSUME OneAtATime', Handled' = Handled + 1, workingBin' = workingBin, fpc' # "adjust",
             Handled + 1 <= MaxWindow
      PROVE  GateReach(growth)'
  <2>1. growth[Handled] \in Nat /\ growth[Handled + 1] \in Nat
        /\ growth[Handled] <= growth[Handled + 1]
    BY <1>0, <1>3
  <2> QED
    BY <1>0, <1>1, <1>3, <2>1 DEF GateReach
<1>4. CASE NotifyQueue
  <2> USE DEF T!NoFeedback
  <2>1. UNCHANGED <<curWindowIndex, monitor, notifier, received>> /\ received # T!NoFeedback
        /\ notifier = "busy"
    BY <1>4 DEF NotifyQueue, trackerVars
  <2>2. CASE Q!ReceiveTrackerFeedback(received)
    <3>1. fpc = "idle" /\ workingBin' = workingBin /\ clears' = clears
      BY <2>2 DEF Q!ReceiveTrackerFeedback
    <3>2. \/ fpc' = "done"
          \/ fpc' = "adjust" /\ fbLocal'.bin = workingBin
          \/ UNCHANGED <<fpc, fbLocal>>
      BY <2>2 DEF Q!ReceiveTrackerFeedback, Q!feedVars
    <3>3. CASE fpc' = "done"
      BY <1>0, <1>3, <2>1, <3>1, <3>3 DEF Handled, OneAtATime, GateReach
    <3>4. CASE fpc' = "adjust" /\ fbLocal'.bin = workingBin
      BY <1>0, <1>1, <2>1, <3>1, <3>4 DEF Handled, OneAtATime, GateReach
    <3>5. CASE UNCHANGED <<fpc, fbLocal>>
      BY <1>2, <2>1, <3>1, <3>5
    <3> QED
      BY <3>2, <3>3, <3>4, <3>5
  <2>3. CASE Q!AdjustWorkingBin
    <3>1. fpc = "adjust" /\ fpc' = "done" /\ clears' = clears
          /\ \E x, y \in {fbLocal.bin, workingBin} : workingBin' = Q!Adjusted(x, y)
      BY <2>3 DEF Q!AdjustWorkingBin
    <3>2. Handled' = Handled + 1 /\ Handled + 1 <= curWindowIndex
      BY <1>0, <2>1, <3>1 DEF Handled
    <3>3. ASSUME clears = 0
          PROVE  workingBin' \in 1 .. growth[Handled + 1]
      <4>1. PICK x \in 1 .. growth[Handled], y \in 1 .. growth[Handled] :
               workingBin' = Q!Adjusted(x, y)
        BY <3>1, <3>3 DEF GateReach
      <4>2. /\ growth[Handled] \in 1 .. MaxInt64 /\ growth[Handled + 1] \in 1 .. MaxInt64
            /\ 2 * growth[Handled] + 2 <= growth[Handled + 1]
        BY <1>0, <3>2
      <4> DEFINE g == growth[Handled]
                 h == growth[Handled + 1]
      <4> HIDE DEF g, h
      <4>3. g \in 1 .. MaxInt64 /\ h \in 1 .. MaxInt64 /\ 2 * g + 2 <= h
            /\ x \in 1 .. g /\ y \in 1 .. g
        BY <4>1, <4>2 DEF g, h
      <4>4. Q!Wrap(x + y + 2) = x + y + 2 /\ Q!Wrap(x + 1) = x + 1
        BY <4>3 DEF Q!Wrap
      <4>5. Q!Adjusted(x, y) \in {x + y + 2, x + 1, x}
        BY <4>4 DEF Q!Adjusted
      <4>6. Q!Adjusted(x, y) \in 1 .. h
        BY <4>3, <4>5
      <4> QED
        BY <4>1, <4>6 DEF h
    <3>4. OneAtATime'
      BY <2>1, <3>1 DEF OneAtATime, GateReach
    <3> QED
      BY <1>0, <3>1, <3>2, <3>3, <3>4 DEF GateReach
  <2> QED
    BY <1>4, <2>2, <2>3 DEF NotifyQueue
<1>5. CASE NotifierLoop
  <2>1. /\ UNCHANGED <<curWindowIndex, monitor, workingBin, clears>>
        /\ received' = T!NoFeedback /\ fpc' = "idle"
        /\ received # T!NoFeedback => fpc = "done"
    BY <1>5 DEF NotifierLoop, T!NotifierLoop, T!windowVars, T!monitorVars, Q!FeedbackReturn,
       queueVars, GateReach, OneAtATime
  <2>2. Handled' = Handled /\ OneAtATime'
    BY <1>0, <2>1 DEF Handled, OneAtATime
  <2> QED
    BY <2>1, <2>2 DEF GateReach
<1>6. CASE MonitorStep
  <2>1. UNCHANGED <<fpc, fbLocal, workingBin, clears>>
    BY <1>6 DEF MonitorStep, queueVars
  <2>2. CASE T!RollWindow
    <3>1. Handled' = Handled
      BY <1>0, <2>1, <2>2 DEF T!RollWindow, T!NextWindow, T!notifyVars, Handled
    <3>2. OneAtATime'
      BY <2>1, <2>2 DEF T!RollWindow, T!notifyVars, GateReach, OneAtATime
    <3> QED
      BY <2>1, <3>1, <3>2 DEF GateReach
  <2>3. CASE T!EmitFeedback
    <3>1. /\ monitor = "emit" /\ monitor' = "sleep" /\ curWindowIndex' = curWindowIndex
          /\ \/ notifier = "select" /\ notifier' = "busy"
             \/ UNCHANGED <<notifier, received>>
      BY <2>3 DEF T!EmitFeedback, T!AfterEmit, T!notifyVars, T!windowVars
    <3>2. OneAtATime'
      BY <2>1, <3>1 DEF GateReach, OneAtATime
    <3>3. Handled' \in {Handled, Handled + 1} /\ Handled' <= curWindowIndex
      BY <1>0, <2>1, <3>1 DEF GateReach, OneAtATime, Handled
    <3>4. Handled + 1 <= curWindowIndex
      BY <1>0, <3>1 DEF Handled
    <3>5. growth[Handled] \in Nat /\ growth[Handled + 1] \in Nat
          /\ growth[Handled] <= growth[Handled + 1]
      BY <1>0, <3>4
    <3> QED
      BY <1>0, <2>1, <3>2, <3>3, <3>5 DEF GateReach
  <2>4. CASE T!StopMonitor
    BY <1>2, <2>1, <2>4, <1>0 DEF T!StopMonitor, T!windowVars, T!notifyVars, GateReach, OneAtATime,
       Handled
  <2> QED
    BY <1>6, <2>2, <2>3, <2>4 DEF MonitorStep
<1>7. CASE StopNotifier
  <2>1. /\ UNCHANGED <<curWindowIndex, monitor, received, fpc, fbLocal, workingBin, clears>>
        /\ received = T!NoFeedback
    BY <1>7 DEF StopNotifier, T!StopNotifier, T!windowVars, T!monitorVars, queueVars, GateReach,
       OneAtATime
  <2> QED
    BY <2>1 DEF GateReach, OneAtATime, Handled
<1>8. ASSUME NEW w \in Workers, QueueStep(w)
      PROVE  GateReach(growth)'
  <2>1. workingBin' \in {workingBin, 1} /\ UNCHANGED <<fbLocal, fpc>>
    BY <1>8 DEF QueueStep, Q!ThreadStep, Q!AddStep, Q!AddBegin, Q!AddRoll, Q!AddIncr, Q!AddMake,
       Q!AddInsert, Q!AddCookie, Q!RemoveStep, Q!RemoveBegin, Q!RemoveFinish, Q!ClearStep,
       Q!ClearMaps, Q!ClearWorkingBin, Q!ClearQueueBin, Q!ClearTotal, Q!feedVars
  <2> QED
    BY <1>2, <1>8, <2>1 DEF QueueStep, trackerVars
<1>9. \/ UNCHANGED <<curWindowIndex, monitor, notifier, received, fpc, fbLocal, workingBin>>
      \/ MonitorStep \/ NotifyQueue \/ NotifierLoop \/ StopNotifier
      \/ \E w \in Workers : QueueStep(w)
  BY DEF Next, WorkerStep, ReceiveRequest, LockClient, Respond, Enqueue, TellQueue, Q!CallAdd,
     CheckCandidate, CheckRate, T!ShouldProceed, TakeInventory, Q!CallRemove, SoldOut, AfterRemove,
     Q!CallClear, Q!Call, Q!feedVars, AfterClear, CancelContext, Finished, SendRequest, Exit,
     Interrupt, T!Cancel, T!windowVars, T!monitorVars, T!notifyVars, trackerVars, vars, queueVars
<1> QED
  BY <1>2, <1>4, <1>5, <1>6, <1>7, <1>8, <1>9

\* The same without a condition on the behaviour: with as many windows as the
\* gate can grow through within int64.
THEOREM DriverSoldFromOpenBinsInTime ==
    ASSUME NEW growth, GrowthFits(growth)
    PROVE  Spec => []SoldOnlyFromOpenBins
<1>1. Init => GateReach(growth)
  <2> SUFFICES ASSUME Init PROVE GateReach(growth)
    OBVIOUS
  <2>1. /\ curWindowIndex = 0 /\ monitor = "sleep" /\ received = T!NoFeedback /\ fpc = "idle"
        /\ workingBin = 1
    BY DEF Init, T!Init, Q!Init
  <2>2. growth[0] \in 1 .. MaxInt64
    BY DriverAssumption DEF GrowthFits
  <2>3. Handled = 0
    BY <2>1 DEF Handled
  <2> QED
    BY <2>1, <2>2, <2>3, DriverAssumption DEF GateReach, OneAtATime
<1>2. DriverInv /\ RateInv /\ RateInv' /\ QueueInv /\ GateReach(growth) /\ [Next]_vars
      => GateReach(growth)'
  BY GateReachStep DEF RateInv, WindowCounts
<1>3. RateInv /\ GateReach(growth) => QP!GateNotFull
  <2> SUFFICES ASSUME RateInv, GateReach(growth), clears = 0, fpc = "adjust"
               PROVE  2 * workingBin + 2 <= MaxInt64
    BY DEF QP!GateNotFull
  <2>1. Handled \in 0 .. MaxWindow - 1
    BY DriverAssumption DEF RateInv, WindowCounts, GateReach, OneAtATime, Handled
  <2>2. /\ workingBin \in 1 .. growth[Handled] /\ growth[Handled] \in 1 .. MaxInt64
        /\ growth[Handled + 1] \in 1 .. MaxInt64 /\ 2 * growth[Handled] + 2 <= growth[Handled + 1]
    BY <2>1, DriverAssumption DEF GateReach, GrowthFits
  <2> QED
    BY <2>2, DriverAssumption
<1> QED
  BY <1>1, <1>2, <1>3, DriverInvariant, DriverRateInvariant, QueueInvHolds,
     DriverSoldFromOpenBins, PTL DEF Spec

-----------------------------------------------------------------------------
(***************************************************************************)
(* The throttle implements the rate tracker's specification, too: workers  *)
(* ask it only about clients, and a context that is cancelled twice stays  *)
(* cancelled.  So what is proved of the tracker holds here.                *)
(***************************************************************************)
TP == INSTANCE FixedWindowTracker_proofs

LEMMA TrackerParameters == TP!TrackerAssumption
<1>1. TP!IsFiniteSet(Clients)
  BY DriverAssumption DEF IsFiniteSet, TP!IsFiniteSet
<1> QED
  BY <1>1, DriverAssumption DEF TP!TrackerAssumption

LEMMA StepDrivesTracker ==
    ASSUME DriverInv, [Next]_vars
    PROVE  [TP!Next]_(TP!vars)
<1> USE DEF TP!vars, TP!windowVars, TP!monitorVars, TP!notifyVars, trackerVars
<1>1. ASSUME NEW w \in Workers, CheckRate(w)
      PROVE  TP!Next
  <2>1. PICK canPass \in BOOLEAN : T!ShouldProceed(client[w], canPass)
    BY <1>1 DEF CheckRate
  <2>2. TP!ShouldProceed(client[w], canPass) /\ client[w] \in Clients
    BY <1>1, <2>1 DEF CheckRate, DriverInv, ServesClient, T!ShouldProceed, TP!ShouldProceed,
       T!CanPass, TP!CanPass, T!CheckoutUtilization, TP!CheckoutUtilization, T!Cardinality,
       TP!Cardinality, T!OpenWindow, TP!OpenWindow, T!monitorVars, T!notifyVars
  <2> QED
    BY <2>2 DEF TP!Next
<1>2. CASE MonitorStep
  <2>1. CASE T!RollWindow
    BY <2>1 DEF T!RollWindow, TP!RollWindow, T!PollingUtilization, TP!PollingUtilization,
       T!CheckoutUtilization, TP!CheckoutUtilization, T!Cardinality, TP!Cardinality, T!Measured,
       TP!Measured, T!NextWindow, TP!NextWindow, T!NextLowCount, TP!NextLowCount, T!IsLow, TP!IsLow,
       T!ShouldIgnore, TP!ShouldIgnore, T!notifyVars, TP!Next
  <2>2. CASE T!EmitFeedback
    BY <2>2 DEF T!EmitFeedback, TP!EmitFeedback, T!AfterEmit, TP!AfterEmit, T!NoFeedback,
       TP!NoFeedback, T!windowVars, T!notifyVars, TP!Next
  <2>3. CASE T!StopMonitor
    BY <2>3 DEF T!StopMonitor, TP!StopMonitor, T!windowVars, T!notifyVars, TP!Next
  <2> QED
    BY <1>2, <2>1, <2>2, <2>3 DEF MonitorStep
<1>3. CASE NotifierLoop
  BY <1>3 DEF NotifierLoop, T!NotifierLoop, TP!NotifierLoop, T!NoFeedback, TP!NoFeedback,
     T!windowVars, T!monitorVars, TP!Next
<1>4. CASE StopNotifier
  BY <1>4 DEF StopNotifier, T!StopNotifier, TP!StopNotifier, T!windowVars, T!monitorVars, TP!Next
<1>5. CASE T!Cancel
  <2>1. TP!Cancel
    BY <1>5 DEF T!Cancel, TP!Cancel, T!windowVars, T!monitorVars, T!notifyVars
  <2>2. CASE ctxDone
    BY <2>1, <2>2 DEF TP!Cancel, DriverInv
  <2> QED
    BY <2>1, <2>2 DEF TP!Next
<1>6. \/ UNCHANGED trackerVars
      \/ MonitorStep \/ NotifierLoop \/ StopNotifier \/ T!Cancel
      \/ \E w \in Workers : CheckRate(w)
  BY DEF Next, WorkerStep, ReceiveRequest, LockClient, Respond, Enqueue, CheckCandidate,
     TakeInventory, SoldOut, AfterRemove, AfterClear, CancelContext, Finished, QueueStep,
     NotifyQueue, SendRequest, Exit, Interrupt, vars
<1> QED
  BY <1>1, <1>2, <1>3, <1>4, <1>5, <1>6

\* Every behaviour of the throttle is one of the rate tracker, in which clients
\* poll, windows roll over, feedback is handed over or lost, and the context is
\* cancelled.
THEOREM DriverImplementsTracker == Spec => TP!Spec
<1>1. Init => TP!Init
  BY DEF Init, T!Init, TP!Init, T!NoFeedback, TP!NoFeedback, T!Windows, TP!Windows
<1> QED
  BY <1>1, StepDrivesTracker, DriverInvariant, PTL DEF Spec, TP!Spec

\* What the queue works with came from the tracker.
ToldByTracker ==
    /\ notifier # "busy" => received = TP!NoFeedback
    /\ fpc = "adjust" => received # TP!NoFeedback /\ fbLocal.util = received.CheckoutUtil

LEMMA ToldByTrackerStep ==
    ASSUME ToldByTracker, [Next]_vars
    PROVE  ToldByTracker'
<1> USE DEF ToldByTracker, TP!NoFeedback, T!NoFeedback
<1>1. CASE NotifyQueue
  <2>1. received # TP!NoFeedback /\ UNCHANGED <<notifier, received>>
    BY <1>1 DEF NotifyQueue, trackerVars
  <2>2. CASE Q!ReceiveTrackerFeedback(received)
    BY <2>1, <2>2 DEF Q!ReceiveTrackerFeedback, Q!feedVars
  <2>3. CASE Q!AdjustWorkingBin
    BY <2>1, <2>3 DEF Q!AdjustWorkingBin
  <2> QED
    BY <1>1, <2>2, <2>3 DEF NotifyQueue
<1>2. CASE NotifierLoop
  BY <1>2 DEF NotifierLoop, T!NotifierLoop, Q!FeedbackReturn, queueVars
<1>3. CASE MonitorStep
  <2>1. UNCHANGED <<fpc, fbLocal>>
    BY <1>3 DEF MonitorStep, queueVars
  <2>2. CASE T!EmitFeedback
    BY <2>1, <2>2 DEF T!EmitFeedback, T!notifyVars
  <2>3. CASE T!RollWindow \/ T!StopMonitor
    BY <2>1, <2>3 DEF T!RollWindow, T!StopMonitor, T!notifyVars
  <2> QED
    BY <1>3, <2>2, <2>3 DEF MonitorStep
<1>4. CASE StopNotifier
  BY <1>4 DEF StopNotifier, T!StopNotifier, queueVars
<1>5. \/ UNCHANGED <<notifier, received, fpc, fbLocal>>
      \/ MonitorStep \/ NotifyQueue \/ NotifierLoop \/ StopNotifier
  <2>1. ASSUME NEW w \in Workers, QueueStep(w)
        PROVE  UNCHANGED <<notifier, received, fpc, fbLocal>>
    BY <2>1 DEF QueueStep, trackerVars, Q!ThreadStep, Q!AddStep, Q!AddBegin, Q!AddRoll, Q!AddIncr,
       Q!AddMake, Q!AddInsert, Q!AddCookie, Q!RemoveStep, Q!RemoveBegin, Q!RemoveFinish,
       Q!ClearStep, Q!ClearMaps, Q!ClearWorkingBin, Q!ClearQueueBin, Q!ClearTotal, Q!feedVars
  <2> QED
    BY <2>1 DEF Next, WorkerStep, ReceiveRequest, LockClient, Respond, Enqueue, TellQueue,
       Q!CallAdd, CheckCandidate, CheckRate, T!ShouldProceed, TakeInventory, Q!CallRemove, SoldOut,
       AfterRemove, Q!CallClear, Q!Call, Q!feedVars, AfterClear, CancelContext, Finished,
       SendRequest, Exit, Interrupt, T!Cancel, T!notifyVars, trackerVars, vars, queueVars
<1> QED
  BY <1>1, <1>2, <1>3, <1>4, <1>5

\* From the rate check to the gate: the utilization by which the queue moves
\* workingBin is the exact final count of a window that was closed before, although
\* the window is measured, its feedback sent and the gate moved in three steps of two
\* goroutines, and polls and roll-overs go on between them.
THEOREM DriverGateFollowsWindows ==
    Spec => [](fpc = "adjust" =>
                  /\ received.window \in 0 .. curWindowIndex - 1
                  /\ fbLocal.util = Cardinality(windowedCheckoutUtil[received.window]))
<1> DEFINE Follows == fpc = "adjust" =>
               /\ received.window \in 0 .. curWindowIndex - 1
               /\ fbLocal.util = Cardinality(windowedCheckoutUtil[received.window])
<1>1. Init => ToldByTracker
  BY DEF Init, T!Init, Q!Init, ToldByTracker, T!NoFeedback, TP!NoFeedback
<1>2. TP!TypeOK /\ TP!FeedbackIsExact /\ ToldByTracker => Follows
  <2> SUFFICES ASSUME TP!TypeOK, TP!FeedbackIsExact, ToldByTracker, fpc = "adjust"
               PROVE  /\ received.window \in 0 .. curWindowIndex - 1
                      /\ fbLocal.util = Cardinality(windowedCheckoutUtil[received.window])
    OBVIOUS
  <2>1. received # TP!NoFeedback /\ fbLocal.util = received.CheckoutUtil
    BY DEF ToldByTracker
  <2>2. received \in TP!Feedback /\ curWindowIndex \in TP!Windows
    BY <2>1 DEF TP!TypeOK
  <2>3. TP!ReportsClosedWindow(received)
    BY <2>1 DEF TP!FeedbackIsExact
  <2>4. received.window \in 0 .. MaxWindow /\ curWindowIndex \in 0 .. MaxWindow
    BY <2>2 DEF TP!Feedback, TP!Windows
  <2>5. received.window < curWindowIndex
        /\ received.CheckoutUtil = TP!Cardinality(windowedCheckoutUtil[received.window])
    BY <2>3 DEF TP!ReportsClosedWindow, TP!CheckoutUtilization
  <2>6. \A S : TP!Cardinality(S) = Cardinality(S)
    BY DEF TP!Cardinality, Cardinality
  <2> QED
    BY <2>1, <2>4, <2>5, <2>6, DriverAssumption
<1>3. TP!Spec => []TP!TypeOK /\ []TP!FeedbackIsExact
  BY TrackerParameters, TP!TypeCorrect, TP!FeedbackExact
<1> QED
  BY <1>1, <1>2, <1>3, ToldByTrackerStep, DriverImplementsTracker, PTL DEF Spec
=============================================================================
