----------------------- MODULE PollDrivenCappedBinsQueue -----------------------
(***************************************************************************)
(* The waiting queue of internal/throttle/queue/impl/                      *)
(* polldriven_capped_bins_queue.go.                                        *)
(*                                                                         *)
(* Arriving clients are put into bins; a client is a candidate when its    *)
(* bin is at most workingBin.  Candidates' polls are counted per second,   *)
(* and a goroutine opens the next bin when the weighted polling            *)
(* utilization is low enough.                                              *)
(*                                                                         *)
(* Only Add holds the lock; Remove, Clear and the goroutine do not, so a   *)
(* ++ or -- is a read and a store, and the store of one may undo that of   *)
(* another.  The counter of polls has a lock of its own.                   *)
(*                                                                         *)
(* A utilization is a number of polls per second, before the division by   *)
(* checkoutsPerSecond and rounded up, so that it is 0 or at most           *)
(* TargetPolls exactly when the Go value is 0 or at most the target.  The  *)
(* weighted mean of the last count and the old utilization lies between    *)
(* the two; the model takes any number there, whatever                     *)
(* latestPollingUtilWeight is.                                             *)
(***************************************************************************)
EXTENDS Integers, FiniteSets

CONSTANTS
    Clients,
    Threads,        \* goroutines that call the queue
    NoClient, NoThread,
    BinSize,        \* binSize
    TargetPolls,    \* maxTargetPollingUtil * checkoutsPerSecond
    MaxPolls,       \* bound: polls counted in one second
    MaxBin,         \* bound: the last bin that is opened
    MaxClears       \* bound: calls of Clear

ASSUME PollDrivenAssumption ==
    /\ IsFiniteSet(Clients) /\ NoClient \notin Clients /\ NoThread \notin Threads
    /\ BinSize \in Nat /\ TargetPolls \in Nat /\ MaxPolls \in Nat \ {0}
    /\ MaxBin \in Nat /\ MaxClears \in Nat

VARIABLES
    queueBin, queueBinPos,  \* bin and position of the last client added
    workingBin,             \* the last bin whose clients may proceed
    totalClients,
    pollingUtil,
    curSecondCount, prevSecondCount,    \* pollsPerSecondTracker
    lock,                   \* the thread that holds the lock, or NoThread
    cookie,                 \* cookie[c]: polldrivenUserBinId, -1 when it is not set
    pc, arg,                \* where a thread is in its call, and for which client
    localBin, localPos,     \* operands of queueBin++ and queueBinPos++ in Add
    localTotal,             \* localTotal[t]: operand of totalClients++ or --
    opening, localWorking,  \* the goroutine is about to store workingBin + 1
    clears, phase           \* history: Clear calls begun; life of each client

addVars == <<lock, localBin, localPos>>
pollVars == <<curSecondCount, prevSecondCount>>
gateVars == <<pollingUtil, opening, localWorking>>
histVars == <<clears, phase>>
vars == <<queueBin, queueBinPos, workingBin, totalClients, pollVars, gateVars, addVars,
          cookie, pc, arg, localTotal, histVars>>

Pcs == {"idle", "add", "place", "cookie", "remove", "removing",
        "clear", "clearPos", "clearWorking"}
BinNo == 0 .. Cardinality(Clients)

TypeOK ==
    /\ queueBin \in BinNo /\ queueBinPos \in 0 .. BinSize
    /\ workingBin \in 0 .. MaxBin
    /\ totalClients \in Int
    /\ pollingUtil \in 0 .. MaxPolls
    /\ curSecondCount \in 0 .. MaxPolls /\ prevSecondCount \in 0 .. MaxPolls
    /\ lock \in Threads \cup {NoThread}
    /\ cookie \in [Clients -> BinNo \cup {-1}]
    /\ pc \in [Threads -> Pcs] /\ arg \in [Threads -> Clients \cup {NoClient}]
    /\ localBin \in BinNo /\ localPos \in 0 .. BinSize
    /\ localTotal \in [Threads -> Int]
    /\ opening \in BOOLEAN /\ localWorking \in 0 .. MaxBin
    /\ clears \in 0 .. MaxClears
    /\ phase \in [Clients -> {"new", "adding", "waiting", "leaving", "left"}]

Init ==
    /\ queueBin = 0 /\ queueBinPos = 0 /\ workingBin = 0 /\ totalClients = 0
    /\ pollingUtil = 0 /\ curSecondCount = 0 /\ prevSecondCount = 0
    /\ lock = NoThread
    /\ cookie = [c \in Clients |-> -1]
    /\ pc = [t \in Threads |-> "idle"] /\ arg = [t \in Threads |-> NoClient]
    /\ localBin = 0 /\ localPos = 0 /\ localTotal = [t \in Threads |-> 0]
    /\ opening = FALSE /\ localWorking = 0
    /\ clears = 0
    /\ phase = [c \in Clients |-> "new"]

Goto(t, p) == pc' = [pc EXCEPT ![t] = p] /\ UNCHANGED arg
\* A call returns; the operand is dead.
Return(t) ==
    /\ pc' = [pc EXCEPT ![t] = "idle"] /\ arg' = [arg EXCEPT ![t] = NoClient]
    /\ localTotal' = [localTotal EXCEPT ![t] = 0]

-----------------------------------------------------------------------------
(* Add *)

AddBegin(t) ==
    /\ pc[t] = "add" /\ lock = NoThread
    /\ lock' = t /\ localPos' = queueBinPos /\ localBin' = queueBin
    /\ Goto(t, "place")
    /\ UNCHANGED <<queueBin, queueBinPos, workingBin, totalClients, pollVars, gateVars,
                   cookie, localTotal, histVars>>

BinHasRoom_OffByOne(pos) == pos <= BinSize
BinHasRoom(pos) == pos < BinSize

\* The next position of the bin, or position 0 of the next bin.
AddPlace(t) ==
    /\ pc[t] = "place"
    /\ IF BinHasRoom(localPos)
         THEN /\ \E p \in {localPos, queueBinPos} : queueBinPos' = p + 1
              /\ UNCHANGED queueBin
         ELSE /\ queueBinPos' = 0
              /\ \E b \in {localBin, queueBin} : queueBin' = b + 1
    /\ localTotal' = [localTotal EXCEPT ![t] = totalClients]
    /\ Goto(t, "cookie")
    /\ UNCHANGED <<workingBin, totalClients, pollVars, gateVars, addVars, cookie, histVars>>

AddCookie(t) ==
    /\ pc[t] = "cookie"
    /\ totalClients' = localTotal[t] + 1
    /\ cookie' = [cookie EXCEPT ![arg[t]] = queueBin]
    /\ phase' = [phase EXCEPT ![arg[t]] = "waiting"]
    /\ lock' = NoThread /\ localPos' = 0 /\ localBin' = 0
    /\ Return(t)
    /\ UNCHANGED <<queueBin, queueBinPos, workingBin, pollVars, gateVars, clears>>

(* Remove and Clear, without the lock *)

CallFrame == UNCHANGED <<pollVars, gateVars, addVars, cookie>>

RemoveBegin(t) ==
    /\ pc[t] = "remove"
    /\ localTotal' = [localTotal EXCEPT ![t] = totalClients]
    /\ Goto(t, "removing") /\ CallFrame
    /\ UNCHANGED <<queueBin, queueBinPos, workingBin, totalClients, histVars>>

RemoveFinish(t) ==
    /\ pc[t] = "removing"
    /\ totalClients' = localTotal[t] - 1
    /\ phase' = [phase EXCEPT ![arg[t]] = "left"]
    /\ Return(t) /\ CallFrame
    /\ UNCHANGED <<queueBin, queueBinPos, workingBin, clears>>

ClearQueueBin(t) ==
    /\ pc[t] = "clear"
    /\ queueBin' = 0 /\ clears' = clears + 1
    /\ Goto(t, "clearPos") /\ CallFrame
    /\ UNCHANGED <<queueBinPos, workingBin, totalClients, localTotal, phase>>

ClearQueueBinPos(t) ==
    /\ pc[t] = "clearPos"
    /\ queueBinPos' = 0
    /\ Goto(t, "clearWorking") /\ CallFrame
    /\ UNCHANGED <<queueBin, workingBin, totalClients, localTotal, histVars>>

ClearWorkingBin(t) ==
    /\ pc[t] = "clearWorking"
    /\ workingBin' = 0
    /\ Goto(t, "idle") /\ CallFrame
    /\ UNCHANGED <<queueBin, queueBinPos, totalClients, localTotal, histVars>>

-----------------------------------------------------------------------------
(* Polls *)

getUserBinIdx(c) == IF cookie[c] = -1 THEN 0 ELSE cookie[c]
IsCandidateToProceed(c) == getUserBinIdx(c) <= workingBin

\* A poll in the second of the last counted one, or in a later second.
CountPollingEvent ==
    \/ /\ curSecondCount \in 1 .. MaxPolls - 1
       /\ curSecondCount' = curSecondCount + 1
       /\ UNCHANGED prevSecondCount
    \/ curSecondCount' = 1 /\ prevSecondCount' = curSecondCount

\* A waiting client polls: only a candidate is counted.  Rate tracker and
\* stock decide whether it is then removed.
Poll(t, c) ==
    /\ pc[t] = "idle" /\ phase[c] = "waiting" /\ IsCandidateToProceed(c)
    /\ CountPollingEvent
    /\ \/ UNCHANGED <<pc, arg, phase>>
       \/ /\ pc' = [pc EXCEPT ![t] = "remove"] /\ arg' = [arg EXCEPT ![t] = c]
          /\ phase' = [phase EXCEPT ![c] = "leaving"]
    /\ UNCHANGED <<queueBin, queueBinPos, workingBin, totalClients, gateVars, addVars,
                   cookie, localTotal, clears>>

(* RoutinelyUpdatePollingUtil *)

WeightedUtils(old, latest) ==
    IF old = 0 THEN {latest}
    ELSE IF old <= latest THEN old .. latest ELSE latest .. old

ShouldUpdateWorkingBin_Strict(util) == util < TargetPolls
ShouldUpdateWorkingBin(util) == util <= TargetPolls

\* A new utilization; workingBinUpdateInterval may or may not be over.
UpdatePollingUtil ==
    /\ ~opening
    /\ pollingUtil' \in WeightedUtils(pollingUtil, prevSecondCount)
    /\ UNCHANGED <<opening, localWorking>>
    /\ UNCHANGED <<queueBin, queueBinPos, workingBin, totalClients, pollVars, addVars,
                   cookie, pc, arg, localTotal, histVars>>

BeginOpening ==
    /\ ~opening /\ workingBin < MaxBin
    /\ pollingUtil' \in WeightedUtils(pollingUtil, prevSecondCount)
    /\ ShouldUpdateWorkingBin(pollingUtil')
    /\ opening' = TRUE /\ localWorking' = workingBin
    /\ UNCHANGED <<queueBin, queueBinPos, workingBin, totalClients, pollVars, addVars,
                   cookie, pc, arg, localTotal, histVars>>

OpenNextBin ==
    /\ opening
    /\ \E b \in {localWorking, workingBin} : workingBin' = b + 1
    /\ opening' = FALSE /\ localWorking' = 0
    /\ UNCHANGED <<queueBin, queueBinPos, totalClients, pollVars, pollingUtil, addVars,
                   cookie, pc, arg, localTotal, histVars>>

-----------------------------------------------------------------------------
Call(t, op, c) ==
    /\ pc[t] = "idle"
    /\ pc' = [pc EXCEPT ![t] = op] /\ arg' = [arg EXCEPT ![t] = c]
    /\ UNCHANGED <<queueBin, queueBinPos, workingBin, totalClients, pollVars, gateVars,
                   addVars, cookie, localTotal, clears>>

Callers(t) ==
    \/ \E c \in Clients : /\ phase[c] = "new" /\ Call(t, "add", c)
                          /\ phase' = [phase EXCEPT ![c] = "adding"]
    \/ /\ \E c \in Clients : phase[c] = "left"
       /\ clears + Cardinality({u \in Threads : pc[u] = "clear"}) < MaxClears
       /\ Call(t, "clear", NoClient) /\ UNCHANGED phase

ThreadStep(t) ==
    \/ AddBegin(t) \/ AddPlace(t) \/ AddCookie(t)
    \/ RemoveBegin(t) \/ RemoveFinish(t)
    \/ ClearQueueBin(t) \/ ClearQueueBinPos(t) \/ ClearWorkingBin(t)

Next ==
    \/ \E t \in Threads : Callers(t) \/ ThreadStep(t) \/ \E c \in Clients : Poll(t, c)
    \/ UpdatePollingUtil \/ BeginOpening \/ OpenNextBin

Spec == Init /\ [][Next]_vars

\* The goroutine is woken up by its timer again and again, and from time to
\* time workingBinUpdateInterval is over when it is.
FairSpec ==
    /\ Spec
    /\ WF_vars(UpdatePollingUtil) /\ WF_vars(BeginOpening) /\ WF_vars(OpenNextBin)

-----------------------------------------------------------------------------
(***************************************************************************)
(* Properties                                                              *)
(***************************************************************************)

Members(b) == {c \in Clients : cookie[c] = b}

\* The first bin starts at position 1, every later one at position 0.
BinCapacity(b) == IF b = 0 THEN BinSize ELSE BinSize + 1

\* Until a Clear, the first bin takes binSize clients and each later one takes
\* one more; no bin is opened before the one in front of it is full, whatever
\* the order in which concurrent Adds got the lock.
BinsFilledInTurn ==
    clears = 0 => \A b \in BinNo :
        /\ Cardinality(Members(b)) <= BinCapacity(b)
        /\ b < queueBin => Cardinality(Members(b)) = BinCapacity(b)

\* Only a polling utilization above the target keeps a client waiting: as long
\* as it is not exceeded, the gate reaches everybody (unless the queue is
\* cleared), also when clients that were let in stop polling.
GateMovesOn ==
    \A c \in Clients : phase[c] = "waiting"
        ~> (IsCandidateToProceed(c) \/ clears > 0 \/ pollingUtil > TargetPolls)
=============================================================================
