--------------------------- MODULE IntervalBinsQueue ---------------------------
(***************************************************************************)
(* The waiting queue of internal/throttle/queue/impl/                      *)
(* interval_bins_queue.go.                                                 *)
(*                                                                         *)
(* A timer goroutine opens a new bin in every interval, another one moves  *)
(* maxConsideredBinIdx up to it; a client is a candidate when its bin,     *)
(* kept in its throttle cookie, is considered.  Add, Remove and the second *)
(* goroutine hold binMutex; the timer goroutine and Clear do not, so a ++  *)
(* or -- that races with one of their stores may use either value.         *)
(*                                                                         *)
(* Time is left out: an interval or a grace period ends at any moment.     *)
(* binCounts has the value 0 for a bin that is missing in the Go map; an   *)
(* Add that a Clear overtakes counts into the discarded map, which is as   *)
(* if it had counted just before the Clear.                                *)
(***************************************************************************)
EXTENDS Integers, FiniteSets, FiniteSetsExt

CONSTANTS
    Clients,
    Threads,        \* goroutines that call Add, Remove and Clear
    NoClient,
    MaxBin,         \* bound: the last bin the timer opens
    MaxClears       \* bound: calls of Clear

ASSUME IntervalAssumption ==
    /\ IsFiniteSet(Clients) /\ NoClient \notin Clients
    /\ {"free", "sweeper"} \cap Threads = {}
    /\ MaxBin \in Nat /\ MaxClears \in Nat

VARIABLES
    binCounts,              \* clients counted per bin
    latestBinIdx,           \* the bin of arriving clients
    maxConsideredBinIdx,    \* the last bin whose clients may proceed
    totalQueuedClients,
    binMutex,               \* a thread, "sweeper" or "free"
    cookie,                 \* cookie[c]: intervalUserBinId, -1 when it is not set
    pc, arg,                \* where a thread is in its call, and for which client
    localTotal,             \* operand of totalQueuedClients++ or --
    timer, localLatest,     \* RoutinelyUpdateLatestBin; operand of latestBinIdx++
    localMax,               \* operand of maxConsideredBinIdx++
    ctxDone,
    clears, phase           \* history: Clear calls begun; life of each client

callVars == <<pc, arg, localTotal>>
timerVars == <<timer, localLatest>>
histVars == <<clears, phase>>
vars == <<binCounts, latestBinIdx, maxConsideredBinIdx, totalQueuedClients, binMutex,
          cookie, callVars, timerVars, localMax, ctxDone, histVars>>

Bins == 0 .. MaxBin
Pcs == {"idle", "add", "cookie", "remove", "removing",
        "clear", "clearLatest", "clearMax", "clearTotal"}

TypeOK ==
    /\ binCounts \in [Bins -> Int]
    /\ latestBinIdx \in Bins /\ maxConsideredBinIdx \in Bins
    /\ totalQueuedClients \in Int
    /\ binMutex \in Threads \cup {"free", "sweeper"}
    /\ cookie \in [Clients -> Bins \cup {-1}]
    /\ pc \in [Threads -> Pcs] /\ arg \in [Threads -> Clients \cup {NoClient}]
    /\ localTotal \in Int
    /\ timer \in {"sleep", "store", "stopped"} /\ localLatest \in Bins
    /\ localMax \in Bins
    /\ ctxDone \in BOOLEAN
    /\ clears \in 0 .. MaxClears
    /\ phase \in [Clients -> {"new", "adding", "waiting", "leaving", "left"}]

Init ==
    /\ binCounts = [b \in Bins |-> 0]
    /\ latestBinIdx = 0 /\ maxConsideredBinIdx = 0
    /\ totalQueuedClients = 0
    /\ binMutex = "free"
    /\ cookie = [c \in Clients |-> -1]
    /\ pc = [t \in Threads |-> "idle"] /\ arg = [t \in Threads |-> NoClient]
    /\ localTotal = 0
    /\ timer = "sleep" /\ localLatest = 0
    /\ localMax = 0
    /\ ctxDone = FALSE
    /\ clears = 0
    /\ phase = [c \in Clients |-> "new"]

Goto(t, p) == pc' = [pc EXCEPT ![t] = p] /\ UNCHANGED arg
\* Return and release the mutex; the operand is dead.
Unlock(t) ==
    /\ pc' = [pc EXCEPT ![t] = "idle"] /\ arg' = [arg EXCEPT ![t] = NoClient]
    /\ binMutex' = "free" /\ localTotal' = 0

-----------------------------------------------------------------------------
(* Add *)

\* Lock, and count the client in the latest bin.
AddCount(t) ==
    /\ pc[t] = "add" /\ binMutex = "free"
    /\ binMutex' = t
    /\ binCounts' = [binCounts EXCEPT ![latestBinIdx] = @ + 1]
    /\ localTotal' = totalQueuedClients
    /\ Goto(t, "cookie")
    /\ UNCHANGED <<latestBinIdx, maxConsideredBinIdx, totalQueuedClients, cookie,
                   timerVars, localMax, ctxDone, histVars>>

\* The latest bin is read again for the cookie, and may have changed.
AddCookie(t) ==
    /\ pc[t] = "cookie"
    /\ \E n \in {localTotal, totalQueuedClients} : totalQueuedClients' = n + 1
    /\ cookie' = [cookie EXCEPT ![arg[t]] = latestBinIdx]
    /\ phase' = [phase EXCEPT ![arg[t]] = "waiting"]
    /\ Unlock(t)
    /\ UNCHANGED <<binCounts, latestBinIdx, maxConsideredBinIdx, timerVars, localMax,
                   ctxDone, clears>>

(* Remove *)

RemoveBegin(t) ==
    /\ pc[t] = "remove" /\ binMutex = "free"
    /\ binMutex' = t
    /\ localTotal' = totalQueuedClients
    /\ Goto(t, "removing")
    /\ UNCHANGED <<binCounts, latestBinIdx, maxConsideredBinIdx, totalQueuedClients,
                   cookie, timerVars, localMax, ctxDone, histVars>>

BinOf_First(c) == 0
BinOf(c) == cookie[c]

\* The client has a cookie: it was added before.  Its count is taken from the
\* map in use, which may be a new one.
RemoveFinish(t) ==
    /\ pc[t] = "removing"
    /\ \E n \in {localTotal, totalQueuedClients} : totalQueuedClients' = n - 1
    /\ binCounts' = [binCounts EXCEPT ![BinOf(arg[t])] = @ - 1]
    /\ phase' = [phase EXCEPT ![arg[t]] = "left"]
    /\ Unlock(t)
    /\ UNCHANGED <<latestBinIdx, maxConsideredBinIdx, cookie, timerVars, localMax,
                   ctxDone, clears>>

(* Clear, without the mutex *)

ClearFrame == UNCHANGED <<binMutex, cookie, localTotal, timerVars, localMax, ctxDone, phase>>

ClearCounts(t) ==
    /\ pc[t] = "clear"
    /\ binCounts' = [b \in Bins |-> 0]
    /\ clears' = clears + 1
    /\ Goto(t, "clearLatest") /\ ClearFrame
    /\ UNCHANGED <<latestBinIdx, maxConsideredBinIdx, totalQueuedClients>>

ClearLatest(t) ==
    /\ pc[t] = "clearLatest"
    /\ latestBinIdx' = 0
    /\ Goto(t, "clearMax") /\ ClearFrame
    /\ UNCHANGED <<binCounts, maxConsideredBinIdx, totalQueuedClients, clears>>

ClearMax(t) ==
    /\ pc[t] = "clearMax"
    /\ maxConsideredBinIdx' = 0
    /\ Goto(t, "clearTotal") /\ ClearFrame
    /\ UNCHANGED <<binCounts, latestBinIdx, totalQueuedClients, clears>>

ClearTotal(t) ==
    /\ pc[t] = "clearTotal"
    /\ totalQueuedClients' = 0
    /\ Goto(t, "idle") /\ ClearFrame
    /\ UNCHANGED <<binCounts, latestBinIdx, maxConsideredBinIdx, clears>>

\* Whether getUserBinIdx finds a bin.
HasBin(c) == cookie[c] # -1
IsCandidateToProceed(c) == HasBin(c) /\ cookie[c] <= maxConsideredBinIdx

-----------------------------------------------------------------------------
(* RoutinelyUpdateLatestBin *)

TimerFrame == UNCHANGED <<binCounts, maxConsideredBinIdx, totalQueuedClients, binMutex,
                          cookie, callVars, localMax, ctxDone, histVars>>

TimerFires ==
    /\ timer = "sleep" /\ latestBinIdx < MaxBin
    /\ timer' = "store" /\ localLatest' = latestBinIdx
    /\ TimerFrame /\ UNCHANGED latestBinIdx

UpdateLatestBin ==
    /\ timer = "store"
    /\ \E b \in {localLatest, latestBinIdx} : latestBinIdx' = b + 1
    /\ timer' = "sleep" /\ localLatest' = 0
    /\ TimerFrame

StopTimer ==
    /\ timer = "sleep" /\ ctxDone
    /\ timer' = "stopped"
    /\ TimerFrame /\ UNCHANGED <<localLatest, latestBinIdx>>

(* RoutinelyMaximizeFairThroughput; it does not look at the context *)

CanAdvance_OffByOne == maxConsideredBinIdx <= latestBinIdx
CanAdvance_StopsEarly == maxConsideredBinIdx + 1 < latestBinIdx
CanAdvance == maxConsideredBinIdx < latestBinIdx

\* Lock, find that the bin may be left and that its grace period is over.
\* When either is not so, the goroutine unlocks and sleeps: nothing changes.
MaximizeBegin ==
    /\ binMutex = "free" /\ CanAdvance
    /\ binMutex' = "sweeper" /\ localMax' = maxConsideredBinIdx
    /\ UNCHANGED <<binCounts, latestBinIdx, maxConsideredBinIdx, totalQueuedClients,
                   cookie, callVars, timerVars, ctxDone, histVars>>

MaximizeFinish ==
    /\ binMutex = "sweeper"
    /\ \E b \in {localMax, maxConsideredBinIdx} : maxConsideredBinIdx' = b + 1
    /\ binMutex' = "free" /\ localMax' = 0
    /\ UNCHANGED <<binCounts, latestBinIdx, totalQueuedClients, cookie, callVars,
                   timerVars, ctxDone, histVars>>

-----------------------------------------------------------------------------
Call(t, op, c) ==
    /\ pc[t] = "idle"
    /\ pc' = [pc EXCEPT ![t] = op] /\ arg' = [arg EXCEPT ![t] = c]
    /\ UNCHANGED <<binCounts, latestBinIdx, maxConsideredBinIdx, totalQueuedClients,
                   binMutex, cookie, localTotal, timerVars, localMax, ctxDone, clears>>

\* The callers: a client is added once and removed once while it waits (the
\* caller has found it to be a candidate some steps before, which a Clear may
\* have changed since), and the queue is cleared after a removal.
Callers(t) ==
    \/ \E c \in Clients : /\ phase[c] = "new" /\ Call(t, "add", c)
                          /\ phase' = [phase EXCEPT ![c] = "adding"]
    \/ \E c \in Clients : /\ phase[c] = "waiting" /\ Call(t, "remove", c)
                          /\ phase' = [phase EXCEPT ![c] = "leaving"]
    \/ /\ \E c \in Clients : phase[c] = "left"
       /\ clears + Cardinality({u \in Threads : pc[u] = "clear"}) < MaxClears
       /\ Call(t, "clear", NoClient) /\ UNCHANGED phase

Cancel ==
    /\ ~ctxDone /\ ctxDone' = TRUE
    /\ UNCHANGED <<binCounts, latestBinIdx, maxConsideredBinIdx, totalQueuedClients,
                   binMutex, cookie, callVars, timerVars, localMax, histVars>>

ThreadStep(t) ==
    \/ AddCount(t) \/ AddCookie(t) \/ RemoveBegin(t) \/ RemoveFinish(t)
    \/ ClearCounts(t) \/ ClearLatest(t) \/ ClearMax(t) \/ ClearTotal(t)

Next ==
    \/ \E t \in Threads : Callers(t) \/ ThreadStep(t)
    \/ TimerFires \/ UpdateLatestBin \/ StopTimer
    \/ MaximizeBegin \/ MaximizeFinish
    \/ Cancel

Spec == Init /\ [][Next]_vars

\* Goroutines that can run are scheduled; the sweeper gets the mutex although
\* other threads take it again and again (starvation mode of sync.Mutex).
FairSpec ==
    /\ Spec
    /\ \A t \in Threads : WF_vars(ThreadStep(t))
    /\ SF_vars(MaximizeBegin) /\ WF_vars(MaximizeFinish)

-----------------------------------------------------------------------------
(***************************************************************************)
(* Properties                                                              *)
(***************************************************************************)

Waiting == {c \in Clients : phase[c] \in {"waiting", "leaving"}}

\* Until a Clear, the considered bin stays behind the latest one: the sweeper
\* compares under the mutex, but the timer moves the latest bin without it.
GateBehindLatest == clears = 0 => maxConsideredBinIdx <= latestBinIdx

\* The count of a bin and the cookies of its clients can disagree, because the
\* timer may open a bin between Add's two reads of latestBinIdx.  Until a
\* Clear a client is only ever counted too early: up to any bin, at least as
\* many clients are counted as wait there, so the grace periods derived
\* from the counts are long enough for all of them together.
CountsCoverBins ==
    clears = 0 => \A b \in Bins :
        MapThenSumSet(LAMBDA i : binCounts[i], 0 .. b)
            >= Cardinality({c \in Waiting : cookie[c] <= b})

\* Everybody who waits gets its turn, even when the timer has stopped, unless
\* the queue is cleared.
EverybodyIsConsidered ==
    \A c \in Clients :
        phase[c] = "waiting" ~> (IsCandidateToProceed(c) \/ clears > 0)
=============================================================================
