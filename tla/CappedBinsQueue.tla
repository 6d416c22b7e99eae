--------------------------- MODULE CappedBinsQueue ---------------------------
(***************************************************************************)
(* The waiting queue of internal/throttle/queue/impl/capped_bins_queue.go. *)
(*                                                                         *)
(* Arriving clients are put into numbered bins of BinSize clients; a       *)
(* client is a candidate to proceed when its bin number, kept in its       *)
(* throttle cookie, is at most workingBin, which ReceiveTrackerFeedback    *)
(* moves.                                                                  *)
(*                                                                         *)
(* Add and Remove hold the mutex mu; Clear, IsCandidateToProceed and       *)
(* ReceiveTrackerFeedback take no lock at all.  So Add, Remove and the     *)
(* other operations are split into steps at the accesses that an unlocked  *)
(* Clear or ReceiveTrackerFeedback can fall between, and a ++ or += that   *)
(* races with an unlocked store may use either value of its operand.       *)
(*                                                                         *)
(* Go maps are references: maps holds the bins maps that were made and     *)
(* bins is the number of the one the queue uses, so an Add in progress     *)
(* goes on writing to the map it read before a Clear replaced it.          *)
(***************************************************************************)
EXTENDS Integers, FiniteSets, FiniteSetsExt

CONSTANTS
    Clients,                \* client ids
    Threads,                \* goroutines that call Add, Remove and Clear
    NoThread,               \* holder of mu when it is free
    NoClient,               \* argument of a thread that calls nothing
    BinSize,                \* binSize
    CheckoutsPerWindow,     \* the denominator of a reported utilization
    MaxInt64,               \* the largest int64 (small when TLC runs overflow)
    MaxClears,              \* bound: calls of Clear
    WorkingBinBound         \* bound: no feedback once workingBin is beyond it

ASSUME QueueAssumption ==
    /\ IsFiniteSet(Clients)
    /\ NoThread \notin Threads
    /\ NoClient \notin Clients
    /\ BinSize \in Nat \ {0}
    /\ CheckoutsPerWindow \in Nat \ {0}
    /\ MaxInt64 \in Nat \ {0, 1}
    /\ MaxClears \in Nat
    /\ WorkingBinBound \in Nat

VARIABLES
    maps,               \* the bins maps made so far: bin number -> clients
    bins,               \* cbq.bins: which of the maps is in use
    curWindowDequeues,  \* workingBin at the time -> number of Removes
    queueBin,           \* bin that receives arriving clients
    workingBin,         \* last bin whose clients may proceed
    totalQueuedClients,
    mu,                 \* holder of the mutex
    cookie,             \* cookie[c]: cappedUserBinId of c, 0 when it is not set
    qpc,                \* qpc[t]: where thread t is in the call it makes
    qarg,               \* qarg[t]: the client of that call
    localBins,          \* local of Add: the map that it read
    localBin,           \* operand of cbq.queueBin++ in Add
    localTotal,         \* operand of totalQueuedClients++ or -- (holder of mu)
    fpc,                \* ReceiveTrackerFeedback: "idle", "adjust" or "done"
    fbLocal,            \* its locals: utilization, workingBin, drained
    clears,             \* history: Clear calls that replaced the maps
    phase,              \* history: what the callers have done with each client
    fault               \* why the process died: "none", "nilBin", "mapRace"

mapVars  == <<maps, bins>>
muVars   == <<mu, localBins, localBin, localTotal>>
feedVars == <<fpc, fbLocal>>
threadVars == <<qpc, qarg>>
queueVars == <<mapVars, curWindowDequeues, queueBin, workingBin,
               totalQueuedClients, muVars, cookie, threadVars, feedVars,
               clears, phase, fault>>

Int64 == -MaxInt64 - 1 .. MaxInt64
\* The value of an int64 sum of two operands.
Wrap(n) == IF n > MaxInt64 THEN n - 2 * (MaxInt64 + 1)
           ELSE IF n < -MaxInt64 - 1 THEN n + 2 * (MaxInt64 + 1) ELSE n

EmptyMap == [b \in {} |-> {}]
Put(m, k, v) == [x \in DOMAIN m \cup {k} |-> IF x = k THEN v ELSE m[x]]

MapNo == 0 .. MaxClears
\* Bin numbers: a bin is only opened behind a full one.
BinNo == 1 .. Cardinality(Clients) + 1

NoFbLocal == [util |-> 0, bin |-> 1, drained |-> FALSE]

AddPcs == {"add", "roll", "incr", "make", "insert", "cookie"}
RemovePcs == {"remove", "removing"}
ClearPcs == {"clear", "clearWorking", "clearQueue", "clearTotal"}

TypeOK ==
    /\ DOMAIN maps = MapNo
    /\ \A m \in MapNo : /\ DOMAIN maps[m] \subseteq BinNo
                        /\ \A b \in DOMAIN maps[m] : maps[m][b] \subseteq Clients
    /\ bins \in MapNo
    /\ DOMAIN curWindowDequeues \subseteq Int64
    /\ \A b \in DOMAIN curWindowDequeues : curWindowDequeues[b] \in Nat
    /\ queueBin \in BinNo
    /\ workingBin \in Int64
    /\ totalQueuedClients \in Int
    /\ mu \in Threads \cup {NoThread}
    /\ cookie \in [Clients -> BinNo \cup {0}]
    /\ qpc \in [Threads -> {"idle"} \cup AddPcs \cup RemovePcs \cup ClearPcs]
    /\ qarg \in [Threads -> Clients \cup {NoClient}]
    /\ localBins \in MapNo
    /\ localBin \in BinNo
    /\ localTotal \in Int
    /\ fpc \in {"idle", "adjust", "done"}
    /\ fbLocal \in [util: Nat, bin: Int64, drained: BOOLEAN]
    /\ clears \in MapNo
    /\ phase \in [Clients -> {"new", "adding", "waiting", "leaving", "left"}]
    /\ fault \in {"none", "nilBin", "mapRace"}

\* MakeQueue for "capped_bins_queue", then the Clear call of main.
Init ==
    /\ maps = [m \in MapNo |-> EmptyMap]
    /\ bins = 0
    /\ curWindowDequeues = EmptyMap
    /\ queueBin = 1
    /\ workingBin = 1
    /\ totalQueuedClients = 0
    /\ mu = NoThread
    /\ cookie = [c \in Clients |-> 0]
    /\ qpc = [t \in Threads |-> "idle"]
    /\ qarg = [t \in Threads |-> NoClient]
    /\ localBins = 0
    /\ localBin = 1
    /\ localTotal = 0
    /\ fpc = "idle"
    /\ fbLocal = NoFbLocal
    /\ clears = 0
    /\ phase = [c \in Clients |-> "new"]
    /\ fault = "none"

-----------------------------------------------------------------------------
(* Calls *)

Call(t, op, c) ==
    /\ qpc[t] = "idle"
    /\ qpc' = [qpc EXCEPT ![t] = op]
    /\ qarg' = [qarg EXCEPT ![t] = c]
    /\ UNCHANGED <<mapVars, curWindowDequeues, queueBin, workingBin, totalQueuedClients,
                   muVars, cookie, feedVars, clears, fault>>

CallAdd(t, c) == Call(t, "add", c) /\ phase' = [phase EXCEPT ![c] = "adding"]
CallRemove(t, c) == Call(t, "remove", c) /\ phase' = [phase EXCEPT ![c] = "leaving"]
CallClear(t) == Call(t, "clear", NoClient) /\ UNCHANGED phase

Goto(t, pc) == qpc' = [qpc EXCEPT ![t] = pc] /\ UNCHANGED qarg
\* Locals that are dead once the mutex is released get their first value back.
Unlock_Forgotten == UNCHANGED mu /\ localBins' = 0 /\ localBin' = 1 /\ localTotal' = 0
Unlock == mu' = NoThread /\ localBins' = 0 /\ localBin' = 1 /\ localTotal' = 0
Return(t) == qpc' = [qpc EXCEPT ![t] = "idle"] /\ qarg' = [qarg EXCEPT ![t] = NoClient]

-----------------------------------------------------------------------------
(* Add *)

MakeBin_Skipped(m, b) == m
MakeBin(m, b) == Put(m, b, {})

\* Lock, read cbq.bins, and make the current bin when it is missing.
AddBegin(t) ==
    /\ qpc[t] = "add" /\ mu = NoThread
    /\ mu' = t
    /\ localBins' = bins
    /\ maps' = IF queueBin \in DOMAIN maps[bins] THEN maps
               ELSE [maps EXCEPT ![bins] = MakeBin(@, queueBin)]
    /\ Goto(t, "roll")
    /\ UNCHANGED <<bins, curWindowDequeues, queueBin, workingBin, totalQueuedClients,
                   localBin, localTotal, cookie, feedVars, clears, phase, fault>>

\* The length of a missing bin is the length of a nil map: 0.
BinLen(m, b) == IF b \in DOMAIN m THEN Cardinality(m[b]) ELSE 0

BinIsFull_OffByOne(m, b) == BinLen(m, b) > BinSize
BinIsFull(m, b) == BinLen(m, b) >= BinSize

\* Compare the bin with binSize, and read the operand of queueBin++.
AddRoll(t) ==
    /\ qpc[t] = "roll"
    /\ IF BinIsFull(maps[localBins], queueBin)
         THEN Goto(t, "incr") /\ localBin' = queueBin
         ELSE Goto(t, "insert") /\ UNCHANGED localBin
    /\ UNCHANGED <<mapVars, curWindowDequeues, queueBin, workingBin, totalQueuedClients,
                   mu, localBins, localTotal, cookie, feedVars, clears, phase, fault>>

\* queueBin++ loads the field after the comparison: an unlocked Clear may have
\* reset it before that load, or resets it between the load and the store.
AddIncr(t) ==
    /\ qpc[t] = "incr"
    /\ \E b \in {localBin, queueBin} : queueBin' = b + 1
    /\ Goto(t, "make")
    /\ UNCHANGED <<mapVars, curWindowDequeues, workingBin, totalQueuedClients,
                   muVars, cookie, feedVars, clears, phase, fault>>

AddMake(t) ==
    /\ qpc[t] = "make"
    /\ maps' = [maps EXCEPT ![localBins] = MakeBin(@, queueBin)]
    /\ Goto(t, "insert")
    /\ UNCHANGED <<bins, curWindowDequeues, queueBin, workingBin, totalQueuedClients,
                   muVars, cookie, feedVars, clears, phase, fault>>

\* A store into a missing bin is a store into a nil map: the process panics.
AddInsert(t) ==
    /\ qpc[t] = "insert"
    /\ IF queueBin \in DOMAIN maps[localBins]
         THEN /\ maps' = [maps EXCEPT ![localBins] =
                             Put(@, queueBin, @[queueBin] \cup {qarg[t]})]
              /\ UNCHANGED fault
         ELSE UNCHANGED maps /\ fault' = "nilBin"
    /\ localTotal' = totalQueuedClients
    /\ Goto(t, "cookie")
    /\ UNCHANGED <<bins, curWindowDequeues, queueBin, workingBin, totalQueuedClients,
                   mu, localBins, localBin, cookie, feedVars, clears, phase>>

CookieValue_Length(t) == BinLen(maps[localBins], queueBin)
CookieValue(t) == queueBin

\* Count the client, store the bin number in its cookie, unlock.  A Clear
\* may have changed queueBin since the client was inserted.  (The cookie is
\* the decimal form of the number, which ParseInt reads back exactly.)
AddCookie(t) ==
    /\ qpc[t] = "cookie"
    /\ \E total \in {localTotal, totalQueuedClients} : totalQueuedClients' = total + 1
    /\ cookie' = [cookie EXCEPT ![qarg[t]] = CookieValue(t)]
    /\ Unlock
    /\ phase' = [phase EXCEPT ![qarg[t]] = "waiting"]
    /\ Return(t)
    /\ UNCHANGED <<mapVars, curWindowDequeues, queueBin, workingBin, feedVars,
                   clears, fault>>

-----------------------------------------------------------------------------
(* Remove: the client stays in its bin; only the counts change. *)

RemoveBegin(t) ==
    /\ qpc[t] = "remove" /\ mu = NoThread
    /\ mu' = t
    /\ localTotal' = totalQueuedClients
    /\ Goto(t, "removing")
    /\ UNCHANGED <<mapVars, curWindowDequeues, queueBin, workingBin, totalQueuedClients,
                   localBins, localBin, cookie, feedVars, clears, phase, fault>>

Dequeues(b) == IF b \in DOMAIN curWindowDequeues THEN curWindowDequeues[b] ELSE 0

OneDequeued_CountsDown == Put(curWindowDequeues, workingBin, Dequeues(workingBin) - 1)
OneDequeued == Put(curWindowDequeues, workingBin, Dequeues(workingBin) + 1)
OneLess_KeepsTotal(total) == total
OneLess(total) == total - 1

RemoveFinish(t) ==
    /\ qpc[t] = "removing"
    /\ \E total \in {localTotal, totalQueuedClients} : totalQueuedClients' = OneLess(total)
    /\ curWindowDequeues' = OneDequeued
    /\ Unlock
    /\ phase' = [phase EXCEPT ![qarg[t]] = "left"]
    /\ Return(t)
    /\ UNCHANGED <<mapVars, queueBin, workingBin, cookie, feedVars, clears, fault>>

-----------------------------------------------------------------------------
(* Clear, one step per field that another goroutine can see on its own. *)

ClearMaps(t) ==
    /\ qpc[t] = "clear" /\ clears < MaxClears
    /\ clears' = clears + 1
    /\ bins' = clears + 1
    /\ curWindowDequeues' = EmptyMap
    /\ Goto(t, "clearWorking")
    /\ UNCHANGED <<maps, queueBin, workingBin, totalQueuedClients, muVars, cookie,
                   feedVars, phase, fault>>

ClearWorkingBin(t) ==
    /\ qpc[t] = "clearWorking"
    /\ workingBin' = 1
    /\ Goto(t, "clearQueue")
    /\ UNCHANGED <<mapVars, curWindowDequeues, queueBin, totalQueuedClients, muVars,
                   cookie, feedVars, clears, phase, fault>>

ClearQueueBin(t) ==
    /\ qpc[t] = "clearQueue"
    /\ queueBin' = 1
    /\ Goto(t, "clearTotal")
    /\ UNCHANGED <<mapVars, curWindowDequeues, workingBin, totalQueuedClients, muVars,
                   cookie, feedVars, clears, phase, fault>>

ClearTotal(t) ==
    /\ qpc[t] = "clearTotal"
    /\ totalQueuedClients' = 0
    /\ Return(t)
    /\ UNCHANGED <<mapVars, curWindowDequeues, queueBin, workingBin, muVars, cookie,
                   feedVars, clears, phase, fault>>

-----------------------------------------------------------------------------
(* IsCandidateToProceed.  getUserBin never reports success (its ok is      *)
(* shadowed), so a client without a cookie is in bin 0.                    *)
getUserBin(c) == cookie[c]
IsCandidateToProceed(c) == getUserBin(c) <= workingBin

(* ReceiveTrackerFeedback *)

\* Read the feedback, workingBin and curWindowDequeues.  The read of the map
\* races with the store of a Remove in progress: the Go runtime may kill the
\* process.
ReceiveTrackerFeedback(fb) ==
    /\ fpc = "idle"
    /\ \/ /\ fb.shouldIgnorePollUtil
          /\ fpc' = "done"
          /\ UNCHANGED <<fbLocal, fault>>
       \/ /\ ~fb.shouldIgnorePollUtil
          /\ fpc' = "adjust"
          /\ fbLocal' = [util |-> fb.CheckoutUtil, bin |-> workingBin,
                         drained |-> 2 * Dequeues(workingBin) > BinSize]
          /\ UNCHANGED fault
       \/ /\ ~fb.shouldIgnorePollUtil
          /\ \E t \in Threads : qpc[t] = "removing"
          /\ fault' = "mapRace"
          /\ UNCHANGED feedVars
    /\ UNCHANGED <<mapVars, curWindowDequeues, queueBin, workingBin, totalQueuedClients,
                   muVars, cookie, threadVars, clears, phase>>

\* checkoutUtil <= 0.2 and checkoutUtil <= 0.9.
UtilIsLow(n) == 5 * n <= CheckoutsPerWindow
UtilIsMiddle(n) == ~UtilIsLow(n) /\ 10 * n <= 9 * CheckoutsPerWindow

\* The gate is drawn back when the window was overrun.
Adjusted_Shrinks(x, y) ==
    IF UtilIsLow(fbLocal.util) THEN Wrap(x + y + 2)
    ELSE IF UtilIsMiddle(fbLocal.util) \/ fbLocal.drained THEN Wrap(x + 1)
    ELSE Wrap(x - 1)

\* The new workingBin from two reads x and y of the old one.
Adjusted(x, y) ==
    IF UtilIsLow(fbLocal.util) THEN Wrap(x + y + 2)
    ELSE IF UtilIsMiddle(fbLocal.util) \/ fbLocal.drained THEN Wrap(x + 1)
    ELSE x

\* The store; when nothing is added there is none.
AdjustWorkingBin ==
    /\ fpc = "adjust"
    /\ IF ~UtilIsLow(fbLocal.util) /\ ~UtilIsMiddle(fbLocal.util) /\ ~fbLocal.drained
         THEN workingBin' = Adjusted(workingBin, workingBin)
         ELSE \E x, y \in {fbLocal.bin, workingBin} : workingBin' = Adjusted(x, y)
    /\ fpc' = "done"
    /\ UNCHANGED <<mapVars, curWindowDequeues, queueBin, totalQueuedClients, muVars,
                   cookie, threadVars, fbLocal, clears, phase, fault>>

FeedbackReturn ==
    /\ fpc = "done"
    /\ fpc' = "idle"
    /\ fbLocal' = NoFbLocal
    /\ UNCHANGED <<mapVars, curWindowDequeues, queueBin, workingBin, totalQueuedClients,
                   muVars, cookie, threadVars, clears, phase, fault>>

-----------------------------------------------------------------------------
AddStep(t) == \/ AddBegin(t) \/ AddRoll(t) \/ AddIncr(t) \/ AddMake(t)
              \/ AddInsert(t) \/ AddCookie(t)
RemoveStep(t) == RemoveBegin(t) \/ RemoveFinish(t)
ClearStep(t) == ClearMaps(t) \/ ClearWorkingBin(t) \/ ClearQueueBin(t) \/ ClearTotal(t)
ThreadStep(t) == AddStep(t) \/ RemoveStep(t) \/ ClearStep(t)

\* The callers: a client is added once and removed once while it waits (the
\* caller has found it to be a candidate some steps before, which a Clear may
\* have changed since), and the queue is cleared after a removal.
Callers(t) ==
    \/ \E c \in Clients : phase[c] = "new" /\ CallAdd(t, c)
    \/ \E c \in Clients : phase[c] = "waiting" /\ CallRemove(t, c)
    \/ /\ \E c \in Clients : phase[c] = "left"
       /\ clears + Cardinality({u \in Threads : qpc[u] = "clear"}) < MaxClears
       /\ CallClear(t)

Feedbacks == [CheckoutUtil: 0 .. CheckoutsPerWindow + 1, shouldIgnorePollUtil: BOOLEAN]

FeedbackStep ==
    \/ /\ workingBin \in -WorkingBinBound .. WorkingBinBound
       /\ \E fb \in Feedbacks : ReceiveTrackerFeedback(fb)
    \/ AdjustWorkingBin
    \/ FeedbackReturn

Next ==
    /\ fault = "none"
    /\ \/ \E t \in Threads : Callers(t) \/ ThreadStep(t)
       \/ FeedbackStep

Spec == Init /\ [][Next]_queueVars

-----------------------------------------------------------------------------
(***************************************************************************)
(* Properties                                                              *)
(***************************************************************************)

\* Until a Clear, every bin before queueBin was filled to exactly binSize, no
\* bin is overfull, and every waiting client is in the bin its cookie names,
\* whatever the order in which concurrent Adds got the mutex.
BinsPacked ==
    clears = 0 =>
        /\ \A b \in DOMAIN maps[0] : Cardinality(maps[0][b]) <= BinSize
        /\ \A b \in 1 .. queueBin - 1 : /\ b \in DOMAIN maps[0]
                                        /\ Cardinality(maps[0][b]) = BinSize
        /\ \A c \in Clients : cookie[c] # 0 =>
              /\ cookie[c] \in DOMAIN maps[0]
              /\ c \in maps[0][cookie[c]]

\* Add serves clients in order of arrival: a cookie given out later never
\* names an earlier bin than one already given out (until a Clear).
ArrivalOrderKept ==
    [][clears' = 0 => \A c, d \in Clients :
          cookie[c] = 0 /\ cookie'[c] # 0 => cookie[d] <= cookie'[c]]_queueVars

\* A client that may proceed stays allowed until it is removed: no feedback
\* takes the gate back behind a waiting candidate (until a Clear, and as long
\* as workingBin is far from the limits of int64).
CandidateStaysCandidate ==
    [][clears' = 0 => \A c \in Clients :
          phase[c] = "waiting" /\ IsCandidateToProceed(c) => IsCandidateToProceed(c)']_queueVars

\* Until a Clear, totalQueuedClients is the number of clients that were added
\* and not removed, and the dequeue counts add up to the removed ones.
CountsAccurate ==
    clears = 0 =>
        /\ totalQueuedClients = Cardinality({c \in Clients : phase[c] \in {"waiting", "leaving"}})
        /\ MapThenSumSet(Dequeues, DOMAIN curWindowDequeues)
              = Cardinality({c \in Clients : phase[c] = "left"})

\* The store of Add hits a missing bin only when an unlocked Clear got
\* between the steps of that Add.
NilBinOnlyAfterClear == fault = "nilBin" => clears > 0
=============================================================================
