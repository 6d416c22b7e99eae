------------------------ MODULE IntervalBinsQueue_proofs ------------------------
(***************************************************************************)
(* Proofs about IntervalBinsQueue, for any clients and threads, and any    *)
(* number of bins: until a Clear the gate stays behind the latest bin, and *)
(* the counts never fall short of the clients that wait in the bins.       *)
(***************************************************************************)
EXTENDS IntervalBinsQueue, FiniteSetTheorems, FiniteSums, TLAPS

(***************************************************************************)
(* The inductive invariant.  The sweeper compares the two numbers under    *)
(* the mutex, and the timer moves latestBinIdx without it, so what the     *)
(* comparison found must outlive the steps of everybody else: the operands *)
(* of both increments are still the values in memory, which only a Clear   *)
(* could change, and no thread ends the critical section of another.       *)
(***************************************************************************)
GateTypes ==
    /\ latestBinIdx \in Nat /\ maxConsideredBinIdx \in Nat
    /\ localLatest \in Nat /\ localMax \in Nat
    /\ clears \in Nat
    /\ pc \in [Threads -> Pcs]
MutexHeld == \A t \in Threads : pc[t] \in {"cookie", "removing"} => binMutex = t
NoClearYet == clears = 0 =>
    \A t \in Threads : pc[t] \notin {"clearLatest", "clearMax", "clearTotal"}
OperandsFresh == clears = 0 =>
    /\ binMutex = "sweeper" => localMax = maxConsideredBinIdx /\ maxConsideredBinIdx < latestBinIdx
    /\ timer = "store" => localLatest = latestBinIdx

GateInv == GateTypes /\ MutexHeld /\ NoClearYet /\ OperandsFresh /\ GateBehindLatest

USE DEF Pcs

LEMMA GateInvInit == Init => GateInv
BY DEF Init, GateInv, GateTypes, MutexHeld, NoClearYet, OperandsFresh, GateBehindLatest

\* A thread's calls leave the gate alone, but for a Clear.
LEMMA ThreadsKeepGateInv ==
    ASSUME GateInv, NEW t \in Threads, Callers(t) \/ ThreadStep(t)
    PROVE  GateInv'
<1> USE IntervalAssumption DEF GateInv, GateTypes, MutexHeld, NoClearYet, OperandsFresh,
        GateBehindLatest, timerVars, histVars, callVars
<1>1. t \notin {"free", "sweeper"}
  OBVIOUS
<1>2. CASE Callers(t)
  BY <1>2 DEF Callers, Call
<1>3. CASE AddCount(t) \/ RemoveBegin(t)
  BY <1>1, <1>3 DEF AddCount, RemoveBegin, Goto
<1>4. CASE AddCookie(t) \/ RemoveFinish(t)
  <2>1. /\ binMutex = t /\ binMutex' = "free" /\ pc' = [pc EXCEPT ![t] = "idle"]
        /\ UNCHANGED <<latestBinIdx, maxConsideredBinIdx, timer, localLatest, localMax, clears>>
    BY <1>4 DEF AddCookie, RemoveFinish, Unlock
  <2> QED
    BY <2>1
<1>5. CASE ClearCounts(t)
  BY <1>5 DEF ClearCounts, Goto, ClearFrame
<1>6. CASE ClearLatest(t) \/ ClearMax(t) \/ ClearTotal(t)
  BY <1>6 DEF ClearLatest, ClearMax, ClearTotal, Goto, ClearFrame
<1> QED
  BY <1>2, <1>3, <1>4, <1>5, <1>6 DEF ThreadStep

\* ... and so do the two timer goroutines.
LEMMA TimersKeepGateInv ==
    ASSUME GateInv,
           \/ TimerFires \/ UpdateLatestBin \/ StopTimer
           \/ MaximizeBegin \/ MaximizeFinish \/ Cancel \/ UNCHANGED vars
    PROVE  GateInv'
<1> USE IntervalAssumption DEF GateInv, GateTypes, MutexHeld, NoClearYet, OperandsFresh,
        GateBehindLatest, timerVars, histVars, callVars, TimerFrame
<1>1. CASE TimerFires
  BY <1>1 DEF TimerFires
<1>2. CASE UpdateLatestBin
  BY <1>2 DEF UpdateLatestBin
<1>3. CASE StopTimer \/ Cancel \/ UNCHANGED vars
  BY <1>3 DEF StopTimer, Cancel, vars
<1>4. CASE MaximizeBegin
  BY <1>4 DEF MaximizeBegin, CanAdvance
<1>5. CASE MaximizeFinish
  BY <1>5 DEF MaximizeFinish
<1> QED
  BY <1>1, <1>2, <1>3, <1>4, <1>5

-----------------------------------------------------------------------------
(***************************************************************************)
(* The counts.  A client is in the hands of one thread, and has a bin      *)
(* while it waits.  A thread between its count and its cookie has counted  *)
(* its client in the latest bin of that moment: from the latest bin of now *)
(* on, one client more is counted than waits there.                        *)
(***************************************************************************)
CountTypes ==
    /\ binCounts \in [Bins -> Int] /\ totalQueuedClients \in Int /\ localTotal \in Int
    /\ latestBinIdx \in Bins /\ maxConsideredBinIdx \in Bins
    /\ cookie \in [Clients -> Bins \cup {-1}]
    /\ arg \in [Threads -> Clients \cup {NoClient}]
    /\ phase \in [Clients -> {"new", "adding", "waiting", "leaving", "left"}]
ArgsServed == \A t \in Threads :
    /\ pc[t] \in {"add", "cookie"} => arg[t] \in Clients /\ phase[arg[t]] = "adding"
    /\ pc[t] \in {"remove", "removing"} => arg[t] \in Clients /\ phase[arg[t]] = "leaving"
ArgsDistinct == \A t, u \in Threads :
    t # u /\ pc[t] \in {"add", "cookie", "remove", "removing"}
          /\ pc[u] \in {"add", "cookie", "remove", "removing"} => arg[t] # arg[u]
HasBinWhileWaiting == \A c \in Waiting : cookie[c] \in Bins
\* What is found under the mutex about the gate bounds the next bins.
OperandsInRange ==
    /\ timer = "store" => localLatest < MaxBin /\ latestBinIdx < MaxBin
    /\ binMutex = "sweeper" => localMax < MaxBin /\ maxConsideredBinIdx < MaxBin

ServeInv == CountTypes /\ ArgsServed /\ ArgsDistinct /\ HasBinWhileWaiting /\ OperandsInRange

Counted(b) == SumOver(binCounts, 0 .. b)
WaitingUpTo(b) == {c \in Waiting : cookie[c] <= b}
Counting == \E t \in Threads : pc[t] = "cookie"

CoverInv == clears = 0 => \A b \in Bins :
    /\ Counted(b) >= Cardinality(WaitingUpTo(b))
    /\ Counting /\ b >= latestBinIdx => Counted(b) >= Cardinality(WaitingUpTo(b)) + 1

LEMMA BinsAreNumbers == Bins \subseteq Nat /\ \A b \in Bins : 0 .. b \subseteq Bins /\ IsFiniteSet(0 .. b)
BY IntervalAssumption, FS_Interval DEF Bins

LEMMA ThreadsKeepServeInv ==
    ASSUME GateInv, ServeInv, NEW t \in Threads, Callers(t) \/ ThreadStep(t)
    PROVE  ServeInv'
<1> USE IntervalAssumption DEF CountTypes, GateInv, GateTypes, ServeInv, ArgsServed, ArgsDistinct, HasBinWhileWaiting,
        OperandsInRange, Waiting, timerVars, histVars, callVars
<1>0. /\ t \notin {"free", "sweeper"} /\ 0 \in Bins
      /\ \A b \in Bins : b \in Nat
      /\ \A u \in Threads : pc[u] \in {"cookie", "removing"} => binMutex = u
  BY BinsAreNumbers DEF Bins, MutexHeld
<1>1. ASSUME NEW c \in Clients, NEW op \in {"add", "remove"}, Call(t, op, c),
             \/ op = "add" /\ phase[c] = "new" /\ phase' = [phase EXCEPT ![c] = "adding"]
             \/ op = "remove" /\ phase[c] = "waiting" /\ phase' = [phase EXCEPT ![c] = "leaving"]
      PROVE  ServeInv'
  BY <1>0, <1>1 DEF Call
<1>2. CASE Call(t, "clear", NoClient) /\ UNCHANGED phase
  BY <1>0, <1>2 DEF Call
<1>3. CASE AddCount(t)
  <2>1. binCounts' \in [Bins -> Int]
    BY <1>3 DEF AddCount
  <2> QED
    BY <1>0, <1>3, <2>1 DEF AddCount, Goto
<1>4. CASE AddCookie(t)
  <2>0. pc[t] = "cookie"
    BY <1>4 DEF AddCookie
  <2>1. arg[t] \in Clients /\ phase[arg[t]] = "adding" /\ binMutex = t
    BY <1>0, <1>4 DEF AddCookie
  <2>2. /\ pc' = [pc EXCEPT ![t] = "idle"] /\ arg' = [arg EXCEPT ![t] = NoClient]
        /\ cookie' = [cookie EXCEPT ![arg[t]] = latestBinIdx]
        /\ phase' = [phase EXCEPT ![arg[t]] = "waiting"]
        /\ binMutex' = "free" /\ localTotal' = 0 /\ totalQueuedClients' \in Int
        /\ UNCHANGED <<binCounts, latestBinIdx, maxConsideredBinIdx, timer, localLatest,
                       localMax>>
    BY <1>4 DEF AddCookie, Unlock
  <2>3. CountTypes'
    BY <2>1, <2>2
  <2>4. ArgsServed' /\ ArgsDistinct'
    <3>1. /\ pc'[t] = "idle"
          /\ \A u \in Threads \ {t} : pc'[u] = pc[u] /\ arg'[u] = arg[u]
          /\ \A c \in Clients \ {arg[t]} : phase'[c] = phase[c]
      BY <2>2
    <3>2. \A u \in Threads \ {t} :
             pc[u] \in {"add", "cookie", "remove", "removing"} => arg[u] \in Clients \ {arg[t]}
      BY <2>0
    <3> QED
      BY <3>1, <3>2
  <2>5. HasBinWhileWaiting' /\ OperandsInRange'
    BY <1>0, <2>1, <2>2
  <2> QED
    BY <2>3, <2>4, <2>5
<1>5. CASE RemoveBegin(t)
  BY <1>0, <1>5 DEF RemoveBegin, Goto
<1>6. CASE RemoveFinish(t)
  <2>0. pc[t] = "removing"
    BY <1>6 DEF RemoveFinish
  <2>1. arg[t] \in Clients /\ phase[arg[t]] = "leaving" /\ binMutex = t /\ cookie[arg[t]] \in Bins
    BY <1>0, <1>6 DEF RemoveFinish
  <2>2. /\ pc' = [pc EXCEPT ![t] = "idle"] /\ arg' = [arg EXCEPT ![t] = NoClient]
        /\ phase' = [phase EXCEPT ![arg[t]] = "left"]
        /\ binMutex' = "free" /\ localTotal' = 0 /\ totalQueuedClients' \in Int
        /\ binCounts' \in [Bins -> Int]
        /\ UNCHANGED <<latestBinIdx, maxConsideredBinIdx, cookie, timer, localLatest, localMax>>
    <3>1. binCounts' = [binCounts EXCEPT ![cookie[arg[t]]] = @ - 1]
      BY <1>6 DEF RemoveFinish, BinOf
    <3>2. binCounts[cookie[arg[t]]] - 1 \in Int
      <4>1. binCounts \in [Bins -> Int] /\ cookie[arg[t]] \in Bins
        BY <2>1
      <4> QED
        BY ONLY <4>1
    <3>3. binCounts' \in [Bins -> Int]
      BY <3>1, <3>2, Zenon
    <3> QED
      BY <1>6, <3>3 DEF RemoveFinish, Unlock
  <2>3. CountTypes'
    BY <2>1, <2>2
  <2>4. ArgsServed' /\ ArgsDistinct'
    <3>1. /\ pc'[t] = "idle"
          /\ \A u \in Threads \ {t} : pc'[u] = pc[u] /\ arg'[u] = arg[u]
          /\ \A c \in Clients \ {arg[t]} : phase'[c] = phase[c]
      BY <2>2
    <3>2. \A u \in Threads \ {t} :
             pc[u] \in {"add", "cookie", "remove", "removing"} => arg[u] \in Clients \ {arg[t]}
      BY <2>0
    <3> QED
      BY <3>1, <3>2
  <2>5. HasBinWhileWaiting' /\ OperandsInRange'
    BY <1>0, <2>1, <2>2
  <2> QED
    BY <2>3, <2>4, <2>5
<1>7. CASE ClearCounts(t)
  <2>1. binCounts' \in [Bins -> Int]
    BY <1>7 DEF ClearCounts
  <2> QED
    BY <1>0, <1>7, <2>1 DEF ClearCounts, Goto, ClearFrame
<1>8. CASE ClearLatest(t) \/ ClearMax(t) \/ ClearTotal(t)
  BY <1>0, <1>8 DEF ClearLatest, ClearMax, ClearTotal, Goto, ClearFrame
<1> QED
  BY <1>1, <1>2, <1>3, <1>4, <1>5, <1>6, <1>7, <1>8 DEF Callers, ThreadStep

LEMMA TimersKeepServeInv ==
    ASSUME GateInv, ServeInv,
           \/ TimerFires \/ UpdateLatestBin \/ StopTimer
           \/ MaximizeBegin \/ MaximizeFinish \/ Cancel \/ UNCHANGED vars
    PROVE  ServeInv'
<1> USE IntervalAssumption DEF CountTypes, GateInv, GateTypes, ServeInv, ArgsServed, ArgsDistinct, HasBinWhileWaiting,
        OperandsInRange, Waiting, Bins, timerVars, histVars, callVars, TimerFrame
<1>1. CASE TimerFires
  BY <1>1 DEF TimerFires
<1>2. CASE UpdateLatestBin
  BY <1>2 DEF UpdateLatestBin
<1>3. CASE StopTimer \/ Cancel \/ UNCHANGED vars
  BY <1>3 DEF StopTimer, Cancel, vars
<1>4. CASE MaximizeBegin
  BY <1>4 DEF MaximizeBegin, CanAdvance
<1>5. CASE MaximizeFinish
  BY <1>5 DEF MaximizeFinish
<1> QED
  BY <1>1, <1>2, <1>3, <1>4, <1>5

\* One client more, or less, is counted in bin k.
LEMMA CountedChanges ==
    ASSUME CountTypes, NEW k \in Bins, NEW d \in Int, binCounts' = [binCounts EXCEPT ![k] = @ + d],
           NEW b \in Bins
    PROVE  Counted(b)' = IF k <= b THEN Counted(b) + d ELSE Counted(b)
<1>1. binCounts \in [Bins -> Int] /\ k \in Nat /\ b \in Nat /\ IsFiniteSet(0 .. b)
  BY BinsAreNumbers DEF CountTypes
<1>2. \A i \in 0 .. b : binCounts[i] \in Int
  BY <1>1, BinsAreNumbers
<1>3. binCounts'[k] = binCounts[k] + d /\ \A i \in Bins \ {k} : binCounts'[i] = binCounts[i]
  BY <1>1
<1>4. 0 .. b \subseteq Bins /\ (k <= b <=> k \in 0 .. b)
  BY <1>1, BinsAreNumbers
<1>5. CASE k <= b
  <2> DEFINE S == 0 .. b
             f == binCounts
             g == binCounts'
  <2>1. k \in S /\ IsFiniteSet(S)
    BY <1>1, <1>4, <1>5
  <2>2. \A i \in S : f[i] \in Int /\ g[i] \in Int
    BY <1>2, <1>3, <1>4
  <2>3. \A i \in S \ {k} : f[i] = g[i]
    BY <1>3, <1>4
  <2>4. f[k] \in Int /\ g[k] = f[k] + d
    BY <1>1, <1>3
  <2> HIDE DEF S, f, g
  <2>5. SumOver(g, S) = SumOver(f, S) + (g[k] - f[k])
    BY ONLY <2>1, <2>2, <2>3, SumOverChange
  <2>6. SumOver(f, S) \in Int
    BY ONLY <2>1, <2>2, SumOverType
  <2>7. SumOver(g, S) = SumOver(f, S) + d
    BY <2>4, <2>5, <2>6
  <2> QED
    BY <1>5, <2>7 DEF Counted, S, f, g
<1>6. CASE ~(k <= b)
  <2>1. \A i \in 0 .. b : binCounts'[i] = binCounts[i]
    BY <1>3, <1>4, <1>6
  <2>2. SumOver(binCounts', 0 .. b) = SumOver(binCounts, 0 .. b)
    BY <1>1, <2>1, SumOverAgree
  <2> QED
    BY <1>6, <2>2 DEF Counted
<1> QED
  BY <1>5, <1>6

LEMMA CoverTypes ==
    ASSUME CountTypes, NEW b \in Bins
    PROVE  /\ Counted(b) \in Int
           /\ IsFiniteSet(WaitingUpTo(b)) /\ Cardinality(WaitingUpTo(b)) \in Nat
<1>1. Counted(b) \in Int
  <2>1. \A i \in 0 .. b : binCounts[i] \in Int
    BY BinsAreNumbers DEF CountTypes
  <2> QED
    BY <2>1, BinsAreNumbers, SumOverType DEF Counted
<1>2. WaitingUpTo(b) \subseteq Clients
  BY DEF WaitingUpTo, Waiting
<1> QED
  BY <1>1, <1>2, IntervalAssumption, FS_Subset, FS_CardinalityType

\* A step that counts nobody, makes nobody wait and starts no Add.
LEMMA OthersKeepCover ==
    ASSUME CoverInv, CountTypes, CountTypes', clears' = 0 => clears = 0,
           clears' = 0 => /\ UNCHANGED <<binCounts, cookie>> /\ Waiting' = Waiting
                          /\ latestBinIdx <= latestBinIdx' /\ (Counting' => Counting)
    PROVE  CoverInv'
<1> SUFFICES ASSUME clears' = 0, NEW b \in Bins
             PROVE  /\ Counted(b)' >= Cardinality(WaitingUpTo(b))'
                    /\ Counting' /\ b >= latestBinIdx'
                       => Counted(b)' >= Cardinality(WaitingUpTo(b))' + 1
  BY DEF CoverInv
<1>1. Counted(b)' = Counted(b) /\ WaitingUpTo(b)' = WaitingUpTo(b)
  BY DEF Counted, WaitingUpTo
<1>2. latestBinIdx \in Int /\ latestBinIdx' \in Int /\ b \in Int
  BY BinsAreNumbers DEF CountTypes
<1> QED
  BY <1>1, <1>2 DEF CoverInv

LEMMA CoverInvStep ==
    ASSUME GateInv, GateInv', ServeInv, ServeInv', CoverInv, [Next]_vars
    PROVE  CoverInv'
<1>0. /\ CountTypes /\ CountTypes' /\ ArgsServed /\ HasBinWhileWaiting
      /\ pc \in [Threads -> Pcs] /\ clears \in Nat
      /\ latestBinIdx \in Nat
      /\ \A t \in Threads : pc[t] \in {"cookie", "removing"} => binMutex = t
      /\ \A t \in Threads : pc[t] \in {"clearLatest", "clearMax", "clearTotal"} => clears # 0
  BY DEF ServeInv, GateInv, GateTypes, MutexHeld, NoClearYet
<1>1. ASSUME NEW t \in Threads, Callers(t)
      PROVE  CoverInv'
  <2>1. /\ UNCHANGED <<binCounts, cookie, latestBinIdx, clears>>
        /\ \E op \in {"add", "remove", "clear"} : pc' = [pc EXCEPT ![t] = op]
    BY <1>1 DEF Callers, Call
  <2>2. Waiting' = Waiting
    BY <1>0, <1>1 DEF Callers, Call, Waiting, CountTypes
  <2>3. Counting' => Counting
    BY <1>0, <2>1 DEF Counting
  <2> QED
    BY <1>0, <2>1, <2>2, <2>3, OthersKeepCover
<1>2. ASSUME NEW t \in Threads, AddCount(t)
      PROVE  CoverInv'
  <2>1. /\ binCounts' = [binCounts EXCEPT ![latestBinIdx] = @ + 1] /\ latestBinIdx \in Bins
        /\ UNCHANGED <<cookie, phase, latestBinIdx, clears>>
    BY <1>0, <1>2 DEF AddCount, histVars, CountTypes
  <2> SUFFICES ASSUME clears = 0, NEW b \in Bins
               PROVE  /\ Counted(b)' >= Cardinality(WaitingUpTo(b))'
                      /\ b >= latestBinIdx => Counted(b)' >= Cardinality(WaitingUpTo(b))' + 1
    BY <2>1 DEF CoverInv
  <2>2. WaitingUpTo(b)' = WaitingUpTo(b)
    BY <2>1 DEF WaitingUpTo, Waiting
  <2>3. Counted(b)' = IF latestBinIdx <= b THEN Counted(b) + 1 ELSE Counted(b)
    <3> DEFINE k == latestBinIdx
               d == 1
    <3>1. CountTypes /\ k \in Bins /\ d \in Int /\ binCounts' = [binCounts EXCEPT ![k] = @ + d]
      BY <1>0, <2>1
    <3> HIDE DEF k, d
    <3>2. Counted(b)' = IF k <= b THEN Counted(b) + d ELSE Counted(b)
      BY <3>1, CountedChanges
    <3> QED
      BY <3>2 DEF k, d
  <2>4. Counted(b) >= Cardinality(WaitingUpTo(b))
    BY DEF CoverInv
  <2>5. Counted(b) \in Int /\ Cardinality(WaitingUpTo(b)) \in Nat /\ b \in Int
    BY <1>0, CoverTypes, BinsAreNumbers
  <2> QED
    BY <1>0, <2>2, <2>3, <2>4, <2>5
<1>3. ASSUME NEW t \in Threads, AddCookie(t)
      PROVE  CoverInv'
  <2>1. /\ pc[t] = "cookie" /\ binMutex = t /\ arg[t] \in Clients /\ phase[arg[t]] = "adding"
        /\ cookie' = [cookie EXCEPT ![arg[t]] = latestBinIdx]
        /\ phase' = [phase EXCEPT ![arg[t]] = "waiting"]
        /\ pc' = [pc EXCEPT ![t] = "idle"]
        /\ UNCHANGED <<binCounts, latestBinIdx, clears>>
    BY <1>0, <1>3 DEF AddCookie, Unlock, ArgsServed
  <2> SUFFICES ASSUME clears = 0, NEW b \in Bins
               PROVE  Counted(b)' >= Cardinality(WaitingUpTo(b))' /\ ~Counting'
    BY <2>1 DEF CoverInv
  <2>2. ~Counting'
    BY <1>0, <2>1 DEF Counting
  <2>3. Counted(b)' = Counted(b)
    BY <2>1 DEF Counted
  <2>4. Counted(b) \in Int /\ Cardinality(WaitingUpTo(b)) \in Nat /\ b \in Int
        /\ IsFiniteSet(WaitingUpTo(b))
    BY <1>0, CoverTypes, BinsAreNumbers
  <2>5. arg[t] \notin WaitingUpTo(b)
    BY <2>1 DEF WaitingUpTo, Waiting
  <2>6. CASE latestBinIdx <= b
    <3>1. WaitingUpTo(b)' = WaitingUpTo(b) \cup {arg[t]}
      BY <1>0, <2>1, <2>6 DEF WaitingUpTo, Waiting, CountTypes
    <3>2. Cardinality(WaitingUpTo(b))' = Cardinality(WaitingUpTo(b)) + 1
      BY <2>4, <2>5, <3>1, FS_AddElement
    <3>3. Counted(b) >= Cardinality(WaitingUpTo(b)) + 1
      BY <1>0, <2>1, <2>4, <2>6 DEF CoverInv, Counting
    <3> QED
      BY <2>2, <2>3, <3>2, <3>3
  <2>7. CASE ~(latestBinIdx <= b)
    <3>1. WaitingUpTo(b)' = WaitingUpTo(b)
      BY <1>0, <2>1, <2>7 DEF WaitingUpTo, Waiting, CountTypes
    <3> QED
      BY <2>2, <2>3, <3>1 DEF CoverInv
  <2> QED
    BY <2>6, <2>7
<1>4. ASSUME NEW t \in Threads, RemoveBegin(t)
      PROVE  CoverInv'
  <2>1. /\ UNCHANGED <<binCounts, cookie, latestBinIdx, phase, clears>>
        /\ pc' = [pc EXCEPT ![t] = "removing"]
    BY <1>4 DEF RemoveBegin, Goto, histVars
  <2>2. Waiting' = Waiting /\ (Counting' => Counting)
    BY <1>0, <2>1 DEF Waiting, Counting
  <2> QED
    BY <1>0, <2>1, <2>2, OthersKeepCover
<1>5. ASSUME NEW t \in Threads, RemoveFinish(t)
      PROVE  CoverInv'
  <2>1. /\ pc[t] = "removing" /\ binMutex = t /\ arg[t] \in Clients /\ phase[arg[t]] = "leaving"
        /\ arg[t] \in Waiting /\ cookie[arg[t]] \in Bins
        /\ phase' = [phase EXCEPT ![arg[t]] = "left"]
        /\ pc' = [pc EXCEPT ![t] = "idle"]
        /\ UNCHANGED <<cookie, latestBinIdx, clears>>
    BY <1>0, <1>5 DEF RemoveFinish, Unlock, ArgsServed, HasBinWhileWaiting, Waiting
  <2>2. binCounts' = [binCounts EXCEPT ![cookie[arg[t]]] = @ + (-1)]
    BY <1>0, <1>5, <2>1 DEF RemoveFinish, BinOf, CountTypes
  <2> SUFFICES ASSUME clears = 0, NEW b \in Bins
               PROVE  Counted(b)' >= Cardinality(WaitingUpTo(b))' /\ ~Counting'
    BY <2>1 DEF CoverInv
  <2>3. ~Counting'
    BY <1>0, <2>1 DEF Counting
  <2>4. Counted(b) \in Int /\ Cardinality(WaitingUpTo(b)) \in Nat /\ b \in Int
        /\ IsFiniteSet(WaitingUpTo(b)) /\ Counted(b) >= Cardinality(WaitingUpTo(b))
    BY <1>0, CoverTypes, BinsAreNumbers DEF CoverInv
  <2>5. Counted(b)' = IF cookie[arg[t]] <= b THEN Counted(b) + (-1) ELSE Counted(b)
    <3> DEFINE k == cookie[arg[t]]
               d == -1
    <3>1. CountTypes /\ k \in Bins /\ d \in Int /\ binCounts' = [binCounts EXCEPT ![k] = @ + d]
      BY <1>0, <2>1, <2>2
    <3> HIDE DEF k, d
    <3>2. Counted(b)' = IF k <= b THEN Counted(b) + d ELSE Counted(b)
      BY <3>1, CountedChanges
    <3> QED
      BY <3>2 DEF k, d
  <2>6. CASE cookie[arg[t]] <= b
    <3>1. WaitingUpTo(b)' = WaitingUpTo(b) \ {arg[t]} /\ arg[t] \in WaitingUpTo(b)
      BY <1>0, <2>1, <2>6 DEF WaitingUpTo, Waiting, CountTypes
    <3>2. Cardinality(WaitingUpTo(b))' = Cardinality(WaitingUpTo(b)) - 1
      BY <2>4, <3>1, FS_RemoveElement
    <3> QED
      BY <2>3, <2>4, <2>5, <2>6, <3>2
  <2>7. CASE ~(cookie[arg[t]] <= b)
    <3>1. WaitingUpTo(b)' = WaitingUpTo(b)
      BY <1>0, <2>1, <2>7 DEF WaitingUpTo, Waiting, CountTypes
    <3> QED
      BY <2>3, <2>4, <2>5, <2>7, <3>1
  <2> QED
    BY <2>6, <2>7
<1>6. ASSUME NEW t \in Threads, ClearCounts(t) \/ ClearLatest(t) \/ ClearMax(t) \/ ClearTotal(t)
      PROVE  CoverInv'
  <2>1. clears' # 0
    BY <1>0, <1>6 DEF ClearCounts, ClearLatest, ClearMax, ClearTotal
  <2> QED
    BY <2>1 DEF CoverInv
<1>7. CASE UpdateLatestBin
  <2>1. /\ UNCHANGED <<binCounts, cookie, phase, pc, clears>>
        /\ clears = 0 => latestBinIdx' = latestBinIdx + 1
    BY <1>7 DEF UpdateLatestBin, TimerFrame, callVars, histVars, GateInv, OperandsFresh
  <2>2. Waiting' = Waiting /\ (Counting' => Counting)
    BY <2>1 DEF Waiting, Counting
  <2> QED
    BY <1>0, <2>1, <2>2, OthersKeepCover
<1>8. CASE TimerFires \/ StopTimer \/ MaximizeBegin \/ MaximizeFinish \/ Cancel \/ UNCHANGED vars
  <2>1. UNCHANGED <<binCounts, cookie, phase, pc, clears, latestBinIdx>>
    BY <1>8 DEF TimerFires, StopTimer, MaximizeBegin, MaximizeFinish, Cancel, vars, TimerFrame,
       callVars, histVars
  <2>2. Waiting' = Waiting /\ (Counting' => Counting)
    BY <2>1 DEF Waiting, Counting
  <2> QED
    BY <1>0, <2>1, <2>2, OthersKeepCover
<1> QED
  BY <1>1, <1>2, <1>3, <1>4, <1>5, <1>6, <1>7, <1>8 DEF Next, ThreadStep

\* The invariant.
THEOREM IntervalInvariant == Spec => []GateInv
<1>1. GateInv /\ [Next]_vars => GateInv'
  BY ThreadsKeepGateInv, TimersKeepGateInv DEF Next
<1> QED
  BY GateInvInit, <1>1, PTL DEF Spec

\* Until a Clear, the considered bin is never ahead of the latest one, which
\* line 117 of interval_bins_queue.go asks for.
THEOREM IntervalGateBehindLatest == Spec => []GateBehindLatest
<1>1. GateInv => GateBehindLatest
  BY DEF GateInv
<1> QED
  BY <1>1, IntervalInvariant, PTL

\* Until a Clear, up to any bin at least as many clients are counted as wait
\* there, although the timer may open a bin between the two reads of
\* latestBinIdx in Add: a client is only ever counted too early.
THEOREM IntervalCountsCoverBins == Spec => []CountsCoverBins
<1>1. Init => ServeInv /\ CoverInv
  <2> SUFFICES ASSUME Init
               PROVE  ServeInv /\ CoverInv
    OBVIOUS
  <2>1. CountTypes /\ 0 \in Bins
    BY IntervalAssumption DEF Init, CountTypes, Bins
  <2>2. ServeInv
    BY <2>1, IntervalAssumption DEF Init, ServeInv, ArgsServed, ArgsDistinct, HasBinWhileWaiting,
       OperandsInRange, Waiting
  <2>3. ASSUME NEW b \in Bins
        PROVE  Counted(b) = 0 /\ WaitingUpTo(b) = {}
    <3>1. \A i \in 0 .. b : binCounts[i] = 0
      BY BinsAreNumbers DEF Init
    <3>2. Counted(b) = 0
      BY <3>1, SumOverZero, BinsAreNumbers DEF Counted
    <3> QED
      BY <3>2 DEF Init, WaitingUpTo, Waiting
  <2>4. Cardinality({}) = 0
    BY FS_EmptySet
  <2>5. ~Counting
    BY DEF Init, Counting
  <2> QED
    BY <2>2, <2>3, <2>4, <2>5 DEF CoverInv
<1>2. GateInv /\ ServeInv /\ [Next]_vars => ServeInv'
  BY ThreadsKeepServeInv, TimersKeepServeInv DEF Next
<1>3. GateInv /\ GateInv' /\ ServeInv /\ ServeInv' /\ CoverInv /\ [Next]_vars => CoverInv'
  BY CoverInvStep
<1>4. CoverInv => CountsCoverBins
  BY DEF CoverInv, CountsCoverBins, Counted, WaitingUpTo, SumOver
<1> QED
  BY <1>1, <1>2, <1>3, <1>4, IntervalInvariant, PTL DEF Spec
===============================================================================
