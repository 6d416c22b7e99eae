------------------------ MODULE CappedBinsQueue_proofs ------------------------
(***************************************************************************)
(* Proofs about CappedBinsQueue, for any clients and threads, any bin size *)
(* and any width of the counters: everything stays in its range, and until *)
(* a Clear, bins are packed, clients are binned in order of arrival, the   *)
(* counts agree with the clients, the gate moves forward as long as it     *)
(* does not overflow, and no store hits a missing bin.                     *)
(***************************************************************************)
EXTENDS CappedBinsQueue, FiniteSetTheorems, FiniteSums, TLAPS

Locked == {"roll", "incr", "make", "insert", "cookie", "removing"}
Pcs == {"idle"} \cup AddPcs \cup RemovePcs \cup ClearPcs

(***************************************************************************)
(* Who is served, whatever Clear does: a client is in the hands of one     *)
(* thread, has no cookie before its Add has finished, and a thread that is *)
(* past its Lock holds mu.                                                 *)
(***************************************************************************)
CallTypes ==
    /\ qpc \in [Threads -> Pcs] /\ qarg \in [Threads -> Clients \cup {NoClient}]
    /\ phase \in [Clients -> {"new", "adding", "waiting", "leaving", "left"}]
    /\ DOMAIN cookie = Clients
    /\ clears \in Nat
ArgsServed == \A t \in Threads :
    /\ qpc[t] \in AddPcs => qarg[t] \in Clients /\ phase[qarg[t]] = "adding"
    /\ qpc[t] \in RemovePcs => qarg[t] \in Clients /\ phase[qarg[t]] = "leaving"
ArgsDistinct == \A t, u \in Threads :
    t # u /\ qpc[t] \in AddPcs \cup RemovePcs /\ qpc[u] \in AddPcs \cup RemovePcs
    => qarg[t] # qarg[u]
NoCookieYet == \A c \in Clients : phase[c] \in {"new", "adding"} => cookie[c] = 0
MuHeld == \A t \in Threads : qpc[t] \in Locked => mu = t

CallInv == CallTypes /\ ArgsServed /\ ArgsDistinct /\ NoCookieYet /\ MuHeld

(***************************************************************************)
(* The bins, until a Clear.  Only the first map is in use, and all bins    *)
(* but the last are full; what an Add has found out about the last one is  *)
(* still true at its next step.                                            *)
(***************************************************************************)
FirstMap ==
    /\ DOMAIN maps = MapNo /\ bins = 0 /\ queueBin \in Nat \ {0}
    /\ \A t \in Threads : /\ qpc[t] \notin {"clearWorking", "clearQueue", "clearTotal"}
                          /\ qpc[t] \in AddPcs \ {"add"} => localBins = 0
BinsInTurn ==
    /\ DOMAIN maps[0] \subseteq 1 .. queueBin
    /\ \A b \in DOMAIN maps[0] : maps[0][b] \subseteq Clients
                                 /\ Cardinality(maps[0][b]) <= BinSize
    /\ \A b \in 1 .. queueBin - 1 : b \in DOMAIN maps[0] /\ Cardinality(maps[0][b]) = BinSize
LastBinKnown == \A t \in Threads :
    /\ qpc[t] \in {"roll", "incr", "insert", "cookie"} => queueBin \in DOMAIN maps[0]
    /\ qpc[t] = "incr" => localBin = queueBin /\ Cardinality(maps[0][queueBin]) = BinSize
    /\ qpc[t] = "make" => queueBin \notin DOMAIN maps[0]
    /\ qpc[t] = "insert" => Cardinality(maps[0][queueBin]) < BinSize
    /\ qpc[t] = "cookie" => qarg[t] \in maps[0][queueBin]
CookiesNameBins == \A c \in Clients :
    cookie[c] # 0 => cookie[c] \in DOMAIN maps[0] /\ c \in maps[0][cookie[c]]

BinInv == clears = 0 => FirstMap /\ BinsInTurn /\ LastBinKnown /\ CookiesNameBins

QueueInv == CallInv /\ BinInv /\ NilBinOnlyAfterClear

USE DEF AddPcs, RemovePcs, ClearPcs, Locked, Pcs

-----------------------------------------------------------------------------
(* Calls *)

LEMMA CallInvStep ==
    ASSUME CallInv, [Next]_queueVars
    PROVE  CallInv'
<1> USE DEF CallInv, CallTypes, ArgsServed, ArgsDistinct, NoCookieYet, MuHeld
<1>1. ASSUME NEW t \in Threads, Callers(t)
      PROVE  CallInv'
  <2>1. ASSUME NEW c \in Clients, phase[c] = "new", CallAdd(t, c)
        PROVE  CallInv'
    BY <2>1 DEF CallAdd, Call, muVars
  <2>2. ASSUME NEW c \in Clients, phase[c] = "waiting", CallRemove(t, c)
        PROVE  CallInv'
    BY <2>2 DEF CallRemove, Call, muVars
  <2>3. CASE CallClear(t)
    BY <2>3 DEF CallClear, Call, muVars
  <2> QED
    BY <1>1, <2>1, <2>2, <2>3 DEF Callers
<1>2. ASSUME NEW t \in Threads, AddBegin(t) \/ RemoveBegin(t)
      PROVE  CallInv'
  BY <1>2, QueueAssumption DEF AddBegin, RemoveBegin, Goto
<1>3. ASSUME NEW t \in Threads, AddRoll(t)
      PROVE  CallInv'
  BY <1>3 DEF AddRoll, Goto
<1>4. ASSUME NEW t \in Threads, AddIncr(t) \/ AddMake(t) \/ AddInsert(t)
      PROVE  CallInv'
  BY <1>4 DEF AddIncr, AddMake, AddInsert, Goto, muVars
<1>5. ASSUME NEW t \in Threads, AddCookie(t) \/ RemoveFinish(t)
      PROVE  CallInv'
  <2>1. qpc[t] \in {"cookie", "removing"} /\ mu = t /\ qarg[t] \in Clients
    BY <1>5 DEF AddCookie, RemoveFinish
  <2>2. /\ qpc' = [qpc EXCEPT ![t] = "idle"] /\ qarg' = [qarg EXCEPT ![t] = NoClient]
        /\ clears' = clears
        /\ \E p \in {"waiting", "left"} : phase' = [phase EXCEPT ![qarg[t]] = p]
        /\ cookie' = cookie \/ cookie' = [cookie EXCEPT ![qarg[t]] = queueBin]
    BY <1>5 DEF AddCookie, CookieValue, RemoveFinish, Return
  <2>3. CallTypes'
    BY <2>1, <2>2
  <2>4. ArgsServed' /\ ArgsDistinct' /\ NoCookieYet'
    BY <2>1, <2>2
  <2>5. MuHeld'
    BY <2>1, <2>2
  <2> QED
    BY <2>3, <2>4, <2>5
<1>6. ASSUME NEW t \in Threads, ClearStep(t)
      PROVE  CallInv'
  BY <1>6 DEF ClearStep, ClearMaps, ClearWorkingBin, ClearQueueBin, ClearTotal, Goto, Return, muVars
<1>7. CASE FeedbackStep \/ UNCHANGED queueVars
  BY <1>7 DEF FeedbackStep, ReceiveTrackerFeedback, AdjustWorkingBin, FeedbackReturn, queueVars,
     muVars, threadVars
<1> QED
  BY <1>1, <1>2, <1>3, <1>4, <1>5, <1>6, <1>7 DEF Next, ThreadStep, AddStep, RemoveStep
-----------------------------------------------------------------------------
(* Bins *)

\* A step that leaves the bins alone and takes no part in an Add.
LEMMA OthersKeepBinInv ==
    ASSUME CallInv, BinInv, clears' = 0 => clears = 0,
           clears = 0 => UNCHANGED <<maps, bins, queueBin, cookie, localBin>>,
           clears = 0 => localBins' = localBins \/ \A t \in Threads : qpc[t] \notin AddPcs \ {"add"},
           clears = 0 => \A t \in Threads :
              /\ qpc'[t] \notin {"clearWorking", "clearQueue", "clearTotal"}
              /\ qpc'[t] \in AddPcs \ {"add"} => qpc'[t] = qpc[t] /\ qarg'[t] = qarg[t]
    PROVE  BinInv'
<1> SUFFICES ASSUME clears' = 0
             PROVE  FirstMap' /\ BinsInTurn' /\ LastBinKnown' /\ CookiesNameBins'
  BY DEF BinInv
<1>1. clears = 0 /\ FirstMap /\ BinsInTurn /\ LastBinKnown /\ CookiesNameBins
  BY DEF BinInv
<1>2. FirstMap'
  BY <1>1 DEF FirstMap
<1>3. BinsInTurn' /\ CookiesNameBins'
  BY <1>1 DEF BinsInTurn, CookiesNameBins
<1>4. LastBinKnown'
  BY <1>1 DEF LastBinKnown
<1> QED
  BY <1>2, <1>3, <1>4

\* Only one thread is inside an Add.
LEMMA OneAdder ==
    ASSUME CallInv, NEW t \in Threads, qpc[t] \in AddPcs \ {"add"} \/ mu = NoThread,
           NEW u \in Threads \ {t}
    PROVE  qpc[u] \notin AddPcs \ {"add"}
BY QueueAssumption DEF CallInv, MuHeld

LEMMA AddBeginKeepsBinInv ==
    ASSUME CallInv, BinInv, NEW t \in Threads, AddBegin(t)
    PROVE  BinInv'
<1> SUFFICES ASSUME clears' = 0
             PROVE  FirstMap' /\ BinsInTurn' /\ LastBinKnown' /\ CookiesNameBins'
  BY DEF BinInv
<1>1. /\ UNCHANGED <<bins, queueBin, cookie, clears, qarg>> /\ localBins' = bins
      /\ qpc[t] = "add" /\ qpc' = [qpc EXCEPT ![t] = "roll"] /\ mu = NoThread
  BY DEF AddBegin, Goto
<1>2. FirstMap /\ BinsInTurn /\ LastBinKnown /\ CookiesNameBins
  BY <1>1 DEF BinInv
<1>3. \A u \in Threads \ {t} : qpc'[u] \notin AddPcs \ {"add"}
  BY <1>1, OneAdder DEF CallInv, CallTypes
<1>4. 0 \in DOMAIN maps
  BY <1>2, QueueAssumption DEF FirstMap, MapNo
<1>5. CASE queueBin \in DOMAIN maps[0]
  <2>1. maps' = maps
    BY <1>2, <1>5 DEF AddBegin, FirstMap
  <2> QED
    BY <1>1, <1>2, <1>3, <1>5, <2>1
    DEF FirstMap, BinsInTurn, LastBinKnown, CookiesNameBins, CallInv, CallTypes
<1>6. CASE queueBin \notin DOMAIN maps[0]
  <2>1. maps' = [maps EXCEPT ![0] = Put(maps[0], queueBin, {})]
    BY <1>2, <1>6 DEF AddBegin, FirstMap, MakeBin
  <2>2. maps'[0] = Put(maps[0], queueBin, {}) /\ DOMAIN maps' = DOMAIN maps
    BY <1>4, <2>1
  <2>3. /\ DOMAIN maps'[0] = DOMAIN maps[0] \cup {queueBin}
        /\ maps'[0][queueBin] = {} /\ Cardinality(maps'[0][queueBin]) = 0
        /\ \A b \in DOMAIN maps[0] : maps'[0][b] = maps[0][b]
    BY <1>6, <2>2, FS_EmptySet DEF Put
  <2>4. FirstMap'
    BY <1>1, <1>2, <1>3, <2>2 DEF FirstMap, CallInv, CallTypes
  <2>5. BinsInTurn'
    <3>1. DOMAIN maps'[0] \subseteq 1 .. queueBin'
      BY <1>1, <1>2, <2>3 DEF FirstMap, BinsInTurn
    <3>2. ASSUME NEW b \in DOMAIN maps'[0]
          PROVE  maps'[0][b] \subseteq Clients /\ Cardinality(maps'[0][b]) <= BinSize
      <4>1. CASE b = queueBin
        <5>1. maps'[0][b] = {} /\ Cardinality(maps'[0][b]) = 0
          BY <2>3, <4>1
        <5> QED
          BY <5>1, QueueAssumption
      <4>2. CASE b # queueBin
        <5>1. b \in DOMAIN maps[0] /\ maps'[0][b] = maps[0][b]
          BY <2>3, <4>2
        <5> QED
          BY <1>2, <5>1 DEF BinsInTurn
      <4> QED
        BY <4>1, <4>2
    <3>3. \A b \in 1 .. queueBin' - 1 : b \in DOMAIN maps'[0] /\ Cardinality(maps'[0][b]) = BinSize
      <4>1. \A b \in 1 .. queueBin - 1 : b # queueBin
        BY <1>2 DEF FirstMap
      <4> QED
        BY <1>1, <1>2, <4>1, <2>3 DEF BinsInTurn
    <3> QED
      BY <3>1, <3>2, <3>3 DEF BinsInTurn
  <2>6. LastBinKnown'
    BY <1>1, <1>2, <1>3, <2>3 DEF LastBinKnown, CallInv, CallTypes
  <2>7. CookiesNameBins'
    BY <1>1, <1>2, <2>3 DEF CookiesNameBins
  <2> QED
    BY <2>4, <2>5, <2>6, <2>7
<1> QED
  BY <1>5, <1>6

LEMMA AddRollKeepsBinInv ==
    ASSUME CallInv, BinInv, NEW t \in Threads, AddRoll(t)
    PROVE  BinInv'
<1> SUFFICES ASSUME clears' = 0
             PROVE  FirstMap' /\ BinsInTurn' /\ LastBinKnown' /\ CookiesNameBins'
  BY DEF BinInv
<1>1. /\ UNCHANGED <<maps, bins, queueBin, cookie, clears, qarg, localBins>>
      /\ qpc[t] = "roll"
  BY DEF AddRoll, Goto, mapVars
<1>2. FirstMap /\ BinsInTurn /\ LastBinKnown /\ CookiesNameBins
  BY <1>1 DEF BinInv
<1>3. \A u \in Threads \ {t} : qpc[u] \notin AddPcs \ {"add"}
  BY <1>1, OneAdder
<1>4. localBins = 0 /\ queueBin \in DOMAIN maps[0]
  BY <1>1, <1>2 DEF FirstMap, LastBinKnown
<1>5. /\ IsFiniteSet(maps[0][queueBin]) /\ Cardinality(maps[0][queueBin]) \in Nat
      /\ Cardinality(maps[0][queueBin]) <= BinSize
  BY <1>2, <1>4, QueueAssumption, FS_Subset, FS_CardinalityType DEF BinsInTurn
<1>6. CASE Cardinality(maps[0][queueBin]) >= BinSize
  <2>1. qpc' = [qpc EXCEPT ![t] = "incr"] /\ localBin' = queueBin
    BY <1>4, <1>6 DEF AddRoll, BinIsFull, BinLen, Goto
  <2> QED
    BY <1>1, <1>2, <1>3, <1>4, <1>5, <1>6, <2>1, QueueAssumption
    DEF FirstMap, BinsInTurn, LastBinKnown, CookiesNameBins, CallInv, CallTypes
<1>7. CASE Cardinality(maps[0][queueBin]) < BinSize
  <2>1. qpc' = [qpc EXCEPT ![t] = "insert"]
    BY <1>4, <1>5, <1>7, QueueAssumption DEF AddRoll, BinIsFull, BinLen, Goto
  <2> QED
    BY <1>1, <1>2, <1>3, <1>4, <1>5, <1>7, <2>1
    DEF FirstMap, BinsInTurn, LastBinKnown, CookiesNameBins, CallInv, CallTypes
<1> QED
  BY <1>5, <1>6, <1>7, QueueAssumption

LEMMA AddIncrKeepsBinInv ==
    ASSUME CallInv, BinInv, NEW t \in Threads, AddIncr(t)
    PROVE  BinInv'
<1> SUFFICES ASSUME clears' = 0
             PROVE  FirstMap' /\ BinsInTurn' /\ LastBinKnown' /\ CookiesNameBins'
  BY DEF BinInv
<1>1. /\ UNCHANGED <<maps, bins, cookie, clears, qarg, localBins>>
      /\ qpc[t] = "incr" /\ qpc' = [qpc EXCEPT ![t] = "make"]
      /\ queueBin' \in {localBin + 1, queueBin + 1}
  BY DEF AddIncr, Goto, mapVars, muVars
<1>2. FirstMap /\ BinsInTurn /\ LastBinKnown /\ CookiesNameBins
  BY <1>1 DEF BinInv
<1>3. \A u \in Threads \ {t} : qpc'[u] \notin AddPcs \ {"add"}
  BY <1>1, OneAdder DEF CallInv, CallTypes
<1>4. queueBin' = queueBin + 1 /\ queueBin \in DOMAIN maps[0] /\ queueBin \in Nat \ {0}
      /\ Cardinality(maps[0][queueBin]) = BinSize
  BY <1>1, <1>2 DEF FirstMap, LastBinKnown
<1>5. FirstMap'
  BY <1>1, <1>2, <1>3, <1>4 DEF FirstMap, CallInv, CallTypes
<1>6. BinsInTurn'
  BY <1>1, <1>2, <1>4 DEF BinsInTurn
<1>7. LastBinKnown'
  BY <1>1, <1>2, <1>3, <1>4 DEF LastBinKnown, BinsInTurn, CallInv, CallTypes
<1> QED
  BY <1>1, <1>2, <1>5, <1>6, <1>7 DEF CookiesNameBins

LEMMA AddMakeKeepsBinInv ==
    ASSUME CallInv, BinInv, NEW t \in Threads, AddMake(t)
    PROVE  BinInv'
<1> SUFFICES ASSUME clears' = 0
             PROVE  FirstMap' /\ BinsInTurn' /\ LastBinKnown' /\ CookiesNameBins'
  BY DEF BinInv
<1>1. /\ UNCHANGED <<bins, queueBin, cookie, clears, qarg, localBins>>
      /\ qpc[t] = "make" /\ qpc' = [qpc EXCEPT ![t] = "insert"]
  BY DEF AddMake, Goto, muVars
<1>2. FirstMap /\ BinsInTurn /\ LastBinKnown /\ CookiesNameBins
  BY <1>1 DEF BinInv
<1>3. \A u \in Threads \ {t} : qpc'[u] \notin AddPcs \ {"add"}
  BY <1>1, OneAdder DEF CallInv, CallTypes
<1>4. 0 \in DOMAIN maps /\ localBins = 0 /\ queueBin \notin DOMAIN maps[0]
  BY <1>1, <1>2, QueueAssumption DEF FirstMap, MapNo, LastBinKnown
<1>5. maps' = [maps EXCEPT ![0] = Put(maps[0], queueBin, {})]
  BY <1>4 DEF AddMake, MakeBin
<1>6. maps'[0] = Put(maps[0], queueBin, {}) /\ DOMAIN maps' = DOMAIN maps
  BY <1>4, <1>5
<1>7. /\ DOMAIN maps'[0] = DOMAIN maps[0] \cup {queueBin}
      /\ maps'[0][queueBin] = {} /\ Cardinality(maps'[0][queueBin]) = 0
      /\ \A b \in DOMAIN maps[0] : maps'[0][b] = maps[0][b]
  BY <1>4, <1>6, FS_EmptySet DEF Put
<1>8. FirstMap'
  BY <1>1, <1>2, <1>3, <1>4, <1>6 DEF FirstMap, CallInv, CallTypes
<1>9. BinsInTurn'
  <2>1. DOMAIN maps'[0] \subseteq 1 .. queueBin'
    BY <1>1, <1>2, <1>7 DEF FirstMap, BinsInTurn
  <2>2. ASSUME NEW b \in DOMAIN maps'[0]
        PROVE  maps'[0][b] \subseteq Clients /\ Cardinality(maps'[0][b]) <= BinSize
    <3>1. CASE b = queueBin
      <4>1. maps'[0][b] = {} /\ Cardinality(maps'[0][b]) = 0
        BY <1>7, <3>1
      <4> QED
        BY <4>1, QueueAssumption
    <3>2. CASE b # queueBin
      <4>1. b \in DOMAIN maps[0] /\ maps'[0][b] = maps[0][b]
        BY <1>7, <3>2
      <4> QED
        BY <1>2, <4>1 DEF BinsInTurn
    <3> QED
      BY <3>1, <3>2
  <2>3. \A b \in 1 .. queueBin' - 1 : b \in DOMAIN maps'[0] /\ Cardinality(maps'[0][b]) = BinSize
    <3>1. \A b \in 1 .. queueBin - 1 : b # queueBin
      BY <1>2 DEF FirstMap
    <3> QED
      BY <1>1, <1>2, <3>1, <1>7 DEF BinsInTurn
  <2> QED
    BY <2>1, <2>2, <2>3 DEF BinsInTurn
<1>10. LastBinKnown'
  BY <1>1, <1>3, <1>7, QueueAssumption DEF LastBinKnown, CallInv, CallTypes
<1>11. CookiesNameBins'
  BY <1>1, <1>2, <1>7 DEF CookiesNameBins
<1> QED
  BY <1>8, <1>9, <1>10, <1>11

\* The bin exists, so nothing is stored into a nil map; and it has room.
LEMMA AddInsertKeepsBinInv ==
    ASSUME CallInv, BinInv, NEW t \in Threads, AddInsert(t)
    PROVE  BinInv' /\ (clears = 0 => fault' = fault)
<1> SUFFICES ASSUME clears = 0
             PROVE  FirstMap' /\ BinsInTurn' /\ LastBinKnown' /\ CookiesNameBins' /\ fault' = fault
  BY DEF BinInv, AddInsert
<1>1. /\ UNCHANGED <<bins, queueBin, cookie, clears, qarg, localBins>>
      /\ qpc[t] = "insert" /\ qpc' = [qpc EXCEPT ![t] = "cookie"]
  BY DEF AddInsert, Goto
<1>2. FirstMap /\ BinsInTurn /\ LastBinKnown /\ CookiesNameBins
  BY <1>1 DEF BinInv
<1>3. \A u \in Threads \ {t} : qpc'[u] \notin AddPcs \ {"add"}
  BY <1>1, OneAdder DEF CallInv, CallTypes
<1>4. /\ 0 \in DOMAIN maps /\ localBins = 0 /\ queueBin \in DOMAIN maps[0]
      /\ Cardinality(maps[0][queueBin]) < BinSize
  BY <1>1, <1>2, QueueAssumption DEF FirstMap, MapNo, LastBinKnown
<1> DEFINE filled == maps[0][queueBin] \cup {qarg[t]}
<1>5. maps' = [maps EXCEPT ![0] = Put(maps[0], queueBin, filled)] /\ fault' = fault
  BY <1>4 DEF AddInsert
<1>6. qarg[t] \in Clients
  BY <1>1 DEF CallInv, ArgsServed
<1>7. filled \subseteq Clients /\ Cardinality(filled) <= BinSize
  <2>1. maps[0][queueBin] \in SUBSET Clients
    BY <1>2, <1>4 DEF BinsInTurn
  <2>2. IsFiniteSet(maps[0][queueBin]) /\ Cardinality(maps[0][queueBin]) \in Nat
    BY <2>1, QueueAssumption, FS_Subset, FS_CardinalityType
  <2>3. /\ IsFiniteSet(filled)
        /\ Cardinality(filled) \in {Cardinality(maps[0][queueBin]), Cardinality(maps[0][queueBin]) + 1}
    BY <2>2, FS_AddElement
  <2> QED
    BY <1>4, <1>6, <2>1, <2>2, <2>3, QueueAssumption
<1> HIDE DEF filled
<1>8. maps'[0] = Put(maps[0], queueBin, filled) /\ DOMAIN maps' = DOMAIN maps
  BY <1>4, <1>5
<1>9. /\ DOMAIN maps'[0] = DOMAIN maps[0]
      /\ maps'[0][queueBin] = filled
      /\ \A b \in DOMAIN maps[0] \ {queueBin} : maps'[0][b] = maps[0][b]
  BY <1>4, <1>8 DEF Put
<1>10. qarg[t] \in filled /\ maps[0][queueBin] \subseteq filled
  BY DEF filled
<1>11. FirstMap'
  BY <1>1, <1>2, <1>3, <1>4, <1>8 DEF FirstMap, CallInv, CallTypes
<1>12. BinsInTurn'
  BY <1>1, <1>2, <1>7, <1>9 DEF FirstMap, BinsInTurn
<1>13. LastBinKnown'
  BY <1>1, <1>3, <1>4, <1>9, <1>10 DEF LastBinKnown, CallInv, CallTypes
<1>14. CookiesNameBins'
  BY <1>1, <1>2, <1>9, <1>10 DEF CookiesNameBins
<1> QED
  BY <1>5, <1>11, <1>12, <1>13, <1>14

LEMMA AddCookieKeepsBinInv ==
    ASSUME CallInv, BinInv, NEW t \in Threads, AddCookie(t)
    PROVE  BinInv'
<1> SUFFICES ASSUME clears' = 0
             PROVE  FirstMap' /\ BinsInTurn' /\ LastBinKnown' /\ CookiesNameBins'
  BY DEF BinInv
<1>1. /\ UNCHANGED <<maps, bins, queueBin, clears>>
      /\ qpc[t] = "cookie" /\ qpc' = [qpc EXCEPT ![t] = "idle"]
      /\ cookie' = [cookie EXCEPT ![qarg[t]] = queueBin]
  BY DEF AddCookie, CookieValue, Return, mapVars
<1>2. FirstMap /\ BinsInTurn /\ LastBinKnown /\ CookiesNameBins
  BY <1>1 DEF BinInv
<1>3. \A u \in Threads : qpc'[u] \notin AddPcs \ {"add"}
  BY <1>1, OneAdder DEF CallInv, CallTypes
<1>4. queueBin \in DOMAIN maps[0] /\ qarg[t] \in maps[0][queueBin]
  BY <1>1, <1>2 DEF LastBinKnown
<1>5. FirstMap' /\ LastBinKnown'
  BY <1>1, <1>2, <1>3 DEF FirstMap, LastBinKnown, CallInv, CallTypes
<1>6. CookiesNameBins'
  BY <1>1, <1>2, <1>4 DEF CookiesNameBins, CallInv, CallTypes
<1> QED
  BY <1>1, <1>2, <1>5, <1>6 DEF BinsInTurn
LEMMA BinInvStep ==
    ASSUME CallInv, BinInv, [Next]_queueVars
    PROVE  BinInv'
<1>1. ASSUME NEW t \in Threads, Callers(t)
      PROVE  BinInv'
  <2>1. /\ UNCHANGED <<maps, bins, queueBin, cookie, localBin, localBins, clears>>
        /\ \E op \in {"add", "remove", "clear"} : qpc' = [qpc EXCEPT ![t] = op]
        /\ \A u \in Threads \ {t} : qarg'[u] = qarg[u]
    BY <1>1 DEF Callers, CallAdd, CallRemove, CallClear, Call, mapVars, muVars, CallInv, CallTypes
  <2>2. \A u \in Threads :
           /\ clears = 0 => qpc'[u] \notin {"clearWorking", "clearQueue", "clearTotal"}
           /\ qpc'[u] \in AddPcs \ {"add"} => qpc'[u] = qpc[u] /\ qarg'[u] = qarg[u]
    BY <2>1 DEF CallInv, CallTypes, BinInv, FirstMap
  <2> QED
    BY <2>1, <2>2, OthersKeepBinInv
<1>2. ASSUME NEW t \in Threads, RemoveStep(t)
      PROVE  BinInv'
  <2>1. /\ UNCHANGED <<maps, bins, queueBin, cookie, localBin, clears>>
           \/ UNCHANGED <<maps, bins, queueBin, cookie, clears>>
        /\ \E pc \in {"idle", "removing"} : qpc' = [qpc EXCEPT ![t] = pc]
        /\ \A u \in Threads \ {t} : qarg'[u] = qarg[u]
        /\ qpc[t] \in {"remove", "removing"}
    BY <1>2 DEF RemoveStep, RemoveBegin, RemoveFinish, Goto, Return, mapVars, CallInv, CallTypes
  <2>2. \A u \in Threads : qpc[u] \notin AddPcs \ {"add"}
    BY <1>2, QueueAssumption DEF RemoveStep, RemoveBegin, RemoveFinish, CallInv, MuHeld
  <2>3. \A u \in Threads : qpc'[u] \notin AddPcs \ {"add"}
    BY <2>1, <2>2 DEF CallInv, CallTypes
  <2>4. clears = 0 => \A u \in Threads : qpc'[u] \notin {"clearWorking", "clearQueue", "clearTotal"}
    BY <2>1 DEF CallInv, CallTypes, BinInv, FirstMap
  <2> QED
    BY <2>1, <2>3, <2>4 DEF BinInv, FirstMap, BinsInTurn, LastBinKnown, CookiesNameBins
<1>3. ASSUME NEW t \in Threads, ClearStep(t)
      PROVE  BinInv'
  <2>1. CASE ClearMaps(t)
    BY <2>1 DEF ClearMaps, BinInv, CallInv, CallTypes
  <2>2. CASE ClearWorkingBin(t) \/ ClearQueueBin(t) \/ ClearTotal(t)
    BY <2>2 DEF ClearWorkingBin, ClearQueueBin, ClearTotal, BinInv, FirstMap
  <2> QED
    BY <1>3, <2>1, <2>2 DEF ClearStep
<1>4. ASSUME NEW t \in Threads, AddStep(t)
      PROVE  BinInv'
  BY <1>4, AddBeginKeepsBinInv, AddRollKeepsBinInv, AddIncrKeepsBinInv, AddMakeKeepsBinInv,
     AddInsertKeepsBinInv, AddCookieKeepsBinInv DEF AddStep
<1>5. CASE FeedbackStep \/ UNCHANGED queueVars
  <2>1. UNCHANGED <<maps, bins, queueBin, cookie, clears, localBin, localBins, qpc, qarg>>
    BY <1>5 DEF FeedbackStep, ReceiveTrackerFeedback, AdjustWorkingBin, FeedbackReturn, queueVars,
       mapVars, muVars, threadVars
  <2> QED
    BY <2>1 DEF BinInv, FirstMap, BinsInTurn, LastBinKnown, CookiesNameBins
<1> QED
  BY <1>1, <1>2, <1>3, <1>4, <1>5 DEF Next, ThreadStep

\* Only an Add stores into a bin, and until a Clear its bin is there.
LEMMA NilBinStep ==
    ASSUME CallInv, BinInv, NilBinOnlyAfterClear, [Next]_queueVars
    PROVE  NilBinOnlyAfterClear'
<1>1. ASSUME NEW t \in Threads, AddInsert(t)
      PROVE  NilBinOnlyAfterClear'
  BY <1>1, AddInsertKeepsBinInv DEF AddInsert, NilBinOnlyAfterClear, CallInv, CallTypes
<1>2. ASSUME NEW t \in Threads,
             Callers(t) \/ RemoveStep(t) \/ ClearStep(t)
               \/ AddBegin(t) \/ AddRoll(t) \/ AddIncr(t) \/ AddMake(t) \/ AddCookie(t)
      PROVE  NilBinOnlyAfterClear'
  <2>1. fault' = fault /\ (clears' = clears \/ clears' = clears + 1)
    BY <1>2 DEF Callers, CallAdd, CallRemove, CallClear, Call, AddBegin, AddRoll, AddIncr, AddMake,
       AddCookie, RemoveStep, RemoveBegin, RemoveFinish, ClearStep, ClearMaps, ClearWorkingBin,
       ClearQueueBin, ClearTotal
  <2> QED
    BY <2>1 DEF NilBinOnlyAfterClear, CallInv, CallTypes
<1>3. CASE FeedbackStep \/ UNCHANGED queueVars
  BY <1>3 DEF NilBinOnlyAfterClear, FeedbackStep, ReceiveTrackerFeedback, AdjustWorkingBin,
     FeedbackReturn, queueVars
<1> QED
  BY <1>1, <1>2, <1>3 DEF Next, ThreadStep, AddStep

-----------------------------------------------------------------------------
(***************************************************************************)
(* Bin numbers stay below the number of clients, whatever Clear does: an   *)
(* Add opens at most one bin, so every bin but the first has a client of   *)
(* its own that opened it, or could have.  This also holds for an operand  *)
(* that was read before a Clear and stored after it.                       *)
(***************************************************************************)
PastIncr(c) ==
    \/ phase[c] \in {"waiting", "leaving", "left"}
    \/ \E t \in Threads : qarg[t] = c /\ qpc[t] \in {"make", "insert", "cookie"}
Charged == {c \in Clients : PastIncr(c)}

BinsCharged ==
    /\ queueBin \in 1 .. Cardinality(Charged) + 1
    /\ localBin \in Nat \ {0}
    /\ \A t \in Threads : qpc[t] = "incr" => localBin \in 1 .. Cardinality(Charged) + 1

LEMMA ChargedFinite ==
    /\ IsFiniteSet(Charged) /\ Cardinality(Charged) \in Nat
    /\ Cardinality(Charged) <= Cardinality(Clients)
    /\ Cardinality(Clients) \in Nat
<1>1. IsFiniteSet(Charged) /\ Cardinality(Charged) <= Cardinality(Clients)
  BY QueueAssumption, FS_Subset DEF Charged
<1> QED
  BY <1>1, QueueAssumption, FS_CardinalityType

\* A step that charges no bin more than its clients.
LEMMA ChargedGrows ==
    ASSUME BinsCharged, Charged \subseteq Charged',
           queueBin' = queueBin \/ queueBin' = 1,
           localBin' = localBin \/ localBin' = queueBin \/ localBin' = 1,
           \A t \in Threads : qpc'[t] = "incr" =>
              localBin' = queueBin \/ (qpc[t] = "incr" /\ localBin' = localBin)
    PROVE  BinsCharged'
<1>1. IsFiniteSet(Charged') /\ Cardinality(Charged)' \in Nat
  BY QueueAssumption, FS_Subset, FS_CardinalityType DEF Charged
<1>2. Cardinality(Charged) <= Cardinality(Charged)'
  BY <1>1, FS_Subset
<1> QED
  BY <1>1, <1>2, ChargedFinite DEF BinsCharged

LEMMA BinsChargedStep ==
    ASSUME CallInv, BinsCharged, [Next]_queueVars
    PROVE  BinsCharged'
<1> USE DEF CallInv, CallTypes, ArgsServed, ArgsDistinct
<1>1. ASSUME NEW t \in Threads, Callers(t)
      PROVE  BinsCharged'
  <2>1. /\ UNCHANGED <<queueBin, localBin>>
        /\ \E op \in {"add", "remove", "clear"} : qpc' = [qpc EXCEPT ![t] = op]
        /\ \A u \in Threads \ {t} : qarg'[u] = qarg[u]
        /\ qpc[t] = "idle"
    BY <1>1 DEF Callers, CallAdd, CallRemove, CallClear, Call, muVars
  <2>2. \A c \in Clients : phase[c] \in {"waiting", "leaving", "left"}
                           => phase'[c] \in {"waiting", "leaving", "left"}
    BY <1>1 DEF Callers, CallAdd, CallRemove, CallClear, Call
  <2>3. Charged \subseteq Charged'
    BY <2>1, <2>2 DEF Charged, PastIncr
  <2> QED
    BY <2>1, <2>3, ChargedGrows
<1>2. ASSUME NEW t \in Threads, AddIncr(t)
      PROVE  BinsCharged'
  <2>1. /\ qpc[t] = "incr" /\ qpc' = [qpc EXCEPT ![t] = "make"]
        /\ queueBin' \in {localBin + 1, queueBin + 1}
        /\ UNCHANGED <<qarg, phase, localBin>>
    BY <1>2 DEF AddIncr, Goto, muVars
  <2>2. qarg[t] \in Clients /\ qarg[t] \notin Charged
    BY <2>1 DEF Charged, PastIncr
  <2>3. Charged' = Charged \cup {qarg[t]}
    BY <2>1, <2>2 DEF Charged, PastIncr
  <2>4. Cardinality(Charged)' = Cardinality(Charged) + 1
    BY <2>2, <2>3, ChargedFinite, FS_AddElement
  <2>5. \A u \in Threads : qpc'[u] = "incr" => qpc[u] = "incr"
    BY <2>1
  <2> QED
    BY <2>1, <2>4, <2>5, ChargedFinite DEF BinsCharged
<1>3. ASSUME NEW t \in Threads, AddBegin(t) \/ AddRoll(t) \/ AddMake(t) \/ AddInsert(t)
      PROVE  BinsCharged'
  <2>1. /\ UNCHANGED <<queueBin, qarg, phase>>
        /\ \/ qpc[t] = "add" /\ qpc' = [qpc EXCEPT ![t] = "roll"] /\ localBin' = localBin
           \/ qpc[t] = "roll" /\ qpc' = [qpc EXCEPT ![t] = "incr"] /\ localBin' = queueBin
           \/ qpc[t] = "roll" /\ qpc' = [qpc EXCEPT ![t] = "insert"] /\ localBin' = localBin
           \/ qpc[t] = "make" /\ qpc' = [qpc EXCEPT ![t] = "insert"] /\ localBin' = localBin
           \/ qpc[t] = "insert" /\ qpc' = [qpc EXCEPT ![t] = "cookie"] /\ localBin' = localBin
    BY <1>3 DEF AddBegin, AddRoll, AddMake, AddInsert, Goto, muVars
  <2>2. Charged \subseteq Charged'
    BY <2>1 DEF Charged, PastIncr
  <2>3. \A u \in Threads : qpc'[u] = "incr" =>
           localBin' = queueBin \/ (qpc[u] = "incr" /\ localBin' = localBin)
    BY <2>1
  <2> QED
    BY <2>1, <2>2, <2>3, ChargedGrows
<1>4. ASSUME NEW t \in Threads, AddCookie(t) \/ RemoveStep(t)
      PROVE  BinsCharged'
  <2>1. /\ queueBin' = queueBin /\ localBin' \in {localBin, 1}
        /\ qpc[t] \in {"cookie", "remove", "removing"}
        /\ \E pc \in {"idle", "removing"} : qpc' = [qpc EXCEPT ![t] = pc]
        /\ \A u \in Threads \ {t} : qarg'[u] = qarg[u]
        /\ qarg[t] \in Clients
        /\ \/ phase' = phase /\ qpc[t] = "remove"
           \/ \E p \in {"waiting", "left"} : phase' = [phase EXCEPT ![qarg[t]] = p]
    BY <1>4 DEF AddCookie, RemoveStep, RemoveBegin, RemoveFinish, Goto, Return, Unlock
  <2>2. Charged \subseteq Charged'
    BY <2>1 DEF Charged, PastIncr
  <2>3. \A u \in Threads : qpc'[u] # "incr"
    <3>1. mu = NoThread \/ mu = t
      BY <1>4 DEF AddCookie, RemoveStep, RemoveBegin, RemoveFinish, MuHeld
    <3> QED
      BY <2>1, <3>1, QueueAssumption DEF MuHeld
  <2> QED
    BY <2>1, <2>2, <2>3, ChargedGrows
<1>5. ASSUME NEW t \in Threads, ClearStep(t)
      PROVE  BinsCharged'
  <2>1. /\ queueBin' \in {queueBin, 1} /\ localBin' = localBin /\ phase' = phase
        /\ \E pc \in {"idle"} \cup ClearPcs : qpc' = [qpc EXCEPT ![t] = pc]
        /\ \A u \in Threads \ {t} : qarg'[u] = qarg[u]
        /\ qpc[t] \in ClearPcs
    BY <1>5 DEF ClearStep, ClearMaps, ClearWorkingBin, ClearQueueBin, ClearTotal, Goto, Return, muVars
  <2>2. Charged \subseteq Charged'
    BY <2>1 DEF Charged, PastIncr
  <2> QED
    BY <2>1, <2>2, ChargedGrows
<1>6. CASE FeedbackStep \/ UNCHANGED queueVars
  <2>1. UNCHANGED <<queueBin, localBin, qpc, qarg, phase>>
    BY <1>6 DEF FeedbackStep, ReceiveTrackerFeedback, AdjustWorkingBin, FeedbackReturn, queueVars,
       muVars, threadVars
  <2> QED
    BY <2>1 DEF BinsCharged, Charged, PastIncr
<1> QED
  BY <1>1, <1>2, <1>3, <1>4, <1>5, <1>6 DEF Next, ThreadStep, AddStep

LEMMA QueueBinInRange == BinsCharged => queueBin \in BinNo
BY ChargedFinite DEF BinsCharged, BinNo

MapsType ==
    /\ DOMAIN maps = MapNo
    /\ \A m \in MapNo : /\ DOMAIN maps[m] \subseteq BinNo
                        /\ \A b \in DOMAIN maps[m] : maps[m][b] \subseteq Clients

\* A bin is stored into one of the maps.
LEMMA PutType ==
    ASSUME MapsType, NEW m \in MapNo, NEW b \in BinNo, NEW S, S \subseteq Clients,
           maps' = [maps EXCEPT ![m] = Put(maps[m], b, S)]
    PROVE  MapsType'
<1>1. DOMAIN maps' = MapNo /\ maps'[m] = Put(maps[m], b, S)
  BY DEF MapsType
<1>2. ASSUME NEW k \in MapNo
      PROVE  /\ DOMAIN maps'[k] \subseteq BinNo
             /\ \A x \in DOMAIN maps'[k] : maps'[k][x] \subseteq Clients
  <2>1. CASE k = m
    BY <1>1, <2>1 DEF Put, MapsType
  <2>2. CASE k # m
    <3>1. maps'[k] = maps[k]
      BY <2>2 DEF MapsType
    <3> QED
      BY <3>1 DEF MapsType
  <2> QED
    BY <2>1, <2>2
<1> QED
  BY <1>1, <1>2 DEF MapsType

LEMMA MakeType ==
    ASSUME MapsType, NEW m \in MapNo, NEW b \in BinNo, maps' = [maps EXCEPT ![m] = MakeBin(@, b)]
    PROVE  MapsType'
<1> DEFINE none == {}
<1>1. none \subseteq Clients /\ maps' = [maps EXCEPT ![m] = Put(maps[m], b, none)]
  BY DEF MakeBin
<1> HIDE DEF none
<1> QED
  BY <1>1, PutType

\* An int64 sum is an int64, whether it has wrapped or not.
LEMMA WrapType ==
    ASSUME NEW n \in -2 * MaxInt64 - 2 .. 2 * MaxInt64 + 2
    PROVE  Wrap(n) \in Int64
BY QueueAssumption DEF Wrap, Int64

LEMMA AdjustedType ==
    ASSUME NEW x \in Int64, NEW y \in Int64
    PROVE  Adjusted(x, y) \in Int64
<1>1. /\ x + y + 2 \in -2 * MaxInt64 - 2 .. 2 * MaxInt64 + 2
      /\ x + 1 \in -2 * MaxInt64 - 2 .. 2 * MaxInt64 + 2
  BY QueueAssumption DEF Int64
<1> QED
  BY <1>1, WrapType DEF Adjusted

LEMMA TypeStep ==
    ASSUME TypeOK, CallInv, BinsCharged, BinsCharged', [Next]_queueVars
    PROVE  TypeOK'
<1> USE QueueAssumption DEF TypeOK
<1>0. MapsType
  BY DEF MapsType
<1>1. queueBin \in BinNo /\ 1 \in BinNo
  BY QueueBinInRange, ChargedFinite DEF BinNo
<1>2. ASSUME NEW t \in Threads, Callers(t)
      PROVE  TypeOK'
  BY <1>2 DEF Callers, CallAdd, CallRemove, CallClear, Call, mapVars, muVars, feedVars
<1>3. ASSUME NEW t \in Threads, AddBegin(t)
      PROVE  TypeOK'
  <2>1. MapsType'
    <3>1. CASE queueBin \in DOMAIN maps[bins]
      BY <1>0, <1>3, <3>1 DEF AddBegin, MapsType
    <3>2. CASE queueBin \notin DOMAIN maps[bins]
      <4>1. maps' = [maps EXCEPT ![bins] = MakeBin(@, queueBin)]
        BY <1>3, <3>2 DEF AddBegin
      <4> QED
        BY <1>0, <1>1, <4>1, MakeType
    <3> QED
      BY <3>1, <3>2
  <2> QED
    BY <1>3, <2>1 DEF AddBegin, Goto, feedVars, MapsType
<1>4. ASSUME NEW t \in Threads, AddRoll(t)
      PROVE  TypeOK'
  BY <1>1, <1>4 DEF AddRoll, Goto, mapVars, feedVars
<1>5. ASSUME NEW t \in Threads, AddIncr(t)
      PROVE  TypeOK'
  <2>1. queueBin' \in BinNo
    <3>1. (BinsCharged => queueBin \in BinNo)'
      BY QueueBinInRange, PTL
    <3> QED
      BY <3>1 DEF BinNo
  <2> QED
    BY <1>5, <2>1 DEF AddIncr, Goto, mapVars, muVars, feedVars
<1>6. ASSUME NEW t \in Threads, AddMake(t)
      PROVE  TypeOK'
  <2>1. MapsType'
    <3>1. maps' = [maps EXCEPT ![localBins] = MakeBin(@, queueBin)]
      BY <1>6 DEF AddMake
    <3> QED
      BY <1>0, <1>1, <3>1, MakeType
  <2> QED
    BY <1>6, <2>1 DEF AddMake, Goto, muVars, feedVars, MapsType
<1>7. ASSUME NEW t \in Threads, AddInsert(t)
      PROVE  TypeOK'
  <2>1. qarg[t] \in Clients
    BY <1>7 DEF AddInsert, CallInv, ArgsServed
  <2>2. MapsType'
    <3>1. CASE queueBin \in DOMAIN maps[localBins]
      <4>1. maps[localBins][queueBin] \cup {qarg[t]} \subseteq Clients
        BY <2>1, <3>1
      <4> QED
        BY <1>0, <1>1, <1>7, <3>1, <4>1, PutType DEF AddInsert
    <3>2. CASE queueBin \notin DOMAIN maps[localBins]
      BY <1>0, <1>7, <3>2 DEF AddInsert, MapsType
    <3> QED
      BY <3>1, <3>2
  <2> QED
    BY <1>7, <2>2 DEF AddInsert, Goto, feedVars, MapsType
<1>8. ASSUME NEW t \in Threads, AddCookie(t)
      PROVE  TypeOK'
  <2>1. /\ totalQueuedClients' \in Int
        /\ mu' = NoThread /\ localBins' = 0 /\ localBin' = 1 /\ localTotal' = 0
        /\ 0 \in MapNo
    BY <1>8 DEF AddCookie, Unlock, MapNo
  <2>2. /\ cookie' \in [Clients -> BinNo \cup {0}]
        /\ qpc' \in [Threads -> {"idle"} \cup AddPcs \cup RemovePcs \cup ClearPcs]
        /\ qarg' \in [Threads -> Clients \cup {NoClient}]
        /\ phase' \in [Clients -> {"new", "adding", "waiting", "leaving", "left"}]
    BY <1>1, <1>8 DEF AddCookie, CookieValue, Return
  <2> QED
    BY <1>1, <1>8, <2>1, <2>2 DEF AddCookie, mapVars, feedVars
<1>9. ASSUME NEW t \in Threads, RemoveBegin(t)
      PROVE  TypeOK'
  BY <1>9 DEF RemoveBegin, Goto, mapVars, feedVars
<1>10. ASSUME NEW t \in Threads, RemoveFinish(t)
       PROVE  TypeOK'
  <2>1. Dequeues(workingBin) \in Nat
    BY DEF Dequeues
  <2>2. /\ DOMAIN curWindowDequeues' \subseteq Int64
        /\ \A b \in DOMAIN curWindowDequeues' : curWindowDequeues'[b] \in Nat
    BY <1>10, <2>1 DEF RemoveFinish, OneDequeued, Put
  <2>3. /\ totalQueuedClients' \in Int
        /\ mu' = NoThread /\ localBins' = 0 /\ localBin' = 1 /\ localTotal' = 0
        /\ 0 \in MapNo
    BY <1>10 DEF RemoveFinish, OneLess, Unlock, MapNo
  <2>4. /\ qpc' \in [Threads -> {"idle"} \cup AddPcs \cup RemovePcs \cup ClearPcs]
        /\ qarg' \in [Threads -> Clients \cup {NoClient}]
        /\ phase' \in [Clients -> {"new", "adding", "waiting", "leaving", "left"}]
    BY <1>10 DEF RemoveFinish, Return
  <2> QED
    BY <1>1, <1>10, <2>2, <2>3, <2>4 DEF RemoveFinish, mapVars, feedVars
<1>11. ASSUME NEW t \in Threads, ClearMaps(t)
       PROVE  TypeOK'
  BY <1>11 DEF ClearMaps, EmptyMap, Goto, MapNo, muVars, feedVars
<1>12. ASSUME NEW t \in Threads, ClearWorkingBin(t) \/ ClearQueueBin(t) \/ ClearTotal(t)
       PROVE  TypeOK'
  BY <1>1, <1>12 DEF ClearWorkingBin, ClearQueueBin, ClearTotal, Goto, Return, mapVars, muVars,
     feedVars, Int64
<1>13. CASE FeedbackStep
  <2>1. ASSUME NEW fb \in Feedbacks, ReceiveTrackerFeedback(fb)
        PROVE  TypeOK'
    <3>1. fb.CheckoutUtil \in Nat
      BY DEF Feedbacks
    <3>2. /\ fbLocal' \in [util: Nat, bin: Int64, drained: BOOLEAN]
          /\ fpc' \in {"idle", "adjust", "done"} /\ fault' \in {"none", "nilBin", "mapRace"}
      <4> DEFINE drained == 2 * Dequeues(workingBin) > BinSize
                 read == [util |-> fb.CheckoutUtil, bin |-> workingBin, drained |-> drained]
      <4>1. drained \in BOOLEAN
        OBVIOUS
      <4>2. workingBin \in Int64
        OBVIOUS
      <4>3. fbLocal' = read \/ fbLocal' = fbLocal
        BY <2>1 DEF ReceiveTrackerFeedback, feedVars
      <4>4. /\ fpc' \in {"idle", "adjust", "done"}
            /\ fault' \in {"none", "nilBin", "mapRace"}
            /\ fbLocal \in [util: Nat, bin: Int64, drained: BOOLEAN]
        BY <2>1 DEF ReceiveTrackerFeedback, feedVars
      <4> HIDE DEF drained, TypeOK
      <4>5. read \in [util: Nat, bin: Int64, drained: BOOLEAN]
        BY <3>1, <4>1, <4>2
      <4> QED
        BY <4>3, <4>4, <4>5
    <3> QED
      BY <2>1, <3>2 DEF ReceiveTrackerFeedback, mapVars, muVars, threadVars
  <2>2. CASE AdjustWorkingBin
    <3>1. workingBin' \in Int64
      BY <2>2, AdjustedType DEF AdjustWorkingBin
    <3> QED
      BY <2>2, <3>1 DEF AdjustWorkingBin, mapVars, muVars, threadVars
  <2>3. CASE FeedbackReturn
    BY <2>3 DEF FeedbackReturn, NoFbLocal, mapVars, muVars, threadVars, Int64
  <2> QED
    BY <1>13, <2>1, <2>2, <2>3 DEF FeedbackStep
<1>14. CASE UNCHANGED queueVars
  BY <1>14 DEF queueVars, mapVars, muVars, threadVars, feedVars
<1> QED
  BY <1>2, <1>3, <1>4, <1>5, <1>6, <1>7, <1>8, <1>9, <1>10, <1>11, <1>12, <1>13, <1>14
  DEF Next, ThreadStep, AddStep, RemoveStep, ClearStep

-----------------------------------------------------------------------------
(* The gate, until a Clear and while it is far from the largest int64: it   *)
(* is not moved between the read and the store of ReceiveTrackerFeedback.   *)

GateInv == clears = 0 =>
    /\ workingBin \in Nat \ {0}
    /\ fpc = "adjust" => fbLocal.bin = workingBin

\* The next store does not overflow.
GateNotFull == clears = 0 /\ fpc = "adjust" => 2 * workingBin + 2 <= MaxInt64

\* Feedback is processed below the model's bound only.
GateBounded == clears = 0 /\ fpc = "adjust" => workingBin <= WorkingBinBound

LEMMA AdjustedUp ==
    ASSUME clears = 0, GateInv, GateNotFull, TypeOK, AdjustWorkingBin
    PROVE  workingBin' \in Nat /\ workingBin <= workingBin'
<1>1. /\ workingBin \in Nat \ {0} /\ fbLocal.bin = workingBin
      /\ workingBin' = Adjusted(workingBin, workingBin)
  BY DEF GateInv, AdjustWorkingBin
<1>2. 2 * workingBin + 2 <= MaxInt64 /\ MaxInt64 \in Nat
  BY QueueAssumption DEF GateNotFull, AdjustWorkingBin
<1>3. /\ Wrap(workingBin + workingBin + 2) = workingBin + workingBin + 2
      /\ Wrap(workingBin + 1) = workingBin + 1
  BY <1>1, <1>2 DEF Wrap
<1>4. \/ Adjusted(workingBin, workingBin) = workingBin + workingBin + 2
      \/ Adjusted(workingBin, workingBin) = workingBin + 1
      \/ Adjusted(workingBin, workingBin) = workingBin
  BY <1>3 DEF Adjusted
<1> QED
  BY <1>1, <1>4

\* Only ReceiveTrackerFeedback moves the gate.
LEMMA GateMoves ==
    ASSUME BinInv, CallTypes, [Next]_queueVars, clears' = 0
    PROVE  /\ clears = 0
           /\ \/ UNCHANGED <<workingBin, fpc, fbLocal>>
              \/ AdjustWorkingBin \/ FeedbackReturn
              \/ /\ workingBin \in -WorkingBinBound .. WorkingBinBound
                 /\ \E fb \in Feedbacks : ReceiveTrackerFeedback(fb)
<1>1. CASE FeedbackStep
  BY <1>1 DEF FeedbackStep, ReceiveTrackerFeedback, AdjustWorkingBin, FeedbackReturn
<1>2. ASSUME NEW t \in Threads, Callers(t) \/ AddStep(t) \/ RemoveStep(t)
      PROVE  clears = 0 /\ UNCHANGED <<workingBin, fpc, fbLocal>>
  BY <1>2 DEF Callers, CallAdd, CallRemove, CallClear, Call, AddStep, AddBegin, AddRoll, AddIncr,
     AddMake, AddInsert, AddCookie, RemoveStep, RemoveBegin, RemoveFinish, feedVars
<1>3. ASSUME NEW t \in Threads, ClearStep(t)
      PROVE  FALSE
  BY <1>3 DEF ClearStep, ClearMaps, ClearWorkingBin, ClearQueueBin, ClearTotal, BinInv, FirstMap,
     CallTypes
<1>4. CASE UNCHANGED queueVars
  BY <1>4 DEF queueVars, feedVars
<1> QED
  BY <1>1, <1>2, <1>3, <1>4 DEF Next, ThreadStep

LEMMA GateInvStep ==
    ASSUME BinInv, CallTypes, TypeOK, GateInv, GateNotFull, [Next]_queueVars
    PROVE  GateInv'
<1> SUFFICES ASSUME clears' = 0
             PROVE  workingBin' \in Nat \ {0} /\ (fpc' = "adjust" => fbLocal'.bin = workingBin')
  BY DEF GateInv
<1>1. clears = 0 /\ workingBin \in Nat \ {0} /\ (fpc = "adjust" => fbLocal.bin = workingBin)
  BY GateMoves DEF GateInv
<1>2. CASE UNCHANGED <<workingBin, fpc, fbLocal>>
  BY <1>1, <1>2
<1>3. CASE AdjustWorkingBin
  <2>1. fpc' = "done"
    BY <1>3 DEF AdjustWorkingBin
  <2>2. workingBin' \in Nat /\ workingBin <= workingBin'
    BY <1>1, <1>3, AdjustedUp
  <2> QED
    BY <1>1, <2>1, <2>2
<1>4. CASE FeedbackReturn
  BY <1>1, <1>4 DEF FeedbackReturn
<1>5. ASSUME NEW fb \in Feedbacks, ReceiveTrackerFeedback(fb)
      PROVE  workingBin' = workingBin /\ (fpc' = "adjust" => fbLocal'.bin = workingBin)
  BY <1>5 DEF ReceiveTrackerFeedback, feedVars
<1> QED
  BY <1>1, <1>2, <1>3, <1>4, <1>5, GateMoves

LEMMA GateBoundedStep ==
    ASSUME BinInv, CallTypes, GateBounded, [Next]_queueVars
    PROVE  GateBounded'
<1> SUFFICES ASSUME clears' = 0, fpc' = "adjust"
             PROVE  workingBin' <= WorkingBinBound
  BY DEF GateBounded
<1>1. CASE UNCHANGED <<workingBin, fpc, fbLocal>>
  BY <1>1, GateMoves DEF GateBounded
<1>2. ASSUME NEW fb \in Feedbacks, ReceiveTrackerFeedback(fb),
             workingBin \in -WorkingBinBound .. WorkingBinBound
      PROVE  workingBin' <= WorkingBinBound
  BY <1>2, QueueAssumption DEF ReceiveTrackerFeedback
<1>3. ~AdjustWorkingBin /\ ~FeedbackReturn
  BY DEF AdjustWorkingBin, FeedbackReturn
<1> QED
  BY <1>1, <1>2, <1>3, GateMoves

-----------------------------------------------------------------------------
(* The counts, until a Clear: what the holder of mu has read of the total   *)
(* is still the total, and every dequeue is counted in one window.          *)

Served == {c \in Clients : phase[c] \in {"waiting", "leaving"}}
Gone == {c \in Clients : phase[c] = "left"}

TotalRead ==
    \A t \in Threads : qpc[t] \in {"cookie", "removing"} => localTotal = totalQueuedClients

CountInv == clears = 0 =>
    /\ totalQueuedClients = Cardinality(Served)
    /\ TotalRead
    /\ SumOver(curWindowDequeues, DOMAIN curWindowDequeues) = Cardinality(Gone)

LEMMA ServedFinite ==
    /\ IsFiniteSet(Served) /\ Cardinality(Served) \in Nat
    /\ IsFiniteSet(Gone) /\ Cardinality(Gone) \in Nat
BY QueueAssumption, FS_Subset, FS_CardinalityType DEF Served, Gone

LEMMA DequeuesFinite ==
    ASSUME TypeOK
    PROVE  /\ IsFiniteSet(DOMAIN curWindowDequeues)
           /\ \A b \in DOMAIN curWindowDequeues : curWindowDequeues[b] \in Nat
           /\ workingBin \in Int
<1>1. IsFiniteSet(Int64) /\ Int64 \subseteq Int
  BY QueueAssumption, FS_Interval DEF Int64
<1>2. DOMAIN curWindowDequeues \subseteq Int64
  BY DEF TypeOK
<1>3. IsFiniteSet(DOMAIN curWindowDequeues)
  BY <1>1, <1>2, FS_Subset
<1> QED
  BY <1>1, <1>3 DEF TypeOK

\* The sum that the property takes is the sum of the counts.
LEMMA DequeuesSum ==
    ASSUME TypeOK
    PROVE  MapThenSumSet(Dequeues, DOMAIN curWindowDequeues)
              = SumOver(curWindowDequeues, DOMAIN curWindowDequeues)
<1> DEFINE D == DOMAIN curWindowDequeues
           IsIt(i) == i = [s \in SUBSET D |-> IF s = {} THEN 0
                                 ELSE Dequeues(AnyOf(s)) + i[s \ {AnyOf(s)}]]
           it == CHOOSE i : IsIt(i)
<1>1. IsFiniteSet(D)
  BY DequeuesFinite
<1>2. ASSUME NEW i
      PROVE  IsIt(i) <=> IsSum(i, curWindowDequeues, D)
  <2>1. ASSUME NEW s \in SUBSET D, s # {}
        PROVE  Dequeues(AnyOf(s)) = curWindowDequeues[AnyOf(s)]
    BY <2>1, AnyOfIn DEF Dequeues
  <2>2. [s \in SUBSET D |-> IF s = {} THEN 0 ELSE Dequeues(AnyOf(s)) + i[s \ {AnyOf(s)}]]
          = [s \in SUBSET D |-> IF s = {} THEN 0
                                ELSE curWindowDequeues[AnyOf(s)] + i[s \ {AnyOf(s)}]]
    BY <2>1
  <2> HIDE DEF D
  <2> QED
    BY <2>2 DEF IsSum
<1>3. IsIt(it)
  <2>1. \E i : IsIt(i)
    <3> HIDE DEF IsIt, D
    <3> QED
      BY <1>1, <1>2, IsSumExists
  <2> HIDE DEF IsIt
  <2> QED
    BY <2>1
<1>4. MapThenSumSet(Dequeues, D) = it[D]
  BY DEF MapThenSumSet, MapThenFoldSet, AnyOf
<1> HIDE DEF it, IsIt
<1>5. SumOver(curWindowDequeues, D) = it[D]
  <2> HIDE DEF D
  <2> QED
    BY <1>1, <1>2, <1>3, SumOverIs
<1> QED
  BY <1>4, <1>5

\* Storing a count one larger than before adds one to the sum.
LEMMA DequeueAddsOne ==
    ASSUME TypeOK, curWindowDequeues' = OneDequeued
    PROVE  SumOver(curWindowDequeues, DOMAIN curWindowDequeues)'
              = SumOver(curWindowDequeues, DOMAIN curWindowDequeues) + 1
<1> DEFINE f == curWindowDequeues
           D == DOMAIN curWindowDequeues
           g == curWindowDequeues'
           E == D \cup {workingBin}
<1>1. IsFiniteSet(D) /\ (\A b \in D : f[b] \in Nat)
  BY DequeuesFinite
<1>2. IsFiniteSet(E)
  BY <1>1, FS_AddElement
<1>3. /\ DOMAIN g = E
      /\ \A b \in E \ {workingBin} : b \in D /\ g[b] = f[b]
      /\ g[workingBin] = Dequeues(workingBin) + 1
  BY DEF OneDequeued, Put
<1>4. CASE workingBin \in D
  <2>0. IsFiniteSet(D)
    BY <1>1
  <2>1. E = D /\ g[workingBin] = f[workingBin] + 1
    BY <1>3, <1>4 DEF Dequeues
  <2>2. \A b \in D : f[b] \in Int /\ g[b] \in Int
    BY <1>1, <1>3, <2>1
  <2>3. \A b \in D \ {workingBin} : f[b] = g[b]
    BY <1>3
  <2>4. (f[workingBin] + 1) - f[workingBin] = 1
    BY <1>4, <2>2
  <2> HIDE DEF f, D, g, E
  <2>5. SumOver(g, D) = SumOver(f, D) + (g[workingBin] - f[workingBin])
    BY ONLY <2>0, <1>4, <2>2, <2>3, SumOverChange
  <2>6. SumOver(g, DOMAIN g) = SumOver(f, D) + 1
    BY <1>3, <2>1, <2>4, <2>5
  <2> QED
    BY <2>6 DEF f, D, g
<1>5. CASE workingBin \notin D
  <2>1. g[workingBin] = 1 /\ E \ {workingBin} = D
    BY <1>3, <1>5 DEF Dequeues
  <2>2. \A b \in E : g[b] \in Int
    BY <1>1, <1>3, <2>1
  <2>3. \A b \in D : g[b] = f[b]
    BY <1>3, <1>5
  <2>4. workingBin \in E
    OBVIOUS
  <2> HIDE DEF f, D, g, E
  <2>5. SumOver(g, E) = 1 + SumOver(g, D)
    BY <1>2, <2>1, <2>2, <2>4, SumOverStep
  <2>6. SumOver(g, D) = SumOver(f, D)
    BY <1>1, <2>3, SumOverAgree
  <2>7. SumOver(f, D) \in Int
    BY <1>1, SumOverType
  <2>8. SumOver(g, DOMAIN g) = SumOver(f, D) + 1
    BY <1>3, <2>5, <2>6, <2>7
  <2> QED
    BY <2>8 DEF f, D, g
<1> QED
  BY <1>4, <1>5

\* A step that no count takes part in.
LEMMA OthersKeepCounts ==
    ASSUME CountInv, clears' = 0 => clears = 0, UNCHANGED <<totalQueuedClients, curWindowDequeues>>,
           Served' = Served, Gone' = Gone,
           TotalRead => TotalRead'
    PROVE  CountInv'
BY DEF CountInv

LEMMA CountInvStep ==
    ASSUME CallInv, BinInv, TypeOK, CountInv, [Next]_queueVars
    PROVE  CountInv'
<1> USE DEF CallInv, CallTypes, ArgsServed, MuHeld
<1>1. ASSUME NEW t \in Threads, Callers(t)
      PROVE  CountInv'
  <2>1. /\ UNCHANGED <<totalQueuedClients, curWindowDequeues, localTotal, clears>>
        /\ \E op \in {"add", "remove", "clear"} : qpc' = [qpc EXCEPT ![t] = op]
    BY <1>1 DEF Callers, CallAdd, CallRemove, CallClear, Call, muVars
  <2>2. Served' = Served /\ Gone' = Gone
    BY <1>1 DEF Callers, CallAdd, CallRemove, CallClear, Call, Served, Gone
  <2>3. TotalRead => TotalRead'
    BY <2>1 DEF TotalRead
  <2> QED
    BY <2>1, <2>2, <2>3, OthersKeepCounts
<1>2. ASSUME NEW t \in Threads, AddBegin(t) \/ AddRoll(t) \/ AddIncr(t) \/ AddMake(t)
      PROVE  CountInv'
  <2>1. /\ UNCHANGED <<totalQueuedClients, curWindowDequeues, localTotal, clears, phase>>
        /\ \E op \in {"roll", "incr", "make", "insert"} : qpc' = [qpc EXCEPT ![t] = op]
    BY <1>2 DEF AddBegin, AddRoll, AddIncr, AddMake, Goto, muVars
  <2>2. Served' = Served /\ Gone' = Gone
    BY <2>1 DEF Served, Gone
  <2>3. TotalRead => TotalRead'
    BY <2>1 DEF TotalRead
  <2> QED
    BY <2>1, <2>2, <2>3, OthersKeepCounts
<1>3. ASSUME NEW t \in Threads, AddInsert(t) \/ RemoveBegin(t)
      PROVE  CountInv'
  <2>1. /\ UNCHANGED <<totalQueuedClients, curWindowDequeues, clears, phase>>
        /\ localTotal' = totalQueuedClients
    BY <1>3 DEF AddInsert, RemoveBegin
  <2>2. Served' = Served /\ Gone' = Gone
    BY <2>1 DEF Served, Gone
  <2> QED
    BY <2>1, <2>2, OthersKeepCounts DEF TotalRead
<1>4. ASSUME NEW t \in Threads, AddCookie(t)
      PROVE  CountInv'
  <2> SUFFICES ASSUME clears = 0
               PROVE  CountInv'
    BY <1>4 DEF CountInv, AddCookie
  <2>1. /\ qpc[t] = "cookie" /\ mu = t /\ qarg[t] \in Clients /\ phase[qarg[t]] = "adding"
        /\ phase' = [phase EXCEPT ![qarg[t]] = "waiting"]
        /\ qpc' = [qpc EXCEPT ![t] = "idle"]
        /\ UNCHANGED <<curWindowDequeues, clears>>
    BY <1>4 DEF AddCookie, Return
  <2>2. totalQueuedClients' = totalQueuedClients + 1
    BY <1>4, <2>1 DEF AddCookie, CountInv, TotalRead
  <2>3. Served' = Served \cup {qarg[t]} /\ qarg[t] \notin Served /\ Gone' = Gone
    BY <2>1 DEF Served, Gone
  <2>4. Cardinality(Served)' = Cardinality(Served) + 1
    BY <2>3, ServedFinite, FS_AddElement
  <2>5. TotalRead'
    BY <2>1 DEF TotalRead
  <2> QED
    BY <2>1, <2>2, <2>3, <2>4, <2>5 DEF CountInv
<1>5. ASSUME NEW t \in Threads, RemoveFinish(t)
      PROVE  CountInv'
  <2> SUFFICES ASSUME clears = 0
               PROVE  CountInv'
    BY <1>5 DEF CountInv, RemoveFinish
  <2>1. /\ qpc[t] = "removing" /\ mu = t /\ qarg[t] \in Clients /\ phase[qarg[t]] = "leaving"
        /\ phase' = [phase EXCEPT ![qarg[t]] = "left"]
        /\ qpc' = [qpc EXCEPT ![t] = "idle"]
        /\ curWindowDequeues' = OneDequeued
        /\ UNCHANGED clears
    BY <1>5 DEF RemoveFinish, Return
  <2>2. totalQueuedClients' = totalQueuedClients - 1
    BY <1>5, <2>1 DEF RemoveFinish, OneLess, CountInv, TotalRead
  <2>3. /\ Served' = Served \ {qarg[t]} /\ qarg[t] \in Served
        /\ Gone' = Gone \cup {qarg[t]} /\ qarg[t] \notin Gone
    BY <2>1 DEF Served, Gone
  <2>4. Cardinality(Served)' = Cardinality(Served) - 1
    BY <2>3, ServedFinite, FS_RemoveElement
  <2>5. Cardinality(Gone)' = Cardinality(Gone) + 1
    BY <2>3, ServedFinite, FS_AddElement
  <2>6. TotalRead'
    BY <2>1 DEF TotalRead
  <2>7. SumOver(curWindowDequeues, DOMAIN curWindowDequeues)'
          = SumOver(curWindowDequeues, DOMAIN curWindowDequeues) + 1
    BY <2>1, DequeueAddsOne
  <2> QED
    BY <2>1, <2>2, <2>4, <2>5, <2>6, <2>7 DEF CountInv
<1>6. ASSUME NEW t \in Threads, ClearStep(t)
      PROVE  CountInv'
  <2>1. clears' # 0
    BY <1>6 DEF ClearStep, ClearMaps, ClearWorkingBin, ClearQueueBin, ClearTotal, BinInv, FirstMap
  <2> QED
    BY <2>1 DEF CountInv
<1>7. CASE FeedbackStep \/ UNCHANGED queueVars
  <2>1. UNCHANGED <<totalQueuedClients, curWindowDequeues, localTotal, clears, phase, qpc>>
    BY <1>7 DEF FeedbackStep, ReceiveTrackerFeedback, AdjustWorkingBin, FeedbackReturn, queueVars,
       muVars, threadVars
  <2> QED
    BY <2>1, OthersKeepCounts DEF Served, Gone, TotalRead
<1> QED
  BY <1>1, <1>2, <1>3, <1>4, <1>5, <1>6, <1>7 DEF Next, ThreadStep, AddStep, RemoveStep

-----------------------------------------------------------------------------
(* Theorems *)

\* The invariant holds in every reachable state of capped_bins_queue.go.
THEOREM QueueInvariant == Spec => []QueueInv
<1>1. Init => QueueInv
  BY QueueAssumption, FS_EmptySet
  DEF Init, QueueInv, CallInv, CallTypes, ArgsServed, ArgsDistinct, NoCookieYet, MuHeld,
      BinInv, FirstMap, BinsInTurn, LastBinKnown, CookiesNameBins, NilBinOnlyAfterClear,
      MapNo, EmptyMap
<1>2. QueueInv /\ [Next]_queueVars => QueueInv'
  BY CallInvStep, BinInvStep, NilBinStep DEF QueueInv
<1> QED
  BY <1>1, <1>2, PTL DEF Spec

\* Add stores into a missing bin, and ends the process, only when the
\* unlocked Clear got between its steps.
THEOREM QueueNilBinOnlyAfterClear == Spec => []NilBinOnlyAfterClear
<1>1. QueueInv => NilBinOnlyAfterClear
  BY DEF QueueInv
<1> QED
  BY <1>1, QueueInvariant, PTL

\* However Adds race for the mutex, no bin is opened before the one in front
\* of it is full, none is overfull, and a cookie names the bin of its client.
THEOREM QueueBinsPacked == Spec => []BinsPacked
<1>1. QueueInv => BinsPacked
  BY DEF QueueInv, BinInv, BinsInTurn, CookiesNameBins, BinsPacked
<1> QED
  BY <1>1, QueueInvariant, PTL

\* A client that gets its cookie later is never in an earlier bin.
THEOREM QueueArrivalOrder == Spec => ArrivalOrderKept
<1> DEFINE InOrder == clears' = 0 => \A c, d \in Clients :
               cookie[c] = 0 /\ cookie'[c] # 0 => cookie[d] <= cookie'[c]
<1>1. QueueInv /\ [Next]_queueVars => [InOrder]_queueVars
  <2> SUFFICES ASSUME QueueInv, Next, clears' = 0,
                      NEW c \in Clients, NEW d \in Clients, cookie[c] = 0, cookie'[c] # 0
               PROVE  cookie[d] <= cookie'[c]
    OBVIOUS
  <2>1. PICK t \in Threads : AddCookie(t)
    BY DEF Next, ThreadStep, Callers, CallAdd, CallRemove, CallClear, Call,
       AddStep, AddBegin, AddRoll, AddIncr, AddMake, AddInsert, RemoveStep, RemoveBegin,
       RemoveFinish, ClearStep, ClearMaps, ClearWorkingBin, ClearQueueBin, ClearTotal, FeedbackStep,
       ReceiveTrackerFeedback, AdjustWorkingBin, FeedbackReturn
  <2>2. cookie' = [cookie EXCEPT ![qarg[t]] = queueBin] /\ clears = 0
    BY <2>1 DEF AddCookie, CookieValue
  <2>3. cookie'[c] = queueBin /\ queueBin \in Nat
    BY <2>2 DEF QueueInv, CallInv, CallTypes, BinInv, FirstMap
  <2>4. cookie[d] = 0 \/ cookie[d] \in 1 .. queueBin
    BY <2>2 DEF QueueInv, BinInv, BinsInTurn, CookiesNameBins
  <2> QED
    BY <2>3, <2>4
<1> QED
  BY <1>1, QueueInvariant, PTL DEF Spec, ArrivalOrderKept

\* Every counter, index and local of capped_bins_queue.go stays in its range:
\* bin numbers are bounded by the clients ever added, although a ++ on
\* queueBin may work with an operand from before a Clear.
THEOREM QueueTypeCorrect == Spec => []TypeOK
<1>1. Init => TypeOK /\ BinsCharged
  <2> SUFFICES ASSUME Init
               PROVE  TypeOK /\ BinsCharged
    OBVIOUS
  <2>1. BinsCharged
    BY ChargedFinite DEF Init, BinsCharged
  <2>2. queueBin \in BinNo /\ localBin \in BinNo
    BY <2>1, QueueBinInRange DEF Init
  <2>3. fbLocal \in [util: Nat, bin: Int64, drained: BOOLEAN] /\ workingBin \in Int64
    BY QueueAssumption DEF Init, NoFbLocal, Int64
  <2> QED
    BY <2>1, <2>2, <2>3, QueueAssumption DEF Init, TypeOK, MapNo, EmptyMap
<1>2. QueueInv /\ BinsCharged /\ [Next]_queueVars => BinsCharged'
  BY BinsChargedStep DEF QueueInv
<1>3. QueueInv /\ TypeOK /\ BinsCharged /\ BinsCharged' /\ [Next]_queueVars => TypeOK'
  BY TypeStep DEF QueueInv
<1> QED
  BY <1>1, <1>2, <1>3, QueueInvariant, PTL DEF Spec

\* A client whose Add has finished has a cookie.
ServedHaveCookies == \A c \in Clients :
    phase[c] \in {"waiting", "leaving", "left"} => cookie[c] # 0

LEMMA QueueServedHaveCookies == Spec => []ServedHaveCookies
<1>1. Init => ServedHaveCookies
  BY DEF Init, ServedHaveCookies
<1>2. QueueInv /\ TypeOK /\ ServedHaveCookies /\ [Next]_queueVars => ServedHaveCookies'
  <2> SUFFICES ASSUME QueueInv, TypeOK, ServedHaveCookies, [Next]_queueVars
               PROVE  ServedHaveCookies'
    OBVIOUS
  <2>1. ASSUME NEW t \in Threads, AddCookie(t)
        PROVE  ServedHaveCookies'
    <3>1. /\ cookie' = [cookie EXCEPT ![qarg[t]] = queueBin]
          /\ phase' = [phase EXCEPT ![qarg[t]] = "waiting"] /\ queueBin # 0
      BY <2>1 DEF AddCookie, CookieValue, TypeOK, BinNo
    <3> QED
      BY <3>1 DEF ServedHaveCookies, TypeOK
  <2>2. ASSUME NEW t \in Threads, NEW c \in Clients, CallRemove(t, c), phase[c] = "waiting"
        PROVE  ServedHaveCookies'
    BY <2>2 DEF CallRemove, Call, ServedHaveCookies, TypeOK
  <2>3. ASSUME NEW t \in Threads, RemoveFinish(t)
        PROVE  ServedHaveCookies'
    <3>1. qarg[t] \in Clients /\ phase[qarg[t]] = "leaving"
      BY <2>3 DEF RemoveFinish, QueueInv, CallInv, ArgsServed
    <3> QED
      BY <2>3, <3>1 DEF RemoveFinish, ServedHaveCookies, TypeOK
  <2>4. ASSUME NEW t \in Threads, NEW c \in Clients, CallAdd(t, c)
        PROVE  ServedHaveCookies'
    BY <2>4 DEF CallAdd, Call, ServedHaveCookies, TypeOK
  <2>5. \/ UNCHANGED <<cookie, phase>>
        \/ \E t \in Threads : \/ AddCookie(t) \/ RemoveFinish(t)
                              \/ \E c \in Clients : CallAdd(t, c)
                              \/ \E c \in Clients : phase[c] = "waiting" /\ CallRemove(t, c)
    BY DEF Next, ThreadStep, Callers, CallClear, Call, AddStep, AddBegin, AddRoll, AddIncr,
       AddMake, AddInsert, RemoveStep, RemoveBegin, ClearStep, ClearMaps, ClearWorkingBin,
       ClearQueueBin, ClearTotal, FeedbackStep, ReceiveTrackerFeedback, AdjustWorkingBin,
       FeedbackReturn, queueVars
  <2> QED
    BY <2>1, <2>2, <2>3, <2>4, <2>5 DEF ServedHaveCookies
<1> QED
  BY <1>1, <1>2, QueueInvariant, QueueTypeCorrect, PTL DEF Spec

\* Client c has a cookie, and the gate has opened its bin.
BinIsOpen(c) == cookie[c] # 0 /\ IsCandidateToProceed(c)

\* A bin that was opened stays open, for clients that wait and for clients
\* that have left alike, until a Clear.
OpenBinsStayOpen ==
    [][clears' = 0 => \A c \in Clients : BinIsOpen(c) => BinIsOpen(c)']_queueVars

\* d has been given its cookie, and c has none yet.
QueuedBefore(d, c) == cookie[d] # 0 /\ cookie[c] = 0

\* What that leaves true for good, until a Clear: c never gets into an earlier bin.
NeverAhead(c, d) ==
    /\ cookie[d] # 0
    /\ clears = 0 => cookie[c] = 0 \/ cookie[d] <= cookie[c]

\* Clears are counted up, and a cookie is never replaced.
LEMMA CookieIsForGood ==
    ASSUME QueueInv, [Next]_queueVars
    PROVE  /\ clears' = 0 => clears = 0
           /\ \A c \in Clients : cookie[c] # 0 => cookie'[c] = cookie[c]
<1>1. ASSUME NEW t \in Threads, AddCookie(t)
      PROVE  clears' = clears /\ \A c \in Clients : cookie[c] # 0 => cookie'[c] = cookie[c]
  <2>1. /\ cookie' = [cookie EXCEPT ![qarg[t]] = queueBin] /\ clears' = clears
        /\ qpc[t] = "cookie"
    BY <1>1 DEF AddCookie, CookieValue
  <2>2. cookie[qarg[t]] = 0
    BY <2>1 DEF QueueInv, CallInv, ArgsServed, NoCookieYet
  <2> QED
    BY <2>1, <2>2 DEF QueueInv, CallInv, CallTypes
<1>2. \/ cookie' = cookie /\ clears' \in {clears, clears + 1}
      \/ \E t \in Threads : AddCookie(t)
  BY DEF Next, ThreadStep, Callers, CallAdd, CallRemove, CallClear, Call, AddStep, AddBegin, AddRoll,
     AddIncr, AddMake, AddInsert, RemoveStep, RemoveBegin, RemoveFinish, ClearStep, ClearMaps,
     ClearWorkingBin, ClearQueueBin, ClearTotal, FeedbackStep, ReceiveTrackerFeedback,
     AdjustWorkingBin, FeedbackReturn, queueVars
<1> QED
  BY <1>1, <1>2 DEF QueueInv, CallInv, CallTypes

\* First come, first considered: a client that got its cookie while another
\* had none is let through by the gate, until a Clear, whenever the other is,
\* however Adds race for the mutex and whatever the feedback does to the gate.
THEOREM QueueFirstComeFirstConsidered ==
    ASSUME NEW early \in Clients, NEW late \in Clients
    PROVE  Spec => [](QueuedBefore(early, late) =>
                        [](clears = 0 /\ BinIsOpen(late) => IsCandidateToProceed(early)))
<1> DEFINE InOrder == clears' = 0 => \A c, d \in Clients :
               cookie[c] = 0 /\ cookie'[c] # 0 => cookie[d] <= cookie'[c]
<1>1. QueuedBefore(early, late) => NeverAhead(late, early)
  BY DEF QueuedBefore, NeverAhead
<1>2. QueueInv /\ NeverAhead(late, early) /\ [Next]_queueVars /\ [InOrder]_queueVars
      => NeverAhead(late, early)'
  <2> SUFFICES ASSUME QueueInv, NeverAhead(late, early), [Next]_queueVars, [InOrder]_queueVars
               PROVE  NeverAhead(late, early)'
    OBVIOUS
  <2>1. /\ clears' = 0 => clears = 0
        /\ cookie'[early] = cookie[early]
        /\ cookie[late] # 0 => cookie'[late] = cookie[late]
    BY CookieIsForGood DEF NeverAhead
  <2>2. CASE UNCHANGED queueVars
    BY <2>2 DEF NeverAhead, queueVars
  <2>3. CASE InOrder
    BY <2>1, <2>3 DEF NeverAhead
  <2> QED
    BY <2>2, <2>3
<1>3. TypeOK /\ NeverAhead(late, early) =>
        (clears = 0 /\ BinIsOpen(late) => IsCandidateToProceed(early))
  <2>1. TypeOK => cookie[late] \in Int /\ cookie[early] \in Int /\ workingBin \in Int
    BY DEF TypeOK, BinNo, Int64
  <2> QED
    BY <2>1 DEF NeverAhead, BinIsOpen, IsCandidateToProceed, getUserBin
<1> QED
  BY <1>1, <1>2, <1>3, QueueInvariant, QueueTypeCorrect, QueueArrivalOrder, PTL
  DEF Spec, ArrivalOrderKept

\* No feedback draws the gate back, until a Clear and as long as no store of
\* workingBin overflows int64.
THEOREM QueueOpenBinsStayOpen == Spec /\ []GateNotFull => OpenBinsStayOpen
<1>1. Init => GateInv
  BY DEF Init, GateInv
<1>2. QueueInv /\ TypeOK /\ GateInv /\ GateNotFull /\ [Next]_queueVars => GateInv'
  BY GateInvStep DEF QueueInv, CallInv
<1> DEFINE Stays == clears' = 0 => \A c \in Clients : BinIsOpen(c) => BinIsOpen(c)'
<1>3. QueueInv /\ TypeOK /\ GateInv /\ GateNotFull /\ [Next]_queueVars => [Stays]_queueVars
  <2> SUFFICES ASSUME QueueInv, TypeOK, GateInv, GateNotFull, [Next]_queueVars, clears' = 0,
                      NEW c \in Clients, cookie[c] # 0, cookie[c] <= workingBin
               PROVE  cookie'[c] # 0 /\ cookie'[c] <= workingBin'
    BY DEF BinIsOpen, IsCandidateToProceed, getUserBin
  <2>1. workingBin \in Nat /\ workingBin' \in Nat /\ workingBin <= workingBin'
    <3>1. clears = 0 /\ workingBin \in Nat
      BY GateMoves DEF QueueInv, CallInv, GateInv
    <3>2. CASE AdjustWorkingBin
      BY <3>1, <3>2, AdjustedUp
    <3>3. workingBin' = workingBin \/ AdjustWorkingBin
      BY GateMoves DEF QueueInv, CallInv, FeedbackReturn, ReceiveTrackerFeedback
    <3> QED
      BY <3>1, <3>2, <3>3
  <2>2. cookie'[c] = cookie[c]
    <3>1. ASSUME NEW t \in Threads, AddCookie(t)
          PROVE  cookie'[c] = cookie[c]
      <4>1. qarg[t] \in Clients /\ cookie[qarg[t]] = 0
        BY <3>1 DEF AddCookie, QueueInv, CallInv, ArgsServed, NoCookieYet
      <4> QED
        BY <3>1, <4>1 DEF AddCookie, TypeOK
    <3>2. cookie' = cookie \/ \E t \in Threads : AddCookie(t)
      BY DEF Next, ThreadStep, Callers, CallAdd, CallRemove, CallClear, Call,
         AddStep, AddBegin, AddRoll, AddIncr, AddMake, AddInsert, RemoveStep, RemoveBegin,
         RemoveFinish, ClearStep, ClearMaps, ClearWorkingBin, ClearQueueBin, ClearTotal,
         FeedbackStep, ReceiveTrackerFeedback, AdjustWorkingBin, FeedbackReturn, queueVars
    <3> QED
      BY <3>1, <3>2
  <2>3. cookie[c] \in Int
    BY ChargedFinite DEF TypeOK, BinNo
  <2> QED
    BY <2>1, <2>2, <2>3
<1> QED
  BY <1>1, <1>2, <1>3, QueueInvariant, QueueTypeCorrect, PTL DEF Spec, OpenBinsStayOpen

\* No feedback moves the gate back behind a waiting candidate, until a Clear
\* and as long as no store of workingBin overflows int64.
THEOREM QueueGateMovesForward == Spec /\ []GateNotFull => CandidateStaysCandidate
<1> DEFINE Open == clears' = 0 => \A c \in Clients : BinIsOpen(c) => BinIsOpen(c)'
           Stays == clears' = 0 => \A c \in Clients :
               phase[c] = "waiting" /\ IsCandidateToProceed(c) => IsCandidateToProceed(c)'
<1>1. ServedHaveCookies /\ [Open]_queueVars => [Stays]_queueVars
  BY DEF ServedHaveCookies, BinIsOpen
<1> QED
  BY <1>1, QueueServedHaveCookies, QueueOpenBinsStayOpen, PTL
  DEF OpenBinsStayOpen, CandidateStaysCandidate

\* When the model's bound on the gate is far from the largest int64, no store
\* overflows, and the gate never moves back.
THEOREM QueueCandidateStaysCandidate ==
    ASSUME 2 * WorkingBinBound + 2 <= MaxInt64
    PROVE  Spec => CandidateStaysCandidate
<1>1. Init => GateBounded
  BY DEF Init, GateBounded
<1>2. QueueInv /\ GateBounded /\ [Next]_queueVars => GateBounded'
  BY GateBoundedStep DEF QueueInv, CallInv
<1>3. TypeOK /\ GateBounded => GateNotFull
  BY QueueAssumption DEF TypeOK, GateBounded, GateNotFull, Int64
<1> QED
  BY <1>1, <1>2, <1>3, QueueInvariant, QueueTypeCorrect, QueueGateMovesForward, PTL DEF Spec

\* Until a Clear, the two counts of the queue agree with what happened to its
\* clients, although the total is read and stored in separate steps: it is
\* only used by the holder of mu.
THEOREM QueueCountsAccurate == Spec => []CountsAccurate
<1>1. Init => CountInv
  <2> SUFFICES ASSUME Init
               PROVE  CountInv
    OBVIOUS
  <2>1. Served = {} /\ Gone = {}
    BY DEF Init, Served, Gone
  <2>2. Cardinality({}) = 0
    BY FS_EmptySet
  <2>3. DOMAIN curWindowDequeues = {}
    BY DEF Init, EmptyMap
  <2>4. SumOver(curWindowDequeues, DOMAIN curWindowDequeues) = 0
    BY <2>3, SumOverEmpty
  <2>5. TotalRead /\ totalQueuedClients = 0
    BY DEF Init, TotalRead
  <2> QED
    BY <2>1, <2>2, <2>4, <2>5 DEF CountInv
<1>2. QueueInv /\ TypeOK /\ CountInv /\ [Next]_queueVars => CountInv'
  BY CountInvStep DEF QueueInv
<1>3. TypeOK /\ CountInv => CountsAccurate
  BY DequeuesSum DEF CountInv, Served, Gone, CountsAccurate
<1> QED
  BY <1>1, <1>2, <1>3, QueueInvariant, QueueTypeCorrect, PTL DEF Spec
===============================================================================
