------------------- MODULE PollDrivenCappedBinsQueue_proofs -------------------
(***************************************************************************)
(* Proofs about PollDrivenCappedBinsQueue, for any clients and threads and *)
(* any bin size: until a Clear, bins are filled in turn.                   *)
(***************************************************************************)
EXTENDS PollDrivenCappedBinsQueue, FiniteSetTheorems, TLAPS

Adding == {"add", "place", "cookie"}
Removing == {"remove", "removing"}

(***************************************************************************)
(* Who is served: a client is in the hands of one thread at a time, and    *)
(* has no cookie before its Add has finished.                              *)
(***************************************************************************)
CallTypes ==
    /\ pc \in [Threads -> Pcs] /\ arg \in [Threads -> Clients \cup {NoClient}]
    /\ phase \in [Clients -> {"new", "adding", "waiting", "leaving", "left"}]
    /\ cookie \in [Clients -> Nat \cup {-1}]
    /\ queueBin \in Nat /\ localBin \in Nat /\ clears \in Nat
ArgsServed == \A t \in Threads :
    /\ pc[t] \in Adding => arg[t] \in Clients /\ phase[arg[t]] = "adding"
    /\ pc[t] \in Removing => arg[t] \in Clients /\ phase[arg[t]] = "leaving"
ArgsDistinct == \A t, u \in Threads :
    t # u /\ pc[t] \in Adding \cup Removing /\ pc[u] \in Adding \cup Removing => arg[t] # arg[u]
NoCookieYet == \A c \in Clients : phase[c] \in {"new", "adding"} => cookie[c] = -1
LockHeld == \A t \in Threads : pc[t] \in {"place", "cookie"} => lock = t

CallInv == CallTypes /\ ArgsServed /\ ArgsDistinct /\ NoCookieYet /\ LockHeld

(***************************************************************************)
(* Where clients are placed, until a Clear.  Between AddPlace and          *)
(* AddCookie the last position is taken by a client without a cookie.      *)
(***************************************************************************)
NoClearYet == \A t \in Threads : pc[t] \notin {"clearPos", "clearWorking"}
PlaceTypes ==
    /\ queueBinPos \in Nat /\ queueBinPos <= BinSize
    /\ \A t \in Threads : pc[t] = "place" => localPos = queueBinPos /\ localBin = queueBin
Taken == IF queueBin = 0 THEN queueBinPos ELSE queueBinPos + 1
LastWithoutCookie == \E t \in Threads : pc[t] = "cookie"
BinsCounted ==
    /\ \A b \in Nat : b < queueBin => Cardinality(Members(b)) = BinCapacity(b)
    /\ \A b \in Nat : b > queueBin => Cardinality(Members(b)) = 0
    /\ LastWithoutCookie => Cardinality(Members(queueBin)) = Taken - 1
    /\ ~LastWithoutCookie => Cardinality(Members(queueBin)) = Taken

PlaceInv == clears = 0 => NoClearYet /\ PlaceTypes /\ BinsCounted

USE DEF Pcs, Adding, Removing

LEMMA MembersFinite ==
    \A b : IsFiniteSet(Members(b)) /\ Cardinality(Members(b)) \in Nat
<1> TAKE b
<1>1. Members(b) \in SUBSET Clients
  BY DEF Members
<1> QED
  BY <1>1, PollDrivenAssumption, FS_Subset, FS_CardinalityType

LEMMA InitInv == Init => CallInv /\ PlaceInv
<1> SUFFICES ASSUME Init PROVE CallInv /\ PlaceInv
  OBVIOUS
<1>1. CallInv
  BY DEF Init, CallInv, CallTypes, ArgsServed, ArgsDistinct, NoCookieYet, LockHeld
<1>2. \A b \in Nat : Members(b) = {}
  BY DEF Init, Members
<1>3. \A b \in Nat : Cardinality(Members(b)) = 0
  BY <1>2, FS_EmptySet
<1>4. PlaceInv
  BY <1>3, PollDrivenAssumption DEF Init, PlaceInv, NoClearYet, PlaceTypes, BinsCounted, Taken,
     LastWithoutCookie
<1> QED
  BY <1>1, <1>4

-----------------------------------------------------------------------------
(* Calls *)

LEMMA CallInvStep ==
    ASSUME CallInv, [Next]_vars
    PROVE  CallInv'
<1> USE DEF CallInv, CallTypes, ArgsServed, ArgsDistinct, NoCookieYet, LockHeld
<1>1. ASSUME NEW t \in Threads, Callers(t)
      PROVE  CallInv'
  <2>1. ASSUME NEW c \in Clients, phase[c] = "new", Call(t, "add", c),
               phase' = [phase EXCEPT ![c] = "adding"]
        PROVE  CallInv'
    BY <2>1 DEF Call, addVars, PollDrivenAssumption
  <2>2. CASE Call(t, "clear", NoClient) /\ UNCHANGED phase
    BY <2>2 DEF Call, addVars
  <2> QED
    BY <1>1, <2>1, <2>2 DEF Callers
<1>2. ASSUME NEW t \in Threads, AddBegin(t) \/ AddPlace(t)
      PROVE  CallInv'
  BY <1>2, PollDrivenAssumption DEF AddBegin, AddPlace, Goto, addVars, histVars
<1>3. ASSUME NEW t \in Threads, AddCookie(t)
      PROVE  CallInv'
  <2>1. /\ pc[t] = "cookie" /\ arg[t] \in Clients /\ pc' = [pc EXCEPT ![t] = "idle"]
        /\ arg' = [arg EXCEPT ![t] = NoClient]
        /\ phase' = [phase EXCEPT ![arg[t]] = "waiting"]
        /\ cookie' = [cookie EXCEPT ![arg[t]] = queueBin]
        /\ UNCHANGED <<queueBin, clears>> /\ localBin' = 0 /\ lock' = NoThread
    BY <1>3 DEF AddCookie, Return
  <2>2. CallTypes'
    BY <2>1
  <2>3. ArgsServed' /\ ArgsDistinct' /\ NoCookieYet'
    BY <2>1
  <2>4. LockHeld'
    BY <2>1, PollDrivenAssumption
  <2> QED
    BY <2>2, <2>3, <2>4
<1>4. ASSUME NEW t \in Threads, RemoveBegin(t)
      PROVE  CallInv'
  BY <1>4 DEF RemoveBegin, Goto, CallFrame, addVars, histVars
<1>5. ASSUME NEW t \in Threads, RemoveFinish(t)
      PROVE  CallInv'
  BY <1>5 DEF RemoveFinish, Return, CallFrame, addVars
<1>6. ASSUME NEW t \in Threads, ClearQueueBin(t) \/ ClearQueueBinPos(t) \/ ClearWorkingBin(t)
      PROVE  CallInv'
  BY <1>6 DEF ClearQueueBin, ClearQueueBinPos, ClearWorkingBin, Goto, CallFrame, addVars, histVars
<1>7. ASSUME NEW t \in Threads, NEW c \in Clients, Poll(t, c)
      PROVE  CallInv'
  BY <1>7 DEF Poll, addVars
<1>8. CASE UpdatePollingUtil \/ BeginOpening \/ OpenNextBin \/ UNCHANGED vars
  BY <1>8 DEF UpdatePollingUtil, BeginOpening, OpenNextBin, vars, addVars, histVars
<1> QED
  BY <1>1, <1>2, <1>3, <1>4, <1>5, <1>6, <1>7, <1>8 DEF Next, ThreadStep
-----------------------------------------------------------------------------
(* Places *)

\* A step that adds nobody, changes no number of Add and takes no part in one.
LEMMA OthersKeepPlaceInv ==
    ASSUME CallInv, PlaceInv, clears' = 0 => clears = 0,
           clears = 0 => UNCHANGED <<queueBin, queueBinPos, cookie, localBin, localPos>>,
           clears = 0 => \A t \in Threads :
              /\ pc'[t] \notin {"clearPos", "clearWorking"}
              /\ pc'[t] \in {"place", "cookie"} \/ pc[t] \in {"place", "cookie"} => pc'[t] = pc[t]
    PROVE  PlaceInv'
<1> SUFFICES ASSUME clears' = 0 PROVE NoClearYet' /\ PlaceTypes' /\ BinsCounted'
  BY DEF PlaceInv
<1>1. clears = 0 /\ PlaceTypes /\ BinsCounted
  BY DEF PlaceInv
<1>2. LastWithoutCookie' <=> LastWithoutCookie
  BY <1>1 DEF LastWithoutCookie
<1>3. \A b : Members(b)' = Members(b)
  BY <1>1 DEF Members
<1> QED
  BY <1>1, <1>2, <1>3 DEF NoClearYet, PlaceTypes, BinsCounted, Taken

LEMMA AddBeginKeepsPlaceInv ==
    ASSUME CallInv, PlaceInv, NEW t \in Threads, AddBegin(t)
    PROVE  PlaceInv'
<1> SUFFICES ASSUME clears' = 0 PROVE NoClearYet' /\ PlaceTypes' /\ BinsCounted'
  BY DEF PlaceInv
<1>1. /\ UNCHANGED <<queueBin, queueBinPos, cookie, clears>>
      /\ pc[t] = "add" /\ pc' = [pc EXCEPT ![t] = "place"] /\ lock = NoThread
      /\ localPos' = queueBinPos /\ localBin' = queueBin
  BY DEF AddBegin, Goto, histVars
<1>2. NoClearYet /\ PlaceTypes /\ BinsCounted
  BY <1>1 DEF PlaceInv
<1>3. \A u \in Threads : pc[u] # "cookie" /\ pc'[u] # "cookie"
  BY <1>1, PollDrivenAssumption DEF CallInv, CallTypes, LockHeld
<1>4. ~LastWithoutCookie /\ ~LastWithoutCookie'
  BY <1>3 DEF LastWithoutCookie
<1>5. NoClearYet' /\ PlaceTypes'
  BY <1>1, <1>2 DEF NoClearYet, PlaceTypes, CallInv, CallTypes
<1>6. \A b : Members(b)' = Members(b)
  BY <1>1 DEF Members
<1> QED
  BY <1>1, <1>2, <1>4, <1>5, <1>6 DEF BinsCounted, Taken

\* The next place is in the bin at hand, or the first one of the next bin when
\* that is full.
LEMMA AddPlaceKeepsPlaceInv ==
    ASSUME CallInv, PlaceInv, NEW t \in Threads, AddPlace(t)
    PROVE  PlaceInv'
<1> SUFFICES ASSUME clears' = 0 PROVE NoClearYet' /\ PlaceTypes' /\ BinsCounted'
  BY DEF PlaceInv
<1>1. /\ UNCHANGED <<cookie, clears, localBin, localPos>>
      /\ pc[t] = "place" /\ pc' = [pc EXCEPT ![t] = "cookie"]
  BY DEF AddPlace, Goto, addVars, histVars
<1>2. NoClearYet /\ PlaceTypes /\ BinsCounted
  BY <1>1 DEF PlaceInv
<1>3. \A u \in Threads \ {t} : pc[u] \notin {"place", "cookie"}
  BY <1>1 DEF CallInv, LockHeld
<1>4. ~LastWithoutCookie /\ LastWithoutCookie'
  BY <1>1, <1>3 DEF LastWithoutCookie, CallInv, CallTypes
<1>5. \A b : Members(b)' = Members(b)
  BY <1>1 DEF Members
<1>6. queueBin \in Nat /\ queueBinPos \in Nat /\ queueBinPos <= BinSize /\ BinSize \in Nat
  BY <1>2, PollDrivenAssumption DEF PlaceTypes, CallInv, CallTypes
<1>7. localPos = queueBinPos /\ localBin = queueBin
  BY <1>1, <1>2 DEF PlaceTypes
<1>8. NoClearYet' /\ \A u \in Threads : pc'[u] # "place"
  BY <1>1, <1>2, <1>3 DEF NoClearYet, CallInv, CallTypes
<1>9. CASE queueBinPos < BinSize
  <2>1. queueBinPos' = queueBinPos + 1 /\ queueBin' = queueBin
    BY <1>7, <1>9 DEF AddPlace, BinHasRoom
  <2>2. Cardinality(Members(queueBin)) = Taken' - 1
    BY <1>2, <1>4, <1>6, <2>1 DEF BinsCounted, Taken
  <2> QED
    BY <1>2, <1>4, <1>5, <1>6, <1>8, <1>9, <2>1, <2>2 DEF PlaceTypes, BinsCounted
<1>10. CASE ~(queueBinPos < BinSize)
  <2>1. queueBinPos' = 0 /\ queueBin' = queueBin + 1 /\ queueBinPos = BinSize
    BY <1>6, <1>7, <1>10 DEF AddPlace, BinHasRoom
  <2>2. Cardinality(Members(queueBin)) = BinCapacity(queueBin)
    BY <1>2, <1>4, <2>1 DEF BinsCounted, Taken, BinCapacity
  <2>3. Cardinality(Members(queueBin + 1)) = 0 /\ Taken' = 1
    BY <1>2, <1>6, <2>1 DEF BinsCounted, Taken
  <2>4. \A b \in Nat : b < queueBin' => b < queueBin \/ b = queueBin
    BY <1>6, <2>1
  <2>5. \A b \in Nat : b > queueBin' => b > queueBin
    BY <1>6, <2>1
  <2>6. \A b \in Nat : b < queueBin' => Cardinality(Members(b)) = BinCapacity(b)
    BY <1>2, <2>2, <2>4 DEF BinsCounted
  <2>7. \A b \in Nat : b > queueBin' => Cardinality(Members(b)) = 0
    BY <1>2, <2>5 DEF BinsCounted
  <2> QED
    BY <1>4, <1>5, <1>6, <1>8, <2>1, <2>3, <2>6, <2>7 DEF PlaceTypes, BinsCounted
<1> QED
  BY <1>9, <1>10

\* The client gets the bin whose last place it has taken.
LEMMA AddCookieKeepsPlaceInv ==
    ASSUME CallInv, PlaceInv, NEW t \in Threads, AddCookie(t)
    PROVE  PlaceInv'
<1> SUFFICES ASSUME clears' = 0 PROVE NoClearYet' /\ PlaceTypes' /\ BinsCounted'
  BY DEF PlaceInv
<1> DEFINE c == arg[t]
<1>1. /\ UNCHANGED <<queueBin, queueBinPos, clears>>
      /\ pc[t] = "cookie" /\ pc' = [pc EXCEPT ![t] = "idle"]
      /\ cookie' = [cookie EXCEPT ![c] = queueBin]
  BY DEF AddCookie, Return
<1>2. NoClearYet /\ PlaceTypes /\ BinsCounted
  BY <1>1 DEF PlaceInv
<1>3. \A u \in Threads : pc'[u] \notin {"place", "cookie"}
  BY <1>1 DEF CallInv, CallTypes, LockHeld
<1>4. LastWithoutCookie /\ ~LastWithoutCookie'
  BY <1>1, <1>3 DEF LastWithoutCookie
<1>5. NoClearYet' /\ PlaceTypes'
  BY <1>1, <1>2, <1>3 DEF NoClearYet, PlaceTypes, CallInv, CallTypes
<1>6. c \in Clients /\ cookie[c] = -1 /\ queueBin \in Nat
  BY <1>1 DEF CallInv, CallTypes, ArgsServed, NoCookieYet
<1>7. \A b \in Nat \ {queueBin} : Members(b)' = Members(b)
  BY <1>1, <1>6 DEF Members, CallInv, CallTypes
<1>8. Members(queueBin)' = Members(queueBin) \cup {c} /\ c \notin Members(queueBin)
  BY <1>1, <1>6 DEF Members, CallInv, CallTypes
<1>9. Cardinality(Members(queueBin)') = Cardinality(Members(queueBin)) + 1
  BY <1>8, MembersFinite, FS_AddElement
<1>10. Taken' = Taken /\ Taken \in Int
  BY <1>1, <1>2, <1>6 DEF Taken, PlaceTypes
<1>11. Cardinality(Members(queueBin)') = Taken'
  BY <1>2, <1>4, <1>9, <1>10 DEF BinsCounted
<1>12. \A b \in Nat : b < queueBin \/ b > queueBin => b # queueBin
  BY <1>6
<1> QED
  BY <1>1, <1>2, <1>4, <1>5, <1>7, <1>11, <1>12 DEF BinsCounted

LEMMA PlaceInvStep ==
    ASSUME CallInv, PlaceInv, [Next]_vars
    PROVE  PlaceInv'
<1>1. CASE \E t \in Threads : Callers(t) \/ \E c \in Clients : Poll(t, c)
  BY <1>1, OthersKeepPlaceInv DEF Callers, Call, Poll, addVars, PlaceInv, NoClearYet,
     CallInv, CallTypes
<1>2. CASE \E t \in Threads : RemoveBegin(t) \/ RemoveFinish(t)
  BY <1>2, OthersKeepPlaceInv DEF RemoveBegin, RemoveFinish, Goto, Return, CallFrame, addVars,
     histVars, PlaceInv, NoClearYet, CallInv, CallTypes
<1>3. CASE \E t \in Threads : ClearQueueBin(t)
  BY <1>3 DEF ClearQueueBin, PlaceInv, CallInv, CallTypes
<1>4. CASE \E t \in Threads : ClearQueueBinPos(t) \/ ClearWorkingBin(t)
  BY <1>4 DEF ClearQueueBinPos, ClearWorkingBin, PlaceInv, NoClearYet, histVars
<1>5. CASE UpdatePollingUtil \/ BeginOpening \/ OpenNextBin \/ UNCHANGED vars
  BY <1>5, OthersKeepPlaceInv DEF UpdatePollingUtil, BeginOpening, OpenNextBin, vars, addVars,
     histVars, PlaceInv, NoClearYet
<1> QED
  BY <1>1, <1>2, <1>3, <1>4, <1>5, AddBeginKeepsPlaceInv, AddPlaceKeepsPlaceInv,
     AddCookieKeepsPlaceInv DEF Next, ThreadStep

-----------------------------------------------------------------------------
(* The theorems *)

\* The invariant.
THEOREM PollDrivenInvariant == Spec => [](CallInv /\ PlaceInv)
<1>1. CallInv /\ PlaceInv /\ [Next]_vars => (CallInv /\ PlaceInv)'
  BY CallInvStep, PlaceInvStep
<1> QED
  BY InitInv, <1>1, PTL DEF Spec

\* Until a Clear, the first bin takes binSize clients, each later one takes one
\* more, and none is opened before those in front of it are full.
THEOREM PollDrivenFillsInTurn == Spec => []BinsFilledInTurn
<1>1. CallInv /\ PlaceInv => BinsFilledInTurn
  <2> SUFFICES ASSUME CallInv, PlaceInv, clears = 0, NEW b \in BinNo
               PROVE  /\ Cardinality(Members(b)) <= BinCapacity(b)
                      /\ b < queueBin => Cardinality(Members(b)) = BinCapacity(b)
    BY DEF BinsFilledInTurn
  <2>1. PlaceTypes /\ BinsCounted /\ queueBin \in Nat /\ b \in Nat /\ BinSize \in Nat
    BY PollDrivenAssumption, FS_CardinalityType DEF PlaceInv, CallInv, CallTypes, BinNo
  <2>2. BinCapacity(b) \in Nat
    BY <2>1 DEF BinCapacity
  <2>3. CASE b < queueBin
    BY <2>1, <2>2, <2>3 DEF BinsCounted
  <2>4. CASE b > queueBin
    BY <2>1, <2>2, <2>4 DEF BinsCounted
  <2>5. CASE b = queueBin
    <3>1. Taken \in Int /\ Taken <= BinCapacity(b)
      BY <2>1, <2>5 DEF Taken, BinCapacity, PlaceTypes
    <3>2. Cardinality(Members(b)) = Taken - 1 \/ Cardinality(Members(b)) = Taken
      BY <2>1, <2>5 DEF BinsCounted
    <3> QED
      BY <2>1, <2>2, <2>5, <3>1, <3>2
  <2> QED
    BY <2>1, <2>3, <2>4, <2>5
<1> QED
  BY <1>1, PollDrivenInvariant, PTL

===============================================================================
