------------------------ MODULE SimulationDriver_proofs ------------------------
(***************************************************************************)
(* Proofs about the two modules of the simulation driver.                  *)
(*                                                                         *)
(* ClientSession, for any number of clients of any types, any number of    *)
(* server workers and channels of any capacity: types, no way back,        *)
(* channels that are closed once, and the wait group.                      *)
(*                                                                         *)
(* FairnessReport (the second half), for any number of clients, any labels *)
(* and any times: the loops compute what the comment above                 *)
(* aggregateFairnessResults defines, and panic when nobody was overtaken.  *)
(***************************************************************************)
EXTENDS ClientSession, FairnessReport, FiniteSetTheorems, FiniteSums, TLAPS

(***************************************************************************)
(* The inductive invariant.  ClientTypes, NetTypes and EndTypes are TypeOK *)
(* but for two facts it does not hold without: a wait group below 0 comes  *)
(* with a panic, and a client that polls greedily has polls to spare.      *)
(***************************************************************************)
ClientTypes ==
    /\ state \in [Clients -> States]
    /\ poll \in [Clients -> PollRecords]
    /\ loop \in [Clients -> {"none", "select", "fired", "greedy", "reset", "ended"}]
    /\ polls \in [Clients -> 0 .. PollBound]
    /\ inHand \in [Clients -> States \cup {NoResponse}]
    /\ \A c \in Clients : loop[c] = "greedy" => polls[c] < PollBound
NetTypes ==
    /\ requests \in Seq(Clients) /\ Len(requests) <= ReqCap
    /\ responses \in [Clients -> Seq(States)]
    /\ \A c \in Clients : Len(responses[c]) <= RespCap
    /\ lock \in [Clients -> Servers \cup {NoServer}]
    /\ server \in [Servers -> {"idle", "lock", "respond"}]
    /\ serving \in [Servers -> Clients \cup {NoClient}]
    /\ \A w \in Servers : server[w] = "idle" => serving[w] = NoClient
EndTypes ==
    /\ ctxDone \in BOOLEAN /\ completed \in BOOLEAN /\ exited \in BOOLEAN
    /\ closers \subseteq {"context", "clients"}
    /\ fault \in {"none", "asymmetric", "nilTimer", "closedStopper",
                  "negativeWaitGroup", "closedTwice"}
    /\ wg \in -1 .. Cardinality(Clients)
    /\ fault = "none" => wg >= 0

\* A stopper is made together with its timer.  It is closed when polling
\* stops, and then StartedPolling is reset; a client that is still waiting has
\* not stopped polling.
StopperIsTimed == \A c \in Clients :
    /\ poll[c].timer = "nil" <=> poll[c].stopper = "nil"
    /\ loop[c] # "none" => poll[c].timer # "nil"
StopperOpen == \A c \in Clients :
    /\ poll[c].started \/ state[c] \in {"initial", "queued"} => poll[c].stopper # "closed"
    /\ poll[c].started => state[c] # "initial"

\* Who has closed the completion channel had a reason to.
ClosersHadReason ==
    /\ "context" \notin closers => ctxDone
    /\ "clients" \notin closers => wg <= 0
    /\ completed => closers # {"context", "clients"}

\* The wait group falls short by clients whose polling goroutine has ended
\* with the second sign-off.
Inside == {c \in Clients : state[c] # "exited"}
Vanished == {c \in Disappearing : state[c] = "exited" /\ loop[c] = "ended"}
WaitGroupCounts ==
    /\ wg <= Cardinality(Inside)
    /\ wg >= Cardinality(Inside) - Cardinality(Vanished)
    /\ fault = "negativeWaitGroup" => Vanished # {}

ClientInv == ClientTypes /\ StopperIsTimed /\ StopperOpen
EndInv == EndTypes /\ ClosersHadReason /\ WaitGroupCounts /\ ChannelsClosedOnce
SessionInv == ClientInv /\ NetTypes /\ EndInv

USE DEF States, Timers, PollRecords, PollBound, NoResponse

-----------------------------------------------------------------------------
(* The fields of the clients *)

\* What a step does to the fields under a client's mutex: timers are not
\* unmade, and StopperIsTimed and StopperOpen hold of the result.
FieldsKept ==
    /\ state' \in [Clients -> States] /\ poll' \in [Clients -> PollRecords]
    /\ \A d \in Clients : poll[d].timer # "nil" => poll'[d].timer # "nil"
    /\ \A d \in Clients : poll'[d].timer = "nil" <=> poll'[d].stopper = "nil"
    /\ StopperOpen'

\* Whoever signs off has stopped polling.
LEMMA MarkExitedKeepsClientInv ==
    ASSUME ClientInv, NEW c \in Clients, NEW p \in PollRecords,
           p = poll[c] \/ p = [poll[c] EXCEPT !.started = TRUE],
           MarkExitedAndStop(c, p)
    PROVE  FieldsKept
BY DEF ClientInv, ClientTypes, StopperIsTimed, StopperOpen, MarkExitedAndStop,
       StopPolling, Stopped, FieldsKept

\* The same for a request that may or may not fit.
LEMMA DieOnRequestTimeoutKeepsClientInv ==
    ASSUME ClientInv, NEW c \in Clients, NEW p \in PollRecords,
           \/ state[c] \in {"initial", "queued"} /\ p = poll[c]
           \/ state[c] = "queued" /\ p = [poll[c] EXCEPT !.started = TRUE],
           DieOnRequestTimeout(c, p)
    PROVE  FieldsKept
<1>1. CASE MarkExitedAndStop(c, p)
  BY <1>1, MarkExitedKeepsClientInv
<1>2. CASE poll' = [poll EXCEPT ![c] = p] /\ UNCHANGED state
  BY <1>2 DEF FieldsKept, ClientInv, ClientTypes, StopperIsTimed, StopperOpen
<1> QED
  BY <1>1, <1>2 DEF DieOnRequestTimeout

\* ... and for a poll of a client that is still queued or no longer.
LEMMA MakeSinglePollRequestKeepsClientInv ==
    ASSUME ClientInv, NEW c \in Clients,
           MakeSinglePollRequest(c, [poll[c] EXCEPT !.started = TRUE])
    PROVE  FieldsKept
<1>1. [poll[c] EXCEPT !.started = TRUE] \in PollRecords
  <2>1. poll[c] \in PollRecords
    BY DEF ClientInv, ClientTypes
  <2> QED
    BY <2>1
<1>2. CASE state[c] = "queued"
  BY <1>1, <1>2, DieOnRequestTimeoutKeepsClientInv DEF MakeSinglePollRequest
<1>3. CASE state[c] # "queued"
  <2>1. poll' = [poll EXCEPT ![c] = StopPolling(poll[c])] /\ UNCHANGED state
    BY <1>3 DEF MakeSinglePollRequest
  <2>2. CASE ~poll[c].started
    BY <2>1, <2>2 DEF StopPolling, FieldsKept, ClientInv, ClientTypes, StopperIsTimed, StopperOpen
  <2>3. CASE poll[c].started
    <3>1. poll' = [poll EXCEPT ![c] = Stopped]
      BY <2>1, <2>3 DEF StopPolling
    <3>2. state[c] \notin {"initial", "queued"}
      BY <1>3, <2>3 DEF ClientInv, StopperOpen
    <3>3. Stopped \in PollRecords /\ ~Stopped.started /\ Stopped.timer # "nil" /\ Stopped.stopper # "nil"
      BY DEF Stopped
    <3>4. \A d \in Clients : poll'[d] = IF d = c THEN Stopped ELSE poll[d]
      BY <3>1 DEF ClientInv, ClientTypes
    <3> QED
      BY <2>1, <3>1, <3>2, <3>3, <3>4 DEF FieldsKept, ClientInv, ClientTypes, StopperIsTimed, StopperOpen
  <2> QED
    BY <2>2, <2>3 DEF ClientInv, ClientTypes
<1> QED
  BY <1>2, <1>3

\* ... and for the start of polling.
LEMMA StartPollingKeepsClientInv ==
    ASSUME ClientInv, NEW c \in Clients, state[c] = "queued", StartPolling(c)
    PROVE  FieldsKept /\ (loop'[c] # "none" => poll'[c].timer # "nil")
<1>1. CASE poll[c].started
  BY <1>1 DEF StartPolling, FieldsKept, ClientInv, ClientTypes, StopperIsTimed, StopperOpen
<1>2. CASE \E q \in {Polling, [Polling EXCEPT !.started = FALSE]} :
             poll' = [poll EXCEPT ![c] = q] /\ UNCHANGED state
  <2>1. PICK q \in PollRecords : /\ poll' = [poll EXCEPT ![c] = q] /\ UNCHANGED state
                                /\ q.stopper = "open" /\ q.timer = "armed"
    BY <1>2 DEF Polling
  <2> QED
    BY <2>1 DEF FieldsKept, ClientInv, ClientTypes, StopperIsTimed, StopperOpen
<1>3. CASE /\ MarkExitedAndStop(c, [poll[c] EXCEPT !.started = TRUE])
           /\ UNCHANGED loop
  <2>1. [poll[c] EXCEPT !.started = TRUE] \in PollRecords
    <3>1. poll[c] \in PollRecords
      BY DEF ClientInv, ClientTypes
    <3> QED
      BY <3>1
  <2>2. FieldsKept
    BY <1>3, <2>1, MarkExitedKeepsClientInv
  <2> QED
    BY <1>3, <2>2 DEF FieldsKept, ClientInv, StopperIsTimed
<1> QED
  BY <1>1, <1>2, <1>3 DEF StartPolling

\* With the fields in order, the rest of ClientInv is about loops and counts.
LEMMA FieldsGiveClientInv ==
    ASSUME ClientInv, FieldsKept, NEW c \in Clients,
           \A d \in Clients \ {c} :
              loop'[d] = loop[d] /\ polls'[d] = polls[d],
           loop' \in [Clients -> {"none", "select", "fired", "greedy", "reset", "ended"}],
           polls' \in [Clients -> 0 .. PollBound],
           inHand' \in [Clients -> States \cup {NoResponse}],
           loop'[c] # "none" => poll'[c].timer # "nil",
           loop'[c] = "greedy" => polls'[c] < PollBound
    PROVE  ClientInv'
BY DEF ClientInv, ClientTypes, StopperIsTimed, FieldsKept

LEMMA HandleResponseKeepsClientInv ==
    ASSUME ClientInv, NEW c \in Clients, HandleResponse(c)
    PROVE  ClientInv'
<1>1. inHand' = [inHand EXCEPT ![c] = NoResponse]
  BY DEF HandleResponse
<1>2. inHand' \in [Clients -> States \cup {NoResponse}]
  BY <1>1 DEF ClientInv, ClientTypes
<1>3. CASE UNCHANGED <<state, poll, loop, polls>>
  <2>1. FieldsKept
    BY <1>3 DEF ClientInv, FieldsKept, ClientTypes, StopperIsTimed, StopperOpen
  <2> QED
    BY <1>2, <1>3, <2>1, FieldsGiveClientInv DEF ClientInv, ClientTypes, StopperIsTimed
<1>4. CASE state[c] = "initial" /\ DieOnRequestTimeout(c, poll[c]) /\ UNCHANGED <<loop, polls>>
  <2>1. poll[c] \in PollRecords
    BY DEF ClientInv, ClientTypes
  <2>2. FieldsKept
    BY <1>4, <2>1, DieOnRequestTimeoutKeepsClientInv
  <2> QED
    BY <1>2, <1>4, <2>2, FieldsGiveClientInv DEF FieldsKept, ClientInv, ClientTypes, StopperIsTimed
<1>5. CASE state[c] = "queued" /\ StartPolling(c)
  <2>1. FieldsKept /\ (loop'[c] # "none" => poll'[c].timer # "nil")
    BY <1>5, StartPollingKeepsClientInv
  <2>2. /\ loop' = loop \/ loop' = [loop EXCEPT ![c] = "select"]
        /\ \/ polls' = polls
           \/ polls' = [polls EXCEPT ![c] = IF c \in Disappearing THEN 1 ELSE 0]
    BY <1>5 DEF StartPolling
  <2>3. PollBound \in Nat \ {0}
    BY SessionAssumption
  <2>4. /\ loop' \in [Clients -> {"none", "select", "fired", "greedy", "reset", "ended"}]
        /\ polls' \in [Clients -> 0 .. PollBound]
    BY <2>2, <2>3 DEF ClientInv, ClientTypes
  <2>5. loop'[c] = "greedy" => polls'[c] < PollBound
    <3>1. CASE poll[c].started
      BY <1>5, <3>1 DEF StartPolling, ClientInv, ClientTypes
    <3>2. CASE ~poll[c].started
      <4>1. loop' = [loop EXCEPT ![c] = "select"] \/ UNCHANGED <<loop, polls>>
        BY <1>5, <3>2 DEF StartPolling
      <4> QED
        BY <4>1 DEF ClientInv, ClientTypes
    <3> QED
      BY <3>1, <3>2 DEF ClientInv, ClientTypes
  <2> QED
    BY <1>2, <2>1, <2>2, <2>4, <2>5, FieldsGiveClientInv DEF ClientInv, ClientTypes
<1>6. CASE MarkExitedAndStop(c, poll[c]) /\ UNCHANGED <<loop, polls>>
  <2>1. poll[c] \in PollRecords
    BY DEF ClientInv, ClientTypes
  <2>2. FieldsKept
    BY <1>6, <2>1, MarkExitedKeepsClientInv
  <2> QED
    BY <1>2, <1>6, <2>2, FieldsGiveClientInv DEF FieldsKept, ClientInv, ClientTypes, StopperIsTimed
<1> QED
  BY <1>3, <1>4, <1>5, <1>6 DEF HandleResponse, DelegateResponse

\* What a client does without its server.
LEMMA PollingKeepsClientInv ==
    ASSUME ClientInv, NEW c \in Clients,
           \/ TimerFires(c) \/ SkipRound(c) \/ Disappear(c) \/ PollAgain(c)
           \/ GreedyPoll(c) \/ ResetTimer(c) \/ StopLoop(c)
    PROVE  ClientInv'
<1>1. inHand' \in [Clients -> States \cup {NoResponse}]
  BY DEF TimerFires, SkipRound, Disappear, PollAgain, GreedyPoll, ResetTimer, StopLoop,
         PollFrame, ClientInv, ClientTypes
<1>2. poll[c] \in PollRecords /\ PollBound \in Nat \ {0}
  BY SessionAssumption DEF ClientInv, ClientTypes
<1>3. CASE \/ TimerFires(c) \/ SkipRound(c) \/ ResetTimer(c) \/ StopLoop(c)
  <2>1. /\ UNCHANGED <<state, polls>>
        /\ poll' = poll \/ poll' = [poll EXCEPT ![c].timer = "armed"]
                        \/ poll' = [poll EXCEPT ![c].timer = "fired"]
        /\ poll[c].timer # "nil"
        /\ \/ loop' = [loop EXCEPT ![c] = "fired"] \/ loop' = [loop EXCEPT ![c] = "select"]
           \/ loop' = [loop EXCEPT ![c] = "ended"]
    BY <1>3 DEF TimerFires, SkipRound, ResetTimer, StopLoop, Rearmed, ClientInv, StopperIsTimed
  <2>2. PICK t \in Timers : t # "nil" /\ poll' = [poll EXCEPT ![c].timer = t]
    <3>1. poll[c].timer \in Timers /\ (poll' = poll => poll' = [poll EXCEPT ![c].timer = poll[c].timer])
      BY DEF ClientInv, ClientTypes
    <3> QED
      BY <2>1, <3>1
  <2>3. \A d \in Clients : poll'[d] = IF d = c THEN [poll[c] EXCEPT !.timer = t] ELSE poll[d]
    BY <2>2 DEF ClientInv, ClientTypes
  <2>4. poll' \in [Clients -> PollRecords]
    BY <2>2 DEF ClientInv, ClientTypes
  <2>5. FieldsKept
    <3>1. \A d \in Clients : /\ poll'[d].started = poll[d].started
                             /\ poll'[d].stopper = poll[d].stopper
                             /\ (poll'[d].timer = poll[d].timer \/ (d = c /\ poll'[d].timer # "nil"))
      BY <1>2, <2>2, <2>3, <2>4 DEF ClientInv, ClientTypes
    <3>2. state' = state
      BY <2>1
    <3>3. StopperOpen'
      BY <3>1, <3>2 DEF ClientInv, StopperOpen
    <3>4. \A d \in Clients : poll[d].timer # "nil" => poll'[d].timer # "nil"
      BY <3>1
    <3>5. \A d \in Clients : poll'[d].timer = "nil" <=> poll'[d].stopper = "nil"
      BY <2>1, <3>1 DEF ClientInv, StopperIsTimed
    <3> QED
      BY <2>4, <3>2, <3>3, <3>4, <3>5 DEF FieldsKept, ClientInv, ClientTypes
  <2>6. /\ loop' \in [Clients -> {"none", "select", "fired", "greedy", "reset", "ended"}]
        /\ loop'[c] # "greedy"
        /\ \A d \in Clients \ {c} : polls'[d] = polls[d] /\ loop'[d] = loop[d]
        /\ polls' \in [Clients -> 0 .. PollBound]
    BY <2>1 DEF ClientInv, ClientTypes
  <2>7. poll'[c].timer # "nil"
    BY <2>1, <2>5 DEF FieldsKept
  <2> QED
    BY <1>1, <2>5, <2>6, <2>7, FieldsGiveClientInv
<1>4. CASE Disappear(c)
  <2>1. FieldsKept
    BY <1>4, <1>2, MarkExitedKeepsClientInv DEF Disappear
  <2>2. loop[c] = "fired" /\ loop' = [loop EXCEPT ![c] = "ended"] /\ polls' = polls
    BY <1>4 DEF Disappear
  <2> QED
    BY <1>1, <2>1, <2>2, FieldsGiveClientInv DEF FieldsKept, ClientInv, ClientTypes, StopperIsTimed
<1>5. CASE PollAgain(c)
  <2>1. FieldsKept
    BY <1>5, MakeSinglePollRequestKeepsClientInv DEF PollAgain
  <2>2. /\ loop[c] = "fired"
        /\ \/ loop' = [loop EXCEPT ![c] = "ended"] \/ loop' = [loop EXCEPT ![c] = "reset"]
           \/ /\ GreedyPollsCount > 1
              /\ loop' = [loop EXCEPT ![c] = "greedy"]
    BY <1>5 DEF PollAgain
  <2>3. \/ polls' = [polls EXCEPT ![c] = 1]
        \/ /\ polls' = [polls EXCEPT ![c] = @ + 1]
           /\ polls[c] < PollsBeforeDisappearing
    <3>1. ~HasDisappeared(c)
          /\ polls' = [polls EXCEPT ![c] = IF c \in Disappearing THEN @ + 1 ELSE 1]
      BY <1>5 DEF PollAgain
    <3>2. polls[c] \in Nat
      BY DEF ClientInv, ClientTypes
    <3>3. CASE c \in Disappearing
      BY <3>1, <3>2, <3>3, SessionAssumption DEF HasDisappeared
    <3>4. CASE c \notin Disappearing
      BY <3>1, <3>4
    <3> QED
      BY <3>3, <3>4
  <2>4. polls'[c] \in 0 .. PollBound /\ (GreedyPollsCount > 1 => polls'[c] < PollBound)
    BY <2>3, SessionAssumption DEF ClientInv, ClientTypes
  <2>5. polls' \in [Clients -> 0 .. PollBound]
    BY <2>3, <2>4 DEF ClientInv, ClientTypes
  <2>6. \A d \in Clients \ {c} : polls'[d] = polls[d] /\ loop'[d] = loop[d]
    BY <2>2, <2>3 DEF ClientInv, ClientTypes
  <2>7. loop' \in [Clients -> {"none", "select", "fired", "greedy", "reset", "ended"}]
    <3>1. PICK l \in {"ended", "reset", "greedy"} : loop' = [loop EXCEPT ![c] = l]
      BY <2>2
    <3>2. loop \in [Clients -> {"none", "select", "fired", "greedy", "reset", "ended"}]
      BY DEF ClientInv, ClientTypes
    <3> QED
      BY <3>1, <3>2
  <2>8. poll'[c].timer # "nil" /\ (loop'[c] = "greedy" => GreedyPollsCount > 1)
    BY <2>1, <2>2 DEF FieldsKept, ClientInv, ClientTypes, StopperIsTimed
  <2> QED
    BY <1>1, <2>1, <2>4, <2>5, <2>6, <2>7, <2>8, FieldsGiveClientInv
<1>6. CASE GreedyPoll(c)
  <2>1. FieldsKept
    BY <1>6, MakeSinglePollRequestKeepsClientInv DEF GreedyPoll
  <2>2. /\ loop[c] = "greedy" /\ polls' = [polls EXCEPT ![c] = @ + 1]
        /\ loop' = [loop EXCEPT ![c] =
             IF state[c] = "queued" /\ polls[c] + 1 < GreedyPollsCount THEN "greedy" ELSE "reset"]
    BY <1>6 DEF GreedyPoll
  <2>3. polls[c] \in Nat /\ polls[c] < PollBound
    BY <2>2 DEF ClientInv, ClientTypes
  <2>4. polls' \in [Clients -> 0 .. PollBound]
    BY <1>2, <2>2, <2>3 DEF ClientInv, ClientTypes
  <2>5. loop'[c] = "greedy" => polls'[c] < PollBound
    BY <2>2, <2>3, SessionAssumption DEF ClientInv, ClientTypes
  <2> QED
    BY <1>1, <2>1, <2>2, <2>4, <2>5, FieldsGiveClientInv
    DEF FieldsKept, ClientInv, ClientTypes, StopperIsTimed
<1> QED
  BY <1>3, <1>4, <1>5, <1>6

-----------------------------------------------------------------------------
(* Signing off *)

\* A step of a client that signs off, and one that does not.
SignsOff(c) ==
    /\ state' = [state EXCEPT ![c] = "exited"] /\ wg' = wg - 1
    /\ \/ wg = 0 /\ fault' = "negativeWaitGroup"
       \/ wg # 0 /\ fault' \in {"none", "nilTimer"}
StaysOn ==
    UNCHANGED <<state, wg>> /\ fault' \in {"none", "asymmetric", "nilTimer"}

\* Polling stops with an open stopper, or with a timer that was never made.
LEMMA StopPollingNeverClosesTwice ==
    ASSUME ClientInv, NEW c \in Clients, NEW p \in PollRecords,
           \/ p = poll[c]
           \/ state[c] = "queued" /\ p = [poll[c] EXCEPT !.started = TRUE]
    PROVE  StopPollingFault(p) \in {"none", "nilTimer"}
BY DEF ClientInv, ClientTypes, StopperIsTimed, StopperOpen, StopPollingFault

LEMMA MarkExitedSignsOff ==
    ASSUME ClientInv, NEW c \in Clients, NEW p \in PollRecords,
           \/ p = poll[c]
           \/ state[c] = "queued" /\ p = [poll[c] EXCEPT !.started = TRUE],
           MarkExitedAndStop(c, p)
    PROVE  SignsOff(c)
BY StopPollingNeverClosesTwice DEF MarkExitedAndStop, SignsOff

\* A client signs off only from a state other than "exited", except that a
\* disappearing one does when its timer has fired, which ends its loop.
LEMMA ClientSignsOff ==
    ASSUME ClientInv, fault = "none", NEW c \in Clients, ClientStep(c)
    PROVE  /\ \/ StaysOn
              \/ SignsOff(c) /\ state[c] # "exited"
              \/ /\ SignsOff(c) /\ c \in Disappearing
                 /\ loop[c] = "fired" /\ loop'[c] = "ended"
           /\ \A d \in Clients : state[d] = "exited" /\ loop[d] = "ended" => loop'[d] = "ended"
<1> DEFINE Q == [poll[c] EXCEPT !.started = TRUE]
<1>1. poll[c] \in PollRecords /\ Q \in PollRecords
  <2>1. poll[c] \in PollRecords
    BY DEF ClientInv, ClientTypes
  <2> QED
    BY <2>1
<1>2. CASE \/ ReceiveResponse(c) \/ TimerFires(c) \/ SkipRound(c) \/ ResetTimer(c) \/ StopLoop(c)
  <2>1. StaysOn
    BY <1>2 DEF ReceiveResponse, TimerFires, SkipRound, ResetTimer, StopLoop, StaysOn
  <2>2. \/ loop' = loop
        \/ /\ loop[c] # "ended"
           /\ \E l \in {"fired", "select", "ended"} : loop' = [loop EXCEPT ![c] = l]
    BY <1>2 DEF ReceiveResponse, TimerFires, SkipRound, ResetTimer, StopLoop
  <2> QED
    BY <2>1, <2>2 DEF ClientInv, ClientTypes
<1>3. CASE HandleResponse(c)
  <2>1. CASE inHand[c] # state[c]
    BY <1>3, <2>1 DEF HandleResponse, StaysOn
  <2>2. CASE state[c] = "initial" /\ DieOnRequestTimeout(c, poll[c]) /\ UNCHANGED loop
    BY <1>1, <2>2, MarkExitedSignsOff DEF DieOnRequestTimeout, StaysOn
  <2>3. CASE state[c] = "queued" /\ StartPolling(c)
    <3>1. \/ UNCHANGED <<state, wg, fault>>
          \/ MarkExitedAndStop(c, Q)
      BY <2>3 DEF StartPolling
    <3>2. StaysOn \/ SignsOff(c)
      BY <1>1, <2>3, <3>1, MarkExitedSignsOff DEF StaysOn
    <3>3. loop' = loop \/ loop' = [loop EXCEPT ![c] = "select"]
      BY <2>3 DEF StartPolling
    <3> QED
      BY <2>3, <3>2, <3>3 DEF ClientInv, ClientTypes
  <2>4. CASE state[c] = "inCheckout" /\ MarkExitedAndStop(c, poll[c]) /\ UNCHANGED loop
    BY <1>1, <2>4, MarkExitedSignsOff
  <2>5. CASE UNCHANGED <<state, loop, wg, fault>>
    BY <2>5 DEF StaysOn
  <2> QED
    BY <1>3, <2>1, <2>2, <2>3, <2>4, <2>5 DEF HandleResponse, DelegateResponse, ReachedCheckout
<1>4. CASE Disappear(c)
  <2>1. SignsOff(c)
    BY <1>1, <1>4, MarkExitedSignsOff DEF Disappear
  <2>2. c \in Disappearing /\ loop[c] = "fired" /\ loop' = [loop EXCEPT ![c] = "ended"]
    BY <1>4 DEF Disappear, HasDisappeared
  <2> QED
    BY <2>1, <2>2 DEF ClientInv, ClientTypes
<1>5. CASE PollAgain(c) \/ GreedyPoll(c)
  <2>1. MakeSinglePollRequest(c, Q)
    BY <1>5 DEF PollAgain, GreedyPoll
  <2>2. StaysOn \/ (SignsOff(c) /\ state[c] # "exited")
    BY <1>1, <2>1, MarkExitedSignsOff, StopPollingNeverClosesTwice
    DEF MakeSinglePollRequest, DieOnRequestTimeout, StaysOn
  <2>3. loop[c] # "ended" /\ \A d \in Clients \ {c} : loop'[d] = loop[d]
    BY <1>5 DEF PollAgain, GreedyPoll, ClientInv, ClientTypes
  <2> QED
    BY <2>2, <2>3
<1> QED
  BY <1>2, <1>3, <1>4, <1>5 DEF ClientStep

\* A server never takes part in signing off, nor brings back who has.
LEMMA ServerSignsNobodyOff ==
    ASSUME ClientInv, NEW w \in Servers, ServerStep(w)
    PROVE  /\ UNCHANGED <<poll, loop, polls, inHand, wg, closers, completed, exited, fault>>
           /\ \/ UNCHANGED <<state, ctxDone>>
              \/ /\ state[serving[w]] \in {"initial", "queued"}
                 /\ \/ state' = [state EXCEPT ![serving[w]] = "queued"] /\ ctxDone' = ctxDone
                    \/ state' = [state EXCEPT ![serving[w]] = "inCheckout"]
                       /\ ctxDone' \in {ctxDone, TRUE}
BY DEF ServerStep, ServerReceive, Transition, Respond, MayBeQueued, clientVars, netVars, endVars

-----------------------------------------------------------------------------
(* The steps *)

\* The channels, locks and server workers.
LEMMA NetTypesStep ==
    ASSUME ClientInv, NetTypes, [Next]_vars
    PROVE  NetTypes'
<1>1. ASSUME NEW c \in Clients, Len(requests) < ReqCap, requests' = Append(requests, c)
      PROVE  requests' \in Seq(Clients) /\ Len(requests') <= ReqCap
  BY <1>1, SessionAssumption DEF NetTypes
<1>2. ASSUME NEW c \in Clients, ClientStep(c)
      PROVE  NetTypes'
  <2>1. UNCHANGED <<lock, server, serving>>
    BY <1>2 DEF ClientStep, ReceiveResponse, HandleResponse, TimerFires, SkipRound, Disappear,
                PollAgain, GreedyPoll, ResetTimer, StopLoop, PollFrame, serverVars
  <2>2. \/ requests' = requests
        \/ Len(requests) < ReqCap /\ requests' = Append(requests, c)
    BY <1>2 DEF ClientStep, ReceiveResponse, HandleResponse, TimerFires, SkipRound, Disappear,
                PollAgain, GreedyPoll, ResetTimer, StopLoop, DelegateResponse, StartPolling,
                MakeSinglePollRequest, DieOnRequestTimeout
  <2>3. \/ responses' = responses
        \/ responses[c] # <<>> /\ responses' = [responses EXCEPT ![c] = Tail(@)]
    BY <1>2 DEF ClientStep, ReceiveResponse, HandleResponse, TimerFires, SkipRound, Disappear,
                PollAgain, GreedyPoll, ResetTimer, StopLoop, PollFrame
  <2>4. requests' \in Seq(Clients) /\ Len(requests') <= ReqCap
    BY <1>1, <2>2 DEF NetTypes
  <2>5. /\ responses' \in [Clients -> Seq(States)]
        /\ \A d \in Clients : Len(responses'[d]) <= RespCap
    <3>1. CASE responses' = responses
      BY <3>1 DEF NetTypes
    <3>2. CASE responses[c] # <<>> /\ responses' = [responses EXCEPT ![c] = Tail(@)]
      <4>1. responses[c] \in Seq(States) /\ Len(responses[c]) <= RespCap
        BY DEF NetTypes
      <4>2. Tail(responses[c]) \in Seq(States) /\ Len(Tail(responses[c])) <= RespCap
        BY <3>2, <4>1, SessionAssumption
      <4> QED
        BY <3>2, <4>2 DEF NetTypes
    <3> QED
      BY <2>3, <3>1, <3>2
  <2> QED
    BY <2>1, <2>4, <2>5 DEF NetTypes
<1>3. ASSUME NEW w \in Servers, ServerReceive(w)
      PROVE  NetTypes'
  <2>1. requests \in Seq(Clients) /\ requests # <<>> /\ Len(requests) <= ReqCap
    BY <1>3 DEF ServerReceive, NetTypes
  <2>2. Head(requests) \in Clients /\ Tail(requests) \in Seq(Clients) /\ Len(Tail(requests)) <= ReqCap
    BY <2>1, SessionAssumption
  <2> QED
    BY <1>3, <2>2 DEF ServerReceive, NetTypes
<1>4. ASSUME NEW w \in Servers, Transition(w)
      PROVE  NetTypes'
  BY <1>4 DEF Transition, NetTypes, netVars
<1>5. ASSUME NEW w \in Servers, Respond(w)
      PROVE  NetTypes'
  <2> DEFINE c == serving[w]
  <2>1. /\ responses' = [responses EXCEPT ![c] = Append(@, state[c])]
        /\ Len(responses[c]) < RespCap
    BY <1>5 DEF Respond, HasRoom
  <2>2. /\ responses' \in [Clients -> Seq(States)]
        /\ \A d \in Clients : Len(responses'[d]) <= RespCap
    <3>1. CASE c \in Clients
      <4>1. responses[c] \in Seq(States) /\ state[c] \in States
        BY <3>1 DEF NetTypes, ClientInv, ClientTypes
      <4>2. Append(responses[c], state[c]) \in Seq(States)
            /\ Len(Append(responses[c], state[c])) <= RespCap
        BY <2>1, <4>1, SessionAssumption
      <4> HIDE DEF c
      <4> QED
        BY <2>1, <3>1, <4>2 DEF NetTypes
    <3>2. CASE c \notin Clients
      <4> HIDE DEF c
      <4> QED
        BY <2>1, <3>2 DEF NetTypes
    <3> QED
      BY <3>1, <3>2
  <2> QED
    BY <1>5, <2>2 DEF Respond, NetTypes
<1>6. CASE \/ Interrupt \/ ExitProcess \/ UNCHANGED vars
           \/ \E who \in {"context", "clients"} : CloseCompleted(who)
  BY <1>6 DEF Interrupt, ExitProcess, CloseCompleted, vars, netVars, serverVars, NetTypes
<1> QED
  BY <1>2, <1>3, <1>4, <1>5, <1>6 DEF Next, ServerStep

LEMMA ClientInvStep ==
    ASSUME ClientInv, NetTypes, [Next]_vars
    PROVE  ClientInv'
<1>1. CASE \E c \in Clients : ClientStep(c)
  <2>1. PICK c \in Clients : ClientStep(c)
    BY <1>1
  <2>2. CASE ReceiveResponse(c)
    <3>1. /\ UNCHANGED <<state, poll, loop, polls>>
          /\ inHand' = [inHand EXCEPT ![c] = Head(responses[c])]
      BY <2>2 DEF ReceiveResponse
    <3>2. Head(responses[c]) \in States
      BY <2>2 DEF ReceiveResponse, NetTypes
    <3> QED
      BY <3>1, <3>2 DEF ClientInv, ClientTypes, StopperIsTimed, StopperOpen
  <2> QED
    BY <2>1, <2>2, HandleResponseKeepsClientInv, PollingKeepsClientInv DEF ClientStep
<1>2. CASE \E w \in Servers : ServerStep(w)
  <2>1. PICK w \in Servers : ServerStep(w)
    BY <1>2
  <2>2. /\ UNCHANGED <<poll, loop, polls, inHand>>
        /\ \/ state' = state
           \/ /\ state[serving[w]] \in {"initial", "queued"}
              /\ \E s \in {"queued", "inCheckout"} : state' = [state EXCEPT ![serving[w]] = s]
    BY <2>1, ServerSignsNobodyOff
  <2> HIDE DEF ServerStep
  <2> QED
    BY <2>2 DEF ClientInv, ClientTypes, StopperIsTimed, StopperOpen
<1>3. CASE \/ Interrupt \/ ExitProcess \/ UNCHANGED vars
           \/ \E who \in {"context", "clients"} : CloseCompleted(who)
  BY <1>3 DEF Interrupt, ExitProcess, CloseCompleted, vars, clientVars,
              ClientInv, ClientTypes, StopperIsTimed, StopperOpen
<1> QED
  BY <1>1, <1>2, <1>3 DEF Next

\* The sets behind the wait group are finite.
LEMMA CountsAreNatural ==
    /\ IsFiniteSet(Inside) /\ Cardinality(Inside) \in Nat
    /\ Cardinality(Inside) <= Cardinality(Clients) /\ Cardinality(Clients) \in Nat
    /\ IsFiniteSet(Vanished) /\ Cardinality(Vanished) \in Nat
    /\ Vanished # {} <=> Cardinality(Vanished) > 0
<1>1. Inside \in SUBSET Clients /\ Vanished \in SUBSET Clients
  BY SessionAssumption DEF Inside, Vanished
<1>2. IsFiniteSet(Inside) /\ IsFiniteSet(Vanished) /\ Cardinality(Inside) <= Cardinality(Clients)
  BY <1>1, SessionAssumption, FS_Subset
<1>3. /\ Cardinality(Inside) \in Nat /\ Cardinality(Vanished) \in Nat
      /\ Cardinality(Clients) \in Nat
  BY <1>2, SessionAssumption, FS_CardinalityType
<1> QED
  BY <1>2, <1>3, FS_EmptySet

\* The wait group after a step that leaves it alone.
LEMMA CountsUnlessSignOff ==
    ASSUME ClientInv, WaitGroupCounts, wg \in Int, wg' = wg,
           Inside' = Inside, Vanished \subseteq Vanished',
           fault' = fault \/ fault' # "negativeWaitGroup"
    PROVE  WaitGroupCounts'
<1>1. Vanished' \in SUBSET Clients
  BY SessionAssumption DEF Vanished
<1>2. IsFiniteSet(Vanished') /\ Cardinality(Vanished') \in Nat
  BY <1>1, SessionAssumption, FS_Subset, FS_CardinalityType
<1>3. Cardinality(Vanished) <= Cardinality(Vanished')
  BY <1>2, FS_Subset
<1> QED
  BY <1>2, <1>3, CountsAreNatural DEF WaitGroupCounts

\* ... and after a client has signed off, for the first or the second time.
LEMMA CountsAfterSignOff ==
    ASSUME ClientInv, WaitGroupCounts, fault = "none", wg \in Nat, NEW c \in Clients,
           SignsOff(c),
           \/ state[c] # "exited"
           \/ c \in Disappearing /\ loop[c] = "fired" /\ loop'[c] = "ended",
           \A d \in Clients : state[d] = "exited" /\ loop[d] = "ended" => loop'[d] = "ended"
    PROVE  WaitGroupCounts'
<1>1. Inside' = Inside \ {c}
  BY DEF Inside, SignsOff, ClientInv, ClientTypes
<1>2. Vanished \subseteq Vanished' /\ (state[c] = "exited" => c \in Vanished' \ Vanished)
  BY SessionAssumption DEF Vanished, SignsOff, ClientInv, ClientTypes
<1>3. IsFiniteSet(Vanished')
  <2>1. Vanished' \in SUBSET Clients
    BY SessionAssumption DEF Vanished
  <2> QED
    BY <2>1, SessionAssumption, FS_Subset
<1>4. Cardinality(Vanished') \in Nat /\ Cardinality(Vanished) <= Cardinality(Vanished')
      /\ (Vanished' # {} <=> Cardinality(Vanished') > 0)
  BY <1>2, <1>3, FS_Subset, FS_CardinalityType, FS_EmptySet
<1>5. Cardinality(Inside') = IF c \in Inside THEN Cardinality(Inside) - 1 ELSE Cardinality(Inside)
  BY <1>1, CountsAreNatural, FS_RemoveElement
<1>6. wg' = wg - 1 /\ (fault' = "negativeWaitGroup" => wg = 0)
  BY DEF SignsOff
<1>7. CASE state[c] # "exited"
  <2>1. c \in Inside
    BY <1>7 DEF Inside
  <2>2. Cardinality(Inside) > 0
    BY <2>1, CountsAreNatural, FS_EmptySet
  <2> QED
    BY <1>4, <1>5, <1>6, <2>1, <2>2, CountsAreNatural DEF WaitGroupCounts
<1>8. CASE state[c] = "exited"
  <2>1. c \notin Inside
    BY <1>8 DEF Inside
  <2>2. Cardinality(Vanished') >= Cardinality(Vanished) + 1
    <3>1. Vanished \cup {c} \subseteq Vanished' /\ c \notin Vanished
      BY <1>2, <1>8
    <3>2. Cardinality(Vanished \cup {c}) = Cardinality(Vanished) + 1
      BY <3>1, CountsAreNatural, FS_AddElement
    <3>3. Cardinality(Vanished \cup {c}) <= Cardinality(Vanished')
      BY <1>3, <3>1, FS_Subset
    <3> QED
      BY <1>4, <3>2, <3>3, CountsAreNatural
  <2> QED
    BY <1>4, <1>5, <1>6, <2>1, <2>2, CountsAreNatural DEF WaitGroupCounts
<1> QED
  BY <1>7, <1>8

\* The end of the simulation: types, reasons of the closers, the wait group.
LEMMA EndInvStep ==
    ASSUME ClientInv, EndInv, [Next]_vars
    PROVE  EndInv'
<1> USE DEF EndInv
<1>1. ASSUME NEW c \in Clients, ClientStep(c), fault = "none"
      PROVE  EndInv'
  <2>1. UNCHANGED <<ctxDone, closers, completed, exited>>
    BY <1>1 DEF ClientStep, ReceiveResponse, HandleResponse, TimerFires, SkipRound, Disappear,
                PollAgain, GreedyPoll, ResetTimer, StopLoop, PollFrame, endVars
  <2>2. wg \in Nat /\ wg <= Cardinality(Clients) /\ Cardinality(Clients) \in Nat
    BY <1>1, CountsAreNatural DEF EndTypes
  <2> HIDE DEF ClientStep
  <2>3. CASE StaysOn
    <3>1. Inside' = Inside /\ Vanished \subseteq Vanished'
      BY <1>1, <2>3, ClientSignsOff, SessionAssumption DEF StaysOn, Inside, Vanished
    <3>2. WaitGroupCounts'
      BY <2>2, <2>3, <3>1, CountsUnlessSignOff DEF StaysOn
    <3> QED
      BY <1>1, <2>1, <2>3, <3>2 DEF StaysOn, EndTypes, ClosersHadReason, ChannelsClosedOnce
  <2>4. CASE SignsOff(c) /\ ~StaysOn
    <3>1. WaitGroupCounts'
      BY <1>1, <2>2, <2>4, ClientSignsOff, CountsAfterSignOff
    <3> QED
      BY <1>1, <2>1, <2>2, <2>4, <3>1 DEF SignsOff, EndTypes, ClosersHadReason, ChannelsClosedOnce
  <2> QED
    BY <1>1, <2>3, <2>4, ClientSignsOff
<1>2. ASSUME NEW w \in Servers, ServerStep(w)
      PROVE  EndInv'
  <2>1. /\ UNCHANGED <<loop, wg, closers, completed, exited, fault>>
        /\ ctxDone' \in {ctxDone, TRUE}
    BY <1>2, ServerSignsNobodyOff
  <2>2. Inside' = Inside /\ Vanished' = Vanished
    <3>1. \/ state' = state
          \/ /\ state[serving[w]] \in {"initial", "queued"}
             /\ \E s \in {"queued", "inCheckout"} : state' = [state EXCEPT ![serving[w]] = s]
      BY <1>2, ServerSignsNobodyOff
    <3>2. \A d \in Clients : state'[d] = "exited" <=> state[d] = "exited"
      BY <3>1 DEF ClientInv, ClientTypes
    <3> QED
      BY <2>1, <3>2, SessionAssumption DEF Inside, Vanished
  <2>3. WaitGroupCounts'
    BY <2>1, <2>2, CountsUnlessSignOff DEF EndTypes
  <2> QED
    BY <2>1, <2>3 DEF EndTypes, ClosersHadReason, ChannelsClosedOnce
<1>3. ASSUME NEW who \in {"context", "clients"}, CloseCompleted(who), fault = "none"
      PROVE  EndInv'
  <2>1. UNCHANGED <<state, loop, wg, ctxDone, exited>>
    BY <1>3 DEF CloseCompleted, clientVars
  <2>2. WaitGroupCounts'
    <3>1. Inside' = Inside /\ Vanished' = Vanished
      BY <2>1 DEF Inside, Vanished
    <3> QED
      BY <1>3, <2>1, <3>1, CountsUnlessSignOff DEF CloseCompleted, EndTypes
  <2>3. /\ who = "context" => ctxDone
        /\ who = "clients" => wg = 0
        /\ who \in closers /\ closers' = closers \ {who} /\ completed' = TRUE
        /\ fault' = IF completed THEN "closedTwice" ELSE "none"
    BY <1>3 DEF CloseCompleted, CanClose
  <2>4. EndTypes'
    BY <1>3, <2>1, <2>3 DEF EndTypes
  <2>5. ClosersHadReason'
    BY <2>1, <2>3 DEF EndTypes, ClosersHadReason
  <2>6. ChannelsClosedOnce'
    <3>1. CASE completed
      <4>1. ctxDone /\ wg <= 0 /\ wg >= 0
        BY <1>3, <2>3, <3>1 DEF EndTypes, ClosersHadReason
      <4>2. wg = 0
        BY <4>1 DEF EndTypes
      <4> QED
        BY <2>1, <2>3, <4>1, <4>2 DEF ChannelsClosedOnce
    <3>2. CASE ~completed
      BY <2>3, <3>2 DEF ChannelsClosedOnce
    <3> QED
      BY <3>1, <3>2
  <2> QED
    BY <2>2, <2>4, <2>5, <2>6
<1>4. CASE Interrupt \/ ExitProcess \/ UNCHANGED vars
  <2>1. /\ UNCHANGED <<state, loop, wg, closers, completed, fault>>
        /\ ctxDone' \in BOOLEAN /\ exited' \in BOOLEAN /\ (ctxDone => ctxDone')
    BY <1>4 DEF Interrupt, ExitProcess, vars, clientVars, endVars, EndTypes
  <2>2. WaitGroupCounts'
    <3>1. Inside' = Inside /\ Vanished' = Vanished
      BY <2>1 DEF Inside, Vanished
    <3> QED
      BY <2>1, <3>1, CountsUnlessSignOff DEF EndTypes
  <2> QED
    BY <2>1, <2>2 DEF EndTypes, ClosersHadReason, ChannelsClosedOnce
<1> QED
  BY <1>1, <1>2, <1>3, <1>4 DEF Next

-----------------------------------------------------------------------------
(* The theorems *)

LEMMA SessionInvInit == Init => SessionInv
<1> SUFFICES ASSUME Init PROVE SessionInv
  OBVIOUS
<1>1. ClientInv
  BY SessionAssumption DEF Init, ClientInv, ClientTypes, StopperIsTimed, StopperOpen
<1>2. NetTypes
  <2>1. <<"initial">> \in Seq(States) /\ Len(<<"initial">>) = 1
    OBVIOUS
  <2>2. << >> \in Seq(Clients) /\ Len(<< >>) = 0
    OBVIOUS
  <2> QED
    BY <2>1, <2>2, SessionAssumption DEF Init, NetTypes
<1>3. EndInv
  <2>1. Cardinality(Clients) \in Nat
    BY SessionAssumption, FS_CardinalityType
  <2>2. Inside = Clients /\ Vanished = {}
    BY SessionAssumption DEF Init, Inside, Vanished
  <2>3. Cardinality(Vanished) = 0
    BY <2>2, FS_EmptySet
  <2>4. EndTypes
    <3>1. wg \in -1 .. Cardinality(Clients) /\ wg >= 0
      BY <2>1 DEF Init
    <3> QED
      BY <3>1 DEF Init, EndTypes
  <2>5. WaitGroupCounts
    BY <2>1, <2>2, <2>3 DEF Init, WaitGroupCounts
  <2>6. ClosersHadReason /\ ChannelsClosedOnce
    BY DEF Init, ClosersHadReason, ChannelsClosedOnce
  <2> QED
    BY <2>4, <2>5, <2>6 DEF EndInv
<1> QED
  BY <1>1, <1>2, <1>3 DEF SessionInv

\* The invariant, of which the next three theorems are parts.
THEOREM SessionInvariant == Spec => []SessionInv
<1>1. SessionInv /\ [Next]_vars => SessionInv'
  BY NetTypesStep, ClientInvStep, EndInvStep DEF SessionInv
<1> QED
  BY SessionInvInit, <1>1, PTL DEF Spec

\* Type correctness: channels stay within their capacity, and the wait group
\* between -1 and the number of clients.
THEOREM SessionTypeCorrect == Spec => []TypeOK
<1>1. SessionInv => TypeOK
  BY DEF SessionInv, ClientInv, ClientTypes, NetTypes, EndInv, EndTypes, TypeOK
<1> QED
  BY <1>1, SessionInvariant, PTL

\* No stopper is closed twice, and the completion channel only when the
\* context is cancelled and all the clients are through.
THEOREM SessionClosesOnce == Spec => []ChannelsClosedOnce
<1>1. SessionInv => ChannelsClosedOnce
  BY DEF SessionInv, EndInv
<1> QED
  BY <1>1, SessionInvariant, PTL

\* Only disappearing clients sign off a second time, and each at most once.
THEOREM SessionSignsOffOnce == Spec => []SignOffOnce
<1>1. SessionInv => SignOffOnce
  <2> SUFFICES ASSUME SessionInv PROVE SignOffOnce
    OBVIOUS
  <2> DEFINE again == {c \in Disappearing : state[c] = "exited"}
  <2>1. again \in SUBSET Clients
    BY SessionAssumption
  <2>2. IsFiniteSet(again) /\ Cardinality(again) \in Nat
    BY <2>1, SessionAssumption, FS_Subset, FS_CardinalityType
  <2>3. Vanished \subseteq again
    BY DEF Vanished
  <2>4. Cardinality(Vanished) <= Cardinality(again)
    BY <2>2, <2>3, FS_Subset
  <2>5. WaitGroupCounts /\ wg \in Int
    BY DEF SessionInv, EndInv, EndTypes
  <2>6. /\ wg \in Cardinality(Inside) - Cardinality(again) .. Cardinality(Inside)
        /\ fault = "negativeWaitGroup" => Cardinality(again) > 0
    BY <2>2, <2>4, <2>5, CountsAreNatural DEF WaitGroupCounts
  <2> QED
    BY <2>6 DEF SignOffOnce, Inside
<1> QED
  BY <1>1, SessionInvariant, PTL

\* An exited client stays so, and one in checkout can only exit, whatever
\* polls and responses are still under way.
THEOREM SessionNoWayBack == Spec => NoWayBack
<1> DEFINE Forward == \A c \in Clients :
              /\ state[c] = "exited" => state'[c] = "exited"
              /\ state[c] = "inCheckout" => state'[c] \in {"inCheckout", "exited"}
<1>1. SessionInv /\ [Next]_vars => Forward
  <2> SUFFICES ASSUME SessionInv, [Next]_vars PROVE Forward
    OBVIOUS
  <2>1. ClientInv
    BY DEF SessionInv
  <2>2. CASE fault = "none" /\ \E c \in Clients : ClientStep(c)
    <3>1. PICK c \in Clients : StaysOn \/ SignsOff(c)
      BY <2>1, <2>2, ClientSignsOff
    <3> QED
      BY <2>1, <3>1 DEF StaysOn, SignsOff, ClientInv, ClientTypes
  <2>3. CASE \E w \in Servers : ServerStep(w)
    <3>1. PICK w \in Servers :
             \/ state' = state
             \/ /\ state[serving[w]] \in {"initial", "queued"}
                /\ \E s \in {"queued", "inCheckout"} : state' = [state EXCEPT ![serving[w]] = s]
      BY <2>1, <2>3, ServerSignsNobodyOff
    <3> QED
      BY <2>1, <3>1 DEF ClientInv, ClientTypes
  <2>4. CASE state' = state
    BY <2>4
  <2> QED
    BY <2>2, <2>3, <2>4 DEF Next, Interrupt, ExitProcess, CloseCompleted, vars, clientVars
<1>2. Forward => [Forward]_vars
  OBVIOUS
<1> QED
  BY <1>1, SessionInvariant, PTL DEF Spec, NoWayBack

-----------------------------------------------------------------------------
(* Nobody is forgotten *)

LEMMA ToSetAppend ==
    ASSUME NEW s \in Seq(Clients), NEW c \in Clients
    PROVE  c \in ToSet(Append(s, c)) /\ ToSet(s) \subseteq ToSet(Append(s, c))
<1>1. /\ DOMAIN Append(s, c) = 1 .. Len(s) + 1 /\ DOMAIN s = 1 .. Len(s)
      /\ Append(s, c)[Len(s) + 1] = c /\ \A i \in 1 .. Len(s) : Append(s, c)[i] = s[i]
  OBVIOUS
<1>2. Len(s) \in Nat
  OBVIOUS
<1> QED
  BY <1>1, <1>2 DEF ToSet

LEMMA ToSetTail ==
    ASSUME NEW s \in Seq(Clients), s # << >>
    PROVE  ToSet(s) \subseteq ToSet(Tail(s)) \cup {Head(s)}
<1>1. /\ Len(s) \in Nat \ {0} /\ DOMAIN Tail(s) = 1 .. Len(s) - 1 /\ DOMAIN s = 1 .. Len(s)
      /\ Head(s) = s[1] /\ \A i \in 1 .. Len(s) - 1 : Tail(s)[i] = s[i + 1]
  OBVIOUS
<1>2. SUFFICES ASSUME NEW i \in 1 .. Len(s), i # 1 PROVE s[i] \in ToSet(Tail(s))
  BY <1>1 DEF ToSet
<1>3. i - 1 \in 1 .. Len(s) - 1 /\ (i - 1) + 1 = i
  BY <1>1, <1>2
<1>4. i - 1 \in DOMAIN Tail(s) /\ s[i] = Tail(s)[i - 1]
  BY <1>1, <1>3
<1> QED
  BY <1>4 DEF ToSet

\* The request of c or its answer is on the way; its polling goroutine wakes up.
Pending(c) ==
    \/ c \in ToSet(requests)
    \/ \E w \in Servers : serving[w] = c
    \/ responses[c] # <<>> \/ inHand[c] # NoResponse
WakesUp(c) ==
    \/ loop[c] \in {"fired", "greedy", "reset"}
    \/ loop[c] = "select" /\ poll[c].timer = "armed"
Waits(c) == state[c] \in {"initial", "queued"} /\ ~ctxDone /\ fault = "none"

\* The invariant: StartPolling relies on StartedPolling to tell that there is
\* a goroutine that polls, and a goroutine only starts in the queue.
Remembered(c) == Waits(c) =>
    /\ Pending(c) \/ WakesUp(c)
    /\ poll[c].started => WakesUp(c)
    /\ state[c] = "initial" => loop[c] = "none"

\* A step of another client takes nothing away from c.
LEMMA OthersForgetNobody ==
    ASSUME ClientInv, NetTypes, NEW c \in Clients, NEW d \in Clients \ {c},
           Remembered(c), ClientStep(d), fault = "none"
    PROVE  Remembered(c)'
<1>1. /\ state'[c] = state[c] /\ poll'[c] = poll[c] /\ loop'[c] = loop[c]
      /\ inHand'[c] = inHand[c] /\ responses'[c] = responses[c]
      /\ UNCHANGED <<serving, ctxDone>>
  BY DEF ClientStep, ReceiveResponse, HandleResponse, TimerFires, SkipRound, Disappear,
         PollAgain, GreedyPoll, ResetTimer, StopLoop, DelegateResponse, StartPolling,
         MakeSinglePollRequest, DieOnRequestTimeout, MarkExitedAndStop, PollFrame, serverVars,
         ClientInv, ClientTypes, NetTypes
<1>2. requests' = requests \/ requests' = Append(requests, d)
  BY DEF ClientStep, ReceiveResponse, HandleResponse, TimerFires, SkipRound, Disappear,
         PollAgain, GreedyPoll, ResetTimer, StopLoop, DelegateResponse, StartPolling,
         MakeSinglePollRequest, DieOnRequestTimeout
<1>3. ToSet(requests) \subseteq ToSet(requests')
  BY <1>2, ToSetAppend DEF NetTypes
<1> QED
  BY <1>1, <1>3 DEF Remembered, Waits, Pending, WakesUp

\* A client's own steps.
LEMMA OwnStepsRemember ==
    ASSUME ClientInv, NetTypes, NEW c \in Clients,
           Remembered(c), ClientStep(c), fault = "none"
    PROVE  Remembered(c)'
<1> SUFFICES ASSUME Waits(c)'
             PROVE  /\ (Pending(c) \/ WakesUp(c))'
                    /\ poll'[c].started => WakesUp(c)'
                    /\ state'[c] = "initial" => loop'[c] = "none"
  BY DEF Remembered
<1>1. UNCHANGED <<serving, ctxDone>> /\ ~ctxDone /\ state'[c] \in {"initial", "queued"}
  BY DEF ClientStep, ReceiveResponse, HandleResponse, TimerFires, SkipRound, Disappear,
         PollAgain, GreedyPoll, ResetTimer, StopLoop, PollFrame, serverVars, Waits
<1>2. state'[c] = state[c] /\ wg' = wg /\ fault' = "none"
  <2>1. CASE StaysOn
    BY <1>1, <2>1 DEF StaysOn, Waits
  <2>2. CASE SignsOff(c)
    BY <1>1, <2>2 DEF SignsOff, ClientInv, ClientTypes
  <2> QED
    BY <2>1, <2>2, ClientSignsOff
<1>3. /\ Pending(c) \/ WakesUp(c)
      /\ poll[c].started => WakesUp(c)
      /\ state[c] = "initial" => loop[c] = "none"
  BY <1>1, <1>2 DEF Remembered, Waits
<1>4. poll[c].stopper # "closed"
  BY <1>1, <1>2 DEF ClientInv, StopperOpen
<1>5. CASE ReceiveResponse(c)
  <2>1. inHand'[c] = Head(responses[c]) /\ responses[c] # <<>> /\ UNCHANGED <<loop, poll>>
    BY <1>5 DEF ReceiveResponse, ClientInv, ClientTypes
  <2>2. Head(responses[c]) # NoResponse
    <3>1. responses[c] \in Seq(States)
      BY DEF NetTypes
    <3>2. Head(responses[c]) \in States
      BY <2>1, <3>1
    <3> QED
      BY <3>2
  <2> QED
    BY <1>2, <1>3, <2>1, <2>2 DEF Pending, WakesUp
<1>6. CASE HandleResponse(c)
  <2>1. inHand[c] = state[c]
    BY <1>2, <1>6 DEF HandleResponse
  <2>2. CASE state[c] = "initial"
    <3>1. DieOnRequestTimeout(c, poll[c]) /\ UNCHANGED loop
      BY <1>6, <2>1, <2>2 DEF HandleResponse, DelegateResponse, ReachedCheckout
    <3>2. requests' = Append(requests, c) /\ poll' = [poll EXCEPT ![c] = poll[c]]
      BY <1>1, <3>1 DEF DieOnRequestTimeout, MarkExitedAndStop, ClientInv, ClientTypes
    <3>3. c \in ToSet(requests') /\ ~poll'[c].started
      BY <2>2, <3>2, ToSetAppend DEF NetTypes, ClientInv, ClientTypes, StopperOpen
    <3> QED
      BY <1>3, <2>2, <3>1, <3>3 DEF Pending
  <2>3. CASE state[c] = "queued"
    <3>1. StartPolling(c)
      BY <1>6, <2>1, <2>3 DEF HandleResponse, DelegateResponse, ReachedCheckout
    <3>2. ~MarkExitedAndStop(c, [poll[c] EXCEPT !.started = TRUE])
      BY <1>2, <2>3 DEF MarkExitedAndStop, ClientInv, ClientTypes
    <3>3. CASE poll[c].started
      BY <1>3, <3>1, <3>3 DEF StartPolling, WakesUp
    <3>4. CASE ~poll[c].started
      <4>1. /\ loop' = [loop EXCEPT ![c] = "select"]
            /\ poll' = [poll EXCEPT ![c] = Polling]
               \/ poll' = [poll EXCEPT ![c] = [Polling EXCEPT !.started = FALSE]]
        BY <3>1, <3>2, <3>4 DEF StartPolling
      <4>2. loop'[c] = "select" /\ poll'[c] \in {Polling, [Polling EXCEPT !.started = FALSE]}
        BY <4>1 DEF ClientInv, ClientTypes
      <4>3. WakesUp(c)'
        BY <4>2 DEF WakesUp, Polling
      <4> QED
        BY <1>2, <2>3, <4>3
    <3> QED
      BY <1>2, <2>3, <3>3, <3>4
  <2> QED
    BY <1>1, <1>2, <2>2, <2>3
<1>7. CASE TimerFires(c) \/ SkipRound(c) \/ ResetTimer(c)
  <2>1. WakesUp(c)'
    BY <1>7 DEF TimerFires, SkipRound, ResetTimer, Rearmed, WakesUp, ClientInv, ClientTypes
  <2>2. state[c] # "initial"
    BY <1>3, <1>7 DEF TimerFires, SkipRound, ResetTimer
  <2> QED
    BY <1>2, <2>1, <2>2
<1>8. CASE Disappear(c)
  <2>1. state' = [state EXCEPT ![c] = "exited"]
    BY <1>8 DEF Disappear, MarkExitedAndStop
  <2> QED
    BY <1>1, <2>1 DEF ClientInv, ClientTypes
<1>9. CASE PollAgain(c) \/ GreedyPoll(c)
  <2>1. state[c] = "queued"
    <3>1. state[c] # "initial"
      BY <1>3, <1>9 DEF PollAgain, GreedyPoll
    <3> QED
      BY <1>1, <1>2, <3>1
  <2>2. loop'[c] \in {"greedy", "reset"}
    BY <1>9, <2>1 DEF PollAgain, GreedyPoll, ClientInv, ClientTypes
  <2> QED
    BY <1>2, <2>1, <2>2 DEF WakesUp
<1>10. CASE StopLoop(c)
  BY <1>1, <1>4, <1>10 DEF StopLoop
<1> QED
  BY <1>5, <1>6, <1>7, <1>8, <1>9, <1>10 DEF ClientStep

\* A server worker takes a request out to serve it, and leaves a response.
LEMMA ServersForgetNobody ==
    ASSUME ClientInv, NetTypes, NEW c \in Clients, NEW w \in Servers,
           Remembered(c), ServerStep(w)
    PROVE  Remembered(c)'
<1>1. UNCHANGED <<poll, loop, inHand, fault>> /\ (ctxDone => ctxDone')
  BY ServerSignsNobodyOff
<1>2. /\ state'[c] \in {"initial", "queued"} => state[c] \in {"initial", "queued"}
      /\ state'[c] = "initial" => state[c] = "initial"
  <2>1. \/ state' = state
        \/ /\ state[serving[w]] \in {"initial", "queued"}
           /\ \E s \in {"queued", "inCheckout"} : state' = [state EXCEPT ![serving[w]] = s]
    BY ServerSignsNobodyOff
  <2> HIDE DEF ServerStep
  <2> QED
    BY <2>1 DEF ClientInv, ClientTypes
<1>3. Pending(c) => Pending(c)'
  <2>1. CASE ServerReceive(w)
    <3>1. /\ requests' = Tail(requests) /\ requests # <<>>
          /\ serving'[w] = Head(requests) /\ UNCHANGED responses
          /\ serving[w] # c
      BY <2>1, SessionAssumption DEF ServerReceive, NetTypes
    <3>2. ToSet(requests) \subseteq ToSet(requests') \cup {serving'[w]}
      BY <3>1, ToSetTail DEF NetTypes
    <3>3. \A v \in Servers \ {w} : serving'[v] = serving[v]
      BY <2>1 DEF ServerReceive, NetTypes
    <3> QED
      BY <1>1, <3>1, <3>2, <3>3 DEF Pending
  <2>2. CASE Transition(w)
    BY <2>2 DEF Transition, Pending, netVars
  <2>3. CASE Respond(w)
    <3> DEFINE d == serving[w]
    <3>1. /\ responses' = [responses EXCEPT ![d] = Append(@, state[d])]
          /\ UNCHANGED requests
          /\ \A v \in Servers \ {w} : serving'[v] = serving[v]
      BY <2>3 DEF Respond, NetTypes
    <3>2. d = c => responses'[c] # <<>>
      <4> SUFFICES ASSUME d = c PROVE responses'[c] # <<>>
        OBVIOUS
      <4>1. responses'[c] = Append(responses[c], state[c])
        BY <3>1 DEF NetTypes
      <4>2. responses[c] \in Seq(States) /\ state[c] \in States
        BY DEF NetTypes, ClientInv, ClientTypes
      <4> QED
        BY <4>1, <4>2
    <3>3. d # c => responses'[c] = responses[c]
      BY <3>1 DEF NetTypes
    <3> QED
      BY <1>1, <3>1, <3>2, <3>3 DEF Pending
  <2> QED
    BY <2>1, <2>2, <2>3 DEF ServerStep
<1> QED
  BY <1>1, <1>2, <1>3 DEF Remembered, Waits, WakesUp

LEMMA RememberedStep ==
    ASSUME SessionInv, NEW c \in Clients, Remembered(c), [Next]_vars
    PROVE  Remembered(c)'
<1>1. ClientInv /\ NetTypes
  BY DEF SessionInv
<1>2. CASE fault = "none" /\ \E d \in Clients : ClientStep(d)
  BY <1>1, <1>2, OthersForgetNobody, OwnStepsRemember
<1>3. CASE \E w \in Servers : ServerStep(w)
  BY <1>1, <1>3, ServersForgetNobody
<1>4. CASE \/ Interrupt \/ ExitProcess \/ UNCHANGED vars
           \/ fault = "none" /\ \E who \in {"context", "clients"} : CloseCompleted(who)
  <2>1. /\ UNCHANGED <<clientVars, netVars, serving>> /\ (ctxDone => ctxDone')
        /\ fault' = "none" => fault = "none"
    BY <1>4 DEF Interrupt, ExitProcess, CloseCompleted, vars, serverVars
  <2> QED
    BY <2>1 DEF Remembered, Waits, Pending, WakesUp, clientVars, netVars
<1> QED
  BY <1>2, <1>3, <1>4 DEF Next

\* As long as the sale is open, a client that waits has a request or an answer
\* on the way, or a polling goroutine that wakes up: no reset of a timer, lost
\* poll or stopped loop leaves it alone.
THEOREM SessionForgetsNobody == Spec => []NobodyForgotten
<1> DEFINE AllRemembered == \A c \in Clients : Remembered(c)
<1>1. Init => AllRemembered
  <2>1. <<"initial">> # << >>
    OBVIOUS
  <2> QED
    BY <2>1 DEF Init, Remembered, Pending
<1>2. SessionInv /\ AllRemembered /\ [Next]_vars => AllRemembered'
  BY RememberedStep
<1>3. AllRemembered => NobodyForgotten
  BY DEF Remembered, Waits, Pending, WakesUp, NobodyForgotten
<1> HIDE DEF AllRemembered
<1> QED
  BY <1>1, <1>2, <1>3, SessionInvariant, PTL DEF Spec


-----------------------------------------------------------------------------
(***************************************************************************)
(* The fairness report, for all values of its constants that satisfy its   *)
(* assumption.  ReportInv says of every step of the loops what             *)
(* ReportMatchesOvertakings says of the report, with what the loop in      *)
(* between knows: that clients are collected once each, so that no pair is *)
(* compared twice, and that localMax and maxCy are the worst pair of the   *)
(* current row.                                                            *)
(***************************************************************************)
USE ReportAssumption

\* What a pair of the comparison is: the client that was cheated, and who overtook it.
ClientPairs == ClientIds \X ClientIds

ReportTypes ==
    /\ queueEntryTime \in [ClientIds -> 1 .. MaxTime]
    /\ queueExitTime \in [ClientIds -> 1 .. MaxTime]
    /\ label \in [ClientIds -> Labels]
    /\ stage \in {"collect", "compare", "done"}
    /\ next \in Nat \ {0} /\ inner \in Nat
    /\ collected \in Seq(ClientIds)
    /\ stage = "collect" => next <= N + 1 /\ inner = 0
    /\ stage # "collect" => next <= Len(collected) + 1 /\ inner <= Len(collected) + 1
    /\ next = Len(collected) + 1 => inner = 0 \/ stage = "collect"
    /\ stage = "done" => next = Len(collected) + 1

\* Clients are collected in the order of their ids, hence once each.
CollectedOnce ==
    /\ \A i, j \in 1 .. Len(collected) : i # j => collected[i] # collected[j]
    /\ stage = "collect" => \A i \in 1 .. Len(collected) : collected[i] < next

\* The counters of the report r are those of a set of pairs.
Cheated(pairs) == {q[1] : q \in pairs}
Unfair(pairs) == {q[2] : q \in pairs}
Labelled(clients, l) == {c \in clients : label[c] = l}
CountersOf(r, pairs) ==
    /\ r.numUnfairEvents = Cardinality(pairs)
    /\ r.summed = SumOver(Secs, pairs)
    /\ r.cheated = Cheated(pairs) /\ r.unfair = Unfair(pairs)
    /\ r.cheatedByLabel = [l \in Labels |-> Cardinality(Labelled(Cheated(pairs), l))]
    /\ r.unfairByLabel = [l \in Labels |-> Cardinality(Labelled(Unfair(pairs), l))]

\* cx and cy are the pair with the largest unfairness of a set of pairs.
LargestOf(secs, cx, cy, pairs) ==
    /\ secs \in Nat
    /\ \A q \in pairs : Secs[q] <= secs
    /\ IF pairs = {} THEN secs = 0
       ELSE <<cx, cy>> \in pairs /\ Secs[<<cx, cy>>] = secs

-----------------------------------------------------------------------------
\* Who overtakes has arrived later, so that an unfairness is positive.
LEMMA SecsType ==
    ASSUME ReportTypes
    PROVE  /\ Secs \in [ClientPairs -> Int]
           /\ \A cx, cy \in ClientIds : Secs[<<cx, cy>>] = Unfairness(cy, cx)
           /\ \A cx, cy \in ClientIds : Overtakes(cy, cx) => Unfairness(cy, cx) \in Nat \ {0}
<1>1. \A cx, cy \in ClientIds : queueEntryTime[cx] \in Int /\ queueEntryTime[cy] \in Int
  BY DEF ReportTypes
<1>2. Secs = [q \in ClientPairs |-> Unfairness(q[2], q[1])]
  BY DEF Secs, ClientPairs
<1>3. \A q \in ClientPairs : Unfairness(q[2], q[1]) \in Int
  BY <1>1 DEF ClientPairs, Unfairness
<1>4. \A cx, cy \in ClientIds : Overtakes(cy, cx) => Unfairness(cy, cx) \in Nat \ {0}
  BY <1>1 DEF Unfairness, Overtakes
<1> QED
  BY <1>2, <1>3, <1>4 DEF ClientPairs

LEMMA ClientsFinite ==
    /\ IsFiniteSet(ClientIds) /\ IsFiniteSet(ClientPairs)
           /\ \A S \in SUBSET ClientPairs : IsFiniteSet(S) 
<1>1. IsFiniteSet(ClientIds)
  BY FS_Interval DEF ClientIds
<1>2. IsFiniteSet(ClientPairs)
  BY <1>1, FS_Product DEF ClientPairs
<1> QED
  BY <1>1, <1>2, FS_Subset

\* One more client counts for its label, unless it has been seen.
LEMMA LabelCounted ==
    ASSUME ReportTypes, NEW seen \in SUBSET ClientIds, NEW c \in ClientIds
    PROVE  CountOnce([l \in Labels |-> Cardinality(Labelled(seen, l))], seen, c)
             = [l \in Labels |-> Cardinality(Labelled(seen \cup {c}, l))]
<1> DEFINE count == [l \in Labels |-> Cardinality(Labelled(seen, l))]
<1>1. CASE c \in seen
  <2>1. seen \cup {c} = seen
    BY <1>1
  <2> QED
    BY <1>1, <2>1 DEF CountOnce
<1>2. CASE c \notin seen
  <2>1. ASSUME NEW l \in Labels, l # label[c]
        PROVE  Labelled(seen \cup {c}, l) = Labelled(seen, l)
    BY <2>1 DEF Labelled
  <2>2. /\ Labelled(seen \cup {c}, label[c]) = Labelled(seen, label[c]) \cup {c}
        /\ c \notin Labelled(seen, label[c])
    BY <1>2 DEF Labelled
  <2>3. IsFiniteSet(Labelled(seen, label[c]))
    BY ClientsFinite, FS_Subset DEF Labelled
  <2>4. Cardinality(Labelled(seen \cup {c}, label[c])) = Cardinality(Labelled(seen, label[c])) + 1
    BY <2>2, <2>3, FS_AddElement
  <2>5. label[c] \in Labels
    BY DEF ReportTypes
  <2>6. CountOnce(count, seen, c) = [count EXCEPT ![label[c]] = count[label[c]] + 1]
    BY <1>2 DEF CountOnce
  <2> QED
    BY <2>1, <2>4, <2>5, <2>6
<1> QED
  BY <1>1, <1>2


ReportRecords ==
    [numUnfairEvents: Nat, cheated: SUBSET ClientIds, unfair: SUBSET ClientIds,
     cheatedByLabel: [Labels -> Nat], unfairByLabel: [Labels -> Nat], summed: Int,
     maxSecs: Nat, maxCheated: ClientIds \cup {NilClient}, maxUnfair: ClientIds \cup {NilClient},
     localMax: Nat, maxCy: ClientIds \cup {NilClient}]

\* The body of the inner loop counts an unfair pair that is new.
LEMMA PairCounted ==
    ASSUME ReportTypes, NEW r \in ReportRecords,
           NEW pairs \in SUBSET ClientPairs, CountersOf(r, pairs),
           NEW cx \in ClientIds, NEW cy \in ClientIds, Overtakes(cy, cx), <<cx, cy>> \notin pairs
    PROVE  CountersOf(ComparePair(r, cx, cy), pairs \cup {<<cx, cy>>})
<1> DEFINE q == <<cx, cy>>
           more == pairs \cup {q}
           after == ComparePair(r, cx, cy)
<1>1. q \in ClientPairs /\ IsFiniteSet(pairs) /\ IsFiniteSet(more) /\ more \in SUBSET ClientPairs
  BY ClientsFinite DEF ClientPairs
<1>2. Cardinality(more) = Cardinality(pairs) + 1
  BY <1>1, FS_AddElement
<1>3. SumOver(Secs, more) = Unfairness(cy, cx) + SumOver(Secs, pairs)
  <2>1. \A p \in more : Secs[p] \in Int
    BY <1>1, SecsType
  <2>2. SumOver(Secs, more) = Secs[q] + SumOver(Secs, more \ {q})
    BY <1>1, <2>1, SumOverStep
  <2>3. more \ {q} = pairs
    OBVIOUS
  <2> QED
    BY <2>2, <2>3, SecsType
<1>4. Cheated(more) = Cheated(pairs) \cup {cx} /\ Unfair(more) = Unfair(pairs) \cup {cy}
  BY DEF Cheated, Unfair
<1>5. Cheated(pairs) \in SUBSET ClientIds /\ Unfair(pairs) \in SUBSET ClientIds
  BY DEF Cheated, Unfair, ClientPairs
<1>6. /\ after.numUnfairEvents = r.numUnfairEvents + 1
      /\ after.cheatedByLabel = CountOnce(r.cheatedByLabel, r.cheated, cx)
      /\ after.unfairByLabel = CountOnce(r.unfairByLabel, r.unfair, cy)
      /\ after.cheated = r.cheated \cup {cx}
      /\ after.unfair = r.unfair \cup {cy}
      /\ after.summed = r.summed + Unfairness(cy, cx)
  BY DEF ComparePair, ReportRecords
<1>7. /\ after.cheatedByLabel = [l \in Labels |-> Cardinality(Labelled(Cheated(more), l))]
      /\ after.unfairByLabel = [l \in Labels |-> Cardinality(Labelled(Unfair(more), l))]
  <2> HIDE DEF after, more
  <2>1. /\ r.cheated = Cheated(pairs) /\ r.unfair = Unfair(pairs)
        /\ r.cheatedByLabel = [l \in Labels |-> Cardinality(Labelled(Cheated(pairs), l))]
        /\ r.unfairByLabel = [l \in Labels |-> Cardinality(Labelled(Unfair(pairs), l))]
    BY DEF CountersOf
  <2>2. CountOnce(r.cheatedByLabel, r.cheated, cx)
          = [l \in Labels |-> Cardinality(Labelled(Cheated(pairs) \cup {cx}, l))]
    BY <1>5, <2>1, LabelCounted
  <2>3. CountOnce(r.unfairByLabel, r.unfair, cy)
          = [l \in Labels |-> Cardinality(Labelled(Unfair(pairs) \cup {cy}, l))]
    BY <1>5, <2>1, LabelCounted
  <2> QED
    BY <1>4, <1>6, <2>2, <2>3
<1>8. SumOver(Secs, pairs) \in Int /\ Unfairness(cy, cx) \in Int
  BY <1>1, SecsType, SumOverType
<1>9. after.summed = SumOver(Secs, more)
  BY <1>3, <1>6, <1>8 DEF CountersOf
<1>10. /\ after.numUnfairEvents = Cardinality(more)
       /\ after.cheated = Cheated(more) /\ after.unfair = Unfair(more)
  BY <1>2, <1>4, <1>6 DEF CountersOf
<1> HIDE DEF after, more
<1>11. CountersOf(after, more)
  BY <1>7, <1>9, <1>10 DEF CountersOf
<1> QED
  BY <1>11 DEF after, more

\* The body of the inner loop keeps the worst pair of the row.
LEMMA PairWeighed ==
    ASSUME ReportTypes, NEW r \in ReportRecords,
           NEW row \in SUBSET ClientPairs, NEW cx \in ClientIds, NEW cy \in ClientIds,
           LargestOf(r.localMax, cx, r.maxCy, row), Overtakes(cy, cx)
    PROVE  LET after == ComparePair(r, cx, cy)
           IN  LargestOf(after.localMax, cx, after.maxCy, row \cup {<<cx, cy>>})
<1> DEFINE after == ComparePair(r, cx, cy)
           secs == Unfairness(cy, cx)
<1>1. /\ after.maxCy = IF secs > r.localMax THEN cy ELSE r.maxCy
      /\ after.localMax = IF secs > r.localMax THEN secs ELSE r.localMax
  BY DEF ComparePair, ReportRecords, IsWorse
<1>2. secs \in Nat \ {0} /\ Secs[<<cx, cy>>] = secs
  BY SecsType
<1>3. \A q \in row : Secs[q] \in Int
  BY SecsType
<1> HIDE DEF after, secs
<1>4. \A q \in row \cup {<<cx, cy>>} : Secs[q] <= after.localMax
  BY <1>1, <1>2, <1>3 DEF LargestOf
<1>5. /\ after.localMax \in Nat
      /\ <<cx, after.maxCy>> \in row \cup {<<cx, cy>>}
      /\ Secs[<<cx, after.maxCy>>] = after.localMax
  <2>1. CASE secs > r.localMax
    BY <1>1, <1>2, <2>1
  <2>2. CASE ~(secs > r.localMax)
    <3>1. r.localMax \in Nat /\ r.localMax # 0
      BY <1>2, <2>2 DEF LargestOf
    <3> QED
      BY <1>1, <2>2, <3>1 DEF LargestOf
  <2> QED
    BY <2>1, <2>2
<1> QED
  BY <1>4, <1>5 DEF LargestOf, after

\* The body of the inner loop keeps the types of the report.
LEMMA ComparePairType ==
    ASSUME ReportTypes, NEW r \in ReportRecords,
           NEW cx \in ClientIds, NEW cy \in ClientIds
    PROVE  ComparePair(r, cx, cy) \in ReportRecords
<1> DEFINE secs == Unfairness(cy, cx)
<1>1. CASE ~Overtakes(cy, cx)
  BY <1>1 DEF ComparePair
<1>2. CASE Overtakes(cy, cx)
  <2>1. secs \in Nat
    BY <1>2, SecsType
  <2>2. ASSUME NEW f \in [Labels -> Nat], NEW seen, NEW c \in ClientIds
        PROVE  CountOnce(f, seen, c) \in [Labels -> Nat]
    BY DEF CountOnce, ReportTypes
  <2>3. /\ CountOnce(r.cheatedByLabel, r.cheated, cx) \in [Labels -> Nat]
        /\ CountOnce(r.unfairByLabel, r.unfair, cy) \in [Labels -> Nat]
    BY <2>2 DEF ReportRecords
  <2> DEFINE maxCy == IF IsWorse(secs, r.localMax) THEN cy ELSE r.maxCy
             localMax == IF IsWorse(secs, r.localMax) THEN secs ELSE r.localMax
  <2>4. ComparePair(r, cx, cy) =
          [r EXCEPT !.numUnfairEvents = @ + 1,
                    !.cheatedByLabel = CountOnce(@, r.cheated, cx),
                    !.unfairByLabel = CountOnce(@, r.unfair, cy),
                    !.cheated = @ \cup {cx}, !.unfair = @ \cup {cy},
                    !.summed = @ + secs, !.maxCy = maxCy, !.localMax = localMax]
    BY <1>2 DEF ComparePair
  <2>5. maxCy \in ClientIds \cup {NilClient} /\ localMax \in Nat
    BY <2>1 DEF ReportRecords
  <2> HIDE DEF secs, maxCy, localMax
  <2>6. r.summed + secs \in Int /\ r.numUnfairEvents + 1 \in Nat
    BY <2>1 DEF ReportRecords
  <2>7. /\ r.cheatedByLabel \in [Labels -> Nat] /\ r.unfairByLabel \in [Labels -> Nat]
        /\ r.cheated \cup {cx} \in SUBSET ClientIds /\ r.unfair \cup {cy} \in SUBSET ClientIds
        /\ r.maxSecs \in Nat /\ r.maxCheated \in ClientIds \cup {NilClient}
        /\ r.maxUnfair \in ClientIds \cup {NilClient}
    BY DEF ReportRecords
  <2>8. ComparePair(r, cx, cy) =
          [numUnfairEvents |-> r.numUnfairEvents + 1,
           cheated |-> r.cheated \cup {cx}, unfair |-> r.unfair \cup {cy},
           cheatedByLabel |-> CountOnce(r.cheatedByLabel, r.cheated, cx),
           unfairByLabel |-> CountOnce(r.unfairByLabel, r.unfair, cy),
           summed |-> r.summed + secs, maxSecs |-> r.maxSecs, maxCheated |-> r.maxCheated,
           maxUnfair |-> r.maxUnfair, localMax |-> localMax, maxCy |-> maxCy]
    BY <2>4 DEF ReportRecords
  <2> QED
    BY <2>3, <2>5, <2>6, <2>7, <2>8 DEF ReportRecords
<1> QED
  BY <1>1, <1>2

-----------------------------------------------------------------------------
\* The unfair pairs of the inner loop that runs.
CurrentRow == UnfairAmong({p \in PositionsUpTo(next, inner) : p[1] = next})

MaximaFound ==
    /\ LargestOf(report.maxSecs, report.maxCheated, report.maxUnfair, RowsEnded)
    /\ RowsEnded = {} => report.maxCheated = NilClient
    /\ inner > 0 => LargestOf(report.localMax, collected[next], report.maxCy, CurrentRow)

PanicsForNil ==
    stage = "done" => (reportFault = "nilClient" <=> report.maxCheated = NilClient)

ReportInv ==
    /\ ReportTypes
    /\ report \in ReportRecords
    /\ CollectedOnce
    /\ CountersOf(report, UnfairPairs)
    /\ MaximaFound
    /\ PanicsForNil

\* The positions a step of one of the loops adds.
LEMMA PositionsStep ==
    ASSUME ReportTypes
    PROVE  /\ PositionsUpTo(1, 0) = {}
           /\ PositionsUpTo(next, 1) = PositionsUpTo(next, 0)
           /\ PositionsUpTo(next, Len(collected) + 1) = PositionsUpTo(next + 1, 0)
           /\ next <= Len(collected) /\ inner \in 1 .. Len(collected) =>
                PositionsUpTo(next, inner + 1) = PositionsUpTo(next, inner) \cup {<<next, inner>>}
<1>1. Len(collected) \in Nat /\ next \in Nat \ {0} /\ inner \in Nat
  BY DEF ReportTypes
<1> QED
  BY <1>1 DEF PositionsUpTo

\* Pairs at compared positions are pairs of clients.
LEMMA PairsType ==
    ASSUME ReportTypes, NEW row \in Nat, NEW column \in Nat,
           NEW positions, positions \subseteq PositionsUpTo(row, column)
    PROVE  UnfairAmong(positions) \in SUBSET ClientPairs
<1>1. \A p \in positions : collected[p[1]] \in ClientIds /\ collected[p[2]] \in ClientIds
  BY DEF ReportTypes, PositionsUpTo
<1> QED
  BY <1>1 DEF UnfairAmong, PairAt, ClientPairs

\* One position more is its pair more, if that is unfair.
LEMMA OnePositionMore ==
    ASSUME NEW positions, NEW i, NEW j
    PROVE  UnfairAmong(positions \cup {<<i, j>>}) =
             IF Overtakes(collected[j], collected[i])
             THEN UnfairAmong(positions) \cup {<<collected[i], collected[j]>>}
             ELSE UnfairAmong(positions)
<1> DEFINE x == <<collected[i], collected[j]>>
<1>1. PairAt(<<i, j>>) = x
  BY DEF PairAt
<1>2. {PairAt(p) : p \in positions \cup {<<i, j>>}} = {PairAt(p) : p \in positions} \cup {x}
  BY <1>1
<1>3. Overtakes(x[2], x[1]) <=> Overtakes(collected[j], collected[i])
  OBVIOUS
<1> HIDE DEF x
<1>4. UnfairAmong(positions \cup {<<i, j>>}) =
        {q \in {PairAt(p) : p \in positions} \cup {x} : Overtakes(q[2], q[1])}
  BY <1>2 DEF UnfairAmong
<1>5. CASE Overtakes(x[2], x[1])
  BY <1>3, <1>4, <1>5 DEF UnfairAmong, x
<1>6. CASE ~Overtakes(x[2], x[1])
  BY <1>3, <1>4, <1>6 DEF UnfairAmong
<1> QED
  BY <1>5, <1>6

\* A position that was not compared holds a pair that was not.
LEMMA PairIsNew ==
    ASSUME ReportTypes, CollectedOnce, next <= Len(collected), inner \in 1 .. Len(collected)
    PROVE  <<collected[next], collected[inner]>> \notin UnfairAmong(PositionsUpTo(next, inner))
<1> SUFFICES ASSUME NEW p \in PositionsUpTo(next, inner),
                    <<collected[next], collected[inner]>> = PairAt(p)
             PROVE  FALSE
  BY DEF UnfairAmong
<1>1. /\ p[1] \in 1 .. Len(collected) /\ p[2] \in 1 .. Len(collected)
      /\ p[1] < next \/ (p[1] = next /\ p[2] < inner)
  BY DEF PositionsUpTo
<1>2. collected[p[1]] = collected[next] /\ collected[p[2]] = collected[inner]
  BY DEF PairAt
<1>3. next \in 1 .. Len(collected) /\ Len(collected) \in Nat
  BY DEF ReportTypes
<1>4. p[1] = next /\ p[2] = inner
  BY <1>1, <1>2, <1>3 DEF CollectedOnce
<1> QED
  BY <1>1, <1>3, <1>4

\* The pairs compared so far are those of the rows that have ended and of the
\* current one.
LEMMA RowsMakePairs ==
    ASSUME ReportTypes
    PROVE  /\ stage # "collect" => UnfairPairs = RowsEnded \cup CurrentRow
           /\ inner = 0 => UnfairPairs = RowsEnded
<1>1. next \in Nat /\ inner \in Nat
  BY DEF ReportTypes
<1>2. PositionsUpTo(next, inner) =
        PositionsUpTo(next, 0) \cup {p \in PositionsUpTo(next, inner) : p[1] = next}
  BY <1>1 DEF PositionsUpTo
<1>3. ASSUME NEW A, NEW B
      PROVE  UnfairAmong(A \cup B) = UnfairAmong(A) \cup UnfairAmong(B)
  BY DEF UnfairAmong
<1>4. UnfairAmong(PositionsUpTo(next, inner)) = UnfairAmong(PositionsUpTo(next, 0)) \cup CurrentRow
  BY <1>2, <1>3 DEF CurrentRow
<1>5. stage # "collect" => UnfairPairs = RowsEnded \cup CurrentRow
  BY <1>4 DEF UnfairPairs, RowsEnded
<1>6. inner = 0 => UnfairPairs = RowsEnded
  BY DEF UnfairPairs, RowsEnded
<1> QED
  BY <1>5, <1>6

LEMMA NoPairs == UnfairAmong({}) = {}
BY DEF UnfairAmong

\* Steps that touch neither inputs nor loops.
LEMMA ReportFrame ==
    ASSUME ReportInv,
           UNCHANGED <<inputVars, stage, next, inner, collected, report, reportFault>>
    PROVE  ReportInv'
<1> USE DEF inputVars
<1>1. ReportTypes' /\ (report \in ReportRecords)' /\ CollectedOnce' /\ PanicsForNil'
  BY DEF ReportInv, ReportTypes, ReportRecords, CollectedOnce, PanicsForNil, ClientIds
<1>2. UnfairPairs' = UnfairPairs /\ RowsEnded' = RowsEnded /\ CurrentRow' = CurrentRow
      /\ Secs' = Secs
  BY DEF UnfairPairs, RowsEnded, CurrentRow, UnfairAmong, PairAt, PositionsUpTo,
         Overtakes, Secs, Unfairness
<1>3. CountersOf(report, UnfairPairs)'
  BY <1>2 DEF ReportInv, CountersOf, Labelled, Cheated, Unfair
<1>4. MaximaFound'
  BY <1>2 DEF ReportInv, MaximaFound, LargestOf
<1> QED
  BY <1>1, <1>3, <1>4 DEF ReportInv

\* Before the first loop nobody has been compared.
LEMMA ReportInitially ==
    ASSUME ReportInit
    PROVE  ReportInv
<1> USE DEF ReportInit, EmptyReport
<1>1. ReportTypes
  BY DEF ReportTypes
<1>2. report \in ReportRecords
  BY DEF ReportRecords, NilClient
<1>3. CollectedOnce /\ PanicsForNil
  BY DEF CollectedOnce, PanicsForNil
<1>4. UnfairPairs = {} /\ RowsEnded = {}
  BY NoPairs DEF UnfairPairs, RowsEnded
<1>5. Cheated({}) = {} /\ Unfair({}) = {} /\ \A l : Labelled({}, l) = {}
  BY DEF Cheated, Unfair, Labelled
<1>6. CountersOf(report, {})
  BY <1>5, FS_EmptySet, SumOverEmpty DEF CountersOf
<1>7. MaximaFound
  BY <1>4 DEF MaximaFound, LargestOf
<1> QED
  BY <1>1, <1>2, <1>3, <1>4, <1>6, <1>7 DEF ReportInv

\* The first loop compares nobody.
LEMMA CollectStep ==
    ASSUME ReportInv, Collect \/ StartComparing
    PROVE  ReportInv'
<1> USE DEF ReportInv, inputVars, Collect, StartComparing
<1>1. stage = "collect" /\ next \in Nat \ {0} /\ Len(collected) \in Nat /\ next <= N + 1 /\ inner = 0
  BY DEF ReportTypes
<1>2. ReportTypes'
  <2>1. CASE Collect
    <3>1. next \in ClientIds
      BY <1>1, <2>1 DEF ClientIds
    <3>2. collected \in Seq(ClientIds) /\ ClientIds' = ClientIds /\ N \in Nat
      BY DEF ReportTypes, ClientIds
    <3>3. collected' \in Seq(ClientIds)
      BY <2>1, <3>1, <3>2
    <3>4. next' \in Nat \ {0} /\ next' <= N + 1
      BY <1>1, <2>1, <3>2
    <3> QED
      BY <1>1, <2>1, <3>2, <3>3, <3>4 DEF ReportTypes
  <2>2. CASE StartComparing
    BY <1>1, <2>2 DEF ReportTypes
  <2> QED
    BY <2>1, <2>2
<1>3. CollectedOnce'
  <2>1. collected \in Seq(ClientIds)
    BY DEF ReportTypes
  <2>2. \A i \in 1 .. Len(collected) : collected[i] \in Int
    BY <2>1 DEF ClientIds
  <2>3. CASE Collect /\ next \in hitCheckoutStep
    BY <1>1, <2>1, <2>2, <2>3 DEF CollectedOnce
  <2>4. CASE Collect /\ next \notin hitCheckoutStep
    BY <1>1, <2>1, <2>2, <2>4 DEF CollectedOnce
  <2>5. CASE StartComparing
    BY <2>5 DEF CollectedOnce
  <2> QED
    BY <2>3, <2>4, <2>5
<1>4. UnfairPairs = {} /\ RowsEnded = {}
  BY <1>1, NoPairs DEF UnfairPairs, RowsEnded
<1>5. UnfairPairs' = {} /\ RowsEnded' = {}
  <2>1. CASE Collect
    BY <1>1, <2>1 DEF UnfairPairs, RowsEnded, UnfairAmong
  <2>2. CASE StartComparing
    BY <1>1, <2>2, PositionsStep DEF UnfairPairs, RowsEnded, UnfairAmong, PositionsUpTo
  <2> QED
    BY <2>1, <2>2
<1>6. CountersOf(report, UnfairPairs)'
  <2>1. SumOver(Secs, {}) = SumOver(Secs', {})
    BY SumOverEmpty
  <2> QED
    BY <1>4, <1>5, <2>1 DEF CountersOf, Labelled, Cheated, Unfair
<1>7. MaximaFound' /\ PanicsForNil'
  BY <1>1, <1>4, <1>5 DEF MaximaFound, LargestOf, PanicsForNil
<1>8. (report \in ReportRecords)'
  BY DEF ReportRecords, ClientIds
<1> QED
  BY <1>2, <1>3, <1>6, <1>7, <1>8

\* What every step of the comparison leaves alone.
LEMMA CompareKeeps ==
    ASSUME ReportInv, Comparing, CompareFrame,
           next' \in Nat \ {0}, inner' \in Nat, next' <= Len(collected) + 1,
           inner' <= Len(collected) + 1, next' = Len(collected) + 1 => inner' = 0
    PROVE  /\ ReportTypes' /\ CollectedOnce' /\ PanicsForNil'
           /\ ReportRecords' = ReportRecords
           /\ Secs' = Secs
           /\ UnfairPairs' = UnfairAmong(PositionsUpTo(next', inner'))
           /\ RowsEnded' = UnfairAmong(PositionsUpTo(next', 0))
           /\ CurrentRow' = UnfairAmong({p \in PositionsUpTo(next', inner') : p[1] = next'})
<1> USE DEF Comparing, CompareFrame, inputVars, ReportInv
<1>1. ReportTypes'
  BY DEF ReportTypes, ClientIds
<1>2. CollectedOnce' /\ PanicsForNil'
  BY DEF CollectedOnce, PanicsForNil
<1>3. ReportRecords' = ReportRecords
  BY DEF ReportRecords, ClientIds
<1>4. Secs' = Secs
  BY DEF Secs, Unfairness
<1>5. /\ UnfairPairs' = UnfairAmong(PositionsUpTo(next', inner'))
      /\ RowsEnded' = UnfairAmong(PositionsUpTo(next', 0))
      /\ CurrentRow' = UnfairAmong({p \in PositionsUpTo(next', inner') : p[1] = next'})
  BY DEF UnfairPairs, RowsEnded, CurrentRow, UnfairAmong, PairAt, PositionsUpTo,
         Overtakes
<1> QED
  BY <1>1, <1>2, <1>3, <1>4, <1>5

\* A row starts without a pair.
LEMMA StartInnerLoopStep ==
    ASSUME ReportInv, StartInnerLoop
    PROVE  ReportInv'
<1> USE DEF StartInnerLoop
<1>1. /\ next \in 1 .. Len(collected) /\ Len(collected) \in Nat /\ collected[next] \in ClientIds
      /\ stage # "collect"
  BY DEF ReportInv, ReportTypes, Comparing
<1>2. /\ ReportTypes' /\ CollectedOnce' /\ PanicsForNil' /\ ReportRecords' = ReportRecords
      /\ Secs' = Secs
      /\ UnfairPairs' = UnfairAmong(PositionsUpTo(next, 1))
      /\ RowsEnded' = UnfairAmong(PositionsUpTo(next, 0))
      /\ CurrentRow' = UnfairAmong({p \in PositionsUpTo(next, 1) : p[1] = next})
  BY <1>1, CompareKeeps
<1>3. UnfairPairs' = UnfairPairs /\ RowsEnded' = RowsEnded
  BY <1>1, <1>2, PositionsStep DEF UnfairPairs, RowsEnded, ReportInv
<1>4. CurrentRow' = {}
  <2>1. {p \in PositionsUpTo(next, 1) : p[1] = next} = {}
    BY <1>1 DEF PositionsUpTo
  <2> QED
    BY <1>2, <2>1, NoPairs
<1>5. /\ (report \in ReportRecords)'
      /\ report'.localMax = 0
      /\ \A field \in {"numUnfairEvents", "summed", "cheated", "unfair", "cheatedByLabel",
                       "unfairByLabel", "maxSecs", "maxCheated", "maxUnfair"} :
            report'[field] = report[field]
  BY <1>1, <1>2 DEF ReportInv, ReportRecords
<1>6. CountersOf(report, UnfairPairs)'
  BY <1>2, <1>3, <1>5 DEF ReportInv, CountersOf, Labelled, Cheated, Unfair, CompareFrame,
                          inputVars
<1>7. MaximaFound'
  BY <1>2, <1>3, <1>4, <1>5 DEF ReportInv, MaximaFound, LargestOf
<1> QED
  BY <1>2, <1>5, <1>6, <1>7 DEF ReportInv

\* One pair more, if it is unfair, in the counters and in the row.
LEMMA CompareStep ==
    ASSUME ReportInv, Compare
    PROVE  ReportInv'
<1> USE DEF Compare
<1> DEFINE cx == collected[next]
           cy == collected[inner]
           unfair == Overtakes(cy, cx)
<1>1. /\ next \in 1 .. Len(collected) /\ inner \in 1 .. Len(collected) /\ Len(collected) \in Nat
      /\ cx \in ClientIds /\ cy \in ClientIds /\ stage # "collect"
  BY DEF ReportInv, ReportTypes, Comparing
<1>2. /\ ReportTypes' /\ CollectedOnce' /\ PanicsForNil' /\ ReportRecords' = ReportRecords
      /\ Secs' = Secs
      /\ UnfairPairs' = UnfairAmong(PositionsUpTo(next, inner + 1))
      /\ RowsEnded' = UnfairAmong(PositionsUpTo(next, 0))
      /\ CurrentRow' = UnfairAmong({p \in PositionsUpTo(next, inner + 1) : p[1] = next})
  BY <1>1, CompareKeeps
<1>3. RowsEnded' = RowsEnded
  BY <1>1, <1>2 DEF RowsEnded
<1>4. UnfairPairs' = IF unfair THEN UnfairPairs \cup {<<cx, cy>>} ELSE UnfairPairs
  <2>1. PositionsUpTo(next, inner + 1) = PositionsUpTo(next, inner) \cup {<<next, inner>>}
    BY <1>1, PositionsStep DEF ReportInv
  <2>2. UnfairPairs = UnfairAmong(PositionsUpTo(next, inner))
    BY <1>1 DEF UnfairPairs
  <2> QED
    BY <1>2, <2>1, <2>2, OnePositionMore
<1>5. CurrentRow' = IF unfair THEN CurrentRow \cup {<<cx, cy>>} ELSE CurrentRow
  <2>1. {p \in PositionsUpTo(next, inner + 1) : p[1] = next} =
          {p \in PositionsUpTo(next, inner) : p[1] = next} \cup {<<next, inner>>}
    BY <1>1, PositionsStep DEF ReportInv
  <2> QED
    BY <1>2, <2>1, OnePositionMore DEF CurrentRow
<1>6. report \in ReportRecords /\ report' = ComparePair(report, cx, cy)
  BY DEF ReportInv
<1>7. (report \in ReportRecords)'
  <2>1. ComparePair(report, cx, cy) \in ReportRecords
    <3>1. report.summed \in Int
      BY <1>6 DEF ReportRecords
    <3> QED
      BY <1>1, <1>6, <3>1, ComparePairType DEF ReportInv
  <2> QED
    BY <1>2, <1>6, <2>1
<1>8. /\ report'.maxSecs = report.maxSecs /\ report'.maxCheated = report.maxCheated
      /\ report'.maxUnfair = report.maxUnfair
  BY <1>6 DEF ComparePair, ReportRecords
<1>9. CountersOf(report', UnfairPairs')
  <2>1. CASE unfair
    <3>1. UnfairPairs \in SUBSET ClientPairs /\ <<cx, cy>> \notin UnfairPairs
      BY <1>1, PairsType, PairIsNew DEF ReportInv, UnfairPairs
    <3> QED
      BY <1>1, <1>4, <1>6, <2>1, <3>1, PairCounted DEF ReportInv
  <2>2. CASE ~unfair
    BY <1>4, <1>6, <2>2 DEF ReportInv, ComparePair
  <2> QED
    BY <2>1, <2>2
<1>10. CountersOf(report, UnfairPairs)'
  BY <1>2, <1>9 DEF CountersOf, Labelled, Cheated, Unfair, CompareFrame, inputVars
<1>11. LargestOf(report'.localMax, cx, report'.maxCy, CurrentRow')
  <2>1. LargestOf(report.localMax, cx, report.maxCy, CurrentRow)
    BY <1>1 DEF ReportInv, MaximaFound
  <2>2. CASE unfair
    <3>1. CurrentRow \in SUBSET ClientPairs
      BY <1>1, PairsType DEF ReportInv, CurrentRow
    <3> QED
      BY <1>1, <1>5, <1>6, <2>1, <2>2, <3>1, PairWeighed DEF ReportInv
  <2>3. CASE ~unfair
    BY <1>5, <1>6, <2>1, <2>3 DEF ComparePair
  <2> QED
    BY <2>2, <2>3
<1>12. MaximaFound'
  BY <1>2, <1>3, <1>8, <1>11 DEF ReportInv, MaximaFound, LargestOf, CompareFrame
<1> QED
  BY <1>2, <1>7, <1>10, <1>12 DEF ReportInv

\* The worst pair of the row is the worst of all, or is not worse than that.
LEMMA EndInnerLoopStep ==
    ASSUME ReportInv, EndInnerLoop
    PROVE  ReportInv'
<1> USE DEF EndInnerLoop
<1> DEFINE cx == collected[next]
<1>1. /\ next \in 1 .. Len(collected) /\ Len(collected) \in Nat /\ cx \in ClientIds
      /\ stage # "collect" /\ inner > 0
  BY DEF ReportInv, ReportTypes, Comparing
<1>2. /\ ReportTypes' /\ CollectedOnce' /\ PanicsForNil' /\ ReportRecords' = ReportRecords
      /\ Secs' = Secs
      /\ UnfairPairs' = UnfairAmong(PositionsUpTo(next + 1, 0))
      /\ RowsEnded' = UnfairAmong(PositionsUpTo(next + 1, 0))
  BY <1>1, CompareKeeps
<1>3. UnfairPairs' = UnfairPairs /\ RowsEnded' = RowsEnded \cup CurrentRow
  BY <1>1, <1>2, PositionsStep, RowsMakePairs DEF ReportInv, UnfairPairs
<1>4. /\ report \in ReportRecords /\ report' = UpdateGlobalMax(report, cx)
      /\ LargestOf(report.localMax, cx, report.maxCy, CurrentRow)
      /\ LargestOf(report.maxSecs, report.maxCheated, report.maxUnfair, RowsEnded)
      /\ RowsEnded = {} => report.maxCheated = NilClient
  BY <1>1 DEF ReportInv, MaximaFound
<1>5. /\ (report \in ReportRecords)'
      /\ \A field \in {"numUnfairEvents", "summed", "cheated", "unfair", "cheatedByLabel",
                       "unfairByLabel"} :
            report'[field] = report[field]
  BY <1>1, <1>2, <1>4 DEF UpdateGlobalMax, ReportRecords
<1>6. CountersOf(report, UnfairPairs)'
  BY <1>2, <1>3, <1>5 DEF ReportInv, CountersOf, Labelled, Cheated, Unfair, CompareFrame,
                          inputVars
<1>7. /\ LargestOf(report'.maxSecs, report'.maxCheated, report'.maxUnfair, RowsEnded')
      /\ RowsEnded' = {} => report'.maxCheated = NilClient
  <2>1. RowsEnded \in SUBSET ClientPairs /\ CurrentRow \in SUBSET ClientPairs
    BY <1>1, PairsType DEF ReportInv, RowsEnded, CurrentRow
  <2>2. /\ \A q \in RowsEnded : Secs[q] \in Int
        /\ \A q \in CurrentRow : Secs[q] \in Nat \ {0}
    BY <2>1, SecsType DEF ReportInv, CurrentRow, UnfairAmong, ClientPairs
  <2>3. CASE IsNewMaximum(report)
    <3>1. /\ report'.maxSecs = report.localMax /\ report'.maxCheated = cx
          /\ report'.maxUnfair = report.maxCy /\ report.localMax > report.maxSecs
      BY <1>4, <2>3 DEF UpdateGlobalMax, IsNewMaximum, ReportRecords
    <3>2. CurrentRow # {}
      BY <1>4, <3>1 DEF LargestOf
    <3> QED
      BY <1>3, <1>4, <2>2, <3>1, <3>2 DEF LargestOf
  <2>4. CASE ~IsNewMaximum(report)
    <3>1. report' = report /\ report.localMax <= report.maxSecs
      BY <1>4, <2>4 DEF UpdateGlobalMax, IsNewMaximum, ReportRecords
    <3>2. RowsEnded = {} => CurrentRow = {}
      BY <1>4, <2>2, <3>1 DEF LargestOf
    <3> QED
      BY <1>3, <1>4, <2>2, <3>1, <3>2 DEF LargestOf
  <2> QED
    BY <2>3, <2>4
<1>8. MaximaFound'
  BY <1>2, <1>7 DEF MaximaFound, LargestOf
<1> QED
  BY <1>2, <1>5, <1>6, <1>8 DEF ReportInv

\* Printing asks the clients of the maximum for their labels.
LEMMA PrintReportStep ==
    ASSUME ReportInv, PrintReport
    PROVE  ReportInv'
<1> USE DEF PrintReport, inputVars
<1>1. ReportTypes' /\ (report \in ReportRecords)' /\ CollectedOnce' /\ PanicsForNil'
  BY DEF ReportInv, ReportTypes, ReportRecords, CollectedOnce, PanicsForNil, ClientIds
<1>2. UnfairPairs' = UnfairPairs /\ RowsEnded' = RowsEnded /\ CurrentRow' = CurrentRow
      /\ Secs' = Secs
  BY DEF UnfairPairs, RowsEnded, CurrentRow, UnfairAmong, PairAt, PositionsUpTo,
         Overtakes, Secs, Unfairness
<1>3. CountersOf(report, UnfairPairs)'
  BY <1>2 DEF ReportInv, CountersOf, Labelled, Cheated, Unfair
<1>4. MaximaFound'
  BY <1>2 DEF ReportInv, MaximaFound, LargestOf
<1> QED
  BY <1>1, <1>3, <1>4 DEF ReportInv

\* After every step of aggregateFairnessResults the counters are those of the
\* pairs compared so far, and the maxima those of the rows that have ended.
THEOREM ReportInvariant ==
    ReportSpec => []ReportInv
<1>1. ReportInit => ReportInv
  BY ReportInitially
<1>2. ReportInv /\ [ReportNext]_reportVars => ReportInv'
  <2> SUFFICES ASSUME ReportInv, [ReportNext]_reportVars
               PROVE  ReportInv'
    OBVIOUS
  <2>1. CASE UNCHANGED reportVars
    BY <2>1, ReportFrame DEF reportVars
  <2>2. CASE \E c \in ClientIds : LateCheckout(c)
    BY <2>2, ReportFrame DEF LateCheckout
  <2>3. CASE Collect \/ StartComparing
    BY <2>3, CollectStep
  <2>4. CASE StartInnerLoop \/ Compare \/ EndInnerLoop \/ PrintReport
    BY <2>4, StartInnerLoopStep, CompareStep, EndInnerLoopStep, PrintReportStep
  <2> QED
    BY <2>1, <2>2, <2>3, <2>4 DEF ReportNext
<1> QED
  BY <1>1, <1>2, PTL DEF ReportSpec

\* The largest element of a set, where there is one.
LEMMA MaxIs ==
    ASSUME NEW S \in SUBSET Int, NEW m \in S, \A x \in S : x <= m
    PROVE  Max(S) = m
<1>1. Max(S) \in S /\ \A y \in S : Max(S) >= y
  BY DEF Max
<1>2. Max(S) \in Int /\ m \in Int /\ Max(S) >= m /\ Max(S) <= m
  BY <1>1
<1> QED
  BY <1>2

\* The loops compute the set of unfair pairs: how many there are, their summed
\* unfairness, how many clients of each label take part on either side, and
\* the worst of them with its two clients.
THEOREM ReportCorrect ==
    ReportSpec => []ReportMatchesOvertakings
<1>1. ReportInv => ReportMatchesOvertakings
  <2> SUFFICES ASSUME ReportInv
               PROVE  ReportMatchesOvertakings
    OBVIOUS
  <2>1. CountersOf(report, UnfairPairs)
    BY DEF ReportInv
  <2>2. LargestOf(report.maxSecs, report.maxCheated, report.maxUnfair, RowsEnded)
    BY DEF ReportInv, MaximaFound
  <2>3. report.numUnfairEvents = Cardinality(UnfairPairs)
    BY <2>1 DEF CountersOf
  <2>4. report.summed = MapThenSumSet(LAMBDA q : Secs[q], UnfairPairs)
    BY <2>1 DEF CountersOf, SumOver
  <2>5. ASSUME NEW l \in Labels
        PROVE  /\ report.cheatedByLabel[l] =
                    Cardinality({c \in {q[1] : q \in UnfairPairs} : label[c] = l})
               /\ report.unfairByLabel[l] =
                    Cardinality({c \in {q[2] : q \in UnfairPairs} : label[c] = l})
    BY <2>1 DEF CountersOf, Cheated, Unfair, Labelled
  <2>6. report.maxSecs = Max({0} \cup {Secs[q] : q \in RowsEnded})
    <3> DEFINE S == {0} \cup {Secs[q] : q \in RowsEnded}
    <3>1. RowsEnded \in SUBSET ClientPairs
      BY PairsType, NoPairs DEF ReportInv, ReportTypes, RowsEnded
    <3>2. S \in SUBSET Int
      BY <3>1, SecsType DEF ReportInv
    <3>3. report.maxSecs \in S /\ \A x \in S : x <= report.maxSecs
      BY <2>2 DEF LargestOf
    <3> HIDE DEF S
    <3> QED
      BY <3>2, <3>3, MaxIs DEF S
  <2>7. RowsEnded # {} =>
          /\ <<report.maxCheated, report.maxUnfair>> \in RowsEnded
          /\ Secs[<<report.maxCheated, report.maxUnfair>>] = report.maxSecs
    BY <2>2 DEF LargestOf
  <2> QED
    BY <2>3, <2>4, <2>5, <2>6, <2>7 DEF ReportMatchesOvertakings
<1> QED
  BY <1>1, ReportInvariant, PTL

\* The report panics on a nil client exactly when nobody was overtaken.
THEOREM ReportPanicsExactlyWhenFair ==
    ReportSpec => []PanicsExactlyWhenFair
<1>1. ReportInv => PanicsExactlyWhenFair
  <2> SUFFICES ASSUME ReportInv, stage = "done"
               PROVE  reportFault = "nilClient" <=> UnfairPairs = {}
    BY DEF PanicsExactlyWhenFair
  <2>1. inner = 0 /\ UnfairPairs = RowsEnded
    BY RowsMakePairs DEF ReportInv, ReportTypes
  <2>2. RowsEnded \in SUBSET ClientPairs
    BY PairsType DEF ReportInv, ReportTypes, RowsEnded
  <2>3. RowsEnded # {} => report.maxCheated \in ClientIds
    BY <2>2 DEF ReportInv, MaximaFound, LargestOf, ClientPairs
  <2>4. NilClient \notin ClientIds
    BY DEF NilClient, ClientIds
  <2> QED
    BY <2>1, <2>3, <2>4 DEF ReportInv, MaximaFound, PanicsForNil
<1> QED
  BY <1>1, ReportInvariant, PTL
=============================================================================
