---------------------------- MODULE ClientSession ----------------------------
(***************************************************************************)
(* The client side of the simulation: the clients of internal/client/impl  *)
(* (base, lazy, backoff, jit and disappearing) with their polling          *)
(* goroutines, the client and server workers of internal/simulator/        *)
(* simulator.go, the channels between them, and the detection of the end   *)
(* of the simulation.                                                      *)
(*                                                                         *)
(* TryThrottleStateTransition is reduced to its result: a client is queued *)
(* or let into checkout, and a sale may close the simulation.              *)
(* ThrottleDriver models how it gets there.                                *)
(*                                                                         *)
(* A client's fields change only under its mutex.  Only a server worker    *)
(* holds it over several steps; what the client worker and the polling     *)
(* goroutine do between Lock and Unlock is one step that needs the mutex   *)
(* free.                                                                   *)
(***************************************************************************)
EXTENDS Integers, Sequences, FiniteSets, SequencesExt

CONSTANTS
    Clients, NoClient,
    Lazy, Jit, Disappearing,  \* clients of these types; the others (routinely
                              \* polling, exponential backoff) differ in delays only
    Servers, NoServer,        \* server worker goroutines
    PollsBeforeDisappearing,
    GreedyPollsCount,
    ReqCap, RespCap           \* capacities: maxNetworkIOBacklogSize

ASSUME SessionAssumption ==
    /\ IsFiniteSet(Clients) /\ NoClient \notin Clients
    /\ Lazy \subseteq Clients /\ Jit \subseteq Clients /\ Disappearing \subseteq Clients
    /\ NoServer \notin Servers
    /\ PollsBeforeDisappearing \in Nat /\ GreedyPollsCount \in Nat
    /\ ReqCap \in Nat \ {0} /\ RespCap \in Nat \ {0}

VARIABLES
    state,      \* throttle state of each client
    lock,       \* lock[c]: the server worker that holds the mutex of c
    poll,       \* poll[c]: StartedPolling, PollStopper and pollTimer
    loop,       \* loop[c]: where the polling goroutine of c is
    polls,      \* polls[c]: pollsSoFar (disappearing) or reps (jit)
    requests,   \* RequestTargetChannel
    responses,  \* responses[c]: the response channel of c, states as sent
    inHand,     \* inHand[c]: the response the client worker of c took out
    server,     \* server[w]: "idle", "lock" or "respond"
    serving,    \* serving[w]: the client that server worker w serves
    wg,         \* ClientsFinishedWaitGroup
    ctxDone,    \* the context is cancelled
    closers,    \* the two goroutines that have yet to close the channel
    completed,  \* SimulationCompletedListenerChannel is closed
    exited,     \* StartSimulation has returned: the process is over
    fault       \* the panic that ended the process, or "none"

clientVars == <<state, poll, loop, polls, inHand>>
netVars == <<requests, responses>>
serverVars == <<lock, server, serving>>
endVars == <<closers, completed, exited>>
vars == <<clientVars, netVars, serverVars, wg, ctxDone, endVars, fault>>

States == {"initial", "queued", "inCheckout", "exited"}
NoResponse == "none"
Timers == {"nil", "armed", "fired", "stopped"}
PollRecords == [started: BOOLEAN, stopper: {"nil", "open", "closed"}, timer: Timers]
PollBound == PollsBeforeDisappearing + GreedyPollsCount + 1

TypeOK ==
    /\ state \in [Clients -> States]
    /\ lock \in [Clients -> Servers \cup {NoServer}]
    /\ poll \in [Clients -> PollRecords]
    /\ loop \in [Clients -> {"none", "select", "fired", "greedy", "reset", "ended"}]
    /\ polls \in [Clients -> 0 .. PollBound]
    /\ requests \in Seq(Clients) /\ Len(requests) <= ReqCap
    /\ responses \in [Clients -> Seq(States)]
    /\ \A c \in Clients : Len(responses[c]) <= RespCap
    /\ inHand \in [Clients -> States \cup {NoResponse}]
    /\ server \in [Servers -> {"idle", "lock", "respond"}]
    /\ serving \in [Servers -> Clients \cup {NoClient}]
    /\ wg \in -1 .. Cardinality(Clients)
    /\ ctxDone \in BOOLEAN /\ completed \in BOOLEAN /\ exited \in BOOLEAN
    /\ closers \subseteq {"context", "clients"}
    /\ fault \in {"none", "asymmetric", "nilTimer", "closedStopper",
                  "negativeWaitGroup", "closedTwice"}

\* prepareNetworkParams and startClients: every client has the handshake
\* response in its channel.
Init ==
    /\ state = [c \in Clients |-> "initial"]
    /\ lock = [c \in Clients |-> NoServer]
    /\ poll = [c \in Clients |-> [started |-> FALSE, stopper |-> "nil", timer |-> "nil"]]
    /\ loop = [c \in Clients |-> "none"]
    /\ polls = [c \in Clients |-> 0]
    /\ requests = <<>>
    /\ responses = [c \in Clients |-> <<"initial">>]
    /\ inHand = [c \in Clients |-> NoResponse]
    /\ server = [w \in Servers |-> "idle"]
    /\ serving = [w \in Servers |-> NoClient]
    /\ wg = Cardinality(Clients)
    /\ ctxDone = FALSE
    /\ closers = {"context", "clients"}
    /\ completed = FALSE
    /\ exited = FALSE
    /\ fault = "none"

-----------------------------------------------------------------------------
(* What happens under the mutex of a client *)

\* StopPolling on the polling fields p.
Stopped_KeepsFlag == [started |-> TRUE, stopper |-> "closed", timer |-> "stopped"]
Stopped == [started |-> FALSE, stopper |-> "closed", timer |-> "stopped"]
StopPolling(p) == IF p.started THEN Stopped ELSE p

\* Its panics: Stop on a nil timer, close of a nil or closed channel.
StopPollingFault(p) ==
    IF ~p.started THEN "none"
    ELSE IF p.timer = "nil" THEN "nilTimer"
    ELSE IF p.stopper # "open" THEN "closedStopper"
    ELSE "none"

\* MarkExited, then StopPolling on p.
MarkExitedAndStop(c, p) ==
    /\ state' = [state EXCEPT ![c] = "exited"]
    /\ poll' = [poll EXCEPT ![c] = StopPolling(p)]
    /\ wg' = wg - 1
    /\ fault' = IF wg = 0 THEN "negativeWaitGroup" ELSE StopPollingFault(p)

\* dieOnRequestTimeout: a request that does not fit kills the client.
DieOnRequestTimeout(c, p) ==
    \/ /\ Len(requests) < ReqCap
       /\ requests' = Append(requests, c)
       /\ poll' = [poll EXCEPT ![c] = p]
       /\ UNCHANGED <<state, wg, fault>>
    \/ /\ Len(requests) >= ReqCap
       /\ MarkExitedAndStop(c, p)
       /\ UNCHANGED requests

\* makeSinglePollRequest; p are the polling fields once it has succeeded.
MakeSinglePollRequest(c, p) ==
    \/ state[c] = "queued" /\ DieOnRequestTimeout(c, p)
    \/ /\ state[c] # "queued"
       /\ poll' = [poll EXCEPT ![c] = StopPolling(poll[c])]
       /\ fault' = StopPollingFault(poll[c])
       /\ UNCHANGED <<state, requests, wg>>

\* The polling goroutine is started with a new stopper and timer.
Polling == [started |-> TRUE, stopper |-> "open", timer |-> "armed"]

\* StartPolling of a queued client: one poll, then the goroutine.  When that
\* first poll does not fit into the channel, StopPolling runs on the fields
\* as they were, with StartedPolling set.
StartPolling(c) ==
    \/ /\ poll[c].started
       /\ UNCHANGED <<state, poll, loop, polls, requests, wg, fault>>
    \/ /\ ~poll[c].started /\ c \in Disappearing /\ PollsBeforeDisappearing = 0
       /\ poll' = [poll EXCEPT ![c] = [Polling EXCEPT !.started = FALSE]]
       /\ loop' = [loop EXCEPT ![c] = "select"]
       /\ UNCHANGED <<state, polls, requests, wg, fault>>
    \/ /\ ~poll[c].started /\ ~(c \in Disappearing /\ PollsBeforeDisappearing = 0)
       /\ Len(requests) < ReqCap
       /\ requests' = Append(requests, c)
       /\ poll' = [poll EXCEPT ![c] = Polling]
       /\ loop' = [loop EXCEPT ![c] = "select"]
       /\ polls' = [polls EXCEPT ![c] = IF c \in Disappearing THEN 1 ELSE 0]
       /\ UNCHANGED <<state, wg, fault>>
    \/ /\ ~poll[c].started /\ ~(c \in Disappearing /\ PollsBeforeDisappearing = 0)
       /\ Len(requests) >= ReqCap
       /\ MarkExitedAndStop(c, [poll[c] EXCEPT !.started = TRUE])
       /\ UNCHANGED <<loop, polls, requests>>

-----------------------------------------------------------------------------
(* runClientWorker *)

ReceiveResponse(c) ==
    /\ inHand[c] = NoResponse /\ responses[c] # <<>>
    /\ inHand' = [inHand EXCEPT ![c] = Head(responses[c])]
    /\ responses' = [responses EXCEPT ![c] = Tail(@)]
    /\ UNCHANGED <<state, poll, loop, polls, requests, serverVars, wg, ctxDone, endVars, fault>>

ReachedCheckout_OrExited(c) == state[c] \in {"inCheckout", "exited"}
ReachedCheckout(c) == state[c] = "inCheckout"

\* delegateResponseTo, for a response that matches the state.
DelegateResponse(c) ==
    \/ state[c] = "initial" /\ DieOnRequestTimeout(c, poll[c]) /\ UNCHANGED <<loop, polls>>
    \/ state[c] = "queued" /\ StartPolling(c)
    \/ /\ ReachedCheckout(c)
       /\ MarkExitedAndStop(c, poll[c])
       /\ UNCHANGED <<loop, polls, requests>>
    \/ /\ state[c] = "exited"
       /\ UNCHANGED <<state, poll, loop, polls, requests, wg, fault>>

HandleResponse(c) ==
    /\ inHand[c] # NoResponse /\ lock[c] = NoServer
    /\ inHand' = [inHand EXCEPT ![c] = NoResponse]
    /\ \/ inHand[c] = state[c] /\ DelegateResponse(c)
       \/ /\ inHand[c] # state[c]
          /\ fault' = "asymmetric"
          /\ UNCHANGED <<state, poll, loop, polls, requests, wg>>
    /\ UNCHANGED <<responses, serverVars, ctxDone, endVars>>

-----------------------------------------------------------------------------
(* The polling goroutine *)

PollFrame == UNCHANGED <<inHand, responses, serverVars, ctxDone, endVars>>

TimerFires(c) ==
    /\ loop[c] = "select" /\ poll[c].timer = "armed"
    /\ poll' = [poll EXCEPT ![c].timer = "fired"]
    /\ loop' = [loop EXCEPT ![c] = "fired"]
    /\ PollFrame /\ UNCHANGED <<state, polls, requests, wg, fault>>

\* A lazy client sits out a round.
SkipRound(c) ==
    /\ c \in Lazy /\ loop[c] = "fired"
    /\ poll' = [poll EXCEPT ![c].timer = "armed"]
    /\ loop' = [loop EXCEPT ![c] = "select"]
    /\ PollFrame /\ UNCHANGED <<state, polls, requests, wg, fault>>

HasDisappeared(c) == c \in Disappearing /\ polls[c] >= PollsBeforeDisappearing

\* A disappearing client leaves, whatever its state is.
Disappear(c) ==
    /\ loop[c] = "fired" /\ HasDisappeared(c) /\ lock[c] = NoServer
    /\ MarkExitedAndStop(c, poll[c])
    /\ loop' = [loop EXCEPT ![c] = "ended"]
    /\ PollFrame /\ UNCHANGED <<polls, requests>>

\* Poll again; a client that is no longer queued stops polling.
PollAgain(c) ==
    /\ loop[c] = "fired" /\ ~HasDisappeared(c) /\ lock[c] = NoServer
    /\ MakeSinglePollRequest(c, [poll[c] EXCEPT !.started = TRUE])
    /\ loop' = [loop EXCEPT ![c] =
          CASE state[c] # "queued" -> "ended"
            [] state[c] = "queued" /\ c \in Jit /\ GreedyPollsCount > 1 -> "greedy"
            [] OTHER -> "reset"]
    /\ polls' = [polls EXCEPT ![c] = IF c \in Disappearing THEN @ + 1 ELSE 1]
    /\ PollFrame

\* One round of doGreedyPolls.
GreedyPoll(c) ==
    /\ loop[c] = "greedy" /\ lock[c] = NoServer
    /\ MakeSinglePollRequest(c, [poll[c] EXCEPT !.started = TRUE])
    /\ polls' = [polls EXCEPT ![c] = @ + 1]
    /\ loop' = [loop EXCEPT ![c] =
          IF state[c] = "queued" /\ polls[c] + 1 < GreedyPollsCount THEN "greedy" ELSE "reset"]
    /\ PollFrame

Rearmed_Forgotten(p) == p
Rearmed(p) == [p EXCEPT !.timer = "armed"]

\* After Unlock: the timer is armed again, even if polling was stopped since.
ResetTimer(c) ==
    /\ loop[c] = "reset"
    /\ poll' = [poll EXCEPT ![c] = Rearmed(@)]
    /\ loop' = [loop EXCEPT ![c] = "select"]
    /\ PollFrame /\ UNCHANGED <<state, polls, requests, wg, fault>>

StopLoop(c) ==
    /\ loop[c] = "select" /\ (ctxDone \/ poll[c].stopper = "closed")
    /\ loop' = [loop EXCEPT ![c] = "ended"]
    /\ PollFrame /\ UNCHANGED <<state, poll, polls, requests, wg, fault>>

-----------------------------------------------------------------------------
(* runServerWorker *)

ServerReceive(w) ==
    /\ server[w] = "idle" /\ requests # <<>>
    /\ serving' = [serving EXCEPT ![w] = Head(requests)]
    /\ requests' = Tail(requests)
    /\ server' = [server EXCEPT ![w] = "lock"]
    /\ UNCHANGED <<clientVars, responses, lock, wg, ctxDone, endVars, fault>>

MayBeQueued_UnlessExited(c) == state[c] # "exited"
MayBeQueued(c) == state[c] \in {"initial", "queued"}

\* Lock the client and run TryThrottleStateTransition: the client is queued,
\* or sold a unit, which may be the last one.
Transition(w) ==
    LET c == serving[w]
    IN /\ server[w] = "lock" /\ lock[c] = NoServer
       /\ lock' = [lock EXCEPT ![c] = w]
       /\ server' = [server EXCEPT ![w] = "respond"]
       /\ \/ /\ MayBeQueued(c)
             /\ state' = [state EXCEPT ![c] = "queued"]
             /\ UNCHANGED ctxDone
          \/ /\ MayBeQueued(c)
             /\ state' = [state EXCEPT ![c] = "inCheckout"]
             /\ ctxDone' \in {ctxDone, TRUE}
          \/ /\ state[c] \in {"inCheckout", "exited"}
             /\ UNCHANGED <<state, ctxDone>>
       /\ UNCHANGED <<poll, loop, polls, inHand, netVars, serving, wg, endVars, fault>>

HasRoom_OffByOne(c) == Len(responses[c]) <= RespCap
HasRoom(c) == Len(responses[c]) < RespCap

\* The send blocks, with the client locked, while the channel is full.
Respond(w) ==
    LET c == serving[w]
    IN /\ server[w] = "respond" /\ HasRoom(c)
       /\ responses' = [responses EXCEPT ![c] = Append(@, state[c])]
       /\ lock' = [lock EXCEPT ![c] = NoServer]
       /\ server' = [server EXCEPT ![w] = "idle"]
       /\ serving' = [serving EXCEPT ![w] = NoClient]
       /\ UNCHANGED <<clientVars, requests, wg, ctxDone, endVars, fault>>

-----------------------------------------------------------------------------
(* The end of the simulation *)

Interrupt ==
    /\ ~ctxDone /\ ctxDone' = TRUE
    /\ UNCHANGED <<clientVars, netVars, serverVars, wg, endVars, fault>>

CanClose_WaitsForBoth(who) == who = "context" /\ ctxDone /\ wg = 0
CanClose(who) == IF who = "context" THEN ctxDone ELSE wg = 0

\* monitorSimulationCompletion: one goroutine waits for the context, the
\* other for the clients, and each closes the same channel.
CloseCompleted(who) ==
    /\ who \in closers /\ CanClose(who)
    /\ closers' = closers \ {who}
    /\ completed' = TRUE
    /\ fault' = IF completed THEN "closedTwice" ELSE "none"
    /\ UNCHANGED <<clientVars, netVars, serverVars, wg, ctxDone, exited>>

\* StartSimulation is released and main returns.
ExitProcess ==
    /\ completed
    /\ exited' = TRUE
    /\ UNCHANGED <<clientVars, netVars, serverVars, wg, ctxDone, closers, completed, fault>>

-----------------------------------------------------------------------------
ClientStep(c) ==
    \/ ReceiveResponse(c) \/ HandleResponse(c)
    \/ TimerFires(c) \/ SkipRound(c) \/ Disappear(c) \/ PollAgain(c) \/ GreedyPoll(c)
    \/ ResetTimer(c) \/ StopLoop(c)
ServerStep(w) == ServerReceive(w) \/ Transition(w) \/ Respond(w)

Next ==
    /\ ~exited /\ fault = "none"
    /\ \/ \E c \in Clients : ClientStep(c)
       \/ \E w \in Servers : ServerStep(w)
       \/ Interrupt
       \/ \E who \in {"context", "clients"} : CloseCompleted(who)
       \/ ExitProcess

Spec == Init /\ [][Next]_vars

Alive(A) == ~exited /\ fault = "none" /\ A

\* The goroutines that end the simulation are scheduled when they can run.
FairSpec ==
    /\ Spec
    /\ \A who \in {"context", "clients"} : WF_vars(Alive(CloseCompleted(who)))
    /\ WF_vars(Alive(ExitProcess))

-----------------------------------------------------------------------------
(***************************************************************************)
(* Properties                                                              *)
(***************************************************************************)

\* Nobody is forgotten: as long as the sale is open, a client that has not
\* reached checkout has its request or its answer on the way, or a polling
\* goroutine that will wake up.
NobodyForgotten ==
    \A c \in Clients :
        state[c] \in {"initial", "queued"} /\ ~ctxDone /\ fault = "none" =>
            \/ c \in ToSet(requests)
            \/ \E w \in Servers : serving[w] = c
            \/ responses[c] # <<>> \/ inHand[c] # NoResponse
            \/ loop[c] \in {"fired", "greedy", "reset"}
            \/ loop[c] = "select" /\ poll[c].timer = "armed"

\* The two kinds of channels that several goroutines close.  StopPolling,
\* called by the client worker, by the polling goroutine and on a request that
\* does not fit, never closes a stopper that is closed or was never made.  The
\* completion channel is closed twice, and the process panics, only if the
\* context is cancelled and all the clients are through.
ChannelsClosedOnce ==
    /\ fault # "closedStopper"
    /\ fault = "closedTwice" => ctxDone /\ wg = 0

\* The wait group counts the clients that have not exited.  Only a
\* disappearing client can sign off a second time, because its timer may fire
\* while it is let into checkout or after a failed poll, and then the group
\* falls short by that one; no other client makes it fall short or go below 0.
SignOffOnce ==
    LET inside == Cardinality({c \in Clients : state[c] # "exited"})
        again == Cardinality({c \in Disappearing : state[c] = "exited"})
    IN /\ wg \in inside - again .. inside
       /\ fault = "negativeWaitGroup" => again > 0

\* A client that has exited stays so, and one in checkout can only exit: no
\* late poll or response puts it back in the queue.
NoWayBack ==
    [][\A c \in Clients :
          /\ state[c] = "exited" => state'[c] = "exited"
          /\ state[c] = "inCheckout" => state'[c] \in {"inCheckout", "exited"}]_vars

\* When the context is cancelled or all clients are through, the process ends.
SimulationEnds == (ctxDone \/ wg = 0) ~> (exited \/ fault # "none")

\* base_client.go:281: a response that differs from the client's state is an
\* "Asymmetric data: server failed to mark target response state on client".
ResponsesSymmetric == fault # "asymmetric"
=============================================================================
