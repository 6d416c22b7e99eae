-------------------------- MODULE FixedWindowTracker --------------------------
(***************************************************************************)
(* The rate tracker of internal/throttle/tracker/impl/                     *)
(* fixed_window_tracker.go, with the hand-over of its feedback to the      *)
(* goroutine MonitorUtilAndNotifyQueue of internal/throttle/               *)
(* throttle_driver.go.                                                     *)
(*                                                                         *)
(* ShouldProceed and the roll-over of the window run under both tracker    *)
(* mutexes, so each is one step.  The roll-over and the sending of the     *)
(* feedback are two steps: the mutexes are released in between.            *)
(*                                                                         *)
(* A utilization is a count divided by maxCheckoutsPerWindow; the model    *)
(* keeps the count and compares by cross-multiplication.                   *)
(***************************************************************************)
EXTENDS Integers, FiniteSets

CONSTANTS
    Clients,                     \* client ids
    MaxCheckoutsPerWindow,       \* maxCheckoutsPerWindow
    MaxSkpdLowPollingUtilCount,  \* maxSkpdLowPollingUtilCount
    LowUtilNum, LowUtilDen,      \* lowUtilMaxThresholdPct = LowUtilNum / LowUtilDen
    MaxWindow                    \* bound: index of the last window modelled

ASSUME TrackerAssumption ==
    /\ IsFiniteSet(Clients)
    /\ MaxCheckoutsPerWindow \in Nat \ {0}
    /\ MaxSkpdLowPollingUtilCount \in Nat
    /\ LowUtilNum \in Nat
    /\ LowUtilDen \in Nat \ {0}
    /\ MaxWindow \in Nat

VARIABLES
    curWindowIndex,            \* index of the open window
    windowedPollingUtil,       \* window -> clients that polled in it
    windowedCheckoutUtil,      \* window -> clients let through in it
    lowPollingUtilConsecCount, \* local of MonitorAndEmitFeedback
    monitor,                   \* MonitorAndEmitFeedback: "sleep", "emit", "stopped"
    feedback,                  \* the message the monitor is about to send
    notifier,                  \* MonitorUtilAndNotifyQueue: "busy", "select", "stopped"
    received,                  \* the message the notifier is handling
    ctxDone                    \* the shared context is cancelled

windowVars  == <<curWindowIndex, windowedPollingUtil, windowedCheckoutUtil>>
monitorVars == <<lowPollingUtilConsecCount, monitor, feedback>>
notifyVars  == <<notifier, received>>
vars == <<windowVars, monitorVars, notifyVars, ctxDone>>

Windows == 0..MaxWindow

\* tracker.Feedback; window is the window reported on, a history field that
\* no step of the model reads.
Feedback == [window: Windows, PollingUtil: Nat, CheckoutUtil: Nat,
             shouldIgnorePollUtil: BOOLEAN]

\* No message: not a member of Feedback.
NoFeedback == [window |-> -1, PollingUtil |-> 0, CheckoutUtil |-> 0,
               shouldIgnorePollUtil |-> FALSE]

TypeOK ==
    /\ curWindowIndex \in Windows
    /\ windowedPollingUtil \in [Windows -> SUBSET Clients]
    /\ windowedCheckoutUtil \in [Windows -> SUBSET Clients]
    /\ lowPollingUtilConsecCount \in Nat
    /\ monitor \in {"sleep", "emit", "stopped"}
    /\ feedback \in Feedback \cup {NoFeedback}
    /\ notifier \in {"busy", "select", "stopped"}
    /\ received \in Feedback \cup {NoFeedback}
    /\ ctxDone \in BOOLEAN

\* MakeFixedWindowTracker.  Neither goroutine has reached its loop yet; for
\* the notifier that is "busy" with nothing received.
Init ==
    /\ curWindowIndex = 0
    /\ windowedPollingUtil = [w \in Windows |-> {}]
    /\ windowedCheckoutUtil = [w \in Windows |-> {}]
    /\ lowPollingUtilConsecCount = 0
    /\ monitor = "sleep"
    /\ feedback = NoFeedback
    /\ notifier = "busy"
    /\ received = NoFeedback
    /\ ctxDone = FALSE

-----------------------------------------------------------------------------
\* PollingUtilization and CheckoutUtilization, times maxCheckoutsPerWindow.
\* A window without an entry in the dict has utilization 0, like an empty one.
PollingUtilization(w) == Cardinality(windowedPollingUtil[w])
CheckoutUtilization(w) == Cardinality(windowedCheckoutUtil[w])

\* trackerPollingUtil < lowUtilMaxThresholdPct
IsLow(n) == n * LowUtilDen < LowUtilNum * MaxCheckoutsPerWindow

CanPass_Uncapped == TRUE
CanPass == CheckoutUtilization(curWindowIndex) <= MaxCheckoutsPerWindow

\* The index read before the mutexes are taken, and the window rolled over since.
OpenWindow_Stale == IF curWindowIndex > 0 THEN curWindowIndex - 1 ELSE 0
OpenWindow == curWindowIndex

\* Every poll is counted; the client is counted as let through when the
\* window still has room, and canPass is the answer to the caller.
ShouldProceed(c, canPass) ==
    /\ canPass = CanPass
    /\ windowedPollingUtil' = [windowedPollingUtil EXCEPT ![OpenWindow] = @ \cup {c}]
    /\ windowedCheckoutUtil' =
          [windowedCheckoutUtil EXCEPT ![OpenWindow] = IF canPass THEN @ \cup {c} ELSE @]
    /\ UNCHANGED <<curWindowIndex, monitorVars, notifyVars, ctxDone>>

NextLowCount_NoReset(n) ==
    IF IsLow(n) THEN lowPollingUtilConsecCount + 1 ELSE lowPollingUtilConsecCount

NextLowCount(n) == IF IsLow(n) THEN lowPollingUtilConsecCount + 1 ELSE 0

\* should_ignore_poll_util is cleared when no low window is pending or when
\* enough of them have been seen in a row.
ShouldIgnore(count) == ~(count = 0 \/ count >= MaxSkpdLowPollingUtilCount)

NextWindow == curWindowIndex + 1

Measured_OpenWindow == curWindowIndex + 1
Measured == curWindowIndex

\* The sleep timer fires: measure the window, open the next one, and make up
\* the feedback message.
RollWindow ==
    /\ monitor = "sleep"
    /\ curWindowIndex < MaxWindow
    /\ LET polls == PollingUtilization(Measured)
       IN /\ curWindowIndex' = NextWindow
          /\ lowPollingUtilConsecCount' = NextLowCount(polls)
          /\ feedback' = [window |-> Measured,
                          PollingUtil |-> polls,
                          CheckoutUtil |-> CheckoutUtilization(Measured),
                          shouldIgnorePollUtil |-> ShouldIgnore(NextLowCount(polls))]
    /\ monitor' = "emit"
    /\ UNCHANGED <<windowedPollingUtil, windowedCheckoutUtil, notifyVars, ctxDone>>

AfterEmit_Blocks == IF notifier = "select" THEN "sleep" ELSE "emit"
AfterEmit == "sleep"

\* A non-blocking send on an unbuffered channel: the message reaches the
\* notifier when that is blocked in its select and is dropped otherwise.
EmitFeedback ==
    /\ monitor = "emit"
    /\ IF notifier = "select"
         THEN notifier' = "busy" /\ received' = feedback
         ELSE UNCHANGED notifyVars
    /\ monitor' = AfterEmit
    /\ feedback' = NoFeedback
    /\ UNCHANGED <<windowVars, lowPollingUtilConsecCount, ctxDone>>

\* MonitorAndEmitFeedback sees the cancelled context.
StopMonitor ==
    /\ monitor = "sleep" /\ ctxDone
    /\ monitor' = "stopped"
    /\ UNCHANGED <<windowVars, lowPollingUtilConsecCount, feedback, notifyVars, ctxDone>>

\* MonitorUtilAndNotifyQueue has handled what it received (or has just been
\* started) and blocks in its select.
NotifierLoop ==
    /\ notifier = "busy"
    /\ notifier' = "select"
    /\ received' = NoFeedback
    /\ UNCHANGED <<windowVars, monitorVars, ctxDone>>

\* MonitorUtilAndNotifyQueue sees the cancelled context.
StopNotifier ==
    /\ notifier = "select" /\ ctxDone
    /\ notifier' = "stopped"
    /\ UNCHANGED <<windowVars, monitorVars, received, ctxDone>>

\* The context is cancelled, by the driver or by an interrupt.
Cancel ==
    /\ ctxDone' = TRUE
    /\ UNCHANGED <<windowVars, monitorVars, notifyVars>>

Next ==
    \/ \E c \in Clients, canPass \in BOOLEAN : ShouldProceed(c, canPass)
    \/ RollWindow
    \/ EmitFeedback
    \/ StopMonitor
    \/ NotifierLoop
    \/ StopNotifier
    \/ ~ctxDone /\ Cancel

Spec == Init /\ [][Next]_vars

\* The goroutines of the tracker and of the driver's notifier are scheduled
\* as long as they are runnable.  Where the cancelled context competes with a
\* timer or a message in a select, Go picks a ready case at random, so the
\* cancellation is not passed over for ever.
Fairness ==
    /\ WF_vars(EmitFeedback)
    /\ SF_vars(StopMonitor)
    /\ WF_vars(NotifierLoop)
    /\ SF_vars(StopNotifier)

FairSpec == Spec /\ Fairness

-----------------------------------------------------------------------------
(***************************************************************************)
(* Properties                                                              *)
(***************************************************************************)

\* ShouldProceed admits a client while at most maxCheckoutsPerWindow are
\* already in, so a window lets at most one client more than that through,
\* whatever the order of polls and roll-overs.
WindowAdmissionBound ==
    \A w \in Windows : CheckoutUtilization(w) <= MaxCheckoutsPerWindow + 1

\* Once a window has been rolled over, no late ShouldProceed call changes what
\* was measured for it: the index is read under the same mutexes that
\* protect the roll-over.
ClosedWindowsFrozen ==
    [][\A w \in Windows : w < curWindowIndex =>
          /\ windowedPollingUtil'[w] = windowedPollingUtil[w]
          /\ windowedCheckoutUtil'[w] = windowedCheckoutUtil[w]]_vars

\* A message that waits to be sent, and one that the driver is still handling
\* some windows later, gives the exact final counts of the closed window it
\* was made for.
ReportsClosedWindow(f) ==
    /\ f.window < curWindowIndex
    /\ f.PollingUtil = PollingUtilization(f.window)
    /\ f.CheckoutUtil = CheckoutUtilization(f.window)

FeedbackIsExact ==
    \A f \in {feedback, received} \ {NoFeedback} : ReportsClosedWindow(f)

\* lowPollingUtilConsecCount is the length of the run of low windows that
\* ends with the last closed window: the counter neither misses a window nor
\* survives one with enough polls.
LowCountIsRunLength ==
    /\ lowPollingUtilConsecCount <= curWindowIndex
    /\ \A i \in 1..lowPollingUtilConsecCount :
          IsLow(PollingUtilization(curWindowIndex - i))
    /\ lowPollingUtilConsecCount < curWindowIndex =>
          ~IsLow(PollingUtilization(curWindowIndex - lowPollingUtilConsecCount - 1))

\* After the context is cancelled both goroutines return: the send of the
\* tracker never blocks on a notifier that has already gone.
MonitorsStop == ctxDone ~> (monitor = "stopped" /\ notifier = "stopped")
=============================================================================
