---------------------- MODULE FixedWindowTracker_proofs ----------------------
(***************************************************************************)
(* Proofs about FixedWindowTracker: its type invariant, the bound on the   *)
(* clients a window lets through, and that the feedback is exact, for any  *)
(* set of clients, any cap and any number of windows.                      *)
(***************************************************************************)
EXTENDS FixedWindowTracker, FiniteSetTheorems, TLAPS

\* The number of clients counted for a window is a natural number.
LEMMA UtilizationType ==
    ASSUME TypeOK, NEW w \in Windows
    PROVE  PollingUtilization(w) \in Nat /\ CheckoutUtilization(w) \in Nat
<1>1. IsFiniteSet(windowedPollingUtil[w]) /\ IsFiniteSet(windowedCheckoutUtil[w])
  BY TrackerAssumption, FS_Subset DEF TypeOK
<1> QED
  BY <1>1, FS_CardinalityType DEF PollingUtilization, CheckoutUtilization

\* Every variable of the tracker keeps its type, the feedback messages
\* included: MonitorAndEmitFeedback never reports about a window that does
\* not exist.
THEOREM TypeCorrect == Spec => []TypeOK
<1>1. Init => TypeOK
  <2> SUFFICES ASSUME Init PROVE TypeOK
    OBVIOUS
  <2>1. curWindowIndex \in Windows
    BY TrackerAssumption DEF Init, Windows
  <2>2. /\ windowedPollingUtil \in [Windows -> SUBSET Clients]
        /\ windowedCheckoutUtil \in [Windows -> SUBSET Clients]
    BY DEF Init
  <2> QED
    BY <2>1, <2>2 DEF Init, TypeOK
<1>2. TypeOK /\ [Next]_vars => TypeOK'
  <2> SUFFICES ASSUME TypeOK, [Next]_vars PROVE TypeOK'
    OBVIOUS
  <2> USE TrackerAssumption
  <2>1. ASSUME NEW c \in Clients, NEW canPass \in BOOLEAN, ShouldProceed(c, canPass)
        PROVE  TypeOK'
    BY <2>1 DEF TypeOK, ShouldProceed, OpenWindow, monitorVars, notifyVars
  <2>2. CASE RollWindow
    <3>1. curWindowIndex + 1 \in Windows
      BY <2>2 DEF RollWindow, Measured, NextWindow, TypeOK, Windows
    <3>2. NextLowCount(PollingUtilization(curWindowIndex)) \in Nat
      BY DEF NextLowCount, TypeOK
    <3>3. feedback' \in Feedback
      <4>1. ShouldIgnore(NextLowCount(PollingUtilization(curWindowIndex))) \in BOOLEAN
        BY DEF ShouldIgnore
      <4> QED
        BY <2>2, <4>1, UtilizationType DEF RollWindow, Measured, NextWindow, TypeOK, Feedback
    <3> QED
      BY <2>2, <3>1, <3>2, <3>3 DEF RollWindow, Measured, NextWindow, TypeOK, notifyVars
  <2>3. CASE EmitFeedback
    BY <2>3 DEF EmitFeedback, AfterEmit, TypeOK, windowVars, notifyVars
  <2>4. CASE StopMonitor
    BY <2>4 DEF StopMonitor, TypeOK, windowVars, notifyVars
  <2>5. CASE NotifierLoop
    BY <2>5 DEF NotifierLoop, TypeOK, windowVars, monitorVars
  <2>6. CASE StopNotifier
    BY <2>6 DEF StopNotifier, TypeOK, windowVars, monitorVars
  <2>7. CASE Cancel
    BY <2>7 DEF Cancel, TypeOK, windowVars, monitorVars, notifyVars
  <2>8. CASE UNCHANGED vars
    BY <2>8 DEF vars, TypeOK, windowVars, monitorVars, notifyVars
  <2> QED
    BY <2>1, <2>2, <2>3, <2>4, <2>5, <2>6, <2>7, <2>8 DEF Next
<1> QED
  BY <1>1, <1>2, PTL DEF Spec

\* Only the open window of ShouldProceed changes, and by at most one client.
LEMMA ShouldProceedCounts ==
    ASSUME TypeOK, NEW c \in Clients, NEW canPass \in BOOLEAN,
           ShouldProceed(c, canPass), NEW w \in Windows
    PROVE  /\ w # curWindowIndex => /\ windowedPollingUtil'[w] = windowedPollingUtil[w]
                                    /\ windowedCheckoutUtil'[w] = windowedCheckoutUtil[w]
           /\ CheckoutUtilization(w)' <= CheckoutUtilization(w)
              \/ /\ CheckoutUtilization(w) <= MaxCheckoutsPerWindow
                 /\ CheckoutUtilization(w)' <= CheckoutUtilization(w) + 1
<1>1. w # curWindowIndex => /\ windowedPollingUtil'[w] = windowedPollingUtil[w]
                            /\ windowedCheckoutUtil'[w] = windowedCheckoutUtil[w]
  BY DEF ShouldProceed, OpenWindow, TypeOK
<1>2. CASE windowedCheckoutUtil'[w] = windowedCheckoutUtil[w]
  BY <1>1, <1>2, UtilizationType DEF CheckoutUtilization
<1>3. CASE windowedCheckoutUtil'[w] # windowedCheckoutUtil[w]
  <2>1. /\ w = curWindowIndex /\ CanPass
        /\ windowedCheckoutUtil'[w] = windowedCheckoutUtil[w] \cup {c}
    BY <1>1, <1>3 DEF ShouldProceed, OpenWindow, TypeOK
  <2>2. IsFiniteSet(windowedCheckoutUtil[w])
    BY TrackerAssumption, FS_Subset DEF TypeOK
  <2>3. Cardinality(windowedCheckoutUtil[w] \cup {c}) <= Cardinality(windowedCheckoutUtil[w]) + 1
    BY <2>2, FS_AddElement, FS_CardinalityType
  <2> QED
    BY <1>1, <2>1, <2>3 DEF CanPass, CheckoutUtilization
<1> QED
  BY <1>2, <1>3

\* Whatever the order of polls and roll-overs, a window lets at most
\* maxCheckoutsPerWindow + 1 clients through.
THEOREM AdmissionBounded == Spec => []WindowAdmissionBound
<1>1. Init => WindowAdmissionBound
  BY TrackerAssumption, FS_EmptySet DEF Init, WindowAdmissionBound, CheckoutUtilization
<1>2. TypeOK /\ WindowAdmissionBound /\ [Next]_vars => WindowAdmissionBound'
  <2> SUFFICES ASSUME TypeOK, WindowAdmissionBound, [Next]_vars, NEW w \in Windows
               PROVE  CheckoutUtilization(w)' <= MaxCheckoutsPerWindow + 1
    BY DEF WindowAdmissionBound, Windows
  <2> USE TrackerAssumption
  <2>0. CheckoutUtilization(w) \in Nat /\ CheckoutUtilization(w) <= MaxCheckoutsPerWindow + 1
    BY UtilizationType DEF WindowAdmissionBound
  <2>1. ASSUME NEW c \in Clients, NEW canPass \in BOOLEAN, ShouldProceed(c, canPass)
        PROVE  CheckoutUtilization(w)' <= MaxCheckoutsPerWindow + 1
    <3>1. TypeOK'
      BY <2>1 DEF TypeOK, ShouldProceed, OpenWindow, monitorVars, notifyVars
    <3>2. IsFiniteSet(windowedCheckoutUtil'[w])
      BY <3>1, FS_Subset DEF TypeOK
    <3>3. CheckoutUtilization(w)' \in Nat
      BY <3>2, FS_CardinalityType DEF CheckoutUtilization
    <3> QED
      BY <2>0, <2>1, <3>3, ShouldProceedCounts
  <2>2. CASE UNCHANGED windowedCheckoutUtil
    BY <2>0, <2>2 DEF CheckoutUtilization
  <2> QED
    BY <2>1, <2>2 DEF Next, RollWindow, Measured, NextWindow, EmitFeedback, AfterEmit,
       StopMonitor, NotifierLoop,
       StopNotifier, Cancel, vars, windowVars
<1> QED
  BY <1>1, <1>2, TypeCorrect, PTL DEF Spec

\* A window that has been rolled over is never written again.
THEOREM ClosedWindowsStay == Spec => ClosedWindowsFrozen
<1>1. TypeOK /\ [Next]_vars =>
        [\A w \in Windows : w < curWindowIndex =>
            /\ windowedPollingUtil'[w] = windowedPollingUtil[w]
            /\ windowedCheckoutUtil'[w] = windowedCheckoutUtil[w]]_vars
  <2> SUFFICES ASSUME TypeOK, [Next]_vars, NEW w \in Windows, w < curWindowIndex
               PROVE  /\ windowedPollingUtil'[w] = windowedPollingUtil[w]
                      /\ windowedCheckoutUtil'[w] = windowedCheckoutUtil[w]
    OBVIOUS
  <2>1. ASSUME NEW c \in Clients, NEW canPass \in BOOLEAN, ShouldProceed(c, canPass)
        PROVE  /\ windowedPollingUtil'[w] = windowedPollingUtil[w]
               /\ windowedCheckoutUtil'[w] = windowedCheckoutUtil[w]
    <3>1. w # curWindowIndex
      BY TrackerAssumption DEF TypeOK, Windows
    <3> QED
      BY <2>1, <3>1, ShouldProceedCounts
  <2>2. CASE UNCHANGED <<windowedPollingUtil, windowedCheckoutUtil>>
    BY <2>2
  <2> QED
    BY <2>1, <2>2 DEF Next, RollWindow, Measured, NextWindow, EmitFeedback, AfterEmit,
       StopMonitor, NotifierLoop,
       StopNotifier, Cancel, vars, windowVars
<1> QED
  BY <1>1, TypeCorrect, PTL DEF Spec, ClosedWindowsFrozen

\* A message reports on a window that is closed.
MessageIsExact(f) == f = NoFeedback \/ ReportsClosedWindow(f)

\* The feedback that is sent, and the one the driver still handles, gives the
\* final counts of a closed window.
THEOREM FeedbackExact == Spec => []FeedbackIsExact
<1> DEFINE Inv == MessageIsExact(feedback) /\ MessageIsExact(received)
<1>1. Init => Inv
  BY DEF Init, MessageIsExact
<1>2. TypeOK /\ Inv /\ [Next]_vars => Inv'
  <2> SUFFICES ASSUME TypeOK, Inv, [Next]_vars PROVE Inv'
    OBVIOUS
  <2> USE TrackerAssumption
  <2>1. ASSUME NEW f \in Feedback \cup {NoFeedback}, MessageIsExact(f),
               NEW c \in Clients, NEW canPass \in BOOLEAN, ShouldProceed(c, canPass)
        PROVE  f = NoFeedback \/ /\ f.window < curWindowIndex'
                                 /\ f.PollingUtil = PollingUtilization(f.window)'
                                 /\ f.CheckoutUtil = CheckoutUtilization(f.window)'
    <3> SUFFICES ASSUME f # NoFeedback
                 PROVE  /\ f.window < curWindowIndex'
                        /\ f.PollingUtil = PollingUtilization(f.window)'
                        /\ f.CheckoutUtil = CheckoutUtilization(f.window)'
      OBVIOUS
    <3>1. f.window \in Windows /\ f.window < curWindowIndex
      BY <2>1 DEF MessageIsExact, ReportsClosedWindow, Feedback
    <3>2. f.window # curWindowIndex
      BY <3>1 DEF TypeOK, Windows
    <3>3. /\ windowedPollingUtil'[f.window] = windowedPollingUtil[f.window]
          /\ windowedCheckoutUtil'[f.window] = windowedCheckoutUtil[f.window]
      BY <2>1, <3>1, <3>2, ShouldProceedCounts
    <3> QED
      BY <2>1, <3>1, <3>3 DEF MessageIsExact, ReportsClosedWindow, PollingUtilization,
         CheckoutUtilization, ShouldProceed, OpenWindow
  <2>2. CASE \E c \in Clients, canPass \in BOOLEAN : ShouldProceed(c, canPass)
    <3>1. PICK c \in Clients, canPass \in BOOLEAN : ShouldProceed(c, canPass)
      BY <2>2
    <3>2. feedback' = feedback /\ received' = received
      BY <3>1 DEF ShouldProceed, OpenWindow, monitorVars, notifyVars
    <3> QED
      BY <2>1, <3>1, <3>2 DEF TypeOK, MessageIsExact, ReportsClosedWindow,
         PollingUtilization, CheckoutUtilization
  <2>3. CASE RollWindow
    <3>1. /\ curWindowIndex' = curWindowIndex + 1 /\ curWindowIndex \in Int
          /\ UNCHANGED <<windowedPollingUtil, windowedCheckoutUtil, received>>
          /\ feedback'.window = curWindowIndex
          /\ feedback'.PollingUtil = PollingUtilization(curWindowIndex)
          /\ feedback'.CheckoutUtil = CheckoutUtilization(curWindowIndex)
      BY <2>3 DEF RollWindow, Measured, NextWindow, TypeOK, Windows, notifyVars
    <3>2. MessageIsExact(feedback)'
      BY <3>1 DEF MessageIsExact, ReportsClosedWindow, PollingUtilization, CheckoutUtilization
    <3>3. received # NoFeedback => received.window \in Int
      BY DEF TypeOK, Feedback, Windows
    <3>4. MessageIsExact(received)'
      BY <3>1, <3>3 DEF MessageIsExact, ReportsClosedWindow, PollingUtilization,
         CheckoutUtilization
    <3> QED
      BY <3>2, <3>4
  <2>4. CASE UNCHANGED windowVars /\ feedback' \in {feedback, NoFeedback}
             /\ received' \in {received, feedback, NoFeedback}
    BY <2>4 DEF windowVars, MessageIsExact, ReportsClosedWindow, PollingUtilization,
       CheckoutUtilization
  <2> QED
    BY <2>2, <2>3, <2>4 DEF Next, EmitFeedback, AfterEmit, StopMonitor, NotifierLoop, StopNotifier,
       Cancel, vars, monitorVars, notifyVars
<1>3. Inv => FeedbackIsExact
  BY DEF MessageIsExact, FeedbackIsExact
<1> QED
  BY <1>1, <1>2, <1>3, TypeCorrect, PTL DEF Spec
\* The last count of the closed windows before cur are those of a run of low ones.
EndsRun(util, count, cur) ==
    /\ count <= cur
    /\ \A i \in 1 .. count : IsLow(Cardinality(util[cur - i]))
    /\ count < cur => ~IsLow(Cardinality(util[cur - count - 1]))

\* A window that is closed extends the run, or ends it.
LEMMA RunExtended ==
    ASSUME NEW util, NEW n \in Nat, NEW cur \in Nat, EndsRun(util, n, cur)
    PROVE  EndsRun(util, IF IsLow(Cardinality(util[cur])) THEN n + 1 ELSE 0, cur + 1)
<1>1. CASE ~IsLow(Cardinality(util[cur]))
  <2>1. cur + 1 - 0 - 1 = cur
    OBVIOUS
  <2> QED
    BY <1>1, <2>1 DEF EndsRun
<1>2. CASE IsLow(Cardinality(util[cur]))
  <2>1. n + 1 <= cur + 1
    BY DEF EndsRun
  <2>2. ASSUME NEW i \in 1 .. n + 1
        PROVE  IsLow(Cardinality(util[cur + 1 - i]))
    <3>1. CASE i = 1
      <4>1. cur + 1 - i = cur
        BY <3>1
      <4> QED
        BY <1>2, <4>1
    <3>2. CASE i # 1
      <4>1. i - 1 \in 1 .. n /\ cur + 1 - i = cur - (i - 1)
        BY <3>2
      <4> QED
        BY <4>1 DEF EndsRun
    <3> QED
      BY <3>1, <3>2
  <2>3. ASSUME n + 1 < cur + 1
        PROVE  ~IsLow(Cardinality(util[cur + 1 - (n + 1) - 1]))
    <3>1. cur + 1 - (n + 1) - 1 = cur - n - 1 /\ n < cur
      BY <2>3
    <3> QED
      BY <3>1 DEF EndsRun
  <2> QED
    BY <1>2, <2>1, <2>2, <2>3 DEF EndsRun
<1> QED
  BY <1>1, <1>2

\* lowPollingUtilConsecCount is the length of the run of low windows before the
\* open one: polls that come late are counted for the open window, and a
\* roll-over extends the run or ends it.
THEOREM LowCountExact == Spec => []LowCountIsRunLength
<1> DEFINE Inv == EndsRun(windowedPollingUtil, lowPollingUtilConsecCount, curWindowIndex)
<1>1. Init => Inv
  BY DEF Init, EndsRun
<1>2. TypeOK /\ Inv /\ [Next]_vars => Inv'
  <2> SUFFICES ASSUME TypeOK, Inv, [Next]_vars PROVE Inv'
    OBVIOUS
  <2>1. /\ curWindowIndex \in Nat /\ lowPollingUtilConsecCount \in Nat
        /\ curWindowIndex <= MaxWindow /\ MaxWindow \in Nat
    BY TrackerAssumption DEF TypeOK, Windows
  <2>2. CASE UNCHANGED <<windowedPollingUtil, lowPollingUtilConsecCount, curWindowIndex>>
    BY <2>2 DEF EndsRun
  <2>3. CASE RollWindow
    <3>1. /\ curWindowIndex' = curWindowIndex + 1
          /\ lowPollingUtilConsecCount' =
               IF IsLow(Cardinality(windowedPollingUtil[curWindowIndex]))
               THEN lowPollingUtilConsecCount + 1 ELSE 0
          /\ windowedPollingUtil' = windowedPollingUtil
      BY <2>3 DEF RollWindow, Measured, NextWindow, NextLowCount, PollingUtilization
    <3> QED
      BY <2>1, <3>1, RunExtended
  <2>4. ASSUME NEW c \in Clients, NEW canPass \in BOOLEAN, ShouldProceed(c, canPass)
        PROVE  Inv'
    <3>1. UNCHANGED <<curWindowIndex, lowPollingUtilConsecCount>>
      BY <2>4 DEF ShouldProceed, monitorVars
    <3>2. \A w \in 0 .. curWindowIndex - 1 : windowedPollingUtil'[w] = windowedPollingUtil[w]
      BY <2>1, <2>4, ShouldProceedCounts DEF Windows
    <3>3. \A i \in 1 .. lowPollingUtilConsecCount :
             curWindowIndex - i \in 0 .. curWindowIndex - 1
      BY <2>1 DEF EndsRun
    <3>4. lowPollingUtilConsecCount < curWindowIndex =>
             curWindowIndex - lowPollingUtilConsecCount - 1 \in 0 .. curWindowIndex - 1
      BY <2>1
    <3> QED
      BY <3>1, <3>2, <3>3, <3>4 DEF EndsRun
  <2> QED
    BY <2>2, <2>3, <2>4 DEF Next, EmitFeedback, StopMonitor, NotifierLoop, StopNotifier, Cancel,
       vars, windowVars, monitorVars
<1>3. Inv => LowCountIsRunLength
  BY DEF EndsRun, LowCountIsRunLength, PollingUtilization
<1> QED
  BY <1>1, <1>2, <1>3, TypeCorrect, PTL DEF Spec

=============================================================================
