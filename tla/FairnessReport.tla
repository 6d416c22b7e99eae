---------------------------- MODULE FairnessReport ----------------------------
(***************************************************************************)
(* aggregateFairnessResults of internal/simulator/simulator.go: who was    *)
(* overtaken in the queue by whom, and by how much.                        *)
(*                                                                         *)
(* It runs while server workers still serve clients, so clients can reach  *)
(* checkout during the first loop, which looks at one client per step.     *)
(* The pairs of the collected clients are then compared, one pair per step *)
(* of the inner loop.  The times of a client that has reached checkout do  *)
(* not change any more.                                                    *)
(***************************************************************************)
EXTENDS Integers, Sequences, FiniteSets, FiniteSetsExt

CONSTANTS
    N,              \* the number of clients; their ids are 1 .. N
    Labels,         \* client labels
    MaxTime         \* bound: times are 1 .. MaxTime

ASSUME ReportAssumption == N \in Nat /\ MaxTime \in Nat /\ IsFiniteSet(Labels)

ClientIds == 1 .. N
NilClient == 0       \* a nil client.Client

VARIABLES
    queueEntryTime, queueExitTime, label,   \* of each client
    hitCheckoutStep,    \* the clients that have reached checkout
    stage,              \* "collect", "compare" or "done"
    next,               \* the element that the current outer loop looks at
    inner,              \* the element of the inner loop, 0 outside of it
    collected,          \* clientsSubsetReachedCheckout
    report,             \* the counters and maxima so far
    reportFault         \* "nilClient" when Label is called on a nil client

inputVars == <<queueEntryTime, queueExitTime, label>>
reportVars ==
    <<inputVars, hitCheckoutStep, stage, next, inner, collected, report, reportFault>>

EmptyReport ==
    [numUnfairEvents |-> 0, cheated |-> {}, unfair |-> {},
     cheatedByLabel |-> [l \in Labels |-> 0], unfairByLabel |-> [l \in Labels |-> 0],
     summed |-> 0, maxSecs |-> 0, maxCheated |-> NilClient, maxUnfair |-> NilClient,
     localMax |-> 0, maxCy |-> NilClient]

ReportInit ==
    /\ queueEntryTime \in [ClientIds -> 1 .. MaxTime]
    /\ queueExitTime \in [ClientIds -> 1 .. MaxTime]
    /\ \A c \in ClientIds : queueEntryTime[c] <= queueExitTime[c]
    /\ label \in [ClientIds -> Labels]
    /\ hitCheckoutStep \in SUBSET ClientIds
    /\ stage = "collect" /\ next = 1 /\ inner = 0
    /\ collected = <<>>
    /\ report = EmptyReport
    /\ reportFault = "none"

-----------------------------------------------------------------------------
\* A server worker lets a client into checkout while the report is made.
LateCheckout(c) ==
    /\ stage # "done" /\ c \notin hitCheckoutStep
    /\ hitCheckoutStep' = hitCheckoutStep \cup {c}
    /\ UNCHANGED <<inputVars, stage, next, inner, collected, report, reportFault>>

Collect ==
    /\ stage = "collect" /\ next <= N
    /\ collected' = IF next \in hitCheckoutStep THEN Append(collected, next) ELSE collected
    /\ next' = next + 1
    /\ UNCHANGED <<inputVars, hitCheckoutStep, stage, inner, report, reportFault>>

StartComparing ==
    /\ stage = "collect" /\ next = N + 1
    /\ stage' = "compare" /\ next' = 1
    /\ UNCHANGED <<inputVars, hitCheckoutStep, inner, collected, report, reportFault>>

\* cy entered the queue after cx and left it before cx.
Overtakes(cy, cx) ==
    /\ queueEntryTime[cy] > queueEntryTime[cx]
    /\ queueExitTime[cy] < queueExitTime[cx]

Unfairness(cy, cx) == queueEntryTime[cy] - queueEntryTime[cx]

CountOnce(byLabel, seen, c) ==
    IF c \in seen THEN byLabel ELSE [byLabel EXCEPT ![label[c]] = @ + 1]

IsWorse_LastWins(secs, max) == TRUE
IsWorse(secs, max) == secs > max

\* The body of the inner loop.
ComparePair(r, cx, cy) ==
    LET secs == Unfairness(cy, cx)
    IN IF ~Overtakes(cy, cx) THEN r
       ELSE [r EXCEPT
               !.numUnfairEvents = @ + 1,
               !.cheatedByLabel = CountOnce(@, r.cheated, cx),
               !.unfairByLabel = CountOnce(@, r.unfair, cy),
               !.cheated = @ \cup {cx},
               !.unfair = @ \cup {cy},
               !.summed = @ + secs,
               !.maxCy = IF IsWorse(secs, r.localMax) THEN cy ELSE @,
               !.localMax = IF IsWorse(secs, @) THEN secs ELSE @]

IsNewMaximum_NotStrict(r) == r.localMax >= r.maxSecs
IsNewMaximum(r) == r.localMax > r.maxSecs

\* The global maximum is replaced when the local one exceeds it.
UpdateGlobalMax(r, cx) ==
    IF IsNewMaximum(r)
    THEN [r EXCEPT !.maxSecs = r.localMax, !.maxCheated = cx, !.maxUnfair = r.maxCy]
    ELSE r

Comparing == stage = "compare" /\ next <= Len(collected)
CompareFrame == UNCHANGED <<inputVars, hitCheckoutStep, stage, collected, reportFault>>

\* localMaxUnfairnessSecs and maxCy start anew for each client.
StartInnerLoop ==
    /\ Comparing /\ inner = 0
    /\ report' = [report EXCEPT !.localMax = 0, !.maxCy = collected[next]]
    /\ inner' = 1
    /\ CompareFrame /\ UNCHANGED next

Compare ==
    /\ Comparing /\ inner \in 1 .. Len(collected)
    /\ report' = ComparePair(report, collected[next], collected[inner])
    /\ inner' = inner + 1
    /\ CompareFrame /\ UNCHANGED next

EndInnerLoop ==
    /\ Comparing /\ inner = Len(collected) + 1
    /\ report' = UpdateGlobalMax(report, collected[next])
    /\ next' = next + 1 /\ inner' = 0
    /\ CompareFrame

\* The report is printed, with the labels of the two clients of the maximum.
PrintReport ==
    /\ stage = "compare" /\ next = Len(collected) + 1
    /\ stage' = "done"
    /\ reportFault' = IF report.maxCheated = NilClient THEN "nilClient" ELSE "none"
    /\ UNCHANGED <<inputVars, hitCheckoutStep, next, inner, collected, report>>

ReportNext ==
    \/ \E c \in ClientIds : LateCheckout(c)
    \/ Collect \/ StartComparing
    \/ StartInnerLoop \/ Compare \/ EndInnerLoop
    \/ PrintReport

ReportSpec == ReportInit /\ [][ReportNext]_reportVars

-----------------------------------------------------------------------------
(***************************************************************************)
(* Properties                                                              *)
(***************************************************************************)

\* The positions compared so far, row by row, and the pairs of clients there.
PositionsUpTo(row, column) ==
    {p \in (1 .. Len(collected)) \X (1 .. Len(collected)) :
        p[1] < row \/ (p[1] = row /\ p[2] < column)}
PairAt(p) == <<collected[p[1]], collected[p[2]]>>
\* The definition in the comment of aggregateFairnessResults, as sets: of all
\* pairs compared so far, and of those whose inner loop has ended.
UnfairAmong(positions) == {q \in {PairAt(p) : p \in positions} : Overtakes(q[2], q[1])}
UnfairPairs == UnfairAmong(IF stage = "collect" THEN {} ELSE PositionsUpTo(next, inner))
RowsEnded == UnfairAmong(IF stage = "collect" THEN {} ELSE PositionsUpTo(next, 0))

Secs == [q \in ClientIds \X ClientIds |-> Unfairness(q[2], q[1])]

\* After every round of the inner loop the counts are those of the set of
\* unfair pairs: per label every client counts once, however many clients
\* it overtook or was overtaken by.  After every round of the outer loop the
\* maximum is the largest unfairness of any pair, and the two clients reported
\* with it are such a pair.
ReportMatchesOvertakings ==
    /\ report.numUnfairEvents = Cardinality(UnfairPairs)
    /\ report.summed = MapThenSumSet(LAMBDA q : Secs[q], UnfairPairs)
    /\ \A l \in Labels :
          /\ report.cheatedByLabel[l] = Cardinality({c \in {q[1] : q \in UnfairPairs} : label[c] = l})
          /\ report.unfairByLabel[l] = Cardinality({c \in {q[2] : q \in UnfairPairs} : label[c] = l})
    /\ report.maxSecs = Max({0} \cup {Secs[q] : q \in RowsEnded})
    /\ RowsEnded # {} =>
          /\ <<report.maxCheated, report.maxUnfair>> \in RowsEnded
          /\ Secs[<<report.maxCheated, report.maxUnfair>>] = report.maxSecs

\* The report panics exactly when the queue was fair: without an unfair event
\* there is no client whose label could be printed.
PanicsExactlyWhenFair ==
    stage = "done" => (reportFault = "nilClient" <=> UnfairPairs = {})
=============================================================================
