\* Three clients; four times, so that two can overtake the same one by different
\* amounts.
CONSTANTS
    N = 3
    Labels = {l1, l2}
    MaxTime = 4
SPECIFICATION ReportSpec
INVARIANTS ReportMatchesOvertakings PanicsExactlyWhenFair
CHECK_DEADLOCK FALSE
