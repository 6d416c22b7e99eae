\* Three clients against a cap of one, so that a window can fill up and reject;
\* cancellation at any point.  No symmetry: liveness is checked.
CONSTANTS
    Clients = {c1, c2, c3}
    MaxCheckoutsPerWindow = 1
    MaxSkpdLowPollingUtilCount = 2
    LowUtilNum = 1
    LowUtilDen = 1
    MaxWindow = 3
SPECIFICATION FairSpec
INVARIANTS WindowAdmissionBound FeedbackIsExact LowCountIsRunLength
PROPERTIES ClosedWindowsFrozen MonitorsStop
