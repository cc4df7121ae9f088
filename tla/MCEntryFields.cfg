CONSTANTS
    DateTimes <- AllDateTimes
    ClusterArgs <- MCClusterArgs
    None = None
INIT Init
NEXT Next
INVARIANTS
    ModifiedRoundTrip
    FirstClusterRoundTrip
CHECK_DEADLOCK FALSE
