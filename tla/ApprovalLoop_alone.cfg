\* One process that is killed anywhere and resumed, over two iterations.
CONSTANTS
    Proc = {p1}
    None = None
    IterationLimit = 2
    MaxRevisions = 1
    MaxDrives = 5
    MayCrash = TRUE
SPECIFICATION FairSpec
INVARIANTS RecordNeverAhead CompletedIsApprovedAndSafe
PROPERTIES FinalIsFinal DriveSettles
CHECK_DEADLOCK FALSE
