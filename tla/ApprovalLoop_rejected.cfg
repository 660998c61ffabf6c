\* A human rejects a plan after the process that was told to approve it died.
CONSTANTS
    Proc = {p1}
    None = None
    IterationLimit = 1
    MaxRevisions = 0
    MaxDrives = 3
    MayCrash = TRUE
SPECIFICATION Spec
PROPERTIES RejectedPlanIsNotBuilt
CHECK_DEADLOCK FALSE
