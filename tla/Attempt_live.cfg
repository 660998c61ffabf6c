\* Two runs of a project, nobody is killed: attempts end and locks are freed.
CONSTANTS
    r1 = r1
    r2 = r2
    g1 = g1
    g2 = g2
    Proc = {p1, p2}
    Run = {r1, r2}
    Grant = {g1, g2}
    RunOf <- TwoRuns
    Mutating = {g1, g2}
    MaxWrites = 1
    MaxIssues = 1
    None = None
    Unreadable = Unreadable
    MayCrash = FALSE
    MayWithdraw = FALSE
    MayThrow = FALSE
SPECIFICATION FairSpec
PROPERTIES AttemptEnds LockIsFreed
CHECK_DEADLOCK FALSE
