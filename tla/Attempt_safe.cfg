\* Three processes that may die between any two file operations; two grants
\* that may write and a read-only one, in the three scenes of the module.
CONSTANTS
    r1 = r1
    r2 = r2
    g1 = g1
    g2 = g2
    g3 = g3
    Proc = {p1, p2, p3}
    Run = {r1, r2}
    Grant = {g1, g2, g3}
    RunOf <- RunsOfGrants
    Mutating = {g1, g2}
    MaxWrites = 2
    MaxIssues = 2
    None = None
    Unreadable = Unreadable
    MayCrash = TRUE
    MayWithdraw = TRUE
    MayThrow = TRUE
SPECIFICATION SceneSpec
SYMMETRY ProcSymmetry
ACTION_CONSTRAINT Quiet
INVARIANTS OneSessionPerGrant  UnfinishedIsFlagged LateWithdrawalStopsSession
PROPERTIES ContentionKeepsGrant
CHECK_DEADLOCK FALSE
