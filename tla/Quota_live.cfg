\* Two writers, one of which may be killed anywhere: the other one gets in again
\* and every call returns.
CONSTANTS
    Proc = {p1, p2}
    Nonces = {1, 2, 3}
    None = None
    Absent = Absent
    MayCrash = TRUE
    MayStall = FALSE
    Names = {a}
    MaxRecords = 1
    MaxEntries = 4
    MaxForeign = 0
SPECIFICATION QuotaFairSpec
PROPERTIES WritersGetIn DeadOwnerIsReclaimed WriteReturns
CHECK_DEADLOCK FALSE
