\* Four writers, or three that may be killed between any two steps; two
\* records for one slot, and a file somebody else put there.
CONSTANTS
    Proc = {p1, p2, p3, p4}
    Nonces = {1, 2, 3, 4}
    None = None
    Absent = Absent
    MayCrash = TRUE
    MayStall = FALSE
    Names = {a, b}
    MaxRecords = 1
    MaxEntries = 3
    MaxForeign = 1
SPECIFICATION TeamSpec
SYMMETRY Symmetric
ACTION_CONSTRAINT FullTeamLives
INVARIANTS   StoredStays OnlyNewIsRefused
CHECK_DEADLOCK FALSE
