\* Two processes that answer the same run and may be killed anywhere.
CONSTANTS
    Proc = {p1, p2}
    None = None
    IterationLimit = 2
    MaxRevisions = 1
    MaxDrives = 4
    MayCrash = TRUE
SPECIFICATION Spec
SYMMETRY ProcSymmetry
  
PROPERTIES GateKept
CHECK_DEADLOCK FALSE
