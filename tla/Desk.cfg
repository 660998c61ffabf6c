SPECIFICATION Spec
CONSTANTS
    s1 = s1
    s2 = s2
    s3 = s3
    none = none
    None = none
    Sayings = {s1, s2, s3}
    MaxRuns = 2
    MaxApprovals = 3
    MaxCli = 2
    Utterances <- MCUtterances
INVARIANTS
    
    AnswersTheRunInView
CHECK_DEADLOCK FALSE
SYMMETRY Same
