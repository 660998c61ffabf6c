SPECIFICATION Spec
CONSTANTS
    absent = absent
    none = none
    Absent = absent
    None = none
    Content = {1, 2}
    Path <- MCPath
    Sensitive <- MCSensitive
    Scope <- MCScope
    Repos <- MCRepos
    Configs <- MCConfigs
    MaxChecks = 2
    Budget = 2
    Steps = 2
INVARIANTS
    
    OthersWorkIsNotOurs
    
    
    
    ChecksKeepTheirTime
CHECK_DEADLOCK FALSE
