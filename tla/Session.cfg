\* A client with two requests and two lines of noise, a deaf child, a late
\* cancellation, a signal that fails.
CONSTANTS
    MaxSent = 2
    MaxLines = 4
    MaxRequests = 2
    MaxWrites = 2
    None = None
    MayDie = TRUE
    MayNotKill = TRUE
SPECIFICATION FairSpec
INVARIANTS OneMutationPerRequest  JournalIsBounded AskedIsNotCompleted NobodyWaitsInVain
PROPERTIES WorkStops 
CHECK_DEADLOCK FALSE
