SPECIFICATION Spec
CONSTANTS
    x = x
    y = y
    z = z
    slice = slice
    login = login
    feature = feature
    none = none
    None = none
    Approaches = {x, y, z}
    Terms = {slice, login}
    TaskTypes = {feature}
    Files <- MCFiles
    Corpora <- MCCorpora
    Filed <- MCFiled
    Query = {slice, login}
    PageSize = 3
    MaxPages = 3
    MaxCandidates = 6
    MaxRetrieved = 4
    MaxPresented = 2
    MaxTotalChars = 9
    MaxUnread = 1
    MaxEvents = 0
INVARIANTS
    EveryMatchIsWeighed
CHECK_DEADLOCK FALSE
