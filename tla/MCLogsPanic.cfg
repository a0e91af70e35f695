SPECIFICATION Spec
CONSTANTS
    Endpoints <- OnlyLogs
    MaxLogBytes = 4
    MaxChunk = 3
    MaxStream = 8
    Boxes = {b1, b2}
    InspectLimit = 1
    UnitCount = 3
    Trimmed <- Trimming
    PropsLimit = 1
    BatchSize = 2
    Restless = {2}
    Reports = {q1, q2}
    RowCount = 4
    KeyCount = 2
    DefaultPageSize = 2
    MaxPageSize = 3
    Callers = {c1, c2}
    RepoCount = 3
    MaxRepos = 2
    TagFetchLimit = 1
CHECK_DEADLOCK FALSE
INVARIANT AlwaysAnswers
