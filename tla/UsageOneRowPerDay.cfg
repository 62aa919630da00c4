\* Two runs whose agents finish at the same time.
CONSTANTS
    r1 = r1
    r2 = r2
    q1 = q1
    Runs = {r1, r2}
    Requests = {q1}
    Passes = {}
    NoLimit = NoLimit
    FreeRuns = 2
    FreeTokens = 3
    Overrides = {NoLimit}
    TokensPerRun = 1
    MaxUpserts = 0
SPECIFICATION Spec
INVARIANT OneRowPerDay
CHECK_DEADLOCK FALSE
