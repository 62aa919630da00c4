\* Four runs, two requests and one pass, a limit of two runs that a plan update
\* can lower, remove or raise.
CONSTANTS
    r1 = r1
    r2 = r2
    r3 = r3
    r4 = r4
    q1 = q1
    q2 = q2
    p1 = p1
    Runs = {r1, r2, r3, r4}
    Requests = {q1, q2}
    Passes = {p1}
    NoLimit = NoLimit
    FreeRuns = 2
    FreeTokens = 3
    Overrides = {1, 3, NoLimit}
    TokensPerRun = 1
    MaxUpserts = 2
SPECIFICATION Spec
INVARIANTS TypeOK QuotaExact BilledOnce LostOnlyByRaces
SYMMETRY Symmetry
CHECK_DEADLOCK FALSE
