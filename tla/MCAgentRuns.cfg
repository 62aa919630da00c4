\* Two runs, the second of an unknown agent type, competing for one slot of one
\* replica.
CONSTANTS
    Runs = {r1, r2}
    Workers = {w1}
    MaxDelivery = 2
    DeadLetterAt = 2
    MaxConcurrent = 1
    MaxFailures = 1
    Unbuildable = {r2}
    NoWorker = NoWorker
    r1 = r1
    r2 = r2
    w1 = w1
SPECIFICATION Spec
CHECK_DEADLOCK FALSE
INVARIANT TypeOK
INVARIANT RowLockExact
INVARIANT DurableBeforeClaim
INVARIANT NoSilentLoss
INVARIANT RunningOnlyIfWedged
