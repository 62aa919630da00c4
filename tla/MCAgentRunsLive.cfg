\* One run, two replicas, three deliveries: redelivery while the first task is
\* still alive, on the same or the other replica.
CONSTANTS
    Runs = {r1}
    Workers = {w1, w2}
    MaxDelivery = 3
    DeadLetterAt = 2
    MaxConcurrent = 1
    MaxFailures = 1
    Unbuildable = {}
    NoWorker = NoWorker
    r1 = r1
    w1 = w1
    w2 = w2
SPECIFICATION FairSpec
CHECK_DEADLOCK FALSE
PROPERTY SettledIsFinal
PROPERTY RefinesRecord
PROPERTY MessageSettles
PROPERTY LockReleased
PROPERTY RunResolves
