CONSTANTS
    Runs = {r1}
    Workers = {w1, w2}
    MaxDelivery = 3
    DeadLetterAt = 3
    MaxConcurrent = 3
    MaxFailures = 0
    Unbuildable = {}
    NoWorker = NoWorker
    r1 = r1
    w1 = w1
    w2 = w2
SPECIFICATION Spec
CHECK_DEADLOCK FALSE
PROPERTY RecordBeforePickup
