\* One evaluator, a recurring and a one-shot job, passes of one job, and two
\* requests, one after the other, that may overlap the passes.
CONSTANTS
    j1 = j1
    j2 = j2
    e1 = e1
    a1 = a1
    Jobs = {j1, j2}
    OneShot = {j2}
    Periods = {1, 2}
    Limits = {1, 2}
    Zones <- Offsets
    JobsPerPass = 1
    Evaluators = {e1}
    Requests = {a1}
    MaxTime = 2
    MaxRequests = 2
    MaxFaults = 1
SPECIFICATION BoundedSpec
INVARIANTS TypeOK FailuresExact
PROPERTIES DeactivationSticks DisabledOnlyAtLimit WindowFiredOnce DueIsServed
CHECK_DEADLOCK FALSE
