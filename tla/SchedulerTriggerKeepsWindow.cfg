\* One evaluator and one request that triggers a job before or after its window.
CONSTANTS
    j1 = j1
    e1 = e1
    a1 = a1
    Jobs = {j1}
    OneShot = {}
    Periods = {1, 2}
    Limits = {2}
    Zones = {0}
    JobsPerPass = 1
    Evaluators = {e1}
    Requests = {a1}
    MaxTime = 3
    MaxRequests = 1
    MaxFaults = 0
SPECIFICATION Spec
PROPERTY TriggerKeepsWindow
CHECK_DEADLOCK FALSE
