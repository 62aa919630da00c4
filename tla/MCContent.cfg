SPECIFICATION ContentSpec
CONSTANTS
    None = None
    Contents = {a, b}
    ScriptRequests = {q1, q2}
    MaxScriptEdits = 3
    Texts <- SomeTexts
    ApiProcesses = {p1, p2}
    QualityTTL = 2
    MaxQualityTime = 4
    MaxEdits = 2
    Requirements = {r1, r2, r3, r4}
    Instants = {1, 2, 3}
    PageLimit = 2
    MaxLines = 5
    CycleScripts = {s1, s2}
    Assignments = {a1, a2}
    Outcomes = {"passed", "skipped"}
    CycleRequests = {c1, c2}
    MaxCycleRequests = 3
    MaxResults = 2
    ExecutionRuns = {e1}
    NewScripts = {n1}
    StepOutcomes = {"passed", "blocked", "error"}
    MaxSteps = 2
    Steps <- SomeSteps
    MaxShots = 2
    CountedReqs <- SomeCounted
    CountedScripts <- SomeCountedScripts
    Domain <- SomeDomain
    CoveredBy <- SomeCoverage
    MaxMoves = 2
    ExportScripts = {x1, x2}
    Exporters = {f1, f2}
    MaxChanges = 1
    MaxSecond = 1
    Asks = {t1, t2}
INVARIANTS
    ContentTypeOK
    HistoryKept
    StaleAtMostTTL
    WalkComplete
    ImportKeepsText
    OutcomeHasResult
    StartedMeansQueued
    EvidenceAgrees
    ReadersFaithful
    CallsAccounted
PROPERTIES
    SettledCycleStays
\* The bounded counters let every component stop.
CHECK_DEADLOCK FALSE
