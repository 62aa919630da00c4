------------------------------- MODULE Cycles -------------------------------
(***************************************************************************)
(* A test cycle with its assignments and results: the requests of          *)
(* services/test_cycle_service.py (routers/test_cycles.py), the tool       *)
(* create_test_result of the execution agent, and the approvals of scripts *)
(* that go on meanwhile.  No request looks at what the cycle has become    *)
(* since it read it; columns a request has not changed are not written.    *)
(***************************************************************************)
EXTENDS Sessions, Integers, Sequences, FiniteSets

CONSTANTS
    CycleScripts,   \* scripts of the system
    Assignments,    \* rows that bulk_assign may create
    Outcomes,       \* the values of TestOutcome in use
    CycleRequests,  \* requests, and agents, in progress at the same time
    MaxCycleRequests, MaxResults    \* bounds on the requests, and on the results of a row (TLC)

ASSUME CycleAssumption ==
    Outcomes \subseteq {"passed", "failed", "blocked", "skipped"} /\ MaxCycleRequests \in Nat

VARIABLES
    cycle,      \* the status of the committed cycle
    assigned,   \* assigned[a]: the committed assignment, None before it is created
    results,    \* results[a]: the outcomes of its committed results
    approved,   \* the scripts that are approved and not deleted
    queued,     \* scripts for which the cycle has committed a pending execution run
    cReq,       \* cReq[q]: the session of request q
    cRequests,  \* requests so far
    byHand      \* the cycle, and the assignments, whose status somebody has set directly or
                \* of which an agent has rewritten a result (history)

cycleVars == <<cycle, assigned, results, approved, queued, cReq, cRequests, byHand>>

CycleStatus == {"planned", "in_progress", "completed", "aborted"}
Assignment == [script : CycleScripts, status : Outcomes \cup {"pending", "in_progress"}]

\* A result a session inserts, or writes over the one at index at.
Written == [of : Assignments, at : Nat, outcome : Outcomes]
ASSUME RowAssumption == None \notin Assignment /\ None \notin Written

\* A session: the cycle's status as read and as it will be, the assignments as read and as
\* they will be, the result to insert or rewrite, the scripts to run and those run.
Idle == [kind |-> "idle", read |-> None, new |-> None, had |-> <<>>, rows |-> <<>>,
         result |-> None, scripts |-> {}, runs |-> {}]
Free(q) == cReq[q].kind = "idle"
SessionKinds == {"update", "cancel", "assign", "edit", "submit", "execute", "agent"}

CycleTypeOK ==
    /\ cycle \in CycleStatus
    /\ assigned \in [Assignments -> Assignment \cup {None}]
    /\ results \in [Assignments -> Seq(Outcomes)]
    /\ approved \subseteq CycleScripts /\ queued \subseteq CycleScripts
    /\ \A q \in CycleRequests : Free(q) \/
          /\ cReq[q].kind \in SessionKinds /\ {cReq[q].read, cReq[q].new} \subseteq CycleStatus
          /\ \A a \in DOMAIN cReq[q].rows : cReq[q].rows[a] \in Assignment
          /\ cReq[q].result \in Written \cup {None} /\ cReq[q].runs \subseteq CycleScripts
    /\ cRequests \in 0 .. MaxCycleRequests
    /\ byHand \subseteq Assignments \cup {"cycle"}

\* create_cycle
CycleInit ==
    /\ cycle = "planned"
    /\ assigned = [a \in Assignments |-> None]
    /\ results = [a \in Assignments |-> <<>>]
    /\ approved \in {CycleScripts, {}} /\ queued = {}
    /\ cReq = [q \in CycleRequests |-> Idle] /\ cRequests = 0
    /\ byHand = {}

\* The scripts' own workflow.
ScriptApproval ==
    /\ \E s \in CycleScripts : approved' = IF s \in approved THEN approved \ {s} ELSE approved \cup {s}
    /\ UNCHANGED <<cycle, assigned, results, queued, cReq, cRequests, byHand>>

-----------------------------------------------------------------------------
Opens(q, session) ==
    /\ Free(q) /\ cRequests < MaxCycleRequests
    /\ cRequests' = cRequests + 1
    /\ cReq' = [cReq EXCEPT ![q] = session]
    /\ UNCHANGED <<cycle, assigned, results, approved, queued, byHand>>

\* A session that writes the cycle's status, and one that writes assignments or a result.
OnCycle(kind, s, scripts) ==
    [kind |-> kind, read |-> cycle, new |-> s, had |-> <<>>, rows |-> <<>>,
     result |-> None, scripts |-> scripts, runs |-> {}]
OnRows(kind, had, rows, result) ==
    [kind |-> kind, read |-> cycle, new |-> cycle, had |-> had, rows |-> rows,
     result |-> result, scripts |-> {}, runs |-> {}]
OneRow(a, row) == [b \in {a} |-> row]
Present(a) == assigned[a] # None

UpdateCycle(q) == \E s \in CycleStatus : Opens(q, OnCycle("update", s, {}))

CancelCycle(q) == cycle # "completed" /\ Opens(q, OnCycle("cancel", "aborted", {}))

\* bulk_assign; that the users have a tester role is left out.
BulkAssign(q) ==
    /\ cycle \in {"planned", "in_progress"}
    /\ \E A \in (SUBSET {a \in Assignments : ~Present(a)}) \ {{}} : \E script \in [A -> approved] :
        Opens(q, OnRows("assign", <<>>, [a \in A |-> [script |-> script[a], status |-> "pending"]], None))

\* update_assignment: any status.
UpdateAssignment(q) ==
    \E a \in Assignments, s \in Outcomes \cup {"pending", "in_progress"} :
        Present(a) /\ Opens(q, OnRows("edit", OneRow(a, assigned[a]),
                                      OneRow(a, [assigned[a] EXCEPT !.status = s]), None))

\* Mutant: the result of an outcome that is only recorded is not inserted.
InsertNotSkipped(a, outcome) == IF outcome = "skipped" THEN None ELSE [of |-> a, at |-> 0, outcome |-> outcome]
InsertResult(a, outcome) == [of |-> a, at |-> 0, outcome |-> outcome]

\* submit_result, whatever the cycle's status.
SubmitResult(q) ==
    \E a \in Assignments, o \in Outcomes :
        /\ Present(a)
        /\ Opens(q, OnRows("submit", OneRow(a, assigned[a]),
                           OneRow(a, [assigned[a] EXCEPT !.status = o]), InsertResult(a, o)))

\* create_test_result: the assignment's only result is rewritten; with two the tool raises.
\* The assignment's status stays.
AgentResult(q) ==
    \E a \in Assignments, o \in Outcomes :
        /\ Present(a) /\ Len(results[a]) <= 1
        /\ Opens(q, OnRows("agent", <<>>, <<>>,
                           [of |-> a, at |-> Len(results[a]), outcome |-> o]))

\* Mutants: the cycle is started whatever it was; with a status of the script's runs; it
\* is started without a run.
StartsQueued(s) == IF s = "planned" THEN "queued" ELSE s
StartsAnyway(s) == "in_progress"
StartedBy(s) == IF s = "planned" THEN "in_progress" ELSE s
EvenNone(runs) == TRUE
SomeDispatched(runs) == runs # {}

\* execute_all reads the cycle and which scripts are assigned ...
ExecuteAll(q) ==
    /\ \E a \in Assignments : Present(a)
    /\ Opens(q, OnCycle("execute", StartedBy(cycle),
                        {assigned[a].script : a \in {b \in Assignments : Present(b)}}))

Dispatched(q) == cReq[q].kind = "execute" => SomeDispatched(cReq[q].runs)

\* ... and then each script: those approved by then get a run, unless the dispatch raises
\* (the quota is exhausted), which is swallowed.
DispatchOne(q) ==
    /\ cReq[q].kind = "execute"
    /\ \E s \in (cReq[q].scripts \cap approved) \ cReq[q].runs :
        cReq' = [cReq EXCEPT ![q].runs = @ \cup {s}]
    /\ UNCHANGED <<cycle, assigned, results, approved, queued, cRequests, byHand>>

\* The result of a session, inserted or written over the one it found.
Recorded(r) ==
    IF r = None THEN results
    ELSE IF r.at = 0 THEN [results EXCEPT ![r.of] = Append(@, r.outcome)]
    ELSE [results EXCEPT ![r.of][r.at] = r.outcome]

CommitCycle(q) ==
    /\ ~Free(q) /\ Dispatched(q)
    /\ LET c == cReq[q] IN
        /\ c.result # None => c.result.at > 0 \/ Len(results[c.result.of]) < MaxResults
        /\ \A a \in DOMAIN c.rows : c.kind = "assign" => ~Present(a)
        /\ cycle' = IF c.new = c.read THEN cycle ELSE c.new
        /\ assigned' = [a \in Assignments |->
                IF a \notin DOMAIN c.rows THEN assigned[a]
                ELSE IF c.kind = "assign" THEN c.rows[a]
                ELSE Merge(assigned[a], c.had[a], c.rows[a])]
        /\ results' = Recorded(c.result)
        /\ queued' = queued \cup c.runs
        /\ byHand' = byHand \cup (IF c.kind = "update" THEN {"cycle"} ELSE {})
                            \cup (IF c.kind = "edit" THEN DOMAIN c.rows ELSE {})
                            \cup (IF c.kind = "agent" /\ c.result.at > 0 THEN {c.result.of} ELSE {})
    /\ cReq' = [cReq EXCEPT ![q] = Idle]
    /\ UNCHANGED <<approved, cRequests>>

\* Also when nothing could be dispatched.
RollbackCycle(q) ==
    /\ ~Free(q)
    /\ cReq' = [cReq EXCEPT ![q] = Idle]
    /\ UNCHANGED <<cycle, assigned, results, approved, queued, cRequests, byHand>>

CycleNext ==
    \/ \E q \in CycleRequests :
        \/ UpdateCycle(q) \/ CancelCycle(q) \/ BulkAssign(q) \/ UpdateAssignment(q)
        \/ SubmitResult(q) \/ AgentResult(q) \/ ExecuteAll(q) \/ DispatchOne(q)
        \/ CommitCycle(q) \/ RollbackCycle(q)
    \/ ScriptApproval

CycleSpec == CycleInit /\ [][CycleNext]_cycleVars

-----------------------------------------------------------------------------
\* A cancelled cycle comes back only by update_cycle, or by an execute_all that had read
\* it before the cancellation committed; a completed cycle is aborted only likewise.
SettledCycleStays ==
    [][\A s \in {"completed", "aborted"} :
        cycle = s /\ cycle' # s =>
            \E q \in CycleRequests :
                ~Free(q) /\ (cReq[q].kind = "update" \/ cReq[q].read # s)]_cycleVars

\* An assignment is passed, failed, blocked or skipped only if one of its results says so,
\* however the submissions overlap, unless its status was edited directly or an agent
\* has rewritten a result (create_test_result leaves the status alone).
OutcomeHasResult ==
    \A a \in Assignments \ byHand :
        Present(a) /\ assigned[a].status \in Outcomes =>
            \E i \in DOMAIN results[a] : results[a][i] = assigned[a].status

\* A cycle nobody has edited is in progress only when a run of one of its scripts is
\* queued: execute_all swallows refused dispatches, but not all of them.
StartedMeansQueued ==
    cycle = "in_progress" /\ "cycle" \notin byHand =>
        \E a \in Assignments : Present(a) /\ assigned[a].script \in queued
=============================================================================
