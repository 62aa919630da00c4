---------------------------- MODULE AgentOutputs ----------------------------
(***************************************************************************)
(* What an execution agent and a generation agent leave behind: the tools  *)
(* that write (agents/tool_registry.py), in whatever order and number the  *)
(* language model calls them, and the summary the agent returns            *)
(* (agents/execution_agent.py, agents/generation_agent.py).                *)
(*                                                                         *)
(* The executor runs the tool calls of one turn side by side, on the one   *)
(* session of the agent.  A flush during another one is refused: the call  *)
(* raises, its rows stay in the session and go with a later flush.  A call *)
(* that raises ends the executor, while the others of the turn go on.  A   *)
(* flush that fails ends the transaction: every later use of the session   *)
(* raises, and so does the worker's commit.                                *)
(***************************************************************************)
EXTENDS Sessions, Integers, Sequences, FiniteSets

CONSTANTS
    ExecutionRuns,  \* execution_runs rows the agent may create
    NewScripts,     \* test_scripts rows the agent may create
    StepOutcomes,   \* the values of StepOutcome in use
    MaxSteps        \* bound on the step results of a run (TLC)

ExecutionRun == [status : {"running", "passed", "failed"}, total : Nat, passed : Nat, failed : Nat]
NewRun == [status |-> "running", total |-> 0, passed |-> 0, failed |-> 0]
Listing == [listed : Nat, late : BOOLEAN]
Report == [run : ExecutionRun, listed : Nat, late : BOOLEAN]
Progress == {"begun", "whole", "thinned", "cut"}

ASSUME OutputAssumption ==
    /\ StepOutcomes \subseteq {"passed", "failed", "blocked", "skipped", "error"}
    /\ MaxSteps \in Nat
    /\ None \notin Progress \cup ExecutionRun

VARIABLES
    agent,      \* which agent it is
    exRun,      \* exRun[r]: the row, None before it is created
    told,       \* the runs whose id the model was told and the memory has
    steps,      \* steps[r]: the outcomes of its step results, in the order inserted
    waiting,    \* waiting[r]: those of the step results not inserted yet
    tallies,    \* tallies[r]: how many steps each finalization under way has counted
    unsent,     \* the runs with a finalization whose flush was refused: no longer followed
    listing,    \* listing[r]: what a report under way has read, None without one
    report,     \* report[r]: what the last report made of r shows, None without one
    saved,      \* saved[s]: how far its cases came, None without a row
    memory,     \* the scripts in generated_script_ids
    stray,      \* a call has raised
    lost,       \* a flush has failed
    summary,    \* output_summary, None while the agent works
    kept        \* the worker has committed

outputVars == <<agent, exRun, told, steps, waiting, tallies, unsent, listing, report,
                saved, memory, stray, lost, summary, kept>>
runVars == <<exRun, told, steps, waiting, tallies, unsent, listing, report>>

OutputTypeOK ==
    /\ agent \in {"execution", "generation"}
    /\ exRun \in [ExecutionRuns -> ExecutionRun \cup {None}]
    /\ told \subseteq ExecutionRuns /\ unsent \subseteq ExecutionRuns
    /\ steps \in [ExecutionRuns -> Seq(StepOutcomes)] /\ waiting \in [ExecutionRuns -> Seq(StepOutcomes)]
    /\ tallies \in [ExecutionRuns -> SUBSET Nat]
    /\ listing \in [ExecutionRuns -> Listing \cup {None}]
    /\ report \in [ExecutionRuns -> Report \cup {None}]
    /\ saved \in [NewScripts -> Progress \cup {None}] /\ memory \subseteq NewScripts
    /\ stray \in BOOLEAN /\ lost \in BOOLEAN /\ kept \in BOOLEAN
    /\ summary # None => /\ summary.scripts \subseteq NewScripts /\ DOMAIN summary.tallied \subseteq ExecutionRuns
                         /\ \A r \in DOMAIN summary.tallied : summary.tallied[r] \in ExecutionRun

OutputInit ==
    /\ agent \in {"execution", "generation"}
    /\ exRun = [r \in ExecutionRuns |-> None]
    /\ told = {} /\ unsent = {}
    /\ steps = [r \in ExecutionRuns |-> <<>>] /\ waiting = steps
    /\ tallies = [r \in ExecutionRuns |-> {}]
    /\ listing = [r \in ExecutionRuns |-> None] /\ report = listing
    /\ saved = [s \in NewScripts |-> None] /\ memory = {}
    /\ stray = FALSE /\ lost = FALSE /\ summary = None /\ kept = FALSE

-----------------------------------------------------------------------------
\* A call of a tool is at work: until the agent returns, and after it if a call of the last
\* turn raised.
Going == ~lost /\ ~kept /\ (summary = None \/ stray)
Working(kind) == agent = kind /\ Going
OnRun(r) == Working("execution") /\ r \in told \ unsent
Unchanged == UNCHANGED <<agent, lost, summary, kept>>

\* create_execution_run: refused, the row is inserted later, and nobody knows its id.
CreateExecutionRun(r) ==
    /\ Working("execution") /\ exRun[r] = None
    /\ exRun' = [exRun EXCEPT ![r] = NewRun]
    /\ \/ told' = told \cup {r} /\ UNCHANGED stray
       \/ stray' = TRUE /\ UNCHANGED told
    /\ Unchanged /\ UNCHANGED <<steps, waiting, tallies, unsent, listing, report, saved, memory>>

\* save_step_result: the outcome is the model's; the run may be finalized already.
SaveStepResult(r) ==
    /\ OnRun(r) /\ Len(steps[r]) + Len(waiting[r]) < MaxSteps
    /\ \E o \in StepOutcomes : waiting' = [waiting EXCEPT ![r] = Append(@, o)]
    /\ Unchanged
    /\ UNCHANGED <<exRun, told, steps, tallies, unsent, listing, report, saved, memory, stray>>

Inserted == /\ steps' = [r \in ExecutionRuns |-> steps[r] \o waiting[r]]
            /\ waiting' = [r \in ExecutionRuns |-> <<>>]

\* The flush of any call, or before a SELECT, sends what is in the session.
FlushRows ==
    /\ Going
    /\ Inserted
    /\ Unchanged /\ UNCHANGED <<exRun, told, tallies, unsent, listing, report, saved, memory, stray>>

Count(s, outcome) == Cardinality({i \in DOMAIN s : s[i] = outcome})

\* A run without steps fails; a step skipped or in error neither passes nor fails.
Passed(s) == s # <<>> /\ Count(s, "failed") = 0 /\ Count(s, "blocked") = 0

Finalized(s) ==
    [status |-> IF Passed(s) THEN "passed" ELSE "failed", total |-> Len(s),
     passed |-> Count(s, "passed"), failed |-> Count(s, "failed")]

\* finalize_execution_run: the SELECT of the steps, ...
FinalizeReads(r) ==
    /\ OnRun(r)
    /\ tallies' = [tallies EXCEPT ![r] = @ \cup {Len(steps[r])}]
    /\ Unchanged
    /\ UNCHANGED <<exRun, told, steps, waiting, unsent, listing, report, saved, memory, stray>>

\* ... and the totals of the steps it returned, over those of a call that counted before or
\* after.
FinalizeExecutionRun(r) ==
    /\ OnRun(r)
    /\ \E n \in tallies[r] :
        /\ tallies' \in {tallies, [tallies EXCEPT ![r] = @ \ {n}]}
        /\ exRun' = [exRun EXCEPT ![r] = Finalized(SubSeq(steps[r], 1, n))]
    /\ listing' = [listing EXCEPT ![r] = IF @ = None THEN None ELSE [@ EXCEPT !.late = TRUE]]
    /\ Unchanged /\ UNCHANGED <<told, steps, waiting, unsent, report, saved, memory, stray>>

\* Its flush is refused: the totals are in the session and, as a flush under way marks what
\* it finds there as sent, not in the database, until the session forgets them, or calls
\* after it send those columns that differ.
FinalizeRefused(r) ==
    /\ OnRun(r) /\ tallies[r] # {}
    /\ unsent' = unsent \cup {r} /\ stray' = TRUE
    /\ tallies' = [tallies EXCEPT ![r] = {}] /\ listing' = [listing EXCEPT ![r] = None]
    /\ Unchanged /\ UNCHANGED <<exRun, told, steps, waiting, report, saved, memory>>

\* generate_evidence_report: the SELECT of the steps, ...
ReportReads(r) ==
    /\ OnRun(r)
    /\ listing' = [listing EXCEPT ![r] = [listed |-> Len(steps[r]), late |-> FALSE]]
    /\ Unchanged
    /\ UNCHANGED <<exRun, told, steps, waiting, tallies, unsent, report, saved, memory, stray>>

\* ... and, the script being read, the totals of the run on the cover.  An upload that fails
\* leaves the report before.
ReportMade(r) ==
    /\ OnRun(r) /\ listing[r] # None
    /\ report' = [report EXCEPT ![r] = [run |-> exRun[r], listed |-> listing[r].listed, late |-> listing[r].late]]
    /\ listing' = [listing EXCEPT ![r] = None]
    /\ Unchanged
    /\ UNCHANGED <<exRun, told, steps, waiting, tallies, unsent, saved, memory, stray>>

\* save_test_script: its first flush.
SaveTestScript(s) ==
    /\ Working("generation") /\ saved[s] = None
    /\ saved' = [saved EXCEPT ![s] = "begun"]
    /\ Unchanged /\ UNCHANGED runVars /\ UNCHANGED <<memory, stray>>

Remember(s, how) == IF how = "cut" THEN memory ELSE memory \cup {s}

\* Its end: with all cases; without those cases and steps that are no objects, and without
\* any if the text is no JSON; or, a value of the wrong shape or a refused flush having
\* raised, cut and answered with an error.
EndTestScript(s) ==
    /\ Working("generation") /\ saved[s] = "begun"
    /\ \E how \in {"whole", "thinned", "cut"} :
        /\ saved' = [saved EXCEPT ![s] = how]
        /\ memory' = Remember(s, how)
    /\ Unchanged /\ UNCHANGED runVars /\ UNCHANGED stray

\* A call raises: its arguments do not fit, its flush or its SELECT is refused.
ToolRaises ==
    /\ Going
    /\ stray' = TRUE
    /\ Unchanged /\ UNCHANGED runVars /\ UNCHANGED <<saved, memory>>

FlushFails ==
    /\ Going
    /\ lost' = TRUE
    /\ UNCHANGED runVars /\ UNCHANGED <<agent, saved, memory, stray, summary, kept>>

NoneOpen == /\ \A r \in ExecutionRuns : tallies[r] = {} /\ listing[r] = None
            /\ \A s \in NewScripts : saved[s] # "begun"

\* run_agent returns, after the last turn or as soon as the executor raised: _tally_outcomes
\* adds up the totals of the runs created, and tallied is the rows it adds up.  On a lost
\* session it raises, and there is no summary.
ReturnOutput ==
    /\ Going /\ summary = None
    /\ stray \/ NoneOpen
    /\ summary' = [tallied |-> [r \in told |-> exRun[r]], scripts |-> memory]
    /\ UNCHANGED runVars /\ UNCHANGED <<agent, saved, memory, stray, lost, kept>>

\* The worker's commit: after a summary, and after a timeout or an error without one.
KeepOutput ==
    /\ ~lost /\ ~kept
    /\ kept' = TRUE
    /\ Inserted
    /\ UNCHANGED <<agent, exRun, told, tallies, unsent, listing, report, saved, memory, stray, lost, summary>>

OutputNext ==
    \/ \E r \in ExecutionRuns :
        \/ CreateExecutionRun(r) \/ SaveStepResult(r)
        \/ FinalizeReads(r) \/ FinalizeExecutionRun(r) \/ FinalizeRefused(r)
        \/ ReportReads(r) \/ ReportMade(r)
    \/ \E s \in NewScripts : SaveTestScript(s) \/ EndTestScript(s)
    \/ FlushRows \/ ToolRaises \/ FlushFails \/ ReturnOutput \/ KeepOutput

OutputSpec == OutputInit /\ [][OutputNext]_outputVars

-----------------------------------------------------------------------------
\* The row's totals are those of the first n step results of the run.
TotalsOf(row, s) ==
    \E n \in 0 .. Len(s) :
        LET counted == SubSeq(s, 1, n) IN
        /\ row.total = n
        /\ row.passed = Count(counted, "passed") /\ row.failed = Count(counted, "failed")
        /\ row.status = "passed" =>
             n > 0 /\ \A o \in {"failed", "blocked"} : Count(counted, o) = 0

\* A run, and every report made of it, has the totals of the steps inserted up to some
\* moment, and is passed only if one was and none of them failed or was blocked, however
\* the model finalizes, reports and saves more steps side by side, and whichever calls are
\* refused, unless it is a finalization of that run that was; a report lists the steps its
\* cover counts, unless a finalization came between the two.
TotalsMatchSteps ==
    \A r \in ExecutionRuns :
        /\ exRun[r] # None /\ r \notin unsent => TotalsOf(exRun[r], steps[r])
        /\ report[r] # None =>
             /\ TotalsOf(report[r].run, steps[r])
             /\ report[r].run.total > report[r].listed => report[r].late

\* What a committed summary reports is in the database, with the exception above: for each
\* run, steps that passed and failed, none before the run is finalized; and scripts with
\* all their cases, but for those that were no objects; a script cut off is never reported.
SummaryMatchesRows ==
    kept /\ summary # None =>
        /\ \A s \in summary.scripts : saved[s] \in {"whole", "thinned"}
        /\ \A r \in DOMAIN summary.tallied \ unsent :
              /\ TotalsOf(summary.tallied[r], steps[r])
              /\ summary.tallied[r].total > 0 => exRun[r].status # "running"

\* What an agent tells of its work agrees with the rows it leaves.
OutputsAgree == TotalsMatchSteps /\ SummaryMatchesRows
=============================================================================
