----------------------------- MODULE JobPlans -----------------------------
(***************************************************************************)
(* The scheduled jobs of one system: how many may be active                *)
(* (services/scheduler_service.py), and how one of them, an execution job, *)
(* fans out into a run per script (scheduler/job_dispatcher.py).  Windows  *)
(* and overlapping passes are module Scheduler's; here a pass takes up the *)
(* job any number of times, and ends with the commit of what it did.       *)
(***************************************************************************)
EXTENDS Sessions, Integers, FiniteSets, Sequences

CONSTANTS
    Plans,          \* scheduled_jobs rows that may be created
    FanJob,         \* the one that is dispatched
    PlanLimit,      \* _MAX_ACTIVE_JOBS_PER_SYSTEM
    FanScripts,     \* scripts of the system
    FanConfigs,     \* the job_configs that a PATCH may give FanJob
    FanLimit,       \* max_failures of FanJob
    PlanRequests,   \* API requests in progress at the same time
    MaxPlanRequests, MaxAttempts    \* bounds on the requests, and on the dispatches (TLC)

\* What a list of script ids may hold: an id, or anything else, for which UUID() raises.
Entries == FanScripts \cup {None}

\* With auto_execute_approved the list is made when the dispatch begins; without any list
\* there is script_id, which may be missing (None: KeyError).
FanConfig == [auto : BOOLEAN, script_ids : Seq(Entries), script_id : Entries]

ASSUME PlanAssumption ==
    /\ FanConfigs \subseteq FanConfig /\ IsFiniteSet(FanScripts) /\ None \notin FanScripts
    /\ IsFiniteSet(Plans) /\ FanJob \in Plans /\ None \notin Plans
    /\ {PlanLimit, FanLimit} \subseteq Nat \ {0}

VARIABLES
    created,      \* the rows there are
    activePlans,  \* those with is_active
    pReq,         \* pReq[q]: the row a request will write, and the active rows it counted
    pRequests,    \* requests so far
    attempt,      \* the dispatch of FanJob in progress
    attempts,     \* dispatches so far
    fails,        \* failure_count of FanJob
    planRuns,     \* planRuns[s]: the agent runs committed for script s
    owed,         \* owed[s]: how often s was in the list of a dispatch that counted as a
                  \* success (history)
    partial,      \* partial[s]: the same, of those counted as failures (history)
    excused       \* rows activated by a PATCH, or created while others were (history)

planVars == <<created, activePlans, pReq, pRequests, attempt, attempts,
              fails, planRuns, owed, partial, excused>>

PlanSession == [plan : Plans, activate : BOOLEAN, creates : BOOLEAN, counted : Nat]
Attempt == [by : {"pass", "api"}, list : Seq(Entries), done : Nat]

PlanTypeOK ==
    /\ created \subseteq Plans /\ activePlans \subseteq created
    /\ pReq \in [PlanRequests -> PlanSession \cup {None}] /\ pRequests \in Nat
    /\ attempt \in Attempt \cup {None} /\ attempts \in Nat
    /\ fails \in Nat
    /\ {planRuns, owed, partial} \subseteq [FanScripts -> Nat]
    /\ excused \subseteq Plans

PlanInit ==
    /\ created = {} /\ activePlans = {}
    /\ pReq = [q \in PlanRequests |-> None] /\ pRequests = 0
    /\ attempt = None /\ attempts = 0 /\ fails = 0
    /\ planRuns = [s \in FanScripts |-> 0] /\ owed = planRuns /\ partial = planRuns
    /\ excused = {}

fanVars == <<attempt, attempts, fails, planRuns, owed, partial>>

-----------------------------------------------------------------------------
(* Which jobs are active.                                                  *)

PlanRequest(q, p, on, creates) ==
    /\ pReq[q] = None /\ pRequests < MaxPlanRequests
    /\ pRequests' = pRequests + 1
    /\ pReq' = [pReq EXCEPT ![q] = [plan |-> p, activate |-> on, creates |-> creates,
                                   counted |-> Cardinality(activePlans)]]
    /\ UNCHANGED <<created, activePlans, excused, fanVars>>

\* Mutant: one job too many.
RoomForOneMore(n) == n <= PlanLimit
\* _check_active_job_limit
Room(n) == n < PlanLimit

\* create_scheduled_job: counted even if the job is created inactive.
CreatePlan(q) ==
    \E p \in Plans \ created, b \in BOOLEAN :
        /\ \A r \in PlanRequests : pReq[r] # None => pReq[r].plan # p
        /\ Room(Cardinality(activePlans))
        /\ PlanRequest(q, p, b, TRUE)

\* update_scheduled_job with is_active, and deactivate_scheduled_job: nothing is counted.
SetPlanActive(q) ==
    \E p \in created, b \in BOOLEAN :
        PlanRequest(q, p, b, FALSE)

CommitPlan(q) ==
    /\ pReq[q] # None
    /\ LET s == pReq[q] IN
        /\ created' = created \cup {s.plan}
        /\ activePlans' = IF s.activate THEN activePlans \cup {s.plan} ELSE activePlans \ {s.plan}
        /\ excused' =
             IF s.activate /\ (~s.creates \/ Cardinality(activePlans) > s.counted)
             THEN excused \cup {s.plan} ELSE excused
    /\ pReq' = [pReq EXCEPT ![q] = None]
    /\ UNCHANGED <<pRequests, fanVars>>

RollbackPlan(q) ==
    /\ pReq[q] # None
    /\ pReq' = [pReq EXCEPT ![q] = None]
    /\ UNCHANGED <<created, activePlans, pRequests, excused, fanVars>>

-----------------------------------------------------------------------------
(* A dispatch of FanJob: one session, one commit.                          *)

limitVars == <<created, pReq, pRequests, excused>>

\* _approved_scripts_not_recently_run: any of the system's scripts, in any order.
ApprovedNotRecentlyRun ==
    {l \in UNION {[1 .. n -> FanScripts] : n \in 0 .. Cardinality(FanScripts)} :
        \A a, b \in DOMAIN l : l[a] = l[b] => a = b}

\* _resolve_config, and the single script_id where that leaves no script to list.
Resolved(config) ==
    {IF l = <<>> THEN <<config.script_id>> ELSE l :
        l \in IF config.auto THEN ApprovedNotRecentlyRun ELSE {config.script_ids}}

\* The list is made once; a pass takes up active jobs only, trigger_now any.
BeginDispatch ==
    /\ attempt = None /\ attempts < MaxAttempts /\ FanJob \in created
    /\ attempts' = attempts + 1
    /\ \E by \in {"pass", "api"}, config \in FanConfigs : \E l \in Resolved(config) :
        /\ by = "pass" => FanJob \in activePlans
        /\ attempt' = [by |-> by, list |-> l, done |-> 0]
    /\ UNCHANGED <<limitVars, activePlans, fails, planRuns, owed, partial>>

\* One turn of the loop in _dispatch_for_type.
DispatchScript ==
    /\ attempt # None /\ attempt.done < Len(attempt.list)
    /\ attempt.list[attempt.done + 1] # None
    /\ attempt' = [attempt EXCEPT !.done = @ + 1]
    /\ UNCHANGED <<limitVars, activePlans, attempts, fails, planRuns, owed, partial>>

\* How often s is among the first n of a list.
Times(s, list, n) == Cardinality({m \in 1 .. n : list[m] = s})

\* The runs are committed with whatever else the session has done.
KeepRuns ==
    planRuns' = [s \in FanScripts |-> planRuns[s] + Times(s, attempt.list, attempt.done)]

\* Mutant: a script whose dispatch raises is skipped, as execute_all skips it.
SomeDone(a) == a.done > 0
AllDone(a) == a.done = Len(a.list)

DispatchSucceeds ==
    /\ attempt # None /\ AllDone(attempt)
    /\ KeepRuns
    /\ owed' = [s \in FanScripts |-> owed[s] + Times(s, attempt.list, Len(attempt.list))]
    /\ attempt' = None
    /\ UNCHANGED <<limitVars, activePlans, attempts, fails, partial>>

\* The next entry is no id: UUID() raises.  The pass counts the failure and goes on; the
\* runs dispatched before it stay.
DispatchFails ==
    /\ attempt # None /\ attempt.by = "pass"
    /\ attempt.done < Len(attempt.list) /\ attempt.list[attempt.done + 1] = None
    /\ KeepRuns
    /\ partial' = [s \in FanScripts |-> partial[s] + Times(s, attempt.list, Len(attempt.list))]
    /\ fails' = fails + 1
    /\ activePlans' = IF fails + 1 >= FanLimit THEN activePlans \ {FanJob} ELSE activePlans
    /\ attempt' = None
    /\ UNCHANGED <<limitVars, attempts, owed>>

\* The exception leaves trigger_now, or the commit fails.
DispatchRollsBack ==
    /\ attempt # None
    /\ attempt' = None
    /\ UNCHANGED <<limitVars, activePlans, attempts, fails, planRuns, owed, partial>>

PlanNext ==
    \/ \E q \in PlanRequests :
        CreatePlan(q) \/ SetPlanActive(q) \/ CommitPlan(q) \/ RollbackPlan(q)
    \/ BeginDispatch \/ DispatchScript \/ DispatchSucceeds \/ DispatchFails
    \/ DispatchRollsBack

PlanSpec == PlanInit /\ [][PlanNext]_planVars

-----------------------------------------------------------------------------
\* A system has at most PlanLimit active jobs and those that got round the count: a job
\* activated by a PATCH, or created while another request activated one
\* (_check_active_job_limit counts before the insert).
ActiveJobsLimited ==
    Cardinality(activePlans) <= PlanLimit + Cardinality(excused \cap activePlans)

\* Every dispatch that counts as a success has a run for each entry of its list, a script
\* listed twice has two, and a dispatch that failed has left at most that many, though it
\* keeps the runs of the entries before the one that raised (_dispatch_for_type).
FanOutAccounted ==
    \A s \in FanScripts : planRuns[s] \in owed[s] .. owed[s] + partial[s]
=============================================================================
