----------------------------- MODULE Scheduler -----------------------------
(***************************************************************************)
(* Scheduled jobs: the evaluator's passes (scheduler/evaluator.py and      *)
(* scheduler/job_dispatcher.py) and the API requests that trigger, change  *)
(* and deactivate the same jobs (services/scheduler_service.py).           *)
(*                                                                         *)
(* Every pass and every request is one transaction with an ORM session of  *)
(* its own.  A SELECT returns the last committed rows and blocks nobody    *)
(* (Azure SQL reads row versions, and the mssql dialect renders            *)
(* with_for_update as nothing); values are then computed from what was     *)
(* read; a flush sends an UPDATE of just those columns whose value differs *)
(* from the one read, and waits for the row lock.                          *)
(*                                                                         *)
(* Time is counted in ticks; a cron expression is its period.              *)
(***************************************************************************)
EXTENDS Integers, FiniteSets

CONSTANTS
    Jobs,          \* scheduled_jobs rows of one system
    OneShot,       \* those with schedule_type ONE_SHOT; the others are RECURRING
    Periods,       \* the cron expressions in use
    Limits,        \* the values of max_failures in use
    Zones,         \* the UTC offsets a run_at may be given in, in ticks
    JobsPerPass,   \* settings.scheduler_max_jobs_per_cycle
    Evaluators,    \* scheduler processes
    Requests,      \* API requests that may be in progress at the same time
    MaxTime,       \* bound on the clock, for TLC
    MaxRequests,   \* bound on the number of API requests, for TLC
    MaxFaults      \* bound on rolled back passes, for TLC

ASSUME JobsAssumption == IsFiniteSet(Jobs) /\ OneShot \subseteq Jobs
ASSUME PeriodAssumption == Periods \subseteq Nat \ {0} /\ Periods # {}
ASSUME LimitAssumption == Limits \subseteq Nat \ {0} /\ Limits # {}
ASSUME ZoneAssumption == Zones \subseteq Int /\ 0 \in Zones
ASSUME CountAssumption ==
    /\ JobsPerPass \in Nat \ {0}
    /\ {MaxTime, MaxRequests, MaxFaults} \subseteq Nat
ASSUME TxAssumption == Evaluators \cap Requests = {}

Tx == Evaluators \cup Requests

VARIABLES
    now,       \* the clock
    job,       \* job[j]: the committed row of job j
    seen,      \* seen[t]: the rows transaction t has read, as it read them
    mine,      \* mine[t]: the rows it has changed in its session
    flushed,   \* flushed[e]: the jobs whose rows the pass of e has updated
    requests,  \* API requests so far
    faults,    \* rolled back passes so far
    fired,     \* fired[j]: the windows for which passes have fired j since a request
               \* last triggered or rescheduled it (history)
    refused    \* refused[j]: failed dispatches of j that passes have committed (history)

vars == <<now, job, seen, mine, flushed, requests, faults, fired, refused>>

\* last_run_at 0 is NULL: no window is that early.
Row == [active : BOOLEAN, period : Periods, next : Nat, last : Nat, fails : Nat, max : Limits]

\* A session: a row for each job of some set.
IsSession(s) ==
    /\ DOMAIN s \subseteq Jobs
    /\ s = [j \in DOMAIN s |-> s[j]]
    /\ \A j \in DOMAIN s : s[j] \in Row

Empty == [j \in {} |-> 0]

TypeOK ==
    /\ now \in Nat
    /\ job \in [Jobs -> Row]
    /\ seen = [t \in Tx |-> seen[t]] /\ mine = [t \in Tx |-> mine[t]]
    /\ \A t \in Tx : IsSession(seen[t]) /\ IsSession(mine[t])
    /\ flushed \in [Evaluators -> SUBSET Jobs]
    /\ requests \in Nat /\ faults \in Nat
    /\ fired \in [Jobs -> SUBSET Nat]
    /\ refused \in [Jobs -> Nat]

\* compute_next_run: the first multiple of the period after t.
NextRun(p, t) == (t \div p + 1) * p

\* The next_run_at a one-shot may be given at time t: its run_at is compared with the
\* clock as the instant it stands for, and stored as the wall clock time it shows, without
\* being converted to UTC (a naive run_at is the offset 0).  No stored time is before 1.
RunAts(t) == {n \in {at + z : at \in t + 1 .. MaxTime, z \in Zones} : n > 0}

\* create_scheduled_job: active, due at its first window (a one-shot's run_at).
NoCron == CHOOSE p \in Periods : TRUE   \* a one-shot's, never looked at

FirstRows ==
    [active : {TRUE}, period : Periods, next : RunAts(0) \cup {NextRun(p, 0) : p \in Periods},
     last : {0}, fails : {0}, max : Limits]

Created(j, row) ==
    IF j \in OneShot
      THEN row.next \in RunAts(0) /\ row.period = NoCron
      ELSE row.next = NextRun(row.period, 0)

Init ==
    /\ now = 0
    /\ job \in [Jobs -> FirstRows]
    /\ \A j \in Jobs : Created(j, job[j])
    /\ seen = [t \in Tx |-> Empty]
    /\ mine = [t \in Tx |-> Empty]
    /\ flushed = [e \in Evaluators |-> {}]
    /\ requests = 0 /\ faults = 0
    /\ fired = [j \in Jobs |-> {}]
    /\ refused = [j \in Jobs |-> 0]

-----------------------------------------------------------------------------
(* Sessions.                                                               *)

With(session, j, row) == [k \in DOMAIN session \cup {j} |-> IF k = j THEN row ELSE session[k]]

\* Mutant: the UPDATE sets every column of the row.
WriteAll(base, read, new) == new

\* What a transaction that has read and changed a row leaves of the committed one.
Write(base, read, new) ==
    LET column(b, r, n) == IF n = r THEN b ELSE n
    IN  [active |-> column(base.active, read.active, new.active),
         period |-> column(base.period, read.period, new.period),
         next   |-> column(base.next, read.next, new.next),
         last   |-> column(base.last, read.last, new.last),
         fails  |-> column(base.fails, read.fails, new.fails),
         max    |-> column(base.max, read.max, new.max)]

\* Commit the rows t has changed, and end the transaction.
Commit(t) ==
    /\ job' = [j \in Jobs |-> IF j \in DOMAIN mine[t]
                               THEN Write(job[j], seen[t][j], mine[t][j]) ELSE job[j]]
    /\ seen' = [seen EXCEPT ![t] = Empty]
    /\ mine' = [mine EXCEPT ![t] = Empty]

Locked(j) == \E e \in Evaluators : j \in flushed[e]

\* Mutant: a fired one-shot loses its next_run_at.
FiredClearsWindow(j, row) ==
    IF j \in OneShot
      THEN [row EXCEPT !.last = now, !.active = FALSE, !.next = -1]
      ELSE [row EXCEPT !.last = now, !.next = NextRun(row.period, now)]

\* dispatch_scheduled_job: the run is dispatched and the job moves on.
Fired(j, row) ==
    IF j \in OneShot
      THEN [row EXCEPT !.last = now, !.active = FALSE]
      ELSE [row EXCEPT !.last = now, !.next = NextRun(row.period, now)]

\* Mutants: a failed dispatch does not count; the limit is compared too early.
RefusedUncounted(row) == row
RefusedEarly(row) == [row EXCEPT !.fails = @ + 1, !.active = @ /\ row.fails + 2 < row.max]

\* The except branch of run_once: dispatch_scheduled_job raised on an unusable
\* job_config, such as an execution job for which no script is due (no script_id).
\* Neither last_run_at nor next_run_at moves.  The limit is the one the pass has read.
Refused(row) == [row EXCEPT !.fails = @ + 1, !.active = @ /\ row.fails + 1 < row.max]

-----------------------------------------------------------------------------
(* A pass: one transaction for up to JobsPerPass jobs, oldest window first. *)

\* Mutant: no guard against firing within the same window.
DueAnyway(row) == row.active /\ row.next <= now

Due(row) == row.active /\ row.next <= now /\ row.last < row.next

DueJobs == {j \in Jobs : Due(job[j])}

Select(e) ==
    /\ seen[e] = Empty
    /\ \E S \in SUBSET DueJobs :
        /\ S # {}
        /\ Cardinality(S) <= JobsPerPass
        /\ S = DueJobs \/ Cardinality(S) = JobsPerPass
        /\ \A j \in S, k \in DueJobs \ S : job[j].next <= job[k].next
        /\ seen' = [seen EXCEPT ![e] = [j \in S |-> job[j]]]
    /\ UNCHANGED <<now, job, mine, flushed, requests, faults, fired, refused>>

ToDo(e) == DOMAIN seen[e] \ DOMAIN mine[e]

\* The pass takes up its next job: it is dispatched, or its dispatch is refused.
\* Everything before it has been flushed by then.
Dispatch(e) ==
    /\ flushed[e] = DOMAIN mine[e]
    /\ \E j \in ToDo(e) :
        /\ \A k \in ToDo(e) : seen[e][j].next <= seen[e][k].next
        /\ \E row \in {Fired(j, seen[e][j]), Refused(seen[e][j])} :
            mine' = [mine EXCEPT ![e] = With(@, j, row)]
    /\ UNCHANGED <<now, job, seen, flushed, requests, faults, fired, refused>>

\* The UPDATE waits for another pass that has written the row.
Flush(e) ==
    /\ \E j \in DOMAIN mine[e] \ flushed[e] :
        /\ ~Locked(j)
        /\ flushed' = [flushed EXCEPT ![e] = @ \cup {j}]
    /\ UNCHANGED <<now, job, seen, mine, requests, faults, fired, refused>>

HasFired(e, j) == j \in DOMAIN mine[e] /\ mine[e][j].fails = seen[e][j].fails
HasRefused(e, j) == j \in DOMAIN mine[e] /\ mine[e][j].fails # seen[e][j].fails

CommitPass(e) ==
    /\ seen[e] # Empty /\ ToDo(e) = {} /\ flushed[e] = DOMAIN mine[e]
    /\ Commit(e)
    /\ flushed' = [flushed EXCEPT ![e] = {}]
    /\ fired' = [j \in Jobs |->
                    IF HasFired(e, j) THEN fired[j] \cup {seen[e][j].next} ELSE fired[j]]
    /\ refused' = [j \in Jobs |-> IF HasRefused(e, j) THEN refused[j] + 1 ELSE refused[j]]
    /\ UNCHANGED <<now, requests, faults>>

\* A database error anywhere in the pass, or the death of the process: every
\* job of the pass keeps its row, though messages may have been published.
RollbackPass(e) ==
    /\ seen[e] # Empty /\ faults < MaxFaults
    /\ faults' = faults + 1
    /\ seen' = [seen EXCEPT ![e] = Empty]
    /\ mine' = [mine EXCEPT ![e] = Empty]
    /\ flushed' = [flushed EXCEPT ![e] = {}]
    /\ UNCHANGED <<now, job, requests, fired, refused>>

-----------------------------------------------------------------------------
(* API requests: read the row, compute, then flush and commit.             *)

\* A request that has read job j and will commit a row of the given set.  One that changes
\* nothing sends no UPDATE.
Request(a, j, rows) ==
    /\ seen[a] = Empty /\ requests < MaxRequests
    /\ requests' = requests + 1
    /\ \E row \in rows \ {job[j]} :
        /\ seen' = [seen EXCEPT ![a] = With(@, j, job[j])]
        /\ mine' = [mine EXCEPT ![a] = With(@, j, row)]
    /\ UNCHANGED <<now, job, flushed, faults, fired, refused>>

\* trigger_now does not look at is_active, and moves the window on as a pass does.
TriggerNow(a, j) == Request(a, j, {Fired(j, job[j])})

\* The schedule a PATCH leaves: the old one, or a new cron expression, time zone or run_at.
\* is_active = true alone keeps the window.
Rescheduled(j) ==
    {job[j]} \cup
    IF j \in OneShot
      THEN {[job[j] EXCEPT !.next = n] : n \in RunAts(now)}
      ELSE {[job[j] EXCEPT !.period = p, !.next = NextRun(p, now)] : p \in Periods}

\* update_scheduled_job: any of the schedule, is_active = true and max_failures; the failure
\* count is kept.  (is_active = false is Deactivate.)
Update(a, j) ==
    \E row \in Rescheduled(j), on \in {job[j].active, TRUE}, m \in Limits :
        Request(a, j, {[row EXCEPT !.active = on, !.max = m]})

\* deactivate_scheduled_job, or update_scheduled_job with is_active = false.
Deactivate(a, j) == Request(a, j, {[job[j] EXCEPT !.active = FALSE]})

\* A trigger or a reschedule, as against a change of is_active.
Moves(a, j) ==
    /\ j \in DOMAIN mine[a]
    /\ mine[a][j].last # seen[a][j].last \/ mine[a][j].next # seen[a][j].next

CommitRequest(a) ==
    /\ seen[a] # Empty
    /\ \A j \in DOMAIN mine[a] : ~Locked(j)
    /\ Commit(a)
    /\ fired' = [j \in Jobs |-> IF Moves(a, j) THEN {} ELSE fired[j]]
    /\ UNCHANGED <<now, flushed, requests, faults, refused>>

\* The handler raises after its flush, and get_db rolls back: the dispatch of a
\* trigger failed, or ScheduledJobRead.model_validate(job) needed updated_at,
\* which an UPDATE leaves expired (TimestampMixin's onupdate is an SQL function)
\* and an async session does not reload by itself.
RollbackRequest(a) ==
    /\ seen[a] # Empty
    /\ seen' = [seen EXCEPT ![a] = Empty]
    /\ mine' = [mine EXCEPT ![a] = Empty]
    /\ UNCHANGED <<now, job, flushed, requests, faults, fired, refused>>

-----------------------------------------------------------------------------
Tick ==
    /\ now < MaxTime
    /\ now' = now + 1
    /\ UNCHANGED <<job, seen, mine, flushed, requests, faults, fired, refused>>

Pass(e) == Select(e) \/ Dispatch(e) \/ Flush(e) \/ CommitPass(e)

Next ==
    \/ \E e \in Evaluators : Pass(e) \/ RollbackPass(e)
    \/ \E a \in Requests, j \in Jobs :
        TriggerNow(a, j) \/ Update(a, j) \/ Deactivate(a, j)
    \/ \E a \in Requests : CommitRequest(a) \/ RollbackRequest(a)
    \/ Tick

Spec == Init /\ [][Next]_vars

\* start() calls run_once for ever and a pass does not wait for requests.
FairSpec == Spec /\ \A e \in Evaluators : WF_vars(Pass(e))

-----------------------------------------------------------------------------
(* Properties.                                                             *)

\* The failure counter is exact while there is one evaluator: no request in
\* between makes it lose or repeat a refused dispatch, and nothing else in the
\* code writes it, so max_failures counts refusals over the job's whole life.
FailuresExact == \A j \in Jobs : job[j].fails = refused[j]

\* Requests that will set is_active when they commit.
Activating(j) == {a \in Requests : j \in DOMAIN mine[a] /\ mine[a][j].active # seen[a][j].active
                                                        /\ mine[a][j].active}

\* A deactivated job stays so until a request to activate it commits: a pass or
\* a trigger that read the row earlier does not bring it back.
DeactivationSticks ==
    [][\A j \in Jobs : ~job[j].active /\ Activating(j) = {} => ~job'[j].active]_vars

\* A pass disables a recurring job only when its failures have reached the limit the pass
\* has read, however stale the rest of that row; that is the job's limit, unless a request
\* has changed it since, and then the new limit stands although the job is disabled.
DisabledOnlyAtLimit ==
    [][\A e \in Evaluators, j \in Jobs \ OneShot :
        (seen[e] # Empty /\ seen'[e] = Empty /\ job[j].active /\ ~job'[j].active)
            => /\ job'[j].fails >= seen[e][j].max
               /\ job'[j].max = job[j].max
               /\ job[j].max = seen[e][j].max => job'[j].fails >= job'[j].max]_vars

\* evaluator.py:48-49, "prevents double-firing": passes fire no window of a job
\* twice, whatever rollbacks, activations and deactivations come between, unless
\* a request has triggered or rescheduled it since.
WindowFiredOnce ==
    [][\A e \in Evaluators, j \in Jobs :
        CommitPass(e) /\ HasFired(e, j) => seen[e][j].next \notin fired[j]]_vars

\* Every due job is fired, disabled or rescheduled in the end: neither jobs
\* whose dispatch is always refused, ahead of it in the order, nor rolled back
\* passes starve it.
DueIsServed == \A j \in Jobs : Due(job[j]) ~> ~Due(job[j])

-----------------------------------------------------------------------------
(* What the documents say, and the code does not do.                       *)

\* docs/SCHEDULING.md:218, of the trigger endpoint: "Does not affect
\* `next_run_at`".  It does when the trigger overtakes a window that is due and
\* that no pass has taken up yet: that window is then never fired.
TriggerKeepsWindow ==
    [][\A a \in Requests, j \in Jobs :
        (CommitRequest(a) /\ j \in DOMAIN mine[a] /\ mine[a][j].last # seen[a][j].last)
            => job'[j].next = job[j].next]_vars
=============================================================================
