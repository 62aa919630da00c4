------------------------------- MODULE Usage -------------------------------
(***************************************************************************)
(* Monthly quotas and the token roll-up of one company                     *)
(* (services/usage_service.py): the check every manual dispatch makes      *)
(* before it inserts its run (services/agent_dispatcher.py), the plan that *)
(* administrators and Stripe change, and the daily usage row to which      *)
(* every agent adds its tokens at the end (agents/base.py).                *)
(*                                                                         *)
(* A transaction reads what others have committed, and what it has itself  *)
(* flushed; nothing is locked by reading.  One month, one day and one      *)
(* agent type: roll-up rows of different types and days do not interact.   *)
(* A run is executed to its commit once; the duplicate execution AgentRuns *)
(* admits uses tokens of its own, and counts here as a run of its own.     *)
(***************************************************************************)
EXTENDS Integers, FiniteSets, FiniteSetsExt

CONSTANTS
    Runs,            \* the agent runs that may be created this month
    Requests,        \* API transactions that dispatch runs, each as many as it likes
    Passes,          \* scheduler transactions, whose runs are not checked
    NoLimit,         \* None: no limit in a tier, no override in a plan
    FreeRuns,        \* the free tier's monthly_agent_run_limit
    FreeTokens,      \* the free tier's monthly_token_limit
    Overrides,       \* the values of monthly_agent_run_limit a plan update may carry
    TokensPerRun,    \* prompt and completion tokens an agent uses
    MaxUpserts       \* bound on the number of plan updates, for TLC

ASSUME RunAssumption == IsFiniteSet(Runs)
ASSUME TxAssumption == Requests \cap Passes = {}
ASSUME LimitAssumption ==
    /\ NoLimit \notin Nat
    /\ {FreeRuns, FreeTokens, TokensPerRun, MaxUpserts} \subseteq Nat
    /\ Overrides \subseteq Nat \cup {NoLimit}

Tx == Requests \cup Passes
Limit == Nat \cup {NoLimit}

\* _TIER_DEFAULTS; the pro tier differs from the free one by its numbers only.
Tiers == {"free", "enterprise"}

VARIABLES
    plan,       \* the company_plans row; no row is a free plan without overrides
    upserts,    \* plan updates so far
    inserted,   \* inserted[t]: the runs transaction t has flushed and not committed
    phase,      \* phase[r]: where run r, and the agent executing it, stands
    target,     \* target[r]: the usage row r's agent will write, named after its inserter
    snap,       \* snap[r]: the runs counted in that row when the agent read it
    usage,      \* usage[i]: the runs counted in the row that i inserted; {} if there is none
    limits,     \* every run limit that has been in force (history)
    stale,      \* stale[t]: runs were committed after t's last quota check (history)
    exempt,     \* runs committed by passes or by stale transactions (history)
    raced       \* runs whose agents' read-to-commit intervals overlapped (history)

dispatchVars == <<inserted, limits, stale, exempt>>
planVars == <<plan, upserts>>
usageVars == <<target, snap, usage, raced>>
vars == <<planVars, dispatchVars, phase, usageVars>>

Plan == [tier : Tiers, runs : Limit]

TypeOK ==
    /\ plan \in Plan
    /\ upserts \in Nat
    /\ inserted \in [Tx -> SUBSET Runs]
    /\ phase \in [Runs -> {"new", "inserted", "ready", "read", "flushed", "done", "lost"}]
    /\ target \in [Runs -> Runs]
    /\ snap \in [Runs -> SUBSET Runs]
    /\ usage \in [Runs -> SUBSET Runs]
    /\ limits \subseteq Limit
    /\ stale \in [Tx -> BOOLEAN]
    /\ exempt \subseteq Runs
    /\ raced \subseteq Runs

-----------------------------------------------------------------------------
(* Limits.                                                                 *)

\* An unknown tier counts as free.
DefaultRuns(tier) == IF tier = "enterprise" THEN NoLimit ELSE FreeRuns
DefaultTokens(tier) == IF tier = "enterprise" THEN NoLimit ELSE FreeTokens

\* _effective_limits: a stored column wins if it is set.
Stored(column, default) == IF column # NoLimit THEN column ELSE default
RunLimit == Stored(plan.runs, DefaultRuns(plan.tier))
TokenLimit == DefaultTokens(plan.tier)

\* get_quota_status: the percentage is rounded to one decimal (half up, at these
\* magnitudes) before it is compared with 100.
Exceeded(used, limit) ==
    limit # NoLimit /\ (limit = 0 \/ 2000 * used >= 1999 * limit)

Committed == {r \in Runs : phase[r] \notin {"new", "inserted"}}

\* Mutant: the runs are counted in a session of their own.
RunsUsedElsewhere(t) == Cardinality(Committed)

\* Every row of the month counts, whatever its status or trigger.
RunsUsed(t) == Cardinality(Committed \cup inserted[t])

TokensUsed == TokensPerRun * MapThenSumSet(LAMBDA i : Cardinality(usage[i]), Runs)

AgentRunAllowed(t) == ~Exceeded(RunsUsed(t), RunLimit) /\ ~Exceeded(TokensUsed, TokenLimit)

Init ==
    /\ plan = [tier |-> "free", runs |-> NoLimit]
    /\ upserts = 0
    /\ inserted = [t \in Tx |-> {}]
    /\ phase = [r \in Runs |-> "new"]
    /\ target = [r \in Runs |-> r]
    /\ snap = [r \in Runs |-> {}]
    /\ usage = [r \in Runs |-> {}]
    /\ limits = {FreeRuns}
    /\ stale = [t \in Tx |-> FALSE]
    /\ exempt = {}
    /\ raced = {}

\* Mutant: the tier is not validated.
UpsertPlanUnchecked(tier, runs) ==
    /\ upserts < MaxUpserts
    /\ upserts' = upserts + 1
    /\ plan' = [tier |-> tier, runs |-> Stored(runs, plan.runs)]
    /\ limits' = limits \cup {Stored(plan'.runs, DefaultRuns(tier))}
    /\ UNCHANGED <<inserted, stale, exempt, phase, usageVars>>

\* upsert_plan: a limit that is not given is kept, so it cannot be removed.
UpsertPlan(tier, runs) ==
    /\ upserts < MaxUpserts
    /\ tier \in Tiers
    /\ upserts' = upserts + 1
    /\ plan' = [tier |-> tier, runs |-> Stored(runs, plan.runs)]
    /\ limits' = limits \cup {Stored(plan'.runs, DefaultRuns(tier))}
    /\ UNCHANGED <<inserted, stale, exempt, phase, usageVars>>

-----------------------------------------------------------------------------
(* Dispatching.                                                            *)

\* A refusal is an exception: the request ends, or, in execute_all, goes on to
\* its next script.  Nothing is written either way.
Dispatch(t, r) ==
    /\ phase[r] = "new"
    /\ t \in Passes \/ AgentRunAllowed(t)
    /\ phase' = [phase EXCEPT ![r] = "inserted"]
    /\ inserted' = [inserted EXCEPT ![t] = @ \cup {r}]
    /\ stale' = [stale EXCEPT ![t] = FALSE]
    /\ UNCHANGED <<planVars, limits, exempt, usageVars>>

CommitDispatch(t) ==
    /\ inserted[t] # {}
    /\ phase' = [r \in Runs |-> IF r \in inserted[t] THEN "ready" ELSE phase[r]]
    /\ inserted' = [inserted EXCEPT ![t] = {}]
    /\ stale' = [u \in Tx |-> u # t]
    /\ exempt' = IF t \in Passes \/ stale[t] THEN exempt \cup inserted[t] ELSE exempt
    /\ UNCHANGED <<planVars, limits, usageVars>>

RollbackDispatch(t) ==
    /\ inserted[t] # {}
    /\ phase' = [r \in Runs |-> IF r \in inserted[t] THEN "new" ELSE phase[r]]
    /\ inserted' = [inserted EXCEPT ![t] = {}]
    /\ UNCHANGED <<planVars, limits, stale, exempt, usageVars>>

-----------------------------------------------------------------------------
(* The end of an agent: _upsert_token_usage, then the worker's commit.     *)

Rows == {i \in Runs : usage[i] # {}}

\* Mutant: the day's totals are carried over into a new row.
RowForNew(r) == r

\* The row to add to: the one that was found, or one of r's own.
RowFor(r) == IF Rows = {} THEN r ELSE CHOOSE i \in Rows : TRUE

ReadUsage(r) ==
    /\ phase[r] = "ready"
    /\ Cardinality(Rows) < 2
    /\ phase' = [phase EXCEPT ![r] = "read"]
    /\ target' = [target EXCEPT ![r] = RowFor(r)]
    /\ snap' = [snap EXCEPT ![r] = UNION {usage[i] : i \in Rows}]
    /\ UNCHANGED <<planVars, dispatchVars, usage, raced>>

\* scalar_one_or_none raises on two rows; the worker still commits the run.
ReadUsageFails(r) ==
    /\ phase[r] = "ready"
    /\ Cardinality(Rows) >= 2
    /\ phase' = [phase EXCEPT ![r] = "done"]
    /\ UNCHANGED <<planVars, dispatchVars, usageVars>>

\* The flush: an INSERT waits for nobody, an UPDATE for the row's other writer.
FlushUsage(r) ==
    /\ phase[r] = "read"
    /\ \A x \in Runs : phase[x] = "flushed" => target[x] # target[r]
    /\ phase' = [phase EXCEPT ![r] = "flushed"]
    /\ UNCHANGED <<planVars, dispatchVars, usageVars>>

\* Mutant: the totals are set instead of added to.
TotalSet(r) == {r}

\* prompt_tokens += ... is computed in Python from what was read.
Total(r) == snap[r] \cup {r}

CommitUsage(r) ==
    /\ phase[r] = "flushed"
    /\ phase' = [phase EXCEPT ![r] = "done"]
    /\ usage' = [usage EXCEPT ![target[r]] = Total(r)]
    /\ LET others == {x \in Runs \ {r} : phase[x] \in {"read", "flushed"}}
       IN  raced' = IF others = {} THEN raced ELSE raced \cup others \cup {r}
    /\ UNCHANGED <<planVars, dispatchVars, target, snap>>

\* The worker dies or its commit fails: the run is executed again, or never.
RollbackUsage(r) ==
    /\ phase[r] \in {"read", "flushed"}
    /\ \E p \in {"ready", "lost"} : phase' = [phase EXCEPT ![r] = p]
    /\ UNCHANGED <<planVars, dispatchVars, usageVars>>

Next ==
    \/ \E tier \in Tiers \cup {"unknown"}, runs \in Overrides : UpsertPlan(tier, runs)
    \/ \E t \in Tx : CommitDispatch(t) \/ RollbackDispatch(t) \/ \E r \in Runs : Dispatch(t, r)
    \/ \E r \in Runs :
        \/ ReadUsage(r) \/ ReadUsageFails(r) \/ FlushUsage(r)
        \/ CommitUsage(r) \/ RollbackUsage(r)

Spec == Init /\ [][Next]_vars

-----------------------------------------------------------------------------
(* Properties.                                                             *)

\* The quota holds for all runs but those the scheduler dispatched and those of
\* requests overtaken by another commit between their last check and their own:
\* a request that dispatches many runs counts its own, a rolled back one counts
\* for nothing, and a plan change in between cannot admit more than one of the
\* plans did.
QuotaExact ==
    NoLimit \in limits \/ \E l \in limits : Cardinality(Committed \ exempt) <= l

\* No run's tokens are counted in two rows, or before its agent's transaction
\* has committed, whatever lost updates, duplicate rows and repeated executions
\* there are: recorded usage never exceeds what was used.
BilledOnce ==
    /\ \A i, k \in Runs : i # k => usage[i] \cap usage[k] = {}
    /\ \A i \in Runs : \A r \in usage[i] : phase[r] = "done"

\* Recorded usage falls short only by races: a second row exists only if every
\* inserting agent overlapped another one, and as long as there is none, the
\* tokens of every agent that overlapped nobody are counted.
LostOnlyByRaces ==
    /\ Cardinality(Rows) > 1 => Rows \subseteq raced
    /\ Cardinality(Rows) <= 1 =>
        \A r \in Runs : phase[r] = "done" /\ r \notin raced => \E i \in Rows : r \in usage[i]

-----------------------------------------------------------------------------
(* What the documents say, and the code does not do.                       *)

\* docs/DATA_MODEL.md:441, "UNIQUE (company_id, agent_type, usage_date)": the
\* migration creates no such constraint, and two agents may both insert a row.
OneRowPerDay == Cardinality(Rows) <= 1
=============================================================================
