# KAATS: verification project

TLA+ specifications of the KAATS test platform (`src/backend`), model-checked with TLC, with
proofs checked by TLAPS. Paths below are relative to `src/backend/app` unless they start with
`src/`.

## 1. The system

KAATS lets AI agents crawl a web application, generate test scripts and execute them. A FastAPI
service writes to Azure SQL and publishes agent jobs to an Azure Service Bus topic; worker replicas
take the jobs and run the agents; a scheduler process dispatches recurring and one-shot jobs. All
coordination goes through database rows and bus messages: there is no other shared memory between
processes, and hardly any lock that the code takes on purpose. What makes it hard is therefore

* **transactions over stale reads.** Azure SQL reads row versions: a SELECT returns the last
  committed row and blocks nobody. The ORM computes new values in Python from what was read and sends
  an UPDATE of the changed columns at the next flush; only that UPDATE takes a row lock, until the
  transaction ends. `with_for_update` is rendered as nothing by the mssql dialect;
* **at-least-once delivery.** A message comes back when its lock (5 minutes, never renewed)
  expires, although an agent may run for 30; the worker settles it with an explicit call;
* **external effects inside a transaction.** A message is published before the row it names is
  committed;
* **processes that stop**: SIGTERM with a drain, or a kill in the middle of an agent.

### Inventory

| Component | State | Operations | Hard behaviour | What makes it correct |
|---|---|---|---|---|
| Agent-run lifecycle: `services/agent_dispatcher.py`, `worker/service_bus_worker.py`, `agents/base.py`, `services/agent_run_service.py` | `agent_runs.status`, the Service Bus message, tasks and semaphore of each worker | dispatch, publish, deliver, claim, execute, commit, settle, cancel, shut down | commit/publish order, redelivery under a live task, cancel against worker, crash | no run is lost or stuck without a nameable cause; one write per claim; settled runs stay settled; message and locks are released |
| Scheduler: `scheduler/`, `services/scheduler_service.py` | `scheduled_jobs` row (`is_active`, `next_run_at`, `last_run_at`, `consecutive_failures`) | evaluation pass, dispatch and fan-out, refusal, creation, trigger, update, deactivate | pass over stale rows while requests change them; two evaluators in a rolling update; a fan-out that breaks off | a window fires once, failures are counted exactly, deactivation sticks, no due job starves, runs are accounted for |
| Usage and quotas: `services/usage_service.py`, `_upsert_token_usage` | `company_plans`, `company_token_usage`, the count of runs | check before dispatch, plan update, roll-up after an agent | check-then-insert, read-modify-write, duplicate rows | the limit holds, nothing is billed twice or lost |
| Test cycles: `services/test_cycle_service.py` | cycle and assignment status, results | assign, edit, submit, agent's result, execute all, cancel | results for a cancelled cycle, partial dispatch | a settled assignment has its result; a started cycle has a run |
| Test scripts: `services/test_script_service.py` | status, content, version, version records | create, update, submit, approve, reject, delete, bulk | version numbers from stale reads, bulk paths around the workflow | no content is lost without a record |
| Agent browsers and crawls: `agents/browser_pool.py`, `agents/crawl_agent.py`, crawl tools | queue of browser indices; crawl job, counters, pages | acquire, release, save, finish, time out, follow up | a failure after the index was taken; tool errors inside one transaction | no index lost from sight or handed out twice; job, rows and run agree |
| A crawl's walk: tools of `agents/tool_registry.py` | page, `visited_urls`, tiles | navigate, launch, list links | tool calls of a turn run concurrently on one page | a URL is opened once, no link is hidden |
| Agents' output and pictures: tools, `services/evidence_service.py`, `blob.py` | execution runs, step results, scripts, blobs, summaries | save, finalize, report, screenshot | a tool that fails between inserts; files that overwrite each other | summaries and pictures agree with the rows |
| Onboarding, users: `routers/onboarding.py`, `services/user_service.py`, `auth/azure_ad.py` | invitations, user row, roles, checklist | invite, accept, revoke, expire, grant, deactivate | concurrent acceptance, expiry | an invitation is used once; a checklist completes |
| Systems: `services/system_service.py` | manager, scoped roles | assign, edit, delete | overlapping assignments | the manager has the role, nobody else |
| Requirements: `services/requirement_service.py` | text, status, cached score; cursor pages; uploads | edit, approve, delete, check, list, import | a cache per process; equal timestamps | a stale score ends in time; a list is complete; a file is imported whole |
| Reports and exports: `services/report_service.py`, `services/export_service.py` | none of their own; blobs | several SELECTs; read, pack, store, link | rows change between reads; one name for two files | figures fit together; a link leads to its files |
| Webhooks, notifications | delivery records | notify, deliver | no retry | not modelled, see section 7 |
| Billing: `routers/billing.py`, `services/billing_service.py` | the company's plan row; checkout sessions at Stripe | create a checkout, receive an event, set a plan | events repeated, late, out of order, or swallowed by a failed transaction answered with 200 | a payment has its effect; no tier that nobody paid for or set |
| Asking the language model: `ai/client.py` and the tools that use it | attempts, scheduled log entries | check the budget, ask, retry, fall back, log | concurrent calls of one turn cancelled by the run's timeout; a failure after the model has done the work | the log tells what was spent; attempts are bounded |
| Authentication, tenancy, search, audit, frontend, deployment | none, or one row per request | | | not modelled, see section 7 |

How they interact: API handlers, the scheduler's pass and the crawl agent all create runs through
`AgentDispatcher` inside their own transaction; the dispatcher asks `UsageService` first, except for
scheduled runs; the worker reads the run and the agent writes back run, roll-up and (for scheduled
runs) `last_run_status` in one transaction of its own, with every row its tools have written. A
tool's failed flush therefore costs the whole run, a tool's caught error only its own answer. Reports
and exports read what all others write.

## 2. Modules

| Module | What it is |
|---|---|
| `RunRecord` | abstract specification of the committed status of a run: one write per claim, each claim taken from an open status |
| `AgentRuns` | dispatch, broker, workers, agents, cancel requests; implements `RunRecord` |
| `Scheduler` | passes and API requests over the same job rows |
| `JobPlans` | the limit of active jobs, and the fan-out of an execution job |
| `CronExpressions` | the minimum interval, as an operator over all expressions of a small day |
| `Usage` | the quota check, plan updates, the token roll-up |
| `Sessions` | what API sessions have in common: stale reads, the columns an UPDATE names |
| `Scripts` | a test script and its version records |
| `Requirements` | a requirement and its score, cached in each API process |
| `RequirementPages` | the cursor list of requirements |
| `RequirementImport` | the parsers of text, PDF and docx uploads |
| `Cycles` | a test cycle, its assignments and results |
| `AgentOutputs` | rows and summaries of execution and generation agents |
| `StepEvidence` | pictures of steps, from the browser to the reader |
| `Reports`, `Exports` | readers of rows that change under them |
| `Crawls` | the browser pool, and the transaction of a crawl |
| `CrawlWalk` | the walk of a crawl through a site |
| `ModelCalls` | the tool calls of one run that ask the language model |
| `Invitations` | invitations, the user row, roles, the checklist |
| `Billing` | the plan a company has, pays for, or is given |
| `Systems` | a system's manager and scoped roles |
| `AgentRunsProofs`, `SchedulerProofs`, `UsageProofs`, `ScriptsProofs`, `CyclesProofs` | theorems about the modules they are named after |
| `CrawlsProofs` | theorems about `Crawls` and `CrawlWalk` |
| `PlatformProofs` | theorems about `JobPlans`, `Billing`, `Systems`, `Invitations`, `CronExpressions`, and about `MCPlatform` |
| `ContentProofs` | theorems about `Requirements`, `RequirementPages`, `AgentOutputs`, `StepEvidence`, `ModelCalls`, `Reports`, `Exports`, and about `MCContent` |
| `MCAgentRuns`, `MCScheduler`, `MCUsage`, `MCContent`, `MCPlatform` | what TLC runs; `MCUsage` also declares the symmetry of runs and requests, the last two put components side by side |

`MCContent` (scripts, requirements, pages, import, cycles, outputs, evidence, reports, exports, model calls) and
`MCPlatform` (crawls, walk, joins, system, plans, cron, billing) join components that share no row both write:
`part`, chosen at the start, is the component that moves, and the others stay in one initial state. A
product would only multiply states; where two components do share a row (runs, usage, jobs),
they are in one module. `Reports` and `Exports` read the others' rows and have a small copy of them.

### Sessions

A handler of the API reads in one step and commits in another; others commit in between. What a
request will write is computed at the read, kept in its session, and merged by `Merge` into the row as it is
at the commit: only the columns that differ from the row as read. Every request may end with a
rollback instead, for the reason given under Scheduler. Locks between two such
requests are not modelled: both are UPDATEs of one flush, so a lock orders them and changes nothing.
Histories named `excused`, `stale`, `byHand`, `reopens` or `unsent` record which overlaps (or direct edits, or refused
flushes) have happened; a property says that these, and nothing else, break it.

### AgentRuns

One action per step that another process can observe. `dispatch[r]` is the transaction that creates
a run: `Flush` (row added), `Publish` or `PublishFails` (swallowed, as in the code), then
`CommitDispatch` or `RollbackDispatch`; `row[r]` is the *committed* status, "absent" until then.
The broker (`msg`) is external: ready, locked, done or dead, with the delivery count; `LockExpires` may
happen at any time. `Deliver` starts a task; `DeliverAfterShutdown` is the loop's handling of the
shutdown flag. A task is numbered by its delivery: `Enter` (the semaphore), then `DeadLetter`,
`Skip`, `LoadFails` or `Claim` by the status it reads; then the agent: `FailUnbuildable`,
`AbortBeforeStart` (nothing written yet), `Start` (RUNNING flushed, row lock taken), `SetupRaises`
(outside the try block) or `Finish`, `CommitTask`, `CommitFails` or `UnbuildableCommitFails`, and
`Settle`. Cancel requests are `CancelRead`, `CancelFlush`, `CancelCommit`, `CancelRollback`.
`Crash` kills a process and rolls its transactions back; `Exit` follows a drain; `Restart` is the
platform's. `cause` is history: it names why a run could be left behind, and the properties say that
nothing else leaves one behind:

| cause | code |
|---|---|
| unsent | the publish failed and was swallowed (`agent_dispatcher.py:134`); no recovery sweep exists |
| early | the message was consumed before the row was committed (`service_bus_worker.py:139`) |
| aborted | `execute()` raised before it touched the run; for instance no browser pool is ever started in a worker process |
| wedged | tools, prompt or executor could not be built after RUNNING was flushed (`base.py:222`) |
| rolledback | the commit after the agent failed and the message was completed all the same (`service_bus_worker.py:179`) |
| exhausted | the deliveries were used up |

Left out: what an agent does inside `run_agent` (see `Crawls`, `AgentOutputs`), its tool-call rows,
`last_run_status` of the scheduled job, Cosmos documents (best effort, errors swallowed), notifications,
`AgentRunService.trigger` (without callers), and malformed messages (nobody publishes any).

### Scheduler

A pass is one transaction: `Select` reads up to `JobsPerPass` due rows (`seen`), `Dispatch` takes
the next and computes its new row (`mine`) as `Fired` or, when the dispatch raised, `Refused`;
`Flush` is the UPDATE, `CommitPass` the commit, `RollbackPass` an error or a crash. A request reads
its row and will write a row computed from it: `TriggerNow`, `Update` (a new cron expression, time zone or `run_at`
(`Rescheduled`), `is_active = true` and a new `max_failures`, in any combination), `Deactivate`,
then `CommitRequest` or `RollbackRequest`. Every job has its own limit of failures (`max`, one of `Limits`), which a pass
compares as it has read it. `Write` is what makes stale reads harmless or not: it
merges only the columns that differ from the row as read. Time is a clock of ticks and a cron
expression its period. A `run_at` is compared with the clock as the instant it is, and stored as the wall clock time it
shows, not converted to UTC (`RunAts`, `Zones`): a one-shot job may so be due too early, or at once. A request may fail after its flush for a reason worth knowing:
`TimestampMixin.updated_at` has an SQL-function `onupdate`, an UPDATE leaves the attribute expired,
and reading it in `ScheduledJobRead.model_validate` needs I/O that an async session does not do
by itself. Whether it does depends on library versions, so both outcomes are allowed.

`JobPlans` adds what is not about windows. `CreatePlan` counts the active jobs and inserts in a later
step, `SetPlanActive` (a PATCH or DELETE) does not count. `BeginDispatch` makes the list of a dispatch from the `job_config`
(`FanConfigs`, which a PATCH may change between two dispatches): the listed ids, which may repeat one or hold something for which
`UUID()` raises, or the scripts that are approved and have not run lately, or, without any, the single `script_id`, for which
`None` also stands when it is missing (KeyError). `DispatchScript` creates a run for the next entry, and the pass commits what was dispatched
whether the job succeeded or raised. No quota refuses a scheduled run (`services/agent_dispatcher.py:111`). `CronExpressions` quantifies over all sets of fire ticks of a
day and all times of validation.

Left out: calendars (croniter), the deprecated shims of `SchedulerService`, a PATCH of `schedule_type`, and one that sets
`is_active = false` together with a schedule or a limit (`is_active = false` alone is `Deactivate`).

### Usage

`Dispatch` of a request is the check and the insert (nothing visible lies between them); it counts
what is committed and what its own transaction has flushed, so `execute_all` sees its own runs. Passes
dispatch unchecked. An agent ends with `ReadUsage` (or `ReadUsageFails` when two rows exist),
`FlushUsage` and `CommitUsage`; `RollbackUsage` stands for crashes and failed commits. A usage row
is named after the run that inserted it and holds the set of runs counted in it, which makes lost and
doubled updates visible; tokens are that set's size times `TokensPerRun`. `Exceeded` compares as
the code does, after rounding the percentage to one decimal: from 99.95 % on, a quota is exceeded.
`UpsertPlan` keeps limits that are not given. The history variables `stale`, `exempt`, `limits`
and `raced` only serve the properties.

Left out: several days, months and agent types (their rows are disjoint), overrides of the token
limit (same code as the run limit's), costs, structural limits (nothing enforces them).

### Content: Scripts, Requirements, RequirementPages, RequirementImport, Cycles

`Scripts`: the row starts as a draft of a user (with a first version record) or of the generation
agent (without one). `UpdateLegacy` is the legacy PUT, `UpdateWithVersion` records the content it has read before
it overwrites it; approval, rejection, deletion and the bulk endpoints each read, check what the
code checks, and commit through `Merge`. Version numbers are the numbers read, plus one.

`Requirements`: a text is what the score looks at. `ReqFlush` drops the score from the memory of the
request's own process before `ReqCommit`; `QualityCheck` serves a hit or computes from the
committed row. `lastSeen` is the last time a text was the committed one.

`RequirementPages`: rows of one save share `created_at`; a page is the newest rows strictly before
the cursor. `stable`, `got`, `pageEnds` are histories of one reading.

`RequirementImport` reads a file line by line, as the loops do (`ParseText`, `ParseDocx`): a line begins a preview, goes on
with the one under way or is passed over, and `EndOfFile` finishes what is under way. `_parse_text` splits at
two line feeds first and at lines then, which comes to the same; in a file whose lines end with CR LF (`crlf`) no
two line feeds meet, so all of it is one block. A file in which no line has text (`NoText`) becomes a single made-up preview
(`MadeUp`): "Imported requirement", or "Imported" and "No content" for a docx.

`Cycles`: a session keeps what it read (`read`), the status and rows it will write, the result it
will insert, and for `ExecuteAll` the scripts left (`scripts`) and dispatched (`runs`), one
`DispatchOne` each, refused or not. `AgentResult` is the execution agent's tool, which leaves the
assignment's status alone.

### Agents: Crawls, CrawlWalk, AgentOutputs, StepEvidence

The executor runs the tool calls of one turn side by side, on one page, one working memory and one database session, and
the session flushes for one of them at a time: a flush asked for while another is under way raises, and the row that was added for it
stays in the session until a later flush inserts it. What follows from this is most of these modules.

`Crawls`: `Take` pops an index, `Open` may fail and keep it, `Release` is the `finally`. `CreateJob`, `EndAgent`,
`FollowUp` and `CommitCrawl` are the steps of one crawl's transaction; `broken` is a session whose flush failed. A call that saves a
page or a requirement inserts its row (`Save`, `SaveInserted`) and then counts it in the job (`Count`, `SaveAnswers`), and either
flush may be refused (`SaveRefused`, `CountRefused`) during another call's, or during one of the recorder's (`OtherFlush`). `tally` holds
for each kind of row those `added` and not inserted, the `rows`, the calls that have yet to count (`due`), the counter in `memory`
and in the database (`counted`), and the calls that `answered` with an id or `erred`. The pool is started by the API process;
a worker process never initialises it, so `Start(None)` is among the initial states, in which every crawl raises.

`CrawlWalk`: the calls of a turn (`call`) begin, wait for the page, and answer in any order;
`visited` is read before the `goto` and written after it, and a `goto` that raises may have moved the page (`MovesTo`) all the same;
`reopens` are the URLs that this, or two calls of one turn, may open twice. Redirects (`Leads`), tiles and a login move the page by other ways.
A link counts as one of the site when its text starts with the origin's (`StartsWith`), so a host whose name begins with the
site's, as `https://a.com.example` with `https://a.com`, does too.

`AgentOutputs`: tools in any order and number, side by side. Step results are `waiting` until some flush inserts them (`FlushRows`);
a finalization SELECTs the steps (`FinalizeReads`) and later writes their totals (`FinalizeExecutionRun`), or its flush is refused
(`FinalizeRefused`), after which the run is in `unsent`, and what becomes of its totals is no longer followed;
a report SELECTs the steps (`ReportReads`) and later prints them under the totals the row has by then (`ReportMade`;
`late` when a finalization came between). A script is begun, and ends whole, thinned (cases or steps that are no objects are passed over, and
text that is no JSON gives none) or cut (an error after its first flush). `ToolRaises` is a call that raises, which ends the
executor while the others of its turn go on (`stray`), also after the summary was made. A commit may fail.

`StepEvidence`: act, take a picture, save the result, redo, for several steps at once. A picture is a path chosen when the call begins
(`TakeStepScreenshot`), a `Capture` of what the browser shows by then, and an `Upload`, which may fail and answers with the path all the same;
`camera` is the picture under way for a step and `link` the last answer. Paths are computed as the code does, from a memory key
that nothing but the model sets and a step number. A report downloads under the link of a result it has listed (`ReportPage`), later, and
prints "[Screenshot unavailable]" (0) where the download fails.

`ModelCalls`: a tool checks its budget and asks (`StartAsk`), the model answers (`Answer`), refuses for its rate limit
(`RateLimited`, then `AskAgain`) or fails (`AskFails`), perhaps after it has worked; `OnError` is what each tool makes of an
exception, `Entry` the `finally` block that schedules a log entry, `WriteLog` the task that writes it, and
`TimeOut` the run's timeout, which cancels all calls at once. `sent` and `worked` are histories.

### Readers: Reports, Exports

A report is a sequence of SELECTs (`Selects`), each of which sees the rows as they are; a line of it keeps the
set of rows it has counted, and `moved` is the set of rows changed meanwhile. An export picks (for a cycle), loads script by script, packs, stores
and links (`GoesOn`: a step that moves nothing but the one export); the container maps a name to the export that stored it last.

### People and payments: Invitations, Systems, Billing

`Invitations` follows one person and one company: `CreateInvitation`, `AcceptInvitation`,
`RevokeInvitation`, the sign-in that creates the user row, roles given and revoked directly, and
the checklist with `_check_and_complete`. Uniqueness of the e-mail address and of the checklist is
the database's; nothing else is unique. A PATCH of the checklist sets any flags, or none. `Systems` follows one system: `holds` counts a
user's role rows on it, and `AsRead` is a request that has read the system and the roles and changes nothing yet; what it may do is delete
`rows` role rows of one user (`loser`) and give one to others. A DELETE of a row that somebody else has deleted is only warned about by SQLAlchemy,
here (`Met`) as in `Invitations`.

`Billing` follows one company. `CreateCheckout` puts any tier into the metadata, at the price of `Price`; `Pay` happens
at Stripe, whose event for it may arrive any number of times and in any order from then on. `Receive` and `SetPlan` (an
administrator) read the plan row, `CommitBill` writes it; `FailBill` is a transaction that fails, which `stripe_webhook`
answers with 200 all the same, `ReceiveUnknown` a tier that `upsert_plan` does not know, and `CrashBill` the end of the
process. `given`, `had` and `failed` are histories.

## 3. Runs

Passing runs (each finishes in about three and a half minutes or less):

| Run | Instance | Shows |
|---|---|---|
| `agent_runs` | 2 runs (one of an unknown agent type), 1 replica with 1 slot, 2 deliveries, 1 failure; 1.2 million states | `RowLockExact`, `DurableBeforeClaim`, `NoSilentLoss`, `RunningOnlyIfWedged` |
| `agent_runs_live` | 1 run, 2 replicas, 3 deliveries, dead-lettering at 2, 1 failure; 150 000 states, with fairness | `RefinesRecord`, `SettledIsFinal`, `MessageSettles`, `LockReleased`, `RunResolves` |
| `scheduler` | a recurring and a one-shot job, periods 1 and 2, 1 job a pass, 1 evaluator, 2 requests, 1 rolled back pass, time 2, limits 1 and 2, `run_at` in two zones; 1.27 million states, with fairness | `FailuresExact`, `DeactivationSticks`, `DisabledOnlyAtLimit`, `WindowFiredOnce`, `DueIsServed` |
| `usage` | 4 runs, 2 requests, 1 pass, limits 1, 2, 3 or none, 2 plan updates; 1.2 million states up to symmetry | `QuotaExact`, `BilledOnce`, `LostOnlyByRaces` |
| `content` | ten components, 2.2 million states in all; see below | `HistoryKept`, `StaleAtMostTTL`, `WalkComplete`, `ImportKeepsText`, `OutcomeHasResult`, `StartedMeansQueued`, `SettledCycleStays`, `EvidenceAgrees`, `ReadersFaithful`, `CallsAccounted` |
| `platform` | seven components, 1.55 million states in all, up to symmetry of crawls and of the calls of a turn (`Alike`); see below | `BrowserInOnePlace`, `CrawlAccounted`, `JoiningSettles`, `ManagerHoldsRole`, `ActiveJobsLimited`, `FanOutAccounted`, `EvenSchedulesAccepted`, `BillingAgrees` |

What the properties of the last two say:

| Property | Statement |
|---|---|
| `HistoryKept` | a version record is true, and no content is lost but by the legacy PUT or by updates that overlapped |
| `StaleAtMostTTL` | a score served from a cache is of a text that was current less than one TTL ago |
| `WalkComplete` | a reader of all pages gets each requirement that was there all the while, once; only rows of the same instant as a page's end can be skipped |
| `ImportKeepsText` | the lines with text, but those before the first heading of a docx, are in exactly one preview each, in order, and nothing else is, but for the one made-up preview of a file without text |
| `OutcomeHasResult` | an assignment is settled only as one of its results says, unless edited by hand |
| `StartedMeansQueued` | a cycle is in progress only when a run of one of its scripts is queued, unless edited by hand |
| `SettledCycleStays` | a completed or cancelled cycle changes only by an edit, or by a request that had read it before |
| `EvidenceAgrees` | totals, in the row, the summary and on a report's cover, are those of the steps there were at some moment, unless a finalization of that run was refused; a report lists the steps its cover counts, unless a finalization came between; no script that was cut off is reported; a link, or a page of a report with a picture, leads to a picture of a step of that number, not older than the step's own if that was stored |
| `ReadersFaithful` | parts of a report are within their wholes but for rows that moved; an export's link leads to its files, or to those of a later export of the same name |
| `CallsAccounted` | `LogTellsSpending`: a success is logged only of a call the model has answered, and every call it has worked on has an entry; `AskingBounded`: a tool call makes at most three requests, four with the fallback, and none is under way after the timeout |
| `BrowserInOnePlace` | a launched browser is free once or held by one crawl |
| `CrawlAccounted` | committed job, run and follow-up agree; a counter is at least the ids its calls answered with and at most the rows, of which there is at most one a call; a browser stays missing only when its page did not open; the walk opens a URL twice only when one turn asked twice or a `goto` raised late; the links told start with the origin read, are not visited, one a base, and none are told only when there are none |
| `JoiningSettles` | an invitation is used at most once and not after it was revoked, and gives no role twice, unless requests overlapped; a checklist with all its steps is completed, unless two requests changed it at once |
| `ManagerHoldsRole` | what an assignment leaves behind, however the roles came about before: the manager alone has the role, until someone edits it directly; it says nothing of requests that overlap, which leave anything |
| `ActiveJobsLimited` | no more active jobs than the limit and those that got round the count |
| `FanOutAccounted` | a script has a run for each time a successful dispatch listed it, and at most one more for each time a failed one did |
| `EvenSchedulesAccepted` | an expression that never fires too often is accepted at every hour, one that always does is refused |
| `BillingAgrees` | `PaymentHonoured`: a payment Stripe will not tell of again has had its effect, unless its tier does not exist or its transaction failed under an answer of 200; `TierPaidFor`: no event, however late, makes a tier that nobody paid for or set |

Violations: what a comment or document says, and the code does not do.

| Run | Statement | What happens |
|---|---|---|
| `agent_runs_record_before_pickup` | `agent_dispatcher.py:23`: every run has a record before the worker picks it up | the worker is faster than the commit, finds nothing and completes the message; the run stays pending for ever |
| `agent_runs_starts_only_pending` | `service_bus_worker.py:143`: runs no longer pending are skipped | a cancellation or a duplicate's result is committed between the status check and RUNNING; the agent runs anyway and overwrites it |
| `scheduler_window_fired_once` | `evaluator.py:48`: `with_for_update(skip_locked=True)` prevents double-firing | not rendered for SQL Server; two evaluators fire the same window. With a single one (the configured replica count) the property holds, see `scheduler` |
| `scheduler_trigger_keeps_window` | `src/docs/SCHEDULING.md:218`: a trigger does not affect `next_run_at` | it moves the window on, and a window that was due is skipped |
| `usage_one_row_per_day` | `src/docs/DATA_MODEL.md:441`: `UNIQUE (company_id, agent_type, usage_date)` | the migration has no such constraint; two agents insert two rows, and all later agents of the day fail to read them |
| `cron_accepted_never_too_often` | `cron_parser.py:48`: true if the expression fires no more often than the minimum interval | only the next gap is measured: an expression with uneven gaps passes when the next one is long |

**Bounds.** Every hazard shows with one run (or job, or row) and two actors, which each instance has; a
second run is there for what runs share (the semaphore slot, the counter, the roll-up row). Three
deliveries let two tasks of one run overlap with a third waiting. `MaxFailures` of 1 is one crash
*or* shutdown at any point; a second restart repeats states. In `scheduler`, two ticks give both
periods a window that is due, fired and due again, and jobs are created with a limit of 2 (`BoundedInit`) that requests lower
to 1 and raise again, so that a count is below, at and past the limit a pass has read, and past a limit lowered meanwhile. (`MaxFailures`
in `AgentRuns` is another thing: its bound on crashes.) In `content` and `platform` two requests overlap and a third
(`MaxScriptEdits`, `MaxCycleRequests`, `MaxSystemEdits`, `MaxPlanRequests`, `MaxBills` of 3, `MaxJoins` of 4) comes before, between or after
them; a TTL of 2 within 4 ticks lets a score be kept, expire and be kept again in two processes;
four requirements at three instants make rows that share an instant lie within, across and at the end
of pages of two; five lines hold two titles with text around them; a step of the same number in two cases of one run, and one of another number, are all the ways in which two pictures
can share or not share a name (two pictures, `MaxShots`, and two step results a run, `MaxSteps`); three saving calls (`MaxSaves`) let one flush be
refused during another and a third insert what is left; two crawls and two browsers, of which one is lost, let one crawl wait for the other; three turns of two calls on a
site of four URLs with a redirect, a tile and a host whose name begins with the site's let a call repeat within a turn, across turns, and
after a redirect. Two checkouts of different tiers and two requests let an old event come after a new one and after an administrator;
two calls that ask the model let a timeout cancel one while the other is answered. `Day` of 60 with six fire ticks has even and uneven expressions on both sides
of the interval. The theorems remove the bounds for the properties they cover. Deadlock is not
checked: the numbers of runs, ticks, requests and failures are bounded, so a finished instance stops.

**Fairness.** `AgentRuns!FairSpec`: requests and tasks that can go on do so (weakly fair: nothing in
them waits for anything but a slot or a lock, and `run_agent` ends by its timeout); the steps that take
a row lock are strongly fair, because SQL Server grants locks in arrival order; locks expire and ready
messages are delivered; the platform restarts replicas. No error, cancellation or crash is ever
owed. `Scheduler!FairSpec`: `start()` calls `run_once` for ever, so the pass is weakly fair; requests
and the clock owe nothing. A request's flush and commit are one step, so a pass never waits for a
request, only for another pass. The other components have no liveness property: each
request answers or fails, and nothing in them waits but a crawl for a browser, which the code does not owe
(a browser lost in `Open` is never returned).

## 4. Proofs

TLAPS checks these for every value of the constants that satisfies the named ASSUMEs, which are:
finite sets of workers, jobs, plans, runs, counted rows and links; positive limits and periods; natural
bounds; time zone offsets that are whole ticks, zero among them; requests that are no evaluators or passes; requirements that are no scripts; a URL
that starts with its own origin; and `None` distinct from every value it stands in
for (`NoneAssumption`, `TierAssumption`, `RowAssumption`,
`CrawlAssumption`, `OutputAssumption`, `AskAssumption`, `NotAnExport` and others say so of the values of a module). TLC evaluates each of them in a run. Two theorems assume more, in their
statement: that there is at most one evaluator, where the code is wrong with two.

| Theorem | Statement |
|---|---|
| `AgentRunsProofs!TypeCorrect`, `Inductive` | `Spec => []TypeOK`, `[]IInv` |
| `AgentRunsProofs!RowLockAlwaysExact`, `AlwaysDurableBeforeClaim` | `Spec => []RowLockExact`, `[]DurableBeforeClaim` |
| `AgentRunsProofs!NeverLostSilently`, `RunningIsWedged` | `Spec => []NoSilentLoss`, `[]RunningOnlyIfWedged` |
| `AgentRunsProofs!RecordRefined` | `Spec => Record!Spec`: the detailed protocol implements `RunRecord` |
| `AgentRunsProofs!SettledForGood` | `Spec => SettledIsFinal`, and `[](Unattended(r) => []Unattended(r))`, `[](Final(r) => []Final(r))` for every run |
| `SchedulerProofs!SchedulerTypes`, `DeactivationAlwaysSticks`, `AlwaysDisabledAtLimit` | `Spec => []TypeOK`, `DeactivationSticks`, `DisabledOnlyAtLimit`, for any number of evaluators |
| `SchedulerProofs!FailuresAlwaysExact`, `WindowsFireOnce` | with at most one evaluator, `Spec => []FailuresExact`, `WindowFiredOnce` |
| `UsageProofs!TypeCorrect`, `QuotaAlwaysExact`, `AlwaysBilledOnce`, `LossesAreRaces` | `Spec => []TypeOK`, `[]QuotaExact`, `[]BilledOnce`, `[]LostOnlyByRaces` |
| `ScriptsProofs!HistoryIsKept`, `ScriptTypes` | `ScriptSpec => []HistoryKept`, `[]ScriptTypeOK` |
| `CyclesProofs!StartedAlwaysQueued`, `OutcomesHaveResults`, `SettledCyclesStay`, `CycleTypes` | `CycleSpec => []StartedMeansQueued`, `[]OutcomeHasResult`, `SettledCycleStays`, `[]CycleTypeOK` |
| `CrawlsProofs!BrowsersAccounted`, `OnlyOpenLoses`, `CommittedCrawlsAgree`, `CrawlTypes` | `CrawlSpec => []BrowserInOnePlace`, `[]LostOnlyInOpen`, `[]CommittedCrawlConsistent`, `[]CrawlTypeOK` |
| `CrawlsProofs!WalkIsAccounted`, `WalkTypes` | `WalkSpec => []WalkAccounted`, `[]WalkTypeOK` |
| `PlatformProofs!FanOutIsAccounted`, `ActiveJobsAreLimited`, `PlanTypes` | `PlanSpec => []FanOutAccounted`, `[]ActiveJobsLimited`, `[]PlanTypeOK` |
| `PlatformProofs!BillingAlwaysAgrees` | `BillSpec => []BillingAgrees` |
| `PlatformProofs!ManagerAlwaysHoldsRole` | `SystemSpec => []ManagerHoldsRole` |
| `PlatformProofs!JoiningAlwaysSettles` | `JoinSpec => []JoiningSettles` |
| `PlatformProofs!EvenSchedulesAlwaysAccepted` | `CronSpec => []EvenSchedulesAccepted` |
| `PlatformProofs!CrawlsAreAccounted`, `PlatformTypes` | `PlatformSpec => []CrawlAccounted`, `[]PlatformTypeOK` |
| `ContentProofs!StaleScoresExpire` | `ReqSpec => []StaleAtMostTTL` |
| `ContentProofs!WalkIsComplete` | `PageSpec => []WalkComplete` |
| `ContentProofs!OutputsAlwaysAgree`, `EvidenceAlwaysShown` | `OutputSpec => []OutputsAgree`, `EvidenceSpec => []EvidenceShown` |
| `ContentProofs!CallsAlwaysAccounted` | `AskSpec => []CallsAccounted` |
| `ContentProofs!ReportsAlwaysAddUp`, `ExportsAlwaysFaithful` | `ReportSpec => []ReportsAddUp`, `ExportSpec => []ExportsFaithful` |
| `ContentProofs!TextIsKept` | `ImportSpec => []ImportKeepsText` |
| `ContentProofs!EvidenceAlwaysAgrees`, `ReadersAlwaysFaithful`, `ContentTypes` | `ContentSpec => []EvidenceAgrees`, `[]ReadersFaithful`, `[]ContentTypeOK` |

*AgentRuns.* `DurableBeforeClaim` is not inductive: a step from an unreachable state with a task for a
message that was never sent could claim a row that is not there. `IInv` adds that a row exists exactly
when its dispatch has committed, that a delivery not yet made has no task (so that `Deliver` never
overwrites one), that a cancel request is never where a delivery's task is, and what each open
transaction would commit. Each conjunct speaks of one run; the proof rewrites `IInv` as "every
run satisfies `RunInv`" and shows one lemma per action for the run that moves and one for all
others. The refinement maps `claims` to the claimants in an open phase: `Claim` and `CancelRead`
are `Claim`, `CommitTask` and `CancelCommit` are `Write`, rollbacks, aborts and crashes are `Drop`, and
the rest are stutters. `SettledIsFinal` is about two states that no step
ends: a run that has left pending without a task's claim (`Unattended`), because a task claims what it reads as pending and a row never goes
back; and a settled run without any claim (`Final`), because a cancel request looks at the status as well, and whoever writes has a claim. `SettledForGood` also
states what follows, that each holds for ever from then on; the refinement does most of the work (`FinalStep`).

`NoSilentLoss` speaks of messages that are over, and what ends a message is a task. `KeptInv` therefore says of a run whose
row is absent or pending that a task about to complete its message has a cause already, that so does a message that is done or
dead, and a committed run that was never published. An action keeps it for one of two reasons, which are the two halves of the proof: it
leaves the message live (`MsgKept`) and sends no task to settle (`TasksKept`), or it records a cause in the same step. The other
thing a task may have seen is a row no longer pending, and a committed status never goes back to pending.

*Scheduler.* `JobsInv` says of every session that the rows it has read and would write are rows, that a pass has read only active
jobs that were due, and, in `PassRow`, what a pass may make of one: it never activates it, it either
fires it (the window is in the past, a recurring job stays active) or counts one failure, and it disables a
recurring job only at the limit it has read, and never writes the limit. With `Write`, which leaves alone the columns a transaction has not changed, this is all
that `DeactivationSticks` and `DisabledOnlyAtLimit` need, with any number of evaluators. `Current` needs the single
one: a pass has read the committed count, and no window later than the `last_run_at` it has read has been fired; nobody
else writes either meanwhile, since requests never write the count and what they do to the window is what `WindowFiredOnce` excepts.

*Usage.* `QuotaExact`: what a request would commit fits a limit that has been in force, unless someone
committed after its last check (`FreshRequestsFit`); a commit of anything else is exempt. The
arithmetic step is `2000 * n < 1999 * m => n + 1 <= m`. `BilledOnce`: a run occurs only in the row
its agent last read, and so does every run in a snapshot (`CountedAtHome`, `SnapshotsAtHome`), which
rests on there being fewer than two rows when an agent reads. `LostOnlyByRaces`: `RaceInv` says that once there are two rows, both
were inserted by agents that raced (an agent that will insert has a race behind it if a row is there by now,
`LateInserts`), and that while there is one, a finished run outside the races is in it and in every snapshot of it (`AllCounted`).

*Scripts.* `HistoryInv` adds what a request carries (`RequestInv`): the row it read was once
the row, what it records is that row, and a versioned request that changes the content does record
it. A commit then either finds the content it has read, which is recorded with it, or another
one, which is excused.

*Cycles.* `CycleInv` adds to the two properties what each open session would write (`SessionInv`, split
into the status and the rows): its `runs` are scripts somebody is assigned to, an assignment's
script never changes, a submission's result and status have one outcome. A status is written only if it
differs from the one read, which is why `assign`, `edit`, `submit` and `agent` sessions keep `new = read`; and `SettledCycleStays`
follows since a cancellation has not read "completed" and a start has read "planned".

*Crawls.* Counting copies and holders is not inductive by itself: `PoolInv` says instead that the queue
repeats no index and holds no index that a crawl has, that no two crawls have the same, and that a crawl has
one between `Take` and `Release`; cardinalities come in only at the end. `RowInv` distinguishes crawls whose session is
intact from broken ones, of which only what is committed matters: nothing (`FollowInv`). Of an intact one (`IntactInv`), `Agrees` accounts for every call of a
kind: each row belongs to a call that answered, erred, has yet to count or has its flush under way, and the counter, in memory and in the database, is
between the calls that have counted and the rows. A refused flush moves a call to the erred ones and leaves the counter behind the rows, which is
why it is a bound and not an equation. `LostInv` adds that a crawl that ends with a browser never got past `Open`.

*CrawlWalk.* `WalkInv`: what was opened is remembered, unless its `goto` raised late, and a call that is about to open a URL that was opened
already belongs to a turn with two such calls (`OpenInv`), since a call of a later turn would have found it in
`visited`. `LinksHonest` needs that a truncated non-empty list is not empty: finite links, `MaxLinks` at least 1.

*JobPlans.* `FanInv`: a dispatch under way has done a prefix of its list (`AttemptInv`), so a success adds a run for each entry and a
failure at most that (`TimesFacts`: a script occurs in a prefix no more often than in the list). `LimitInv`: a request that will create a job has counted fewer than the limit
(`CountedInv`), and whoever commits after the count changed is in `excused`.

*Billing.* `PaymentHonoured` looks at answered events, and an event is answered some steps after its transaction has read the
plan. The case a test misses is an event whose tier the company had when it was read: the ORM then writes nothing, and someone else's
tier stays. `BillSessionInv` says that such a payment has had its effect already, `BillInv` that this is so whenever the company is in the tier.

*Systems.* `SystemInv`: a request that nothing has overlapped has read the committed system and roles, and an `assign_manager` deletes
the roles of the manager it read and gives one where it found none (`SystemSessionInv`), and its DELETEs meet all the rows it read; so its commit leaves one holder.

*Invitations.* `JoinInv` says what a session may write (`SessionFits`): "accepted" and "revoked" only over a "pending" it has read, a role
only where it looked and found none, a completed checklist when it has all its steps. An overlap puts the token,
the person or the checklist into `stale`; outside it there is one pending invitation at a time (`OnePending`) and each has been used
as often as its status says (`UsedOnce`).

*CronExpressions.* `CronInv`: an answer was given by one of the expression's gaps. `Wait` is a minimum over a set of numbers, which exists
by well-foundedness (`MinFacts`); the gaps lie between it and `MaxFacts`' maximum.

*Requirements.* `QualityInv`: an entry of a cache is the score of a text last seen no more than a TTL before the entry expires. The history of
texts only moves on (`LaterSeen`), so an entry that nobody touches stays accounted for.

*RequirementPages.* `PageInv`: what was listed all the while is given already, or has the instant at which a page ended, or is still ahead of the
cursor (`Accounted`); nothing given is ahead. When the reader is through, nothing is ahead.

*RequirementImport.* `ImportInv`: while a file is read, the lines of the finished previews and of the one under way are all the lines with text so far
but those dropped, and every line of the former comes before every line of the latter (`WayInv`). In a docx there is no finished preview
before the first heading, which is why only what comes before it is lost; in a text file a block has a title as soon as it has a line (`TitleInv`).
The end of the file makes a preview up exactly when there is no line with text: neither a finished preview nor one under way.

*AgentOutputs.* `OutputInv` says of every run (`RunInv`) that totals, listings and counts under way are those of a prefix of the inserted steps; steps are
only ever appended, so a prefix stays one (`Longer`, `MoreSteps`), whoever finalizes meanwhile. A finalization makes the report under way
late, the only way its cover can count more than it lists. `ScriptInv`: what the memory holds was not cut. `SumInv`: a summary has the totals the
rows had when it was made, which stray calls may move on but not back to an unfinished run.

*StepEvidence.* `EvidenceInv`: what is stored under a path is a picture of that path and no older than any picture stored there (`PathInv`, by the order of uploads and
not of captures); a picture under way has the number of its step and shows what that did unless another step has acted since (`CameraInv`); a
page of a report, and the answer to a request, were true when they were made, and a later upload changes neither (`PagePictureInv`,
`AnswerInv`).

*ModelCalls.* `AskInv` ties each call's phase to what has been sent and logged for it (`CallInv`): no entry while it is under way, requests bounded by the
tries, and a fall-back to plain text with an entry for the structured call or with none because it never fitted.

*Reports.* The figures come from different SELECTs. `ReportInv` says of every one made so far that what it has
counted would still be counted, but for the rows that have moved since (`StillCounts`); two SELECTs of one report then
differ by moved rows only, which is what `AddsUp` allows.

*Exports.* `ExportInv`: an export of a cycle takes scripts that have been approved since it began, a single one has one script
(`PickInv`), and the blob under a link's name was stored by this export or a later one of that name (`LinkInv`); with one name
they are ZIPs of one second or the same script (`SameName`).

*MCPlatform, MCContent.* No step of one component moves another's variables (`PlatformParts`, `ContentParts`), so a theorem about one holds of all together.

Only model-checked: liveness (`MessageSettles`, `LockReleased`, `RunResolves`, `DueIsServed`), because it rests on fairness and so on
ENABLED, which the prover does not reach. Every other property of a passing run is a theorem, two of them for one evaluator as the run has it.

## 5. Differences between code and documents

Met while reading, besides those the runs of section 3 show.

*Runs and scheduler.* The worker image's module never calls `worker_loop`, and a worker process never starts a
browser pool, so a crawl raises before it begins; `dispatch_crawl` stores "base_url" where `CrawlAgent` reads
"target_url". The comment that `execute()` always sets FAILED (`worker/service_bus_worker.py:176`) overlooks the set-up before its
try block. `consecutive_failures` is never reset by a success or by re-activation (`src/docs/SCHEDULING.md`, section 5);
catch-up of missed windows within 24 hours and idempotence by `job_run_id` do not exist; a `run_at` with
an offset is stored without being converted to UTC (`services/scheduler_service.py:336`); a limit raised while a pass holds the old one leaves the job
disabled below its new limit; DELETE deactivates
instead of deleting (`src/docs/SCHEDULING.md:219`); an execution job with `auto_execute_approved` and no script
due ends in a KeyError, which counts as a failure, and is refused every minute until it is disabled;
`_approved_scripts_not_recently_run` ignores `deleted_at`; a PATCH that activates a job is not
counted against the limit.

*Usage.* A plan limit can never be removed by an update; `models/plan.py:37` calls a NULL limit unlimited
where the service takes the tier's default; the last 0.05 % of a quota is refused
although "only hard limits (100 %)" block (`services/usage_service.py:287`).

*Scripts, requirements, cycles.* Two updates may record one version number twice, after which `get_version` fails; the
legacy PUT records nothing; the legacy create leaves out `company_id`, which is NOT NULL; an update leaves APPROVED after its content
was edited; reject keeps `approved_by`; `bulk_status` takes any string. Deletion of a requirement never sets
`is_deleted`, which the search and a tool test. Text of a docx before its first heading is dropped, and the end of a title of more than 500 characters; a text file with CR LF
becomes one preview, although `_parse_text` splits at blank lines; rows of one import share
`created_at`, so the cursor may skip them. The cached score is dropped before the commit, in one process only, and not on
delete. `create_test_result` leaves the assignment's status and fails when there are two results; `execute_all` and
`submit_result` ignore the cycle's status. `updated_at` expires with an UPDATE, so handlers that answer from the
same object may raise after their flush.

*Agents.* A script with broken cases leaves a partial row that is committed though the tool reports an error, while cases and steps that are no
objects, or text that is no JSON, are passed over without a word and the script is reported as saved (`agents/tool_registry.py:1361`, 1415, 1428). Tool calls of one turn
share a session that flushes for one of them at a time: a row whose flush was refused is inserted later and counted by nobody (`agents/tool_registry.py:482`).
`get_unvisited_links` tells links of any host whose name begins with the site's (`agents/tool_registry.py:586`). Steps "error" and
"skipped" do not fail a run and count as "blocked" in its report. Pictures overwrite each other: the path uses the
memory key `current_execution_run_id`, which nothing sets, and numbers that begin again in every case; two steps with one number make
the request for a picture fail. A passed step may carry a grey placeholder. `upload_bytes` passes a dict as
`content_settings`, where the SDK documents an object; the models allow an upload to succeed and to fail.
A redirect's target is not remembered as visited; the empty list that means "crawl is complete" speaks of the current page only.

*People, systems.* `get_current_user` does not look at `is_active`; `create_system` grants no role to its manager; an expired
invitation stays pending and blocks the next; two role rows make a later acceptance fail, two pending
invitations a later invitation; two PATCHes at once leave a complete checklist without `completed_at`.

*Readers.* `script_coverage` counts deleted scripts, `coverage_pct` may exceed 100, `company_overview` counts rows of deleted systems,
a cycle's progress leaves out `in_progress`; a domain whose only script is approved between two SELECTs is missing from the
breakdown. Exports of one second, or of one script, share a name. "Scripts that fail individually are skipped" does not cover
a deleted script, whose 404 ends the export; `export_cycle` checks approval when it picks, not when it loads.
`EvidenceScreenshot` rows are read and never inserted. `WebhookService.dispatch` and `AuditLogger` have no callers.

*Billing.* The cancellation of subscriptions that `services/billing_service.py:7` lists exists nowhere. The Stripe webhook answers 200 when its update failed, and to a tier it does not know; a checkout takes any
string as its tier and charges for "pro" unless it is "enterprise". `routers/billing.py:5` says "raw body, no
auth", but the path is not among `_UNAUTHENTICATED_PATHS` (`middleware/tenant.py:14`), so an event without a
Bearer token gets 401.

Two things the models take as given, since they lie outside the source: an agent does not overwrite its own memory keys with
`save_to_memory`, and whether a callback handler sees the events of models and tools is LangChain's affair.

## 6. Plan

1. The scheduler: a reschedule that commits after a pass has fired the job may write a `next_run_at` that is not later
   than the window fired (`services/scheduler_service.py:89`); it is within `Scheduler`'s steps, and no property speaks of it yet.
2. Abstract specifications for more components, in the manner of `RunRecord`: the plan of a company as a register that
   payments and administrators write, a crawl's committed rows as one atomic write.
3. `WindowFiredOnce` and `FailuresExact` for several evaluators whose passes do not overlap.
4. Notifications, and the identity lookup of `auth/azure_ad.py` beyond the sign-in that `Invitations` has.

## 7. Not modelled, and why

* *Webhooks, notifications.* One attempt, one row; `WebhookService.dispatch` has no callers, so no
  event of the program reaches it.
* *Authentication, permissions, tenancy.* Functions of one request over tokens and role tables, without a state of their own.
* *Search, audit, health, lists, reports of one SELECT.* They read one set of rows.
* *Tools that only look at a page, prompts, the text of scripts and exports, e-mails.* Input
  and output; what they return is a choice of the models.
* *Crawlers* next to the agent are stubs. *Frontend, deployment, migrations*: client state and configuration;
  the numbers the models need (lock duration, delivery count, replica counts) are constants.
* *Legacy screenshots and executions*: rows into which no code inserts, and shims over the modelled services.
* Inside modelled components: calendars and croniter; CSV and JSON imports; cases and steps of a script;
  profiles; tenants and the platform administrator's one-row endpoints; a PATCH of a job that sets `is_active = false` together with a
  schedule or a limit.
* Calls of a crawl's last turn that go on after another call's arguments were rejected, which ends the executor: `Crawls` lets the agent end
  only when no call is under way (`AgentOutputs` follows such calls).
* The totals of an execution run one of whose finalizations was refused: the session may keep them, forget them, or send some of their columns later.
* `expires_at` of role rows: `assign_manager` skips the grant when the new manager has an expired row
  (`services/system_service.py:205`), and then nobody has the role in force. `Systems` counts rows, as that look-up does.
* Names of entries inside a ZIP: two scripts of one title get the same one.
