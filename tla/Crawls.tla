------------------------------- MODULE Crawls -------------------------------
(***************************************************************************)
(* The crawl agent and the pool of browsers it shares with the other       *)
(* crawls of its process (agents/browser_pool.py, agents/crawl_agent.py,   *)
(* the crawl tools of agents/tool_registry.py), up to the commit the       *)
(* worker makes whatever the agent did (worker/service_bus_worker.py).     *)
(*                                                                         *)
(* A crawl works in one transaction.  Its rows are a crawl job with two    *)
(* counters, the pages and requirements the language model decides to      *)
(* save, the status of its agent run, and the generation run that follows. *)
(* The tool calls of one turn run concurrently on one session, and the     *)
(* session flushes for one of them at a time: a flush asked for while      *)
(* another is under way raises, and what was added for it stays in the     *)
(* session until some later flush inserts it.  A flush that fails ends the *)
(* transaction: no later flush succeeds.                                   *)
(***************************************************************************)
EXTENDS Sessions, Integers, Sequences, FiniteSets

CONSTANTS
    Crawls,         \* crawl runs delivered to the process
    PoolSize,       \* settings.browser_pool_size
    MaxSaves        \* bound on the tool calls that save a row, over all crawls (TLC)

ASSUME PoolAssumption == PoolSize \in Nat /\ MaxSaves \in Nat /\ None \notin Nat

Browsers == 0 .. PoolSize - 1
RowKinds == {"pages", "requirements"}

VARIABLES
    launched,       \* browsers start() has launched; None if the process has no pool
    available,      \* the queue of indices of free browsers
    stage,          \* stage[c]: where crawl c stands
    slot,           \* slot[c]: the index c took from the queue and has not put back
    run,            \* run[c]: the status of c's agent run, as c's session has it
    job,            \* job[c]: the status of c's crawl job, None before it is inserted
    tally,          \* tally[c][kind]: c's rows of a kind, and the calls that save them
    flush,          \* flush[c]: the flush under way in c's session, if any
    saves,          \* tool calls so far that save a row
    broken,         \* the crawls whose transaction a failed flush has ended
    generated,      \* the crawls that have inserted a follow-on generation run
    committed       \* committed[c]: what the database has of c after the worker's commit

crawlVars == <<launched, available, stage, slot, run, job, tally, flush, saves, broken,
               generated, committed>>

Stages == {"queued", "waiting", "opening", "ready", "working", "closing",
           "followup", "raised", "ended"}
JobStatus == {"running", "completed", "failed"}
RunStatus == {"pending", "running", "completed", "failed", "timed_out"}

\* Rows added to the session and not inserted, rows inserted, calls whose row is inserted
\* and that have yet to count it, the job's counter in memory and in the database, and
\* (history) the calls that answered with an id and those that answered with an error.
Fields == {"added", "rows", "due", "memory", "counted", "answered", "erred"}
Tally == [Fields -> Nat]
NoTally == [field \in Fields |-> 0]

\* The flush of a call that inserts its row or counts it, or any other.
Flush == [kind: RowKinds \cup {None}, of: {"insert", "count", "other"}]
Other == [kind |-> None, of |-> "other"]
ASSUME CrawlAssumption == None \notin JobStatus /\ None \notin Flush

CrawlTypeOK ==
    /\ launched \in 0 .. PoolSize \cup {None}
    /\ available \in Seq(Browsers)
    /\ stage \in [Crawls -> Stages]
    /\ slot \in [Crawls -> Browsers \cup {None}]
    /\ run \in [Crawls -> RunStatus]
    /\ job \in [Crawls -> JobStatus \cup {None}]
    /\ tally \in [Crawls -> [RowKinds -> Tally]]
    /\ flush \in [Crawls -> Flush \cup {None}]
    /\ saves \in Nat
    /\ broken \subseteq Crawls /\ generated \subseteq Crawls
    /\ committed \in [Crawls -> [run: RunStatus, job: JobStatus \cup {None},
                                  rows: [RowKinds -> Nat], counted: [RowKinds -> Nat]] \cup {None}]

\* start(): launching may fail at any browser, and the lifespan goes on with the pool
\* as it is.  A process that never calls init_browser_pool has no pool.
Start(k) ==
    /\ launched = k
    /\ available = [i \in 1 .. (IF k = None THEN 0 ELSE k) |-> i - 1]

CrawlInit ==
    /\ \E k \in 0 .. PoolSize \cup {None} : Start(k)
    /\ stage = [c \in Crawls |-> "queued"]
    /\ slot = [c \in Crawls |-> None]
    /\ run = [c \in Crawls |-> "pending"]
    /\ job = [c \in Crawls |-> None]
    /\ tally = [c \in Crawls |-> [kind \in RowKinds |-> NoTally]]
    /\ flush = [c \in Crawls |-> None] /\ saves = 0
    /\ broken = {} /\ generated = {}
    /\ committed = [c \in Crawls |-> None]

Move(c, from, to) == stage[c] = from /\ stage' = [stage EXCEPT ![c] = to]

(*************************** The browser pool ******************************)

\* get_browser_pool: without a pool the agent raises before it has written anything.
GetPool(c) ==
    /\ IF launched = None THEN Move(c, "queued", "raised") ELSE Move(c, "queued", "waiting")
    /\ UNCHANGED <<launched, available, slot, run, job, tally, flush, saves, broken, generated, committed>>

\* acquire(), up to the index: the first free browser of the queue.
Take(c) ==
    /\ Move(c, "waiting", "opening")
    /\ available # <<>>
    /\ slot' = [slot EXCEPT ![c] = Head(available)]
    /\ available' = Tail(available)
    /\ UNCHANGED <<launched, run, job, tally, flush, saves, broken, generated, committed>>

\* acquire(), from the index on: a context or page that cannot be opened raises, and
\* nothing puts the index back.
Open(c) ==
    /\ \/ Move(c, "opening", "ready")
       \/ Move(c, "opening", "raised")
    /\ UNCHANGED <<launched, available, slot, run, job, tally, flush, saves, broken, generated, committed>>

\* Mutant: the index is put back, and remembered as taken.
ReleaseKept(c) ==
    /\ available' = Append(available, slot[c])
    /\ UNCHANGED slot
\* release(): errors of the close are swallowed, so the index always returns.
Release(c) ==
    /\ available' = Append(available, slot[c])
    /\ slot' = [slot EXCEPT ![c] = None]

(*************************** The crawl itself ******************************)

\* _create_crawl_job, then BaseAgent.execute up to the executor: the run is running.
CreateJob(c) ==
    /\ Move(c, "ready", "working")
    /\ job' = [job EXCEPT ![c] = "running"]
    /\ run' = [run EXCEPT ![c] = "running"]
    /\ UNCHANGED <<launched, available, slot, tally, flush, saves, broken, generated, committed>>

\* The insert fails: the browser is released, and there is no job to finish.
CreateJobFails(c) ==
    /\ Move(c, "ready", "raised")
    /\ broken' = broken \cup {c}
    /\ Release(c)
    /\ UNCHANGED <<launched, run, job, tally, flush, saves, generated, committed>>

\* The executor is at work, and its transaction is intact.
Works(c) == stage[c] = "working" /\ c \notin broken

\* A flush inserts every row that was added before it.
Flushed(t) == [kind \in RowKinds |->
                  [t[kind] EXCEPT !["rows"] = t[kind]["rows"] + t[kind]["added"], !["added"] = 0]]

Added(t, kind) == [t EXCEPT ![kind]["added"] = @ + 1]
Answered(t, kind) == [t EXCEPT ![kind]["answered"] = @ + 1]
Erred(t, kind) == [t EXCEPT ![kind]["erred"] = @ + 1]
Tallied(c, t) == tally' = [tally EXCEPT ![c] = t]

\* No tool call is under way.
Idle(c) == flush[c] = None /\ \A kind \in RowKinds : tally[c][kind]["due"] = 0

\* save_crawl_page and save_requirement: a row is added, and its flush begins ...
Save(c, kind) ==
    /\ Works(c) /\ flush[c] = None /\ saves < MaxSaves
    /\ saves' = saves + 1
    /\ Tallied(c, Flushed(Added(tally[c], kind)))
    /\ flush' = [flush EXCEPT ![c] = [kind |-> kind, of |-> "insert"]]
    /\ UNCHANGED <<launched, available, stage, slot, run, job, broken, generated, committed>>

\* ... or is refused, during another: the call answers with an error, and the row stays in
\* the session.  Arguments of which no row can be made leave none.
SaveRefused(c, kind) ==
    /\ Works(c) /\ saves < MaxSaves
    /\ saves' = saves + 1
    /\ \/ flush[c] # None /\ Tallied(c, Erred(Added(tally[c], kind), kind))
       \/ Tallied(c, Erred(tally[c], kind))
    /\ UNCHANGED <<launched, available, stage, slot, run, job, flush, broken, generated, committed>>

\* The row is inserted, and the call goes on to count it.
SaveInserted(c, kind) ==
    /\ Works(c) /\ flush[c] = [kind |-> kind, of |-> "insert"]
    /\ flush' = [flush EXCEPT ![c] = None]
    /\ Tallied(c, [tally[c] EXCEPT ![kind]["due"] = @ + 1])
    /\ UNCHANGED <<launched, available, stage, slot, run, job, saves, broken, generated, committed>>

\* The number the job has: as a call left it in memory, or as the database has it, when
\* nothing has kept the object alive.
Counts(t) == {t["memory"], t["counted"]}

\* The job is counted up, and its flush begins ...
Count(c, kind) ==
    /\ Works(c) /\ flush[c] = None /\ tally[c][kind]["due"] > 0
    /\ \E n \in Counts(tally[c][kind]) :
          Tallied(c, Flushed([tally[c] EXCEPT ![kind]["due"] = @ - 1, ![kind]["memory"] = n + 1,
                                              ![kind]["counted"] = n + 1]))
    /\ flush' = [flush EXCEPT ![c] = [kind |-> kind, of |-> "count"]]
    /\ UNCHANGED <<launched, available, stage, slot, run, job, saves, broken, generated, committed>>

\* ... or is refused, and the count stays in memory: the flush under way marks what was
\* changed during it as clean.  The job may also not be read at all.  The call answers with
\* an error, and its row is not counted.
CountRefused(c, kind) ==
    /\ Works(c) /\ tally[c][kind]["due"] > 0
    /\ \/ /\ flush[c] # None
          /\ \E n \in Counts(tally[c][kind]) :
                Tallied(c, Erred([tally[c] EXCEPT ![kind]["due"] = @ - 1, ![kind]["memory"] = n + 1], kind))
       \/ Tallied(c, Erred([tally[c] EXCEPT ![kind]["due"] = @ - 1], kind))
    /\ UNCHANGED <<launched, available, stage, slot, run, job, flush, saves, broken, generated, committed>>

\* The call answers with the row's id; a requirement's is remembered.
SaveAnswers(c, kind) ==
    /\ Works(c) /\ flush[c] = [kind |-> kind, of |-> "count"]
    /\ flush' = [flush EXCEPT ![c] = None]
    /\ Tallied(c, Answered(tally[c], kind))
    /\ UNCHANGED <<launched, available, stage, slot, run, job, saves, broken, generated, committed>>

\* The flushes of _record_tool_call, for every tool call, and of save_requirement when it
\* links the page: their refusal is swallowed.
OtherFlush(c) ==
    /\ Works(c)
    /\ \/ /\ flush[c] = None
          /\ flush' = [flush EXCEPT ![c] = Other]
          /\ Tallied(c, Flushed(tally[c]))
       \/ /\ flush[c] = Other
          /\ flush' = [flush EXCEPT ![c] = None]
          /\ UNCHANGED tally
    /\ UNCHANGED <<launched, available, stage, slot, run, job, saves, broken, generated, committed>>

\* A flush fails, or the wall-clock timeout cancels a call that waits for the database: the
\* transaction is rolled back, and every later flush raises.
FlushFails(c) ==
    /\ Works(c)
    /\ broken' = broken \cup {c}
    /\ Tallied(c, [kind \in RowKinds |-> NoTally])
    /\ flush' = [flush EXCEPT ![c] = None]
    /\ UNCHANGED <<launched, available, stage, slot, run, job, saves, generated, committed>>

\* Mutant: the job takes the run's status, timed_out included.
FinishedLikeRun(status) == status
\* _finish_crawl_job
Finished(status) == IF status = "completed" THEN "completed" ELSE "failed"

\* run_agent returns, also after an error of the executor, or is timed out, or raises, and
\* what was added is flushed; the job follows the run.  A tool or prompt that cannot be
\* set up raises earlier, out of execute(): the run stays running and the except clause
\* fails the job.
EndAgent(c) ==
    /\ Works(c) /\ Idle(c)
    /\ \/ \E status \in {"completed", "timed_out", "failed"} :
              /\ run' = [run EXCEPT ![c] = status]
              /\ job' = [job EXCEPT ![c] = Finished(status)]
              /\ Move(c, "working", IF status = "completed" THEN "followup" ELSE "closing")
       \/ /\ tally[c] = [kind \in RowKinds |-> NoTally]
          /\ job' = [job EXCEPT ![c] = Finished("failed")]
          /\ Move(c, "working", "raised")
          /\ UNCHANGED run
    /\ Tallied(c, Flushed(tally[c]))
    /\ Release(c)
    /\ UNCHANGED <<launched, flush, saves, broken, generated, committed>>

\* The final flush of a broken transaction raises, and so does the except clause.
EndBroken(c) ==
    /\ c \in broken
    /\ Move(c, "working", "raised")
    /\ Release(c)
    /\ UNCHANGED <<launched, run, job, tally, flush, saves, broken, generated, committed>>

\* _maybe_dispatch_generation, after the browser went back: a run is inserted when ids of
\* requirements are remembered and the system asks for it, unless the quota refuses, which
\* raises.
FollowUp(c) ==
    /\ stage[c] = "followup"
    /\ \/ Move(c, "followup", "closing") /\ UNCHANGED generated
       \/ /\ tally[c]["requirements"]["answered"] > 0
          /\ Move(c, "followup", "closing")
          /\ generated' = generated \cup {c}
       \/ /\ tally[c]["requirements"]["answered"] > 0
          /\ Move(c, "followup", "raised")
          /\ UNCHANGED generated
    /\ UNCHANGED <<launched, available, slot, run, job, tally, flush, saves, broken, committed>>

\* The worker commits, also when the agent raised; a commit that fails is rolled back.
CommitCrawl(c) ==
    /\ stage[c] \in {"closing", "raised"}
    /\ stage' = [stage EXCEPT ![c] = "ended"]
    /\ \/ /\ c \notin broken
          /\ committed' = [committed EXCEPT ![c] =
                [run |-> run[c], job |-> job[c],
                 rows |-> [kind \in RowKinds |-> tally[c][kind]["rows"]],
                 counted |-> [kind \in RowKinds |-> tally[c][kind]["counted"]]]]
       \/ UNCHANGED committed
    /\ UNCHANGED <<launched, available, slot, run, job, tally, flush, saves, broken, generated>>

SaveStep(c) ==
    \/ \E kind \in RowKinds :
          \/ Save(c, kind) \/ SaveRefused(c, kind) \/ SaveInserted(c, kind)
          \/ Count(c, kind) \/ CountRefused(c, kind) \/ SaveAnswers(c, kind)
    \/ OtherFlush(c)

CrawlStep(c) ==
    \/ GetPool(c) \/ Take(c) \/ Open(c) \/ CreateJob(c) \/ CreateJobFails(c)
    \/ SaveStep(c) \/ FlushFails(c)
    \/ EndAgent(c) \/ EndBroken(c) \/ FollowUp(c) \/ CommitCrawl(c)
CrawlNext == \E c \in Crawls : CrawlStep(c)

CrawlSpec == CrawlInit /\ [][CrawlNext]_crawlVars

(***************************** Properties **********************************)

Copies(i) == Cardinality({n \in DOMAIN available : available[n] = i})
Holders(i) == {c \in Crawls : slot[c] = i}

\* Every launched browser is in exactly one place: free in the queue once, or taken by
\* one crawl, which may have ended without returning it (browser_pool.py acquire and
\* release, crawl_agent.py's finally).
BrowserInOnePlace ==
    launched # None =>
        \A i \in 0 .. launched - 1 : Copies(i) + Cardinality(Holders(i)) = 1

\* A browser is lost only by a context or page that could not be opened: a crawl that got
\* its page returns the browser whatever happens to it (the finally of execute()).
LostOnlyInOpen ==
    \A c \in Crawls : stage[c] = "ended" /\ slot[c] # None => job[c] = None /\ run[c] = "pending"

\* What is committed of a crawl agrees with itself: the job is settled; its counters are at
\* least the ids its calls answered with and at most the rows, and there is no more than a
\* row for each call, also when calls of one turn get in each other's way; it is completed
\* exactly when the run is; and a follow-on generation run exists only for a completed
\* crawl that answered with a requirement's id.
CommittedCrawlConsistent ==
    \A c \in Crawls : committed[c] # None =>
        LET m == committed[c] IN
        /\ m.job # "running"
        /\ (m.job = "completed") = (m.run = "completed")
        /\ m.job = None => m.run = "pending"
        /\ \A kind \in RowKinds :
             /\ tally[c][kind]["answered"] <= m.counted[kind]
             /\ m.counted[kind] <= m.rows[kind]
             /\ m.rows[kind] <= tally[c][kind]["answered"] + tally[c][kind]["erred"]
             /\ m.job = None => m.rows[kind] = 0
        /\ c \in generated => m.run = "completed" /\ tally[c]["requirements"]["answered"] > 0
=============================================================================
