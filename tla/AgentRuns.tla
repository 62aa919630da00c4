----------------------------- MODULE AgentRuns -----------------------------
(***************************************************************************)
(* The life of an agent run across the processes that share it: the API or *)
(* scheduler transaction that inserts the row and publishes its message    *)
(* (services/agent_dispatcher.py inside database.get_db), the Service Bus  *)
(* subscription, the worker processes (worker/service_bus_worker.py) with  *)
(* the agent they execute (agents/base.py), and the cancel request         *)
(* (services/agent_run_service.py).                                        *)
(*                                                                         *)
(* The database is Azure SQL with row versioning: a SELECT returns the     *)
(* last committed version and never blocks, an UPDATE takes an exclusive   *)
(* row lock that is kept until its transaction ends.                       *)
(***************************************************************************)
EXTENDS Integers, FiniteSets

CONSTANTS
    Runs,            \* agent runs that will be dispatched
    Workers,         \* worker replicas
    MaxDelivery,     \* the subscription's maxDeliveryCount
    DeadLetterAt,    \* _MAX_DELIVERY_COUNT of the worker
    MaxConcurrent,   \* settings.max_concurrent_agents
    MaxFailures,     \* bound on worker crashes and shutdowns, for TLC
    Unbuildable,     \* runs whose message names an agent type with no class
    NoWorker         \* "no worker", distinct from every worker

ASSUME DeliveryAssumption == MaxDelivery \in Nat \ {0} /\ DeadLetterAt \in Nat
ASSUME WorkerAssumption == IsFiniteSet(Workers) /\ NoWorker \notin Workers
ASSUME BoundAssumption == MaxConcurrent \in Nat \ {0} /\ MaxFailures \in Nat

\* A delivery is numbered by the delivery_count the message carries: the number
\* of earlier deliveries that were abandoned or whose lock expired.
Deliveries == 0 .. MaxDelivery - 1

\* Those who may write a row after its creation: the handler of each delivery,
\* and the cancel request, which takes the number after the last delivery.
CancelRequest == MaxDelivery
Claimants == 0 .. MaxDelivery

Settled == {"completed", "failed", "timed_out", "cancelled"}
Status == {"absent", "pending", "running"} \cup Settled

\* Why a run may be left behind; kept as history only.
Causes == {"unsent", "early", "aborted", "wedged", "rolledback", "exhausted"}

VARIABLES
    dispatch,  \* dispatch[r]: where the transaction creating r stands
    row,       \* row[r]: committed agent_runs.status
    holder,    \* holder[r]: the claimants whose open transaction has written r
    msg,       \* msg[r]: the broker's state of r's message and its delivery count
    pc,        \* pc[r][c]: where claimant c of run r stands
    val,       \* val[r][c]: the status c's open transaction would commit
    on,        \* on[r][d]: the worker whose task handles delivery d
    life,      \* life[w]: the state of worker process w
    failures,  \* crashes and shutdowns so far
    cause      \* cause[r]: what has gone wrong for r (history)

vars == <<dispatch, row, holder, msg, pc, val, on, life, failures, cause>>
txVars == <<row, holder, val>>
procVars == <<on, life, failures>>

Working == {"claimed", "executing", "committing", "settling"}
Open == {"claimed", "executing", "committing"}
Writing == {"executing", "committing"}

TypeOK ==
    /\ dispatch \in [Runs -> {"new", "flushed", "sent", "unsent", "committed", "rolledback"}]
    /\ row \in [Runs -> Status]
    /\ holder \in [Runs -> SUBSET Claimants]
    /\ msg \in [Runs -> [st : {"none", "ready", "locked", "done", "dead"}, n : Deliveries]]
    /\ pc \in [Runs -> [Claimants -> {"none", "waiting", "done"} \cup Working]]
    /\ val \in [Runs -> [Claimants -> Status]]
    /\ on \in [Runs -> [Deliveries -> Workers \cup {NoWorker}]]
    /\ life \in [Workers -> {"up", "stopping", "draining", "down"}]
    /\ failures \in Nat
    /\ cause \in [Runs -> SUBSET Causes]

Init ==
    /\ dispatch = [r \in Runs |-> "new"]
    /\ row = [r \in Runs |-> "absent"]
    /\ holder = [r \in Runs |-> {}]
    /\ msg = [r \in Runs |-> [st |-> "none", n |-> 0]]
    /\ pc = [r \in Runs |-> [c \in Claimants |-> "none"]]
    /\ val = [r \in Runs |-> [c \in Claimants |-> "absent"]]
    /\ on = [r \in Runs |-> [d \in Deliveries |-> NoWorker]]
    /\ life = [w \in Workers |-> "up"]
    /\ failures = 0
    /\ cause = [r \in Runs |-> {}]

Blame(r, why) == cause' = [cause EXCEPT ![r] = @ \cup {why}]

-----------------------------------------------------------------------------
(* The dispatching transaction.  A refused quota check raises before the   *)
(* first write and is not a step.                                          *)

\* The row is added and flushed: visible to nobody else before the commit.
Flush(r) ==
    /\ dispatch[r] = "new"
    /\ dispatch' = [dispatch EXCEPT ![r] = "flushed"]
    /\ UNCHANGED <<txVars, procVars, msg, pc, cause>>

\* The message goes out while the transaction is still open.
Publish(r) ==
    /\ dispatch[r] = "flushed"
    /\ dispatch' = [dispatch EXCEPT ![r] = "sent"]
    /\ msg' = [msg EXCEPT ![r].st = "ready"]
    /\ UNCHANGED <<txVars, procVars, pc, cause>>

\* A failed send is logged and swallowed; nothing sends it again.
PublishFails(r) ==
    /\ dispatch[r] = "flushed"
    /\ dispatch' = [dispatch EXCEPT ![r] = "unsent"]
    /\ UNCHANGED <<txVars, procVars, msg, pc, cause>>

\* get_db commits once the request handler (or scheduler pass) has returned.
CommitDispatch(r) ==
    /\ dispatch[r] \in {"sent", "unsent"}
    /\ dispatch' = [dispatch EXCEPT ![r] = "committed"]
    /\ row' = [row EXCEPT ![r] = "pending"]
    /\ IF dispatch[r] = "unsent" THEN Blame(r, "unsent") ELSE UNCHANGED cause
    /\ UNCHANGED <<procVars, holder, val, msg, pc>>

\* A later error of the same request, or the death of its process.
RollbackDispatch(r) ==
    /\ dispatch[r] \in {"flushed", "sent", "unsent"}
    /\ dispatch' = [dispatch EXCEPT ![r] = "rolledback"]
    /\ UNCHANGED <<txVars, procVars, msg, pc, cause>>

-----------------------------------------------------------------------------
(* The subscription: peek-lock, at-least-once, dead-lettering the message  *)
(* when its last permitted delivery fails.  The worker never renews locks. *)

\* Mutants: the limit is one too high; abandoning does not count.
RequeuedOffByOne(m) ==
    IF m.n + 1 <= MaxDelivery THEN [st |-> "ready", n |-> m.n + 1]
                              ELSE [st |-> "dead", n |-> m.n]
RequeuedUncounted(m) == [st |-> "ready", n |-> m.n]

Requeued(m) ==
    IF m.n + 1 < MaxDelivery THEN [st |-> "ready", n |-> m.n + 1]
                             ELSE [st |-> "dead", n |-> m.n]

Requeue(r) ==
    /\ msg' = [msg EXCEPT ![r] = Requeued(@)]
    /\ IF msg[r].n + 1 < MaxDelivery THEN UNCHANGED cause ELSE Blame(r, "exhausted")

\* lockDuration is 5 minutes, an agent may take 30, and the wait for the
\* semaphore counts too: a lock can expire under a task that is still alive.
LockExpires(r) ==
    /\ msg[r].st = "locked"
    /\ Requeue(r)
    /\ UNCHANGED <<txVars, procVars, dispatch, pc>>

Deliver(w, r) ==
    /\ life[w] = "up"
    /\ msg[r].st = "ready"
    /\ msg' = [msg EXCEPT ![r].st = "locked"]
    /\ pc' = [pc EXCEPT ![r][msg[r].n] = "waiting"]
    /\ on' = [on EXCEPT ![r][msg[r].n] = w]
    /\ UNCHANGED <<txVars, dispatch, life, failures, cause>>

\* The shutdown flag is only looked at when a message arrives: that message is
\* abandoned, the loop breaks, and leaving the receiver's context closes it.
DeliverAfterShutdown(w, r) ==
    /\ life[w] = "stopping"
    /\ msg[r].st = "ready"
    /\ Requeue(r)
    /\ life' = [life EXCEPT ![w] = "draining"]
    /\ UNCHANGED <<txVars, dispatch, pc, on, failures>>

-----------------------------------------------------------------------------
(* One task per delivery: _process_with_semaphore around _process_message. *)

Active(w) == {t \in Runs \X Deliveries : on[t[1]][t[2]] = w /\ pc[t[1]][t[2]] \in Working}

\* The settling calls need the lock of this very delivery and an open receiver.
CanSettle(r, d) ==
    /\ msg[r] = [st |-> "locked", n |-> d]
    /\ life[on[r][d]] \in {"up", "stopping"}

Enter(r, d) ==
    /\ pc[r][d] = "waiting"
    /\ Cardinality(Active(on[r][d])) < MaxConcurrent

Goto(r, c, l) == pc' = [pc EXCEPT ![r][c] = l]

\* Too many deliveries already: the worker dead-letters without looking at the
\* run.  The call is outside the try block, so a lost lock just ends the task.
DeadLetter(r, d) ==
    /\ Enter(r, d)
    /\ d >= DeadLetterAt
    /\ Goto(r, d, "done")
    /\ IF CanSettle(r, d)
         THEN msg' = [msg EXCEPT ![r].st = "dead"] /\ Blame(r, "exhausted")
         ELSE UNCHANGED <<msg, cause>>
    /\ UNCHANGED <<txVars, procVars, dispatch>>

\* run_not_found and run_skipped: return, and the message will be completed.
Skip(r, d) ==
    /\ Enter(r, d)
    /\ d < DeadLetterAt
    /\ row[r] # "pending"
    /\ Goto(r, d, "settling")
    /\ IF row[r] = "absent" THEN Blame(r, "early") ELSE UNCHANGED cause
    /\ UNCHANGED <<txVars, procVars, dispatch, msg>>

\* Mutant: the worker does not look at the status it has read.
ClaimUnchecked(r, d) ==
    /\ Enter(r, d)
    /\ Goto(r, d, "claimed")
    /\ UNCHANGED <<txVars, procVars, dispatch, msg, cause>>

Claim(r, d) ==
    /\ Enter(r, d)
    /\ d < DeadLetterAt
    /\ row[r] = "pending"
    /\ Goto(r, d, "claimed")
    /\ UNCHANGED <<txVars, procVars, dispatch, msg, cause>>

\* Mutant: the worker swallows the exception and completes the message.
LoadFailsSwallowed(r, d) ==
    /\ Enter(r, d)
    /\ d < DeadLetterAt
    /\ Goto(r, d, "settling")
    /\ UNCHANGED <<txVars, procVars, dispatch, msg, cause>>

\* The database cannot be read: the exception reaches abandon_message.
LoadFails(r, d) ==
    /\ Enter(r, d)
    /\ d < DeadLetterAt
    /\ Goto(r, d, "done")
    /\ IF CanSettle(r, d) THEN Requeue(r) ELSE UNCHANGED <<msg, cause>>
    /\ UNCHANGED <<txVars, procVars, dispatch>>

\* Mutant: the UPDATE does not wait for the row's other writer.
LockUnguarded(r, c, s) ==
    /\ holder' = [holder EXCEPT ![r] = @ \cup {c}]
    /\ val' = [val EXCEPT ![r][c] = s]

\* The first UPDATE of a transaction waits for the row lock, which goes when the
\* transaction ends.
Lock(r, c, s) ==
    /\ holder[r] = {}
    /\ holder' = [holder EXCEPT ![r] = @ \cup {c}]
    /\ val' = [val EXCEPT ![r][c] = s]

Unlock(r, c) ==
    /\ holder' = [holder EXCEPT ![r] = @ \ {c}]
    /\ val' = [val EXCEPT ![r][c] = "absent"]

\* _build_agent raises ValueError: the run is failed without running.
FailUnbuildable(r, d) ==
    /\ pc[r][d] = "claimed" /\ d \in Deliveries
    /\ r \in Unbuildable
    /\ Lock(r, d, "failed")
    /\ Goto(r, d, "committing")
    /\ UNCHANGED <<procVars, dispatch, row, msg, cause>>

\* execute() raises before it touches the run: no browser pool in the worker
\* process, Playwright will not start, the crawl_jobs row cannot be inserted.
AbortBeforeStart(r, d) ==
    /\ pc[r][d] = "claimed" /\ d \in Deliveries
    /\ r \notin Unbuildable
    /\ Goto(r, d, "settling")
    /\ Blame(r, "aborted")
    /\ UNCHANGED <<txVars, procVars, dispatch, msg>>

\* Mutant: RUNNING is committed at once.
StartCommitted(r, d) ==
    /\ pc[r][d] = "claimed" /\ d \in Deliveries
    /\ r \notin Unbuildable
    /\ Lock(r, d, "running")
    /\ row' = [row EXCEPT ![r] = "running"]
    /\ Goto(r, d, "executing")
    /\ UNCHANGED <<procVars, dispatch, msg, cause>>

\* status = RUNNING is flushed, not committed.
Start(r, d) ==
    /\ pc[r][d] = "claimed" /\ d \in Deliveries
    /\ r \notin Unbuildable
    /\ Lock(r, d, "running")
    /\ Goto(r, d, "executing")
    /\ UNCHANGED <<procVars, dispatch, row, msg, cause>>

\* get_tools, get_system_prompt and _build_executor run outside the try block:
\* an exception there reaches the worker, which commits the RUNNING status.
SetupRaises(r, d) ==
    /\ pc[r][d] = "executing" /\ d \in Deliveries
    /\ Goto(r, d, "committing")
    /\ UNCHANGED <<txVars, procVars, dispatch, msg, cause>>

\* run_agent returned, raised, or ran into the wall-clock timeout.  Feedback to
\* the scheduled job and token usage join the same transaction; an exception
\* there still ends in the worker's commit of this status.
Finish(r, d) ==
    /\ pc[r][d] = "executing" /\ d \in Deliveries
    /\ \E s \in {"completed", "failed", "timed_out"} : val' = [val EXCEPT ![r][d] = s]
    /\ Goto(r, d, "committing")
    /\ UNCHANGED <<procVars, dispatch, row, holder, msg, cause>>

CommitTask(r, d) ==
    /\ pc[r][d] = "committing" /\ d \in Deliveries
    /\ row' = [row EXCEPT ![r] = val[r][d]]
    /\ Unlock(r, d)
    /\ Goto(r, d, "settling")
    /\ IF val[r][d] = "running" THEN Blame(r, "wedged") ELSE UNCHANGED cause
    /\ UNCHANGED <<procVars, dispatch, msg>>

\* A tool's failed flush has poisoned the session, or the commit itself fails:
\* the worker rolls back and swallows the exception.
CommitFails(r, d) ==
    /\ pc[r][d] \in Writing /\ d \in Deliveries
    /\ r \notin Unbuildable
    /\ Unlock(r, d)
    /\ Goto(r, d, "settling")
    /\ Blame(r, "rolledback")
    /\ UNCHANGED <<procVars, dispatch, row, msg>>

\* The commit of an unbuildable run is outside that try block: the exception
\* reaches abandon_message.
UnbuildableCommitFails(r, d) ==
    /\ pc[r][d] = "committing" /\ d \in Deliveries
    /\ r \in Unbuildable
    /\ Unlock(r, d)
    /\ Goto(r, d, "done")
    /\ IF CanSettle(r, d) THEN Requeue(r) ELSE UNCHANGED <<msg, cause>>
    /\ UNCHANGED <<procVars, dispatch, row>>

\* complete_message; when the lock or the receiver is gone, the completion and
\* the abandon after it both raise and the task ends.
Settle(r, d) ==
    /\ pc[r][d] = "settling" /\ d \in Deliveries
    /\ Goto(r, d, "done")
    /\ msg' = IF CanSettle(r, d) THEN [msg EXCEPT ![r].st = "done"] ELSE msg
    /\ UNCHANGED <<txVars, procVars, dispatch, cause>>

-----------------------------------------------------------------------------
(* Worker processes.                                                       *)

Alive(w) == {t \in Runs \X Deliveries :
                on[t[1]][t[2]] = w /\ pc[t[1]][t[2]] \in Working \cup {"waiting"}}

SignalShutdown(w) ==
    /\ life[w] = "up" /\ failures < MaxFailures
    /\ life' = [life EXCEPT ![w] = "stopping"]
    /\ failures' = failures + 1
    /\ UNCHANGED <<txVars, dispatch, msg, pc, on, cause>>

\* Mutant: the transactions of a dead worker are not rolled back.
CrashKeepsLocks(w) ==
    /\ life[w] # "down" /\ failures < MaxFailures
    /\ life' = [life EXCEPT ![w] = "down"]
    /\ failures' = failures + 1
    /\ pc' = [r \in Runs |-> [c \in Claimants |->
                IF <<r, c>> \in Alive(w) THEN "done" ELSE pc[r][c]]]
    /\ UNCHANGED <<txVars, dispatch, msg, on, cause>>

\* Also the kill that ends a shutdown's grace period.  The connection dies, so
\* the server rolls its transactions back; message locks stay until they expire.
Crash(w) ==
    /\ life[w] # "down" /\ failures < MaxFailures
    /\ life' = [life EXCEPT ![w] = "down"]
    /\ failures' = failures + 1
    /\ pc' = [r \in Runs |-> [c \in Claimants |->
                IF <<r, c>> \in Alive(w) THEN "done" ELSE pc[r][c]]]
    /\ holder' = [r \in Runs |-> {c \in holder[r] : <<r, c>> \notin Alive(w)}]
    /\ val' = [r \in Runs |-> [c \in Claimants |->
                IF <<r, c>> \in Alive(w) THEN "absent" ELSE val[r][c]]]
    /\ UNCHANGED <<dispatch, row, msg, on, cause>>

\* gather() over the in-flight tasks has returned.
Exit(w) ==
    /\ life[w] = "draining"
    /\ Alive(w) = {}
    /\ life' = [life EXCEPT ![w] = "down"]
    /\ UNCHANGED <<txVars, dispatch, msg, pc, on, failures, cause>>

Restart(w) ==
    /\ life[w] = "down"
    /\ life' = [life EXCEPT ![w] = "up"]
    /\ UNCHANGED <<txVars, dispatch, msg, pc, on, failures, cause>>

-----------------------------------------------------------------------------
(* The cancel request: read, flush, commit when the handler has returned.  *)
(* A run may be cancelled again and again.                                 *)

\* Mutant: a request to cancel is accepted whatever the status.
CancelReadUnchecked(r) ==
    /\ pc[r][CancelRequest] = "none"
    /\ row[r] # "absent"
    /\ Goto(r, CancelRequest, "claimed")
    /\ UNCHANGED <<txVars, procVars, dispatch, msg, cause>>

CancelRead(r) ==
    /\ pc[r][CancelRequest] = "none"
    /\ row[r] \in {"pending", "running"}
    /\ Goto(r, CancelRequest, "claimed")
    /\ UNCHANGED <<txVars, procVars, dispatch, msg, cause>>

CancelFlush(r) ==
    /\ pc[r][CancelRequest] = "claimed"
    /\ Lock(r, CancelRequest, "cancelled")
    /\ Goto(r, CancelRequest, "committing")
    /\ UNCHANGED <<procVars, dispatch, row, msg, cause>>

CancelCommit(r) ==
    /\ pc[r][CancelRequest] = "committing"
    /\ row' = [row EXCEPT ![r] = val[r][CancelRequest]]
    /\ Unlock(r, CancelRequest)
    /\ Goto(r, CancelRequest, "none")
    /\ UNCHANGED <<procVars, dispatch, msg, cause>>

CancelRollback(r) ==
    /\ pc[r][CancelRequest] \in {"claimed", "committing"}
    /\ Unlock(r, CancelRequest)
    /\ Goto(r, CancelRequest, "none")
    /\ UNCHANGED <<procVars, dispatch, row, msg, cause>>

-----------------------------------------------------------------------------
Dispatching(r) ==
    \/ Flush(r) \/ Publish(r) \/ PublishFails(r)
    \/ CommitDispatch(r) \/ RollbackDispatch(r)

Task(r, d) ==
    \/ DeadLetter(r, d) \/ Skip(r, d) \/ Claim(r, d) \/ LoadFails(r, d)
    \/ FailUnbuildable(r, d) \/ AbortBeforeStart(r, d) \/ Start(r, d)
    \/ SetupRaises(r, d) \/ Finish(r, d)
    \/ CommitTask(r, d) \/ CommitFails(r, d) \/ UnbuildableCommitFails(r, d)
    \/ Settle(r, d)

Cancelling(r) ==
    \/ CancelRead(r) \/ CancelFlush(r) \/ CancelCommit(r) \/ CancelRollback(r)

Process(w) == SignalShutdown(w) \/ Crash(w) \/ Exit(w) \/ Restart(w)

Next ==
    \/ \E r \in Runs : Dispatching(r) \/ LockExpires(r) \/ Cancelling(r)
    \/ \E r \in Runs, d \in Deliveries : Task(r, d)
    \/ \E w \in Workers, r \in Runs : Deliver(w, r) \/ DeliverAfterShutdown(w, r)
    \/ \E w \in Workers : Process(w)

Spec == Init /\ [][Next]_vars

(* Fairness.  Every request and every task that can go on does so: nothing *)
(* in them waits for anything but a semaphore slot or the row lock, and    *)
(* run_agent ends by its timeout.  No error step is ever owed.  SQL Server *)
(* grants a row lock in arrival order, hence strong fairness for the steps *)
(* that take it.  The platform restarts a stopped replica, and the broker  *)
(* hands a ready message to some live receiver and expires old locks.      *)
Progress(r, d) ==
    \/ DeadLetter(r, d) \/ Skip(r, d) \/ Claim(r, d)
    \/ Finish(r, d) \/ CommitTask(r, d) \/ Settle(r, d)

Fairness ==
    /\ \A r \in Runs :
        /\ WF_vars(Publish(r)) /\ WF_vars(CommitDispatch(r))
        /\ WF_vars(LockExpires(r))
        /\ WF_vars(\E w \in Workers : Deliver(w, r) \/ DeliverAfterShutdown(w, r))
        /\ SF_vars(CancelFlush(r)) /\ WF_vars(CancelCommit(r))
        /\ \A d \in Deliveries :
            /\ WF_vars(Progress(r, d))
            /\ SF_vars(Start(r, d) \/ FailUnbuildable(r, d))
    /\ \A w \in Workers : WF_vars(Exit(w)) /\ WF_vars(Restart(w))

FairSpec == Spec /\ Fairness

-----------------------------------------------------------------------------
(* Properties.                                                             *)

\* The row lock is exact: a claimant holds the lock of a run's row if and only
\* if its transaction has written the row and is still open, and no two do.
\* Duplicate deliveries, cancel requests and crashes never leave a lock behind
\* and never let two executions of one run overlap (base.py's execute between
\* its first flush and the worker's commit).
RowLockExact ==
    \A r \in Runs :
        /\ \A c \in Claimants : c \in holder[r] <=> pc[r][c] \in Writing
        /\ \A c, e \in holder[r] : c = e

\* Nobody acts on a run whose dispatching transaction has not committed: every
\* claimant in flight read a durable row, so no execution outlives a rollback.
DurableBeforeClaim ==
    \A r \in Runs, c \in Claimants :
        pc[r][c] \in Open => dispatch[r] = "committed" /\ row[r] # "absent"

\* What makes the two inductive.  A row exists exactly when its dispatch has
\* committed; a delivery not yet made has no task; a cancel request is never a
\* delivery's task; an open transaction would commit a status of its own kind.
RowIffCommitted == \A r \in Runs : row[r] # "absent" <=> dispatch[r] = "committed"

UndeliveredIsIdle ==
    \A r \in Runs :
        /\ dispatch[r] \in {"new", "flushed"} => msg[r].st = "none"
        /\ \A d \in Deliveries :
            \/ d > msg[r].n
            \/ d = msg[r].n /\ msg[r].st \in {"none", "ready"}
            => pc[r][d] = "none"

CancelStates == \A r \in Runs : pc[r][CancelRequest] \in {"none", "claimed", "committing"}

PendingWrites ==
    \A r \in Runs, c \in Claimants :
        pc[r][c] \in Writing =>
            val[r][c] \in IF c = CancelRequest
                           THEN {"cancelled"}
                           ELSE {"running", "completed", "failed", "timed_out"}

IInv ==
    /\ TypeOK /\ RowIffCommitted /\ UndeliveredIsIdle /\ CancelStates /\ PendingWrites
    /\ RowLockExact /\ DurableBeforeClaim

\* A committed run that is still pending has its message in the broker, ready or in
\* the hands of a task, or was left behind for one of the reasons in cause: no
\* interleaving of redelivery, cancellation and shutdown loses it otherwise.
NoSilentLoss ==
    \A r \in Runs :
        row[r] = "pending" => msg[r].st \in {"ready", "locked"} \/ cause[r] # {}

\* RUNNING is flushed but committed only at the end, so what everybody else
\* (stream_steps, cancel, the run list) sees as running is a run whose setup
\* raised and that no code path will ever finish, save a duplicate delivery.
RunningOnlyIfWedged ==
    \A r \in Runs : row[r] = "running" => "wedged" \in cause[r]

Claimed(r) == {c \in Claimants : pc[r][c] \in Open}

\* A run that has left pending is not executed: no task has a claim on it.
Unattended(r) == row[r] \notin {"absent", "pending"} /\ Claimed(r) \cap Deliveries = {}

\* A settled run is left alone: nobody has a claim on it.
Final(r) == row[r] \in Settled /\ Claimed(r) = {}

\* What the status checks protect while messages are redelivered and cancel requests
\* overlap the worker: no step ends either state.  Once a run has left pending and no task
\* has a claim on it, no agent is ever executed for it again (service_bus_worker.py:144),
\* though a task whose setup raised may have left it open; and once it is settled and
\* nobody has a claim on it, it is never claimed again, by a task or by a cancel request
\* (agent_run_service.py:111), and keeps its status.
SettledIsFinal ==
    [][\A r \in Runs :
        /\ Unattended(r) => Unattended(r)'
        /\ Final(r) => Final(r)' /\ row'[r] = row[r]]_vars

\* The committed status behaves like RunRecord: one write per claim, each claim
\* taken from an open status, whatever the queue, the workers and the locks do.
Record == INSTANCE RunRecord WITH
    Executors <- Deliveries,
    Cancellers <- {CancelRequest},
    claims <- [r \in Runs |-> Claimed(r)]

RefinesRecord == Record!Spec

\* The broker is rid of every published message in the end, completed or
\* dead-lettered, through crashes, shutdowns and expiring locks.
MessageSettles ==
    \A r \in Runs : msg[r].st \in {"ready", "locked"} ~> msg[r].st \in {"done", "dead"}

\* No row lock is kept for ever, whichever process dies.
LockReleased == \A r \in Runs : holder[r] # {} ~> holder[r] = {}

\* Every committed run is settled in the end, or has been left behind for a
\* reason in cause.
RunResolves ==
    \A r \in Runs : row[r] = "pending" ~> row[r] \in Settled \/ cause[r] # {}

-----------------------------------------------------------------------------
(* What the code's own comments say, and it does not do.                   *)

\* agent_dispatcher.py:23-24, "This ensures every run has a DB record before
\* the worker picks it up": a task that enters finds the row.
RecordBeforePickup ==
    [][\A r \in Runs, d \in Deliveries :
        pc[r][d] = "waiting" /\ pc'[r][d] \in {"claimed", "settling"}
            => row[r] # "absent"]_vars

\* service_bus_worker.py:143, "Skip runs that are no longer pending (duplicate
\* delivery or cancel)": an agent only ever starts for a pending run.
StartsOnlyPending ==
    [][\A r \in Runs, d \in Deliveries :
        pc[r][d] = "claimed" /\ pc'[r][d] = "executing" => row[r] = "pending"]_vars
=============================================================================
