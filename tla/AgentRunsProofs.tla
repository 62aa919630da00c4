-------------------------- MODULE AgentRunsProofs --------------------------
(***************************************************************************)
(* Machine-checked proofs about AgentRuns, for every number of runs,       *)
(* workers, deliveries and every limit.                                    *)
(***************************************************************************)
EXTENDS AgentRuns, TLAPS

\* The handlers of the deliveries and the cancel request are different claimants.
LEMMA ClaimantFacts ==
    /\ Deliveries \subseteq Claimants
    /\ CancelRequest \in Claimants
    /\ CancelRequest \notin Deliveries
    /\ Claimants = Deliveries \cup {CancelRequest}
    /\ 0 \in Deliveries
    /\ \A d \in Deliveries : d \in Int /\ (d + 1 < MaxDelivery => d + 1 \in Deliveries)
BY DeliveryAssumption DEF Deliveries, Claimants, CancelRequest

-----------------------------------------------------------------------------
(* Type correctness.                                                       *)

\* Adding a reason to the history keeps it well typed.
LEMMA BlameType ==
    ASSUME TypeOK, NEW r \in Runs, NEW why \in Causes, Blame(r, why)
    PROVE  cause' \in [Runs -> SUBSET Causes]
<1>1. cause \in [Runs -> SUBSET Causes]
  BY DEF TypeOK
<1>2. cause[r] \cup {why} \in SUBSET Causes
  BY <1>1
<1> QED BY <1>1, <1>2 DEF Blame

\* Taking and releasing a row lock keeps holders and pending writes well typed.
LEMMA LockType ==
    ASSUME TypeOK, NEW r \in Runs, NEW c \in Claimants, NEW s \in Status,
           Lock(r, c, s) \/ Unlock(r, c)
    PROVE  /\ holder' \in [Runs -> SUBSET Claimants]
           /\ val' \in [Runs -> [Claimants -> Status]]
<1>1. holder \in [Runs -> SUBSET Claimants] /\ val \in [Runs -> [Claimants -> Status]]
  BY DEF TypeOK
<1>2. holder[r] \cup {c} \in SUBSET Claimants /\ holder[r] \ {c} \in SUBSET Claimants
  BY <1>1
<1>3. [val[r] EXCEPT ![c] = s] \in [Claimants -> Status]
      /\ [val[r] EXCEPT ![c] = "absent"] \in [Claimants -> Status]
  BY <1>1 DEF Status
<1>4. CASE Lock(r, c, s)
  BY <1>1, <1>2, <1>3, <1>4 DEF Lock
<1>5. CASE Unlock(r, c)
  BY <1>1, <1>2, <1>3, <1>5 DEF Unlock
<1> QED BY <1>4, <1>5

\* Moving a claimant keeps its program counter well typed.
LEMMA GotoType ==
    ASSUME TypeOK, NEW r \in Runs, NEW c \in Claimants,
           NEW l \in {"none", "waiting", "done"} \cup Working, Goto(r, c, l)
    PROVE  pc' \in [Runs -> [Claimants -> {"none", "waiting", "done"} \cup Working]]
BY DEF TypeOK, Goto

\* Abandoning a message or losing its lock leaves a well-typed message and cause.
LEMMA RequeueType ==
    ASSUME TypeOK, NEW r \in Runs, Requeue(r)
    PROVE  /\ msg' \in [Runs -> [st : {"none", "ready", "locked", "done", "dead"},
                                 n : Deliveries]]
           /\ cause' \in [Runs -> SUBSET Causes]
<1>1. msg[r].n \in Deliveries /\ msg[r] \in [st : {"none", "ready", "locked", "done", "dead"},
                                            n : Deliveries]
  BY DEF TypeOK
<1>2. Requeued(msg[r]) \in [st : {"none", "ready", "locked", "done", "dead"}, n : Deliveries]
  BY <1>1, ClaimantFacts DEF Requeued
<1>3. msg' \in [Runs -> [st : {"none", "ready", "locked", "done", "dead"}, n : Deliveries]]
  BY <1>2 DEF TypeOK, Requeue
<1>4. cause' \in [Runs -> SUBSET Causes]
  BY BlameType DEF TypeOK, Requeue, Causes
<1> QED BY <1>3, <1>4

\* Types survive every step of a dispatching transaction, a lock expiry and a
\* cancel request.
LEMMA RunStepType ==
    ASSUME TypeOK, NEW r \in Runs, Dispatching(r) \/ LockExpires(r) \/ Cancelling(r)
    PROVE  TypeOK'
<1> USE ClaimantFacts
<1>1. CASE Flush(r)
  BY <1>1 DEF TypeOK, Flush, txVars, procVars
<1>2. CASE Publish(r)
  BY <1>2 DEF TypeOK, Publish, txVars, procVars
<1>3. CASE PublishFails(r)
  BY <1>3 DEF TypeOK, PublishFails, txVars, procVars
<1>4. CASE CommitDispatch(r)
  BY <1>4, BlameType DEF TypeOK, CommitDispatch, procVars, Causes, Status
<1>5. CASE RollbackDispatch(r)
  BY <1>5 DEF TypeOK, RollbackDispatch, txVars, procVars
<1>6. CASE LockExpires(r)
  BY <1>6, RequeueType DEF TypeOK, LockExpires, txVars, procVars
<1>7. CASE CancelRead(r)
  BY <1>7, GotoType DEF TypeOK, CancelRead, Working, txVars, procVars
<1>8. CASE CancelFlush(r)
  BY <1>8, LockType, GotoType DEF TypeOK, CancelFlush, Working, Status, Settled, procVars
<1>9. CASE CancelCommit(r)
  <2>1. row' \in [Runs -> Status]
    BY <1>9 DEF TypeOK, CancelCommit
  <2> QED BY <1>9, <2>1, LockType, GotoType DEF TypeOK, CancelCommit, Working, Status, procVars
<1>10. CASE CancelRollback(r)
  BY <1>10, LockType, GotoType DEF TypeOK, CancelRollback, Working, Status, procVars
<1> QED
  BY <1>1, <1>2, <1>3, <1>4, <1>5, <1>6, <1>7, <1>8, <1>9, <1>10
     DEF Dispatching, Cancelling

\* Types survive every step of a delivery's task.
LEMMA TaskType ==
    ASSUME TypeOK, NEW r \in Runs, NEW d \in Deliveries, Task(r, d)
    PROVE  TypeOK'
<1> USE ClaimantFacts
<1>1. CASE DeadLetter(r, d)
  <2>1. CASE CanSettle(r, d)
    <3>1. cause' \in [Runs -> SUBSET Causes]
      <4>1. Blame(r, "exhausted")
        BY <1>1, <2>1 DEF DeadLetter
      <4>2. "exhausted" \in Causes
        BY DEF Causes
      <4> QED BY <4>1, <4>2, BlameType
    <3>2. msg' \in [Runs -> [st : {"none", "ready", "locked", "done", "dead"}, n : Deliveries]]
      <4>1. msg' = [msg EXCEPT ![r].st = "dead"]
        BY <1>1, <2>1 DEF DeadLetter
      <4> QED BY <4>1 DEF TypeOK
    <3> QED BY <1>1, <3>1, <3>2, GotoType DEF TypeOK, DeadLetter, txVars, procVars
  <2>2. CASE ~CanSettle(r, d)
    BY <1>1, <2>2, GotoType DEF TypeOK, DeadLetter, txVars, procVars
  <2> QED BY <2>1, <2>2
<1>2. CASE Skip(r, d)
  BY <1>2, BlameType, GotoType DEF TypeOK, Skip, Causes, Working, txVars, procVars
<1>3. CASE Claim(r, d)
  BY <1>3, GotoType DEF TypeOK, Claim, Working, txVars, procVars
<1>4. CASE LoadFails(r, d)
  <2>1. CASE CanSettle(r, d)
    BY <1>4, <2>1, RequeueType, GotoType DEF TypeOK, LoadFails, Working, txVars, procVars
  <2>2. CASE ~CanSettle(r, d)
    BY <1>4, <2>2, GotoType DEF TypeOK, LoadFails, Working, txVars, procVars
  <2> QED BY <2>1, <2>2
<1>5. CASE FailUnbuildable(r, d)
  BY <1>5, LockType, GotoType DEF TypeOK, FailUnbuildable, Working, Status, Settled, procVars
<1>6. CASE AbortBeforeStart(r, d)
  BY <1>6, BlameType, GotoType DEF TypeOK, AbortBeforeStart, Causes, Working, txVars, procVars
<1>7. CASE Start(r, d)
  BY <1>7, LockType, GotoType DEF TypeOK, Start, Working, Status, procVars
<1>8. CASE SetupRaises(r, d)
  BY <1>8, GotoType DEF TypeOK, SetupRaises, Working, txVars, procVars
<1>9. CASE Finish(r, d)
  <2>1. PICK s \in {"completed", "failed", "timed_out"} : val' = [val EXCEPT ![r][d] = s]
    BY <1>9 DEF Finish
  <2>2. val' \in [Runs -> [Claimants -> Status]]
    BY <2>1 DEF TypeOK, Status, Settled
  <2> QED BY <1>9, <2>2, GotoType DEF TypeOK, Finish, Working, procVars
<1>10. CASE CommitTask(r, d)
  <2>1. row' \in [Runs -> Status]
    BY <1>10 DEF TypeOK, CommitTask
  <2>2. cause' \in [Runs -> SUBSET Causes]
    BY <1>10, BlameType DEF TypeOK, CommitTask, Causes
  <2> QED
    BY <1>10, <2>1, <2>2, LockType, GotoType DEF TypeOK, CommitTask, Working, Status, procVars
<1>11. CASE CommitFails(r, d)
  BY <1>11, LockType, BlameType, GotoType
     DEF TypeOK, CommitFails, Causes, Working, Status, procVars
<1>12. CASE UnbuildableCommitFails(r, d)
  <2>1. CASE CanSettle(r, d)
    BY <1>12, <2>1, RequeueType, LockType, GotoType
       DEF TypeOK, UnbuildableCommitFails, Working, Status, procVars
  <2>2. CASE ~CanSettle(r, d)
    BY <1>12, <2>2, LockType, GotoType
       DEF TypeOK, UnbuildableCommitFails, Working, Status, procVars
  <2> QED BY <2>1, <2>2
<1>13. CASE Settle(r, d)
  BY <1>13, GotoType DEF TypeOK, Settle, Working, txVars, procVars
<1> QED
  BY <1>1, <1>2, <1>3, <1>4, <1>5, <1>6, <1>7, <1>8, <1>9, <1>10, <1>11, <1>12, <1>13 DEF Task

\* Types survive deliveries and everything that happens to a worker process.
LEMMA WorkerType ==
    ASSUME TypeOK, NEW w \in Workers,
           Process(w) \/ \E r \in Runs : Deliver(w, r) \/ DeliverAfterShutdown(w, r)
    PROVE  TypeOK'
<1> USE ClaimantFacts
<1>1. ASSUME NEW r \in Runs, Deliver(w, r) PROVE TypeOK'
  <2>1. msg[r].n \in Deliveries
    BY DEF TypeOK
  <2>2. pc' \in [Runs -> [Claimants -> {"none", "waiting", "done"} \cup Working]]
    BY <1>1, <2>1 DEF TypeOK, Deliver
  <2>3. on' \in [Runs -> [Deliveries -> Workers \cup {NoWorker}]]
    BY <1>1, <2>1 DEF TypeOK, Deliver
  <2>4. msg' \in [Runs -> [st : {"none", "ready", "locked", "done", "dead"}, n : Deliveries]]
    BY <1>1 DEF TypeOK, Deliver
  <2> QED BY <1>1, <2>2, <2>3, <2>4 DEF TypeOK, Deliver, txVars
<1>2. ASSUME NEW r \in Runs, DeliverAfterShutdown(w, r) PROVE TypeOK'
  BY <1>2, RequeueType DEF TypeOK, DeliverAfterShutdown, txVars
<1>3. CASE SignalShutdown(w)
  <2>1. failures' \in Nat /\ life' \in [Workers -> {"up", "stopping", "draining", "down"}]
    BY <1>3 DEF TypeOK, SignalShutdown
  <2> QED BY <1>3, <2>1 DEF TypeOK, SignalShutdown, txVars
<1>4. CASE Crash(w)
  <2>1. pc' \in [Runs -> [Claimants -> {"none", "waiting", "done"} \cup Working]]
    BY <1>4 DEF TypeOK, Crash
  <2>2. holder' \in [Runs -> SUBSET Claimants]
    BY <1>4 DEF TypeOK, Crash
  <2>3. val' \in [Runs -> [Claimants -> Status]]
    BY <1>4 DEF TypeOK, Crash, Status
  <2>4. life' \in [Workers -> {"up", "stopping", "draining", "down"}] /\ failures' \in Nat
    BY <1>4 DEF TypeOK, Crash
  <2> QED BY <1>4, <2>1, <2>2, <2>3, <2>4 DEF TypeOK, Crash
<1>5. CASE Exit(w)
  BY <1>5 DEF TypeOK, Exit, txVars
<1>6. CASE Restart(w)
  BY <1>6 DEF TypeOK, Restart, txVars
<1> QED
  BY <1>1, <1>2, <1>3, <1>4, <1>5, <1>6 DEF Process

\* Every step keeps the types.
LEMMA TypeStep == TypeOK /\ [Next]_vars => TypeOK'
<1> SUFFICES ASSUME TypeOK, [Next]_vars PROVE TypeOK'
  OBVIOUS
<1>1. CASE Next
  BY <1>1, RunStepType, TaskType, WorkerType DEF Next
<1>2. CASE UNCHANGED vars
  BY <1>2 DEF TypeOK, vars
<1> QED BY <1>1, <1>2

\* The variables always have their types.
THEOREM TypeCorrect == Spec => []TypeOK
<1>1. Init => TypeOK
  BY ClaimantFacts DEF Init, TypeOK, Status
<1> QED
  BY <1>1, TypeStep, PTL DEF Spec
-----------------------------------------------------------------------------
(* The row lock and durability invariants, one run at a time.              *)

RunInv(x) ==
    /\ row[x] # "absent" <=> dispatch[x] = "committed"
    /\ dispatch[x] \in {"new", "flushed"} => msg[x].st = "none"
    /\ \A d \in Deliveries :
        \/ d > msg[x].n
        \/ d = msg[x].n /\ msg[x].st \in {"none", "ready"}
        => pc[x][d] = "none"
    /\ pc[x][CancelRequest] \in {"none", "claimed", "committing"}
    /\ \A c \in Claimants :
        /\ pc[x][c] \in Writing =>
            val[x][c] \in IF c = CancelRequest
                          THEN {"cancelled"}
                          ELSE {"running", "completed", "failed", "timed_out"}
        /\ c \in holder[x] <=> pc[x][c] \in Writing
        /\ pc[x][c] \in Open => dispatch[x] = "committed" /\ row[x] # "absent"
    /\ \A c, e \in holder[x] : c = e

\* The invariant says the same of every run by itself.
LEMMA Pointwise == IInv <=> TypeOK /\ \A x \in Runs : RunInv(x)
BY DEF IInv, RowIffCommitted, UndeliveredIsIdle, CancelStates, PendingWrites, RowLockExact,
       DurableBeforeClaim, RunInv

\* After a step it is enough to look at each run.
LEMMA Collect ==
    ASSUME TypeOK', \A x \in Runs : RunInv(x)'
    PROVE  IInv'
BY DEF IInv, RowIffCommitted, UndeliveredIsIdle, CancelStates, PendingWrites, RowLockExact,
       DurableBeforeClaim, RunInv

\* A run nothing happens to keeps its invariant.
LEMMA Frame ==
    ASSUME NEW x \in Runs, RunInv(x),
           dispatch'[x] = dispatch[x], row'[x] = row[x], holder'[x] = holder[x],
           msg'[x] = msg[x], pc'[x] = pc[x], val'[x] = val[x]
    PROVE  RunInv(x)'
BY DEF RunInv

\* A failed delivery makes the next one available or none at all.
LEMMA RequeueFacts ==
    ASSUME TypeOK, NEW r \in Runs, Requeue(r)
    PROVE  /\ msg[r].n \in Int /\ msg'[r].n \in Int
           /\ \/ msg'[r].st = "ready" /\ msg'[r].n = msg[r].n + 1
              \/ msg'[r].st = "dead" /\ msg'[r].n = msg[r].n
           /\ \A x \in Runs : x # r => msg'[x] = msg[x]
<1>1. msg'[r] = Requeued(msg[r])
  BY DEF Requeue, TypeOK
<1>2. msg[r].n \in Int
  BY ClaimantFacts DEF TypeOK
<1>3. \A x \in Runs : x # r => msg'[x] = msg[x]
  BY DEF Requeue, TypeOK
<1> QED BY <1>1, <1>2, <1>3 DEF Requeued

\* What moving a claimant means, claimant by claimant.
LEMMA GotoFacts ==
    ASSUME TypeOK, NEW r \in Runs, NEW c \in Claimants, NEW l, Goto(r, c, l)
    PROVE  \A e \in Claimants : pc'[r][e] = IF e = c THEN l ELSE pc[r][e]
BY DEF TypeOK, Goto

\* The deliveries that are still idle after a failed delivery were idle before.
LEMMA RequeueIdle ==
    ASSUME TypeOK, NEW r \in Runs, RunInv(r), Requeue(r), msg[r].st \in {"locked", "ready"}
    PROVE  /\ dispatch[r] \notin {"new", "flushed"}
           /\ \A d \in Deliveries :
                \/ d > msg'[r].n
                \/ d = msg'[r].n /\ msg'[r].st \in {"none", "ready"}
                => pc[r][d] = "none"
<1>1. dispatch[r] \notin {"new", "flushed"}
  BY DEF RunInv
<1>2. \A d \in Deliveries : d > msg[r].n => pc[r][d] = "none"
  BY DEF RunInv
<1>3. /\ msg[r].n \in Int
      /\ \/ msg'[r].st = "ready" /\ msg'[r].n = msg[r].n + 1
         \/ msg'[r].st = "dead" /\ msg'[r].n = msg[r].n
  BY RequeueFacts
<1>4. \A d \in Deliveries : d \in Int
  BY ClaimantFacts
<1> QED BY <1>1, <1>2, <1>3, <1>4

\* The invariant survives every step of a dispatching transaction, a lock
\* expiry and a cancel request.
LEMMA RunStepInv ==
    ASSUME IInv, TypeOK', NEW r \in Runs, Dispatching(r) \/ LockExpires(r) \/ Cancelling(r)
    PROVE  IInv'
<1> USE ClaimantFacts
<1>0. TypeOK /\ RunInv(r) /\ \A x \in Runs : RunInv(x)
  BY Pointwise
<1> SUFFICES ASSUME NEW x \in Runs PROVE RunInv(x)'
  BY Collect
<1>1. CASE Flush(r)
  <2>1. CASE x # r
    BY <1>0, <1>1, <2>1, Frame DEF Flush, txVars, procVars, TypeOK
  <2>2. CASE x = r
    BY <1>0, <1>1, <2>2 DEF Flush, txVars, procVars, TypeOK, RunInv, Open, Writing
  <2> QED BY <2>1, <2>2
<1>2. CASE Publish(r)
  <2>1. CASE x # r
    BY <1>0, <1>2, <2>1, Frame DEF Publish, txVars, procVars, TypeOK
  <2>2. CASE x = r
    BY <1>0, <1>2, <2>2 DEF Publish, txVars, procVars, TypeOK, RunInv, Open, Writing
  <2> QED BY <2>1, <2>2
<1>3. CASE PublishFails(r)
  <2>1. CASE x # r
    BY <1>0, <1>3, <2>1, Frame DEF PublishFails, txVars, procVars, TypeOK
  <2>2. CASE x = r
    BY <1>0, <1>3, <2>2 DEF PublishFails, txVars, procVars, TypeOK, RunInv, Open, Writing
  <2> QED BY <2>1, <2>2
<1>4. CASE CommitDispatch(r)
  <2>1. CASE x # r
    BY <1>0, <1>4, <2>1, Frame DEF CommitDispatch, procVars, TypeOK
  <2>2. CASE x = r
    BY <1>0, <1>4, <2>2 DEF CommitDispatch, procVars, TypeOK, RunInv, Open, Writing
  <2> QED BY <2>1, <2>2
<1>5. CASE RollbackDispatch(r)
  <2>1. CASE x # r
    BY <1>0, <1>5, <2>1, Frame DEF RollbackDispatch, txVars, procVars, TypeOK
  <2>2. CASE x = r
    BY <1>0, <1>5, <2>2 DEF RollbackDispatch, txVars, procVars, TypeOK, RunInv, Open, Writing
  <2> QED BY <2>1, <2>2
<1>6. CASE LockExpires(r)
  <2>1. CASE x # r
    BY <1>0, <1>6, <2>1, Frame DEF LockExpires, Requeue, Requeued, txVars, procVars, TypeOK
  <2>2. CASE x = r
    <3>1. msg[r].st = "locked" /\ UNCHANGED <<dispatch, row, holder, pc, val>>
      BY <1>6 DEF LockExpires, txVars
    <3> QED BY <1>0, <1>6, <2>2, <3>1, RequeueFacts DEF LockExpires, RunInv
  <2> QED BY <2>1, <2>2
<1>7. CASE CancelRead(r)
  <2>1. CASE x # r
    BY <1>0, <1>7, <2>1, Frame DEF CancelRead, Goto, txVars, procVars, TypeOK
  <2>2. CASE x = r
    BY <1>0, <1>7, <2>2 DEF CancelRead, Goto, txVars, procVars, TypeOK, RunInv, Open, Writing
  <2> QED BY <2>1, <2>2
<1>8. CASE CancelFlush(r)
  <2>1. CASE x # r
    BY <1>0, <1>8, <2>1, Frame DEF CancelFlush, Lock, Goto, procVars, TypeOK
  <2>2. CASE x = r
    BY <1>0, <1>8, <2>2 DEF CancelFlush, Lock, Goto, procVars, TypeOK, RunInv, Open, Writing
  <2> QED BY <2>1, <2>2
<1>9. CASE CancelCommit(r)
  <2>1. CASE x # r
    BY <1>0, <1>9, <2>1, Frame DEF CancelCommit, Unlock, Goto, procVars, TypeOK
  <2>2. CASE x = r
    BY <1>0, <1>9, <2>2 DEF CancelCommit, Unlock, Goto, procVars, TypeOK, RunInv, Open, Writing
  <2> QED BY <2>1, <2>2
<1>10. CASE CancelRollback(r)
  <2>1. CASE x # r
    BY <1>0, <1>10, <2>1, Frame DEF CancelRollback, Unlock, Goto, procVars, TypeOK
  <2>2. CASE x = r
    BY <1>0, <1>10, <2>2 DEF CancelRollback, Unlock, Goto, procVars, TypeOK, RunInv, Open, Writing
  <2> QED BY <2>1, <2>2
<1> QED
  BY <1>1, <1>2, <1>3, <1>4, <1>5, <1>6, <1>7, <1>8, <1>9, <1>10 DEF Dispatching, Cancelling

\* The invariant survives every step of a delivery's task.
LEMMA TaskInv ==
    ASSUME IInv, TypeOK', NEW r \in Runs, NEW d \in Deliveries, Task(r, d)
    PROVE  IInv'
<1> USE ClaimantFacts
<1>0. TypeOK /\ RunInv(r) /\ \A x \in Runs : RunInv(x)
  BY Pointwise
<1> SUFFICES ASSUME NEW x \in Runs PROVE RunInv(x)'
  BY Collect
<1>1. CASE DeadLetter(r, d)
  <2>1. CASE x # r
    BY <1>0, <1>1, <2>1, Frame DEF DeadLetter, Goto, txVars, procVars, TypeOK
  <2>2. CASE x = r
    <3>1. CASE CanSettle(r, d)
      <4>1. msg' = [msg EXCEPT ![r].st = "dead"]
        BY <1>1, <3>1 DEF DeadLetter
      <4>2. msg'[r].st = "dead" /\ msg'[r].n = msg[r].n
        BY <4>1 DEF TypeOK
      <4>3. Goto(r, d, "done") /\ pc[r][d] = "waiting" /\ UNCHANGED <<dispatch, row, holder, val>>
        BY <1>1 DEF DeadLetter, Enter, txVars
      <4>4. \A e \in Claimants : pc'[r][e] = IF e = d THEN "done" ELSE pc[r][e]
        BY <1>0, <4>3, GotoFacts
      <4>5. msg[r].st = "locked"
        BY <3>1 DEF CanSettle
      <4> QED BY <1>0, <2>2, <4>2, <4>3, <4>4, <4>5 DEF RunInv, Open, Writing
    <3>2. CASE ~CanSettle(r, d)
      BY <1>0, <1>1, <2>2, <3>2
         DEF DeadLetter, Enter, Goto, txVars, procVars, TypeOK, RunInv, Open, Writing
    <3> QED BY <3>1, <3>2
  <2> QED BY <2>1, <2>2
<1>2. CASE Skip(r, d)
  <2>1. CASE x # r
    BY <1>0, <1>2, <2>1, Frame DEF Skip, Enter, Goto, txVars, procVars, TypeOK
  <2>2. CASE x = r
    BY <1>0, <1>2, <2>2 DEF Skip, Enter, Goto, txVars, procVars, TypeOK, RunInv, Open, Writing
  <2> QED BY <2>1, <2>2
<1>3. CASE Claim(r, d)
  <2>1. CASE x # r
    BY <1>0, <1>3, <2>1, Frame DEF Claim, Enter, Goto, txVars, procVars, TypeOK
  <2>2. CASE x = r
    BY <1>0, <1>3, <2>2 DEF Claim, Enter, Goto, txVars, procVars, TypeOK, RunInv, Open, Writing
  <2> QED BY <2>1, <2>2
<1>4. CASE LoadFails(r, d)
  <2>1. CASE x # r
    BY <1>0, <1>4, <2>1, Frame DEF LoadFails, Enter, Requeue, Requeued, Goto, txVars, procVars, TypeOK
  <2>2. CASE x = r
    <3>1. Goto(r, d, "done") /\ pc[r][d] = "waiting" /\ UNCHANGED <<dispatch, row, holder, val>>
      BY <1>4 DEF LoadFails, Enter, txVars
    <3>2. CASE CanSettle(r, d)
      <4>1. Requeue(r) /\ msg[r].st = "locked"
        BY <1>4, <3>2 DEF LoadFails, CanSettle
      <4>2. \A e \in Claimants : pc'[r][e] = IF e = d THEN "done" ELSE pc[r][e]
        BY <1>0, <3>1, GotoFacts
      <4> QED BY <1>0, <2>2, <3>1, <4>1, <4>2, RequeueIdle DEF RunInv, Open, Writing
    <3>3. CASE ~CanSettle(r, d)
      BY <1>0, <1>4, <2>2, <3>1, <3>3 DEF LoadFails, Goto, TypeOK, RunInv, Open, Writing
    <3> QED BY <3>2, <3>3
  <2> QED BY <2>1, <2>2
<1>5. CASE FailUnbuildable(r, d)
  <2>1. CASE x # r
    BY <1>0, <1>5, <2>1, Frame DEF FailUnbuildable, Lock, Goto, procVars, TypeOK
  <2>2. CASE x = r
    BY <1>0, <1>5, <2>2 DEF FailUnbuildable, Lock, Goto, procVars, TypeOK, RunInv, Open, Writing
  <2> QED BY <2>1, <2>2
<1>6. CASE AbortBeforeStart(r, d)
  <2>1. CASE x # r
    BY <1>0, <1>6, <2>1, Frame DEF AbortBeforeStart, Goto, txVars, procVars, TypeOK
  <2>2. CASE x = r
    BY <1>0, <1>6, <2>2 DEF AbortBeforeStart, Goto, txVars, procVars, TypeOK, RunInv, Open, Writing
  <2> QED BY <2>1, <2>2
<1>7. CASE Start(r, d)
  <2>1. CASE x # r
    BY <1>0, <1>7, <2>1, Frame DEF Start, Lock, Goto, procVars, TypeOK
  <2>2. CASE x = r
    BY <1>0, <1>7, <2>2 DEF Start, Lock, Goto, procVars, TypeOK, RunInv, Open, Writing
  <2> QED BY <2>1, <2>2
<1>8. CASE SetupRaises(r, d)
  <2>1. CASE x # r
    BY <1>0, <1>8, <2>1, Frame DEF SetupRaises, Goto, txVars, procVars, TypeOK
  <2>2. CASE x = r
    BY <1>0, <1>8, <2>2 DEF SetupRaises, Goto, txVars, procVars, TypeOK, RunInv, Open, Writing
  <2> QED BY <2>1, <2>2
<1>9. CASE Finish(r, d)
  <2>1. CASE x # r
    BY <1>0, <1>9, <2>1, Frame DEF Finish, Goto, procVars, TypeOK
  <2>2. CASE x = r
    BY <1>0, <1>9, <2>2 DEF Finish, Goto, procVars, TypeOK, RunInv, Open, Writing
  <2> QED BY <2>1, <2>2
<1>10. CASE CommitTask(r, d)
  <2>1. CASE x # r
    BY <1>0, <1>10, <2>1, Frame DEF CommitTask, Unlock, Goto, procVars, TypeOK
  <2>2. CASE x = r
    <3>1. pc[r][d] = "committing" /\ Unlock(r, d) /\ Goto(r, d, "settling")
          /\ UNCHANGED <<dispatch, msg>> /\ row'[r] = val[r][d]
      BY <1>0, <1>10 DEF CommitTask, TypeOK
    <3>2. dispatch[r] = "committed" /\ val[r][d] # "absent"
      BY <1>0, <3>1 DEF RunInv, Open, Writing
    <3> QED BY <1>0, <2>2, <3>1, <3>2 DEF Unlock, Goto, TypeOK, RunInv, Open, Writing
  <2> QED BY <2>1, <2>2
<1>11. CASE CommitFails(r, d)
  <2>1. CASE x # r
    BY <1>0, <1>11, <2>1, Frame DEF CommitFails, Unlock, Goto, procVars, TypeOK
  <2>2. CASE x = r
    BY <1>0, <1>11, <2>2 DEF CommitFails, Unlock, Goto, procVars, TypeOK, RunInv, Open, Writing
  <2> QED BY <2>1, <2>2
<1>12. CASE UnbuildableCommitFails(r, d)
  <2>1. CASE x # r
    BY <1>0, <1>12, <2>1, Frame DEF UnbuildableCommitFails, Requeue, Requeued, Unlock, Goto, procVars, TypeOK
  <2>2. CASE x = r
    <3>1. pc[r][d] = "committing" /\ Unlock(r, d) /\ Goto(r, d, "done")
          /\ UNCHANGED <<dispatch, row>>
      BY <1>12 DEF UnbuildableCommitFails
    <3>2. CASE CanSettle(r, d)
      <4>1. Requeue(r) /\ msg[r].st = "locked"
        BY <1>12, <3>2 DEF UnbuildableCommitFails, CanSettle
      <4>2. \A e \in Claimants : pc'[r][e] = IF e = d THEN "done" ELSE pc[r][e]
        BY <1>0, <3>1, GotoFacts
      <4>3. /\ \A e \in Claimants : e # d => val'[r][e] = val[r][e]
            /\ holder'[r] = holder[r] \ {d}
        BY <1>0, <3>1 DEF Unlock, TypeOK
      <4> QED BY <1>0, <2>2, <3>1, <4>1, <4>2, <4>3, RequeueIdle DEF RunInv, Open, Writing
    <3>3. CASE ~CanSettle(r, d)
      BY <1>0, <1>12, <2>2, <3>1, <3>3
         DEF UnbuildableCommitFails, Unlock, Goto, TypeOK, RunInv, Open, Writing
    <3> QED BY <3>2, <3>3
  <2> QED BY <2>1, <2>2
<1>13. CASE Settle(r, d)
  <2>1. CASE x # r
    BY <1>0, <1>13, <2>1, Frame DEF Settle, Goto, txVars, procVars, TypeOK
  <2>2. CASE x = r
    <3>1. Goto(r, d, "done") /\ pc[r][d] = "settling" /\ UNCHANGED <<dispatch, row, holder, val>>
      BY <1>13 DEF Settle, txVars
    <3>2. msg'[r].n = msg[r].n /\ (msg'[r].st = "done" \/ msg'[r].st = msg[r].st)
      BY <1>13 DEF Settle, TypeOK
    <3>3. msg'[r].st = "done" => msg[r].st = "done" \/ (msg[r].st = "locked" /\ msg[r].n = d)
      BY <1>13 DEF Settle, CanSettle, TypeOK
    <3> QED BY <1>0, <2>2, <3>1, <3>2, <3>3 DEF Goto, TypeOK, RunInv, Open, Writing
  <2> QED BY <2>1, <2>2
<1> QED
  BY <1>1, <1>2, <1>3, <1>4, <1>5, <1>6, <1>7, <1>8, <1>9, <1>10, <1>11, <1>12, <1>13 DEF Task

\* The invariant survives deliveries and everything that happens to a worker
\* process.
LEMMA WorkerInv ==
    ASSUME IInv, TypeOK', NEW w \in Workers,
           Process(w) \/ \E r \in Runs : Deliver(w, r) \/ DeliverAfterShutdown(w, r)
    PROVE  IInv'
<1> USE ClaimantFacts
<1>0. TypeOK /\ \A x \in Runs : RunInv(x)
  BY Pointwise
<1> SUFFICES ASSUME NEW x \in Runs PROVE RunInv(x)'
  BY Collect
<1>1. ASSUME NEW r \in Runs, Deliver(w, r) PROVE RunInv(x)'
  <2>1. CASE x # r
    BY <1>0, <1>1, <2>1, Frame DEF Deliver, txVars, TypeOK
  <2>2. CASE x = r
    <3>1. /\ msg[r].st = "ready" /\ msg[r].n \in Deliveries /\ pc[r][msg[r].n] = "none"
          /\ msg'[r].st = "locked" /\ msg'[r].n = msg[r].n
          /\ pc' = [pc EXCEPT ![r][msg[r].n] = "waiting"]
          /\ UNCHANGED <<dispatch, row, holder, val>>
      BY <1>0, <1>1 DEF Deliver, txVars, TypeOK, RunInv
    <3>2. \A e \in Claimants : pc'[r][e] = IF e = msg[r].n THEN "waiting" ELSE pc[r][e]
      BY <1>0, <3>1 DEF TypeOK
    <3>3. msg[r].n \in Int /\ msg[r].n # CancelRequest
      BY <3>1
    <3> QED BY <1>0, <2>2, <3>1, <3>2, <3>3 DEF RunInv, Open, Writing
  <2> QED BY <2>1, <2>2
<1>2. ASSUME NEW r \in Runs, DeliverAfterShutdown(w, r) PROVE RunInv(x)'
  <2>1. Requeue(r) /\ msg[r].st = "ready" /\ UNCHANGED <<dispatch, row, holder, val, pc>>
    BY <1>2 DEF DeliverAfterShutdown, txVars
  <2>2. CASE x # r
    BY <1>0, <2>1, <2>2, RequeueFacts, Frame
  <2>3. CASE x = r
    BY <1>0, <2>1, <2>3, RequeueFacts DEF RunInv
  <2> QED BY <2>2, <2>3
<1>3. CASE SignalShutdown(w)
  BY <1>0, <1>3, Frame DEF SignalShutdown, txVars
<1>4. CASE Crash(w)
  <2>1. UNCHANGED <<dispatch, row, msg>>
    BY <1>4 DEF Crash
  <2>2. \A c \in Claimants :
            \/ pc'[x][c] = "done" /\ c \in Deliveries /\ c \notin holder'[x]
               /\ pc[x][c] # "none"
            \/ pc'[x][c] = pc[x][c] /\ val'[x][c] = val[x][c]
               /\ (c \in holder'[x] <=> c \in holder[x])
    BY <1>0, <1>4 DEF Crash, Alive, TypeOK, RunInv, Working
  <2>3. holder'[x] \subseteq holder[x]
    BY <1>4 DEF Crash
  <2> QED BY <1>0, <2>1, <2>2, <2>3 DEF RunInv, Open, Writing
<1>5. CASE Exit(w)
  BY <1>0, <1>5, Frame DEF Exit, txVars
<1>6. CASE Restart(w)
  BY <1>0, <1>6, Frame DEF Restart, txVars
<1> QED
  BY <1>1, <1>2, <1>3, <1>4, <1>5, <1>6 DEF Process

\* The invariant is inductive and always holds.
THEOREM Inductive == Spec => []IInv
<1>1. Init => IInv
  <2> SUFFICES ASSUME Init PROVE IInv
    OBVIOUS
  <2>1. TypeOK
    BY ClaimantFacts DEF Init, TypeOK, Status
  <2>2. \A x \in Runs : RunInv(x)
    BY ClaimantFacts DEF Init, RunInv, Open, Writing
  <2> QED BY <2>1, <2>2, Pointwise
<1>2. IInv /\ [Next]_vars => IInv'
  <2> SUFFICES ASSUME IInv, [Next]_vars PROVE IInv'
    OBVIOUS
  <2>1. TypeOK'
    BY TypeStep DEF IInv
  <2>2. CASE Next
    BY <2>1, <2>2, RunStepInv, TaskInv, WorkerInv DEF Next
  <2>3. CASE UNCHANGED vars
    <3>1. \A x \in Runs : RunInv(x)'
      BY <2>3, Pointwise, Frame DEF vars
    <3> QED BY <2>1, <3>1, Collect
  <2> QED BY <2>2, <2>3
<1> QED BY <1>1, <1>2, PTL DEF Spec

\* For any number of duplicate deliveries, workers, crashes and cancel requests
\* the row lock is exact: executions of one run never overlap between their
\* first write and their commit, and no lock outlives its transaction.
THEOREM RowLockAlwaysExact == Spec => []RowLockExact
<1>1. IInv => RowLockExact
  BY DEF IInv
<1> QED BY <1>1, Inductive, PTL

\* Nobody ever acts on a run whose creation has not been committed.
THEOREM AlwaysDurableBeforeClaim == Spec => []DurableBeforeClaim
<1>1. IInv => DurableBeforeClaim
  BY DEF IInv
<1> QED BY <1>1, Inductive, PTL
-----------------------------------------------------------------------------
(* The committed status implements RunRecord.                              *)

\* A step that commits nothing and takes no claim gives up claims, maybe none.
LEMMA DropStep ==
    ASSUME row' = row,
           \A x \in Runs, c \in Claimants : pc'[x][c] \in Open => pc[x][c] \in Open
    PROVE  Record!Drop
<1>1. Claimants = Deliveries \cup {CancelRequest}
  BY ClaimantFacts
<1> QED BY <1>1 DEF Record!Drop, Claimed

\* Moving one claimant into an open state is taking a claim.
LEMMA ClaimStep ==
    ASSUME IInv, NEW r \in Runs, NEW c \in Claimants, row' = row,
           \/ c \in Deliveries /\ row[r] = "pending"
           \/ c = CancelRequest /\ row[r] \in {"pending", "running"},
           pc[r][c] \notin Open, Goto(r, c, "claimed")
    PROVE  Record!Next
<1>1. \A e \in Claimants : pc'[r][e] = IF e = c THEN "claimed" ELSE pc[r][e]
  BY GotoFacts DEF IInv
<1>2. \A x \in Runs : x # r => pc'[x] = pc[x]
  BY DEF Goto, IInv, TypeOK
<1>3. Claimed(r)' = Claimed(r) \cup {c} /\ \A x \in Runs : x # r => Claimed(x)' = Claimed(x)
  BY <1>1, <1>2 DEF Claimed, Open
<1>4. [x \in Runs |-> Claimed(x)]' = [[x \in Runs |-> Claimed(x)] EXCEPT ![r] = @ \cup {c}]
  BY <1>3
<1>5. Record!Claim(r, c)
  BY <1>4, ClaimantFacts DEF Record!Claim, Claimed
<1> QED BY <1>5, ClaimantFacts DEF Record!Next

\* Committing the status a claimant has pending is the write of its claim.
LEMMA WriteStep ==
    ASSUME IInv, NEW r \in Runs, NEW c \in Claimants, NEW l \in {"settling", "none"},
           pc[r][c] = "committing", Goto(r, c, l),
           row' = [row EXCEPT ![r] = val[r][c]]
    PROVE  Record!Next
<1>1. \A e \in Claimants : pc'[r][e] = IF e = c THEN l ELSE pc[r][e]
  BY GotoFacts DEF IInv
<1>2. \A x \in Runs : x # r => pc'[x] = pc[x]
  BY DEF Goto, IInv, TypeOK
<1>3. Claimed(r)' = Claimed(r) \ {c} /\ \A x \in Runs : x # r => Claimed(x)' = Claimed(x)
  BY <1>1, <1>2 DEF Claimed, Open
<1>4. [x \in Runs |-> Claimed(x)]' = [[x \in Runs |-> Claimed(x)] EXCEPT ![r] = @ \ {c}]
  BY <1>3
<1>5. c \in Claimed(r)
  BY DEF Claimed, Open
<1>6. val[r][c] \in IF c = CancelRequest THEN {"cancelled"}
                    ELSE {"running", "completed", "failed", "timed_out"}
  BY DEF IInv, PendingWrites, Writing
<1>7. Record!Write(r, c)
  BY <1>4, <1>5, <1>6, ClaimantFacts DEF Record!Write, Claimed
<1> QED BY <1>7, ClaimantFacts DEF Record!Next

\* So does moving one claimant, unless it enters an open state.
LEMMA GotoDrop ==
    ASSUME TypeOK, NEW r \in Runs, NEW c \in Claimants, NEW l, Goto(r, c, l), row' = row,
           l \in Open => pc[r][c] \in Open
    PROVE  Record!Next
<1>1. \A e \in Claimants : pc'[r][e] = IF e = c THEN l ELSE pc[r][e]
  BY GotoFacts
<1>2. \A x \in Runs : x # r => pc'[x] = pc[x]
  BY DEF Goto, TypeOK
<1>3. \A x \in Runs, e \in Claimants : pc'[x][e] \in Open => pc[x][e] \in Open
  BY <1>1, <1>2
<1> QED BY <1>3, DropStep DEF Record!Next

\* The refinement mapping of the run record, step by step.
LEMMA RecordStep ==
    ASSUME IInv, Next
    PROVE  Record!Next
<1> USE ClaimantFacts
<1>0. TypeOK
  BY DEF IInv
<1> DEFINE NoClaim == row' = row /\ \A x \in Runs, c \in Claimants :
                                        pc'[x][c] \in Open => pc[x][c] \in Open
<1>1. NoClaim => Record!Next
  BY DropStep DEF Record!Next
<1>2. ASSUME NEW r \in Runs, Dispatching(r) PROVE Record!Next
  <2>1. CASE CommitDispatch(r)
    <3>1. row[r] = "absent"
      BY <2>1 DEF CommitDispatch, IInv, RowIffCommitted
    <3>2. Record!Create(r)
      BY <2>1, <3>1 DEF CommitDispatch, Record!Create, Claimed
    <3> QED BY <3>2 DEF Record!Next
  <2>2. CASE Flush(r) \/ Publish(r) \/ PublishFails(r) \/ RollbackDispatch(r)
    BY <1>1, <2>2 DEF Flush, Publish, PublishFails, RollbackDispatch, txVars
  <2> QED BY <1>2, <2>1, <2>2 DEF Dispatching
<1>3. ASSUME NEW r \in Runs, LockExpires(r) PROVE Record!Next
  BY <1>1, <1>3 DEF LockExpires, txVars
<1>4. ASSUME NEW r \in Runs, Cancelling(r) PROVE Record!Next
  <2>1. CASE CancelRead(r)
    BY <2>1, ClaimStep DEF CancelRead, Open, txVars
  <2>2. CASE CancelFlush(r)
    BY <1>0, <1>1, <2>2 DEF CancelFlush, Goto, TypeOK, Open
  <2>3. CASE CancelCommit(r)
    BY <2>3, WriteStep DEF CancelCommit
  <2>4. CASE CancelRollback(r)
    BY <1>0, <1>1, <2>4 DEF CancelRollback, Goto, TypeOK, Open
  <2> QED BY <1>4, <2>1, <2>2, <2>3, <2>4 DEF Cancelling
<1>5. ASSUME NEW r \in Runs, NEW d \in Deliveries, Task(r, d) PROVE Record!Next
  <2>1. CASE Claim(r, d)
    BY <2>1, ClaimStep DEF Claim, Enter, Open, txVars
  <2>2. CASE CommitTask(r, d)
    BY <2>2, WriteStep DEF CommitTask
  <2>3. CASE DeadLetter(r, d) \/ Skip(r, d) \/ LoadFails(r, d) \/ Settle(r, d)
    BY <1>0, <2>3, GotoDrop DEF DeadLetter, Skip, LoadFails, Settle, Open, txVars
  <2>4. CASE FailUnbuildable(r, d) \/ AbortBeforeStart(r, d) \/ Start(r, d)
    BY <1>0, <2>4, GotoDrop DEF FailUnbuildable, AbortBeforeStart, Start, Open, txVars
  <2>5. CASE SetupRaises(r, d) \/ Finish(r, d)
    BY <1>0, <2>5, GotoDrop DEF SetupRaises, Finish, Open, txVars
  <2>6. CASE CommitFails(r, d) \/ UnbuildableCommitFails(r, d)
    BY <1>0, <2>6, GotoDrop DEF CommitFails, UnbuildableCommitFails, Open
  <2> QED BY <1>5, <2>1, <2>2, <2>3, <2>4, <2>5, <2>6 DEF Task
<1>6. ASSUME NEW w \in Workers, NEW r \in Runs, Deliver(w, r) \/ DeliverAfterShutdown(w, r)
      PROVE  Record!Next
  <2>1. CASE Deliver(w, r)
    <3>1. msg[r].n \in Claimants /\ Goto(r, msg[r].n, "waiting")
      BY <1>0, <2>1 DEF Deliver, Goto, TypeOK
    <3> QED BY <1>0, <2>1, <3>1, GotoDrop DEF Deliver, Open, txVars
  <2>2. CASE DeliverAfterShutdown(w, r)
    BY <1>1, <2>2 DEF DeliverAfterShutdown, txVars
  <2> QED BY <1>6, <2>1, <2>2
<1>7. ASSUME NEW w \in Workers, Process(w) PROVE Record!Next
  <2>1. CASE Crash(w)
    BY <1>0, <1>1, <2>1 DEF Crash, TypeOK, Open
  <2>2. CASE SignalShutdown(w) \/ Exit(w) \/ Restart(w)
    BY <1>1, <2>2 DEF SignalShutdown, Exit, Restart, txVars
  <2> QED BY <1>7, <2>1, <2>2 DEF Process
<1> QED BY <1>2, <1>3, <1>4, <1>5, <1>6, <1>7 DEF Next

\* Whatever the broker, the workers, the row locks and the crashes do, the
\* committed status of a run is a register that only claims taken from an open
\* status may write, once each.
THEOREM RecordRefined == Spec => RefinesRecord
<1>1. Init => Record!Init
  BY DEF Claimed, Init, Record!Init, Open
<1>2. IInv /\ [Next]_vars => [Record!Next]_(Record!vars)
  <2>1. ASSUME UNCHANGED vars PROVE UNCHANGED Record!vars
    BY <2>1 DEF Claimed, vars, Record!vars
  <2> QED BY <2>1, RecordStep
<1> QED BY <1>1, <1>2, Inductive, PTL DEF Spec, RefinesRecord, Record!Spec

-----------------------------------------------------------------------------
(* Settled runs are final.                                                 *)

\* What one step of the run record does to such a run: a claim is taken from an open
\* status and a write needs a claim, so neither can be the first.
LEMMA FinalStep ==
    ASSUME IInv, Next, NEW x \in Runs
    PROVE  /\ Unattended(x) => Unattended(x)'
           /\ Final(x) => Final(x)' /\ row'[x] = row[x]
<1> DEFINE C == [r \in Runs |-> Claimed(r)]
<1>0. row \in [Runs -> Status]
  BY DEF IInv, TypeOK
<1>1. Record!Next
  BY RecordStep
<1>2. \A r \in Runs : C[r] = Claimed(r) /\ C'[r] = Claimed(r)'
  OBVIOUS
<1> USE ClaimantFacts
<1>3. CASE \E r \in Runs : Record!Create(r)
  <2>1. PICK r \in Runs : /\ row[r] = "absent"
                          /\ row' = [row EXCEPT ![r] = "pending"]
                          /\ C' = C
    BY <1>3 DEF Record!Create
  <2>2. Claimed(x)' = Claimed(x)
    BY <1>2, <2>1
  <2>3. row'[x] = row[x] \/ row[x] = "absent"
    BY <1>0, <2>1
  <2> QED BY <2>2, <2>3 DEF Unattended, Final, Settled
<1>4. CASE \E r \in Runs, c \in Claimants : Record!Claim(r, c)
  <2>1. PICK r \in Runs, c \in Claimants :
            /\ \/ c \in Deliveries /\ row[r] = "pending"
               \/ c = CancelRequest /\ row[r] \in {"pending", "running"}
            /\ C' = [C EXCEPT ![r] = @ \cup {c}]
            /\ row' = row
    BY <1>4 DEF Record!Claim
  <2>2. C'[x] = IF x = r THEN C[x] \cup {c} ELSE C[x]
    BY <2>1
  <2>3. Claimed(x)' = IF x = r THEN Claimed(x) \cup {c} ELSE Claimed(x)
    BY <1>2, <2>2
  <2>4. CancelRequest \notin Deliveries
    BY ClaimantFacts
  <2> QED BY <2>1, <2>3, <2>4 DEF Unattended, Final, Settled
<1>5. CASE \E r \in Runs, c \in Claimants : Record!Write(r, c)
  <2>1. PICK r \in Runs, c \in Claimants :
            /\ c \in C[r]
            /\ C' = [C EXCEPT ![r] = @ \ {c}]
            /\ \E s \in {"cancelled", "running", "completed", "failed", "timed_out"} :
                  row' = [row EXCEPT ![r] = s]
    BY <1>5 DEF Record!Write
  <2>2. C'[x] = IF x = r THEN C[x] \ {c} ELSE C[x]
    BY <2>1
  <2>3. Claimed(x)' = IF x = r THEN Claimed(x) \ {c} ELSE Claimed(x)
    BY <1>2, <2>2
  <2>4. x # r => row'[x] = row[x]
    BY <1>0, <2>1
  <2>5. row'[r] \notin {"absent", "pending"}
    BY <1>0, <2>1
  <2>6. x = r => c \in Claimed(x)
    BY <1>2, <2>1
  <2> QED BY <2>3, <2>4, <2>5, <2>6 DEF Unattended, Final
<1>6. CASE Record!Drop
  <2>1. row' = row /\ \A r \in Runs : C'[r] \subseteq C[r]
    BY <1>6 DEF Record!Drop
  <2>2. Claimed(x)' \subseteq Claimed(x)
    BY <1>2, <2>1
  <2> QED BY <2>1, <2>2 DEF Unattended, Final
<1> QED BY <1>1, <1>3, <1>4, <1>5, <1>6 DEF Record!Next

\* The temporal form of each half, for one run.
LEMMA UnattendedForGood ==
    \A r \in Runs : Spec => [](Unattended(r) => []Unattended(r))
<1> TAKE r \in Runs
<1>1. IInv /\ [Next]_vars /\ Unattended(r) => Unattended(r)'
  <2>1. ASSUME UNCHANGED vars, Unattended(r) PROVE Unattended(r)'
    BY <2>1 DEF vars, Unattended, Claimed
  <2> QED BY <2>1, FinalStep
<1> QED BY <1>1, Inductive, PTL DEF Spec

LEMMA FinalForGood ==
    \A r \in Runs : Spec => [](Final(r) => []Final(r))
<1> TAKE r \in Runs
<1>1. IInv /\ [Next]_vars /\ Final(r) => Final(r)'
  <2>1. ASSUME UNCHANGED vars, Final(r) PROVE Final(r)'
    BY <2>1 DEF vars, Final, Claimed
  <2> QED BY <2>1, FinalStep
<1> QED BY <1>1, Inductive, PTL DEF Spec

\* Whatever redeliveries and cancel requests still arrive, a run that left pending and is
\* not being executed is never executed again, and a settled run nobody has a claim on is
\* never claimed again and keeps its status.
THEOREM SettledForGood ==
    Spec => /\ SettledIsFinal
            /\ \A r \in Runs : /\ [](Unattended(r) => []Unattended(r))
                               /\ [](Final(r) => []Final(r))
<1> DEFINE Kept == \A r \in Runs : /\ Unattended(r) => Unattended(r)'
                                   /\ Final(r) => Final(r)' /\ row'[r] = row[r]
<1>1. Spec => SettledIsFinal
  <2>1. IInv /\ [Next]_vars => [Kept]_vars
    BY FinalStep
  <2> HIDE DEF Kept
  <2>2. Spec => [][Kept]_vars
    BY <2>1, Inductive, PTL DEF Spec
  <2> QED BY <2>2 DEF SettledIsFinal, Kept
<1>2. SUFFICES ASSUME Spec, NEW r \in Runs
      PROVE  /\ [](Unattended(r) => []Unattended(r))
             /\ [](Final(r) => []Final(r))
  BY <1>1
<1>3. [](Unattended(r) => []Unattended(r))
  BY <1>2, UnattendedForGood
<1>4. [](Final(r) => []Final(r))
  BY <1>2, FinalForGood
<1> QED BY <1>3, <1>4

-----------------------------------------------------------------------------
(* Runs that are left behind.                                              *)

\* What must be true of a run so that it is never lost without a cause.  A published
\* message is somewhere; while the row is not settled, a message that is over, or a task
\* about to complete it, has a cause, and so has a committed run that was never published.
KeptInv(x) ==
    /\ dispatch[x] = "sent" => msg[x].st # "none"
    /\ row[x] \in {"absent", "pending"} =>
        /\ dispatch[x] = "committed" /\ msg[x].st = "none" => cause[x] # {}
        /\ msg[x].st \in {"done", "dead"} => cause[x] # {}
        /\ \A d \in Deliveries : pc[x][d] = "settling" => cause[x] # {}
    /\ row[x] = "running" => "wedged" \in cause[x]

\* A step that leaves the message where it is, live, or over for a cause or a settled row.
MsgKept(x) ==
    \/ msg'[x].st = msg[x].st
    \/ msg'[x].st \in {"ready", "locked"}
    \/ msg'[x].st # "none" /\ (cause'[x] # {} \/ row[x] \notin {"absent", "pending"})

\* A step that sends no task to complete a run's message without a cause or a settled row.
TasksKept(x) ==
    \A d \in Deliveries : pc'[x][d] = "settling" =>
        pc[x][d] = "settling" \/ cause'[x] # {} \/ row[x] \notin {"absent", "pending"}

\* Such steps keep the invariant of a run whose row and dispatch they leave alone.
LEMMA KeptFrame ==
    ASSUME NEW x \in Runs, KeptInv(x), row'[x] = row[x], dispatch'[x] = dispatch[x],
           cause[x] \subseteq cause'[x], MsgKept(x), TasksKept(x)
    PROVE  KeptInv(x)'
BY DEF KeptInv, MsgKept, TasksKept

\* A cause is only ever added.
LEMMA BlameFacts ==
    ASSUME TypeOK, NEW r \in Runs, NEW why, Blame(r, why)
    PROVE  /\ why \in cause'[r]
           /\ \A x \in Runs : cause[x] \subseteq cause'[x]
BY DEF TypeOK, Blame

\* A message whose delivery failed is ready again, or dead for a cause.
LEMMA RequeueKept ==
    ASSUME TypeOK, NEW r \in Runs, Requeue(r)
    PROVE  \A x \in Runs : cause[x] \subseteq cause'[x] /\ MsgKept(x)
<1>1. CASE msg[r].n + 1 < MaxDelivery
  <2>1. UNCHANGED cause /\ msg'[r].st = "ready" /\ \A x \in Runs : x # r => msg'[x] = msg[x]
    BY <1>1 DEF Requeue, Requeued, TypeOK
  <2> QED BY <2>1 DEF MsgKept
<1>2. CASE ~(msg[r].n + 1 < MaxDelivery)
  <2>1. Blame(r, "exhausted") /\ msg'[r].st = "dead" /\ \A x \in Runs : x # r => msg'[x] = msg[x]
    BY <1>2 DEF Requeue, Requeued, TypeOK
  <2> QED BY <2>1, BlameFacts DEF MsgKept
<1> QED BY <1>1, <1>2

\* Moving a claimant anywhere but to "settling" sends nobody to complete a message.
LEMMA GotoKept ==
    ASSUME TypeOK, NEW r \in Runs, NEW c \in Claimants, NEW l, Goto(r, c, l),
           NEW x \in Runs, l = "settling" /\ x = r =>
               cause'[x] # {} \/ row[x] \notin {"absent", "pending"}
    PROVE  TasksKept(x)
<1>1. \A e \in Claimants : pc'[r][e] = IF e = c THEN l ELSE pc[r][e]
  BY GotoFacts
<1>2. x # r => pc'[x] = pc[x]
  BY DEF TypeOK, Goto
<1> QED BY <1>1, <1>2, ClaimantFacts DEF TasksKept

\* Dispatching, lock expiry and cancel requests leave no run behind without a cause.
LEMMA RunStepKept ==
    ASSUME IInv, NEW r \in Runs, Dispatching(r) \/ LockExpires(r) \/ Cancelling(r),
           NEW x \in Runs, KeptInv(x)
    PROVE  KeptInv(x)'
<1> USE ClaimantFacts
<1>0. TypeOK /\ RunInv(r) /\ RunInv(x)
  BY Pointwise
<1>1. CASE Flush(r) \/ PublishFails(r) \/ RollbackDispatch(r)
  <2>1. UNCHANGED <<row, msg, pc, cause>> /\ (dispatch'[x] = dispatch[x]
                                             \/ dispatch'[x] \in {"flushed", "unsent", "rolledback"})
    BY <1>0, <1>1 DEF Flush, PublishFails, RollbackDispatch, txVars, TypeOK
  <2> QED BY <2>1 DEF KeptInv
<1>2. CASE Publish(r)
  <2>1. UNCHANGED <<row, pc, cause>> /\ (x # r => dispatch'[x] = dispatch[x] /\ msg'[x] = msg[x])
        /\ dispatch'[r] = "sent" /\ msg'[r].st = "ready"
    BY <1>0, <1>2 DEF Publish, txVars, TypeOK
  <2> QED BY <2>1 DEF KeptInv
<1>3. CASE CommitDispatch(r)
  <2>1. UNCHANGED <<msg, pc>> /\ (x # r => dispatch'[x] = dispatch[x] /\ row'[x] = row[x])
        /\ dispatch'[r] = "committed" /\ row'[r] = "pending"
    BY <1>0, <1>3 DEF CommitDispatch, TypeOK
  <2>2. row[r] = "absent" /\ dispatch[r] \in {"sent", "unsent"}
    BY <1>0, <1>3 DEF CommitDispatch, RunInv
  <2>3. cause[x] \subseteq cause'[x] /\ (dispatch[r] = "unsent" => cause'[r] # {})
    BY <1>0, <1>3, BlameFacts DEF CommitDispatch
  <2> QED BY <2>1, <2>2, <2>3 DEF KeptInv
<1>4. CASE LockExpires(r)
  <2>1. TasksKept(x)
    BY <1>4 DEF LockExpires, TasksKept
  <2> QED BY <1>0, <1>4, <2>1, RequeueKept, KeptFrame DEF LockExpires, txVars
<1>5. CASE CancelRead(r)
  BY <1>0, <1>5, GotoKept, KeptFrame DEF CancelRead, MsgKept, txVars
<1>6. CASE CancelFlush(r)
  BY <1>0, <1>6, GotoKept, KeptFrame DEF CancelFlush, MsgKept
<1>7. CASE CancelCommit(r)
  <2>1. UNCHANGED <<dispatch, msg, cause>> /\ (x # r => row'[x] = row[x]) /\ row'[r] = "cancelled"
    BY <1>0, <1>7 DEF CancelCommit, RunInv, Writing, TypeOK
  <2>2. TasksKept(x)
    BY <1>0, <1>7, GotoKept DEF CancelCommit
  <2> QED BY <2>1, <2>2 DEF KeptInv, TasksKept
<1>8. CASE CancelRollback(r)
  BY <1>0, <1>8, GotoKept, KeptFrame DEF CancelRollback, MsgKept
<1> QED
  BY <1>1, <1>2, <1>3, <1>4, <1>5, <1>6, <1>7, <1>8 DEF Dispatching, Cancelling

\* No step of a task leaves a run behind without a cause.
LEMMA TaskKept ==
    ASSUME IInv, NEW r \in Runs, NEW d \in Deliveries, Task(r, d), NEW x \in Runs, KeptInv(x)
    PROVE  KeptInv(x)'
<1> USE ClaimantFacts
<1>0. TypeOK /\ RunInv(r) /\ RunInv(x)
  BY Pointwise
<1>1. CASE DeadLetter(r, d)
  <2>1. TasksKept(x)
    BY <1>0, <1>1, GotoKept DEF DeadLetter
  <2>2. cause[x] \subseteq cause'[x] /\ MsgKept(x)
    <3>1. CASE CanSettle(r, d)
      <4>1. msg' = [msg EXCEPT ![r].st = "dead"] /\ Blame(r, "exhausted")
        BY <1>1, <3>1 DEF DeadLetter
      <4>2. x # r => msg'[x] = msg[x]
        BY <1>0, <4>1 DEF TypeOK
      <4>3. msg'[r].st = "dead"
        BY <1>0, <4>1 DEF TypeOK
      <4> QED BY <1>0, <4>1, <4>2, <4>3, BlameFacts DEF MsgKept
    <3>2. CASE ~CanSettle(r, d)
      BY <1>1, <3>2 DEF DeadLetter, MsgKept
    <3> QED BY <3>1, <3>2
  <2> QED BY <1>1, <2>1, <2>2, KeptFrame DEF DeadLetter, txVars
<1>2. CASE Skip(r, d)
  <2>1. cause[x] \subseteq cause'[x] /\ (row[r] = "absent" => cause'[r] # {})
    BY <1>0, <1>2, BlameFacts DEF Skip
  <2>2. TasksKept(x)
    BY <1>0, <1>2, <2>1, GotoKept DEF Skip
  <2> QED BY <1>2, <2>1, <2>2, KeptFrame DEF Skip, MsgKept, txVars
<1>3. CASE Claim(r, d)
  BY <1>0, <1>3, GotoKept, KeptFrame DEF Claim, MsgKept, txVars
<1>4. CASE LoadFails(r, d)
  <2>1. TasksKept(x)
    BY <1>0, <1>4, GotoKept DEF LoadFails
  <2>2. cause[x] \subseteq cause'[x] /\ MsgKept(x)
    BY <1>0, <1>4, RequeueKept DEF LoadFails, MsgKept
  <2> QED BY <1>4, <2>1, <2>2, KeptFrame DEF LoadFails, txVars
<1>5. CASE FailUnbuildable(r, d)
  BY <1>0, <1>5, GotoKept, KeptFrame DEF FailUnbuildable, MsgKept
<1>6. CASE AbortBeforeStart(r, d)
  <2>1. cause[x] \subseteq cause'[x] /\ cause'[r] # {}
    BY <1>0, <1>6, BlameFacts DEF AbortBeforeStart
  <2>2. TasksKept(x)
    BY <1>0, <1>6, <2>1, GotoKept DEF AbortBeforeStart
  <2> QED BY <1>6, <2>1, <2>2, KeptFrame DEF AbortBeforeStart, MsgKept, txVars
<1>7. CASE Start(r, d)
  BY <1>0, <1>7, GotoKept, KeptFrame DEF Start, MsgKept
<1>8. CASE SetupRaises(r, d)
  BY <1>0, <1>8, GotoKept, KeptFrame DEF SetupRaises, MsgKept, txVars
<1>9. CASE Finish(r, d)
  BY <1>0, <1>9, GotoKept, KeptFrame DEF Finish, MsgKept
<1>10. CASE CommitTask(r, d)
  <2>1. UNCHANGED <<dispatch, msg>> /\ (x # r => row'[x] = row[x] /\ pc'[x] = pc[x])
        /\ row'[r] = val[r][d]
    BY <1>0, <1>10 DEF CommitTask, Goto, TypeOK
  <2>2. val[r][d] \notin {"absent", "pending"}
    BY <1>0, <1>10 DEF CommitTask, RunInv, Writing
  <2>3. cause[x] \subseteq cause'[x] /\ (val[r][d] = "running" => "wedged" \in cause'[r])
    BY <1>0, <1>10, BlameFacts DEF CommitTask
  <2>4. CASE x = r
    <3>1. dispatch[r] = "committed"
      BY <1>0, <1>10 DEF CommitTask, RunInv, Open
    <3> QED BY <2>1, <2>2, <2>3, <2>4, <3>1 DEF KeptInv
  <2>5. CASE x # r
    BY <2>1, <2>3, <2>5 DEF KeptInv
  <2> QED BY <2>4, <2>5
<1>11. CASE CommitFails(r, d)
  <2>1. cause[x] \subseteq cause'[x] /\ cause'[r] # {}
    BY <1>0, <1>11, BlameFacts DEF CommitFails
  <2>2. TasksKept(x)
    BY <1>0, <1>11, <2>1, GotoKept DEF CommitFails
  <2> QED BY <1>11, <2>1, <2>2, KeptFrame DEF CommitFails, MsgKept
<1>12. CASE UnbuildableCommitFails(r, d)
  <2>1. TasksKept(x)
    BY <1>0, <1>12, GotoKept DEF UnbuildableCommitFails
  <2>2. cause[x] \subseteq cause'[x] /\ MsgKept(x)
    BY <1>0, <1>12, RequeueKept DEF UnbuildableCommitFails, MsgKept
  <2> QED BY <1>12, <2>1, <2>2, KeptFrame DEF UnbuildableCommitFails
<1>13. CASE Settle(r, d)
  <2>1. TasksKept(x)
    BY <1>0, <1>13, GotoKept DEF Settle
  <2>2. cause'[x] = cause[x] /\ (x # r => msg'[x] = msg[x])
        /\ (msg'[r].st = msg[r].st \/ msg'[r].st = "done") /\ pc[r][d] = "settling"
    BY <1>0, <1>13 DEF Settle, TypeOK
  <2>3. MsgKept(x)
    BY <2>2 DEF KeptInv, MsgKept
  <2> QED BY <1>13, <2>1, <2>2, <2>3, KeptFrame DEF Settle, txVars
<1> QED
  BY <1>1, <1>2, <1>3, <1>4, <1>5, <1>6, <1>7, <1>8, <1>9, <1>10, <1>11, <1>12, <1>13 DEF Task

\* Neither a delivery nor anything that happens to a worker process does.
LEMMA WorkerKept ==
    ASSUME IInv, NEW w \in Workers,
           Process(w) \/ \E r \in Runs : Deliver(w, r) \/ DeliverAfterShutdown(w, r),
           NEW x \in Runs, KeptInv(x)
    PROVE  KeptInv(x)'
<1> USE ClaimantFacts
<1>0. TypeOK
  BY DEF IInv
<1>1. ASSUME NEW r \in Runs, Deliver(w, r) PROVE KeptInv(x)'
  <2>1. msg'[x].st = msg[x].st \/ msg'[x].st = "locked"
    BY <1>0, <1>1 DEF Deliver, TypeOK
  <2>2. Goto(r, msg[r].n, "waiting") /\ msg[r].n \in Claimants
    BY <1>0, <1>1 DEF Deliver, Goto, TypeOK
  <2> QED BY <1>0, <1>1, <2>1, <2>2, GotoKept, KeptFrame DEF Deliver, MsgKept, txVars
<1>2. ASSUME NEW r \in Runs, DeliverAfterShutdown(w, r) PROVE KeptInv(x)'
  BY <1>0, <1>2, RequeueKept, KeptFrame DEF DeliverAfterShutdown, TasksKept, txVars
<1>3. CASE Crash(w)
  <2>1. TasksKept(x)
    BY <1>3 DEF Crash, TasksKept
  <2> QED BY <1>3, <2>1, KeptFrame DEF Crash, MsgKept
<1>4. CASE SignalShutdown(w) \/ Exit(w) \/ Restart(w)
  BY <1>4, KeptFrame DEF SignalShutdown, Exit, Restart, MsgKept, TasksKept, txVars
<1> QED BY <1>1, <1>2, <1>3, <1>4 DEF Process

\* For any number of runs, workers, deliveries and crashes: a pending run whose message
\* is gone, and a run that others see as running, has one of the causes of its kind.
LEMMA AllKept == Spec => [](\A x \in Runs : KeptInv(x))
<1>1. Init => \A x \in Runs : KeptInv(x)
  BY ClaimantFacts DEF Init, KeptInv
<1>2. IInv /\ (\A x \in Runs : KeptInv(x)) /\ [Next]_vars => (\A x \in Runs : KeptInv(x))'
  <2> SUFFICES ASSUME IInv, \A x \in Runs : KeptInv(x), [Next]_vars, NEW x \in Runs
               PROVE  KeptInv(x)'
    OBVIOUS
  <2>1. CASE Next
    BY <2>1, RunStepKept, TaskKept, WorkerKept DEF Next
  <2>2. CASE UNCHANGED vars
    BY <2>2 DEF vars, KeptInv
  <2> QED BY <2>1, <2>2
<1> QED BY <1>1, <1>2, Inductive, PTL DEF Spec

\* No committed pending run loses its message but for a cause that the code is known to
\* have: swallowed publishes, early consumption, aborts, rolled back commits, exhaustion.
THEOREM NeverLostSilently == Spec => []NoSilentLoss
<1>1. IInv /\ (\A x \in Runs : KeptInv(x)) => NoSilentLoss
  <2> SUFFICES ASSUME IInv, NEW r \in Runs, KeptInv(r), row[r] = "pending"
               PROVE  msg[r].st \in {"ready", "locked"} \/ cause[r] # {}
    BY DEF NoSilentLoss
  <2>1. dispatch[r] = "committed" /\ msg[r].st \in {"none", "ready", "locked", "done", "dead"}
    BY DEF IInv, RowIffCommitted, TypeOK
  <2> QED BY <2>1 DEF KeptInv
<1> QED BY <1>1, AllKept, Inductive, PTL

\* A run whose committed status is RUNNING is one whose set-up raised.
THEOREM RunningIsWedged == Spec => []RunningOnlyIfWedged
<1>1. (\A x \in Runs : KeptInv(x)) => RunningOnlyIfWedged
  BY DEF KeptInv, RunningOnlyIfWedged
<1> QED BY <1>1, AllKept, PTL
=============================================================================
