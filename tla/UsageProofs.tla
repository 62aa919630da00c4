---------------------------- MODULE UsageProofs ----------------------------
(***************************************************************************)
(* Proofs about Usage, for any number of runs, requests, passes and plan   *)
(* updates: types, that no run is billed twice, and that the run quota is  *)
(* exact but for scheduled runs and overtaken requests.                    *)
(***************************************************************************)
EXTENDS Usage, FiniteSetTheorems, TLAPS

-----------------------------------------------------------------------------
(* Types.                                                                  *)

\* A stored limit is a limit.
LEMMA StoredType ==
    ASSUME NEW column \in Limit, NEW default \in Limit
    PROVE  Stored(column, default) \in Limit
BY DEF Stored

\* The free tier's default is a number, the enterprise tier has none.
LEMMA DefaultRunsType ==
    ASSUME NEW tier
    PROVE  DefaultRuns(tier) \in Limit
BY LimitAssumption DEF DefaultRuns, Limit

\* The row an agent adds to is named after a run.
LEMMA RowForType ==
    ASSUME NEW r \in Runs
    PROVE  RowFor(r) \in Runs
BY DEF RowFor, Rows

\* The initial state is well typed.
LEMMA InitType == Init => TypeOK
BY LimitAssumption DEF Init, TypeOK, Plan, Tiers, Limit, Tx

\* Plan updates keep the types.
LEMMA UpsertPlanType ==
    ASSUME TypeOK, NEW tier, NEW runs \in Overrides, UpsertPlan(tier, runs)
    PROVE  TypeOK'
<1>1. runs \in Limit
  BY LimitAssumption DEF Limit
<1>2. Stored(runs, plan.runs) \in Limit
  BY <1>1, StoredType DEF TypeOK, Plan
<1>3. plan' \in Plan /\ plan'.runs \in Limit
  BY <1>2 DEF UpsertPlan, Plan
<1>4. limits' \subseteq Limit
  BY <1>3, StoredType, DefaultRunsType DEF UpsertPlan, TypeOK
<1>5. upserts' \in Nat
  BY DEF UpsertPlan, TypeOK
<1> QED BY <1>3, <1>4, <1>5 DEF UpsertPlan, TypeOK, usageVars

\* Dispatching transactions keep the types.
LEMMA DispatchingType ==
    ASSUME TypeOK, NEW t \in Tx,
           \/ CommitDispatch(t)
           \/ RollbackDispatch(t)
           \/ \E r \in Runs : Dispatch(t, r)
    PROVE  TypeOK'
<1>1. CASE CommitDispatch(t)
  BY <1>1 DEF CommitDispatch, TypeOK, planVars, usageVars
<1>2. CASE RollbackDispatch(t)
  BY <1>2 DEF RollbackDispatch, TypeOK, planVars, usageVars
<1>3. CASE \E r \in Runs : Dispatch(t, r)
  <2> PICK r \in Runs : Dispatch(t, r)
    BY <1>3
  <2> QED BY DEF Dispatch, TypeOK, planVars, usageVars
<1> QED BY <1>1, <1>2, <1>3

\* Agents keep the types.
LEMMA AgentType ==
    ASSUME TypeOK, NEW r \in Runs,
           \/ ReadUsage(r) \/ ReadUsageFails(r) \/ FlushUsage(r)
           \/ CommitUsage(r) \/ RollbackUsage(r)
    PROVE  TypeOK'
<1>1. CASE ReadUsage(r)
  <2>1. UNION {usage[i] : i \in Rows} \subseteq Runs
    BY DEF TypeOK, Rows
  <2> QED BY <1>1, <2>1, RowForType DEF ReadUsage, TypeOK, planVars, dispatchVars
<1>2. CASE ReadUsageFails(r) \/ FlushUsage(r) \/ RollbackUsage(r)
  BY <1>2 DEF ReadUsageFails, FlushUsage, RollbackUsage, TypeOK,
              planVars, dispatchVars, usageVars
<1>3. CASE CommitUsage(r)
  BY <1>3 DEF CommitUsage, Total, TypeOK, planVars, dispatchVars
<1> QED BY <1>1, <1>2, <1>3

\* Every step keeps the types.
LEMMA NextType == TypeOK /\ [Next]_vars => TypeOK'
<1> SUFFICES ASSUME TypeOK, [Next]_vars PROVE TypeOK'
  OBVIOUS
<1>1. CASE UNCHANGED vars
  BY <1>1 DEF vars, planVars, dispatchVars, usageVars, TypeOK
<1>2. CASE Next
  BY <1>2, UpsertPlanType, DispatchingType, AgentType DEF Next
<1> QED BY <1>1, <1>2

\* Every reachable state of the quota and roll-up model is well typed.
THEOREM TypeCorrect == Spec => []TypeOK
<1> QED BY InitType, NextType, PTL DEF Spec

-----------------------------------------------------------------------------
(* No run is billed twice.  A run is only ever counted in the row its      *)
(* agent last read (its target), and so is every run in a snapshot.        *)

InRead(x) == phase[x] \in {"read", "flushed"}

CountedAtHome ==
    \A i \in Runs : \A r \in usage[i] : phase[r] = "done" /\ target[r] = i

SnapshotsAtHome ==
    \A x \in Runs : InRead(x) =>
        \A r \in snap[x] : phase[r] = "done" /\ target[r] = target[x]

HomeInv == TypeOK /\ CountedAtHome /\ SnapshotsAtHome

\* Fewer than two rows are the same row.
LEMMA TwoRows ==
    ASSUME NEW i \in Rows, NEW k \in Rows, Cardinality(Rows) < 2
    PROVE  i = k
<1> SUFFICES ASSUME i # k PROVE FALSE
  OBVIOUS
<1>1. IsFiniteSet(Rows)
  BY RunAssumption, FS_Subset DEF Rows
<1>2. Cardinality({i, k}) = 2
  <2>1. IsFiniteSet({i}) /\ Cardinality({i}) = 1
    BY FS_Singleton
  <2>2. Cardinality({i} \cup {k}) = Cardinality({i}) + 1
    BY <2>1, FS_AddElement
  <2>3. {i} \cup {k} = {i, k}
    OBVIOUS
  <2> QED BY <2>1, <2>2, <2>3
<1>3. Cardinality({i, k}) <= Cardinality(Rows)
  BY <1>1, FS_Subset
<1>4. Cardinality(Rows) \in Nat
  BY <1>1, FS_CardinalityType
<1> QED BY <1>2, <1>3, <1>4

\* What an agent reads is counted in the row it will write.
LEMMA ReadHome ==
    ASSUME HomeInv, NEW r \in Runs, ReadUsage(r)
    PROVE  HomeInv'
<1>1. TypeOK'
  BY AgentType DEF HomeInv
<1>2. phase[r] = "ready" /\ r \in DOMAIN phase /\ r \in DOMAIN target /\ r \in DOMAIN snap
  BY DEF ReadUsage, HomeInv, TypeOK
<1>3. \A y \in snap'[r] : phase[y] = "done" /\ target[y] = target'[r]
  <2> SUFFICES ASSUME NEW y \in snap'[r]
               PROVE  phase[y] = "done" /\ target[y] = target'[r]
    OBVIOUS
  <2>1. snap'[r] = UNION {usage[i] : i \in Rows} /\ target'[r] = RowFor(r)
    BY <1>2 DEF ReadUsage
  <2>2. PICK i \in Rows : y \in usage[i]
    BY <2>1
  <2>3. RowFor(r) \in Rows
    BY <2>2 DEF RowFor
  <2>4. i = RowFor(r)
    BY <2>3, TwoRows DEF ReadUsage
  <2>5. i \in Runs
    BY DEF Rows
  <2> QED BY <2>1, <2>2, <2>4, <2>5 DEF HomeInv, CountedAtHome
<1>4. CountedAtHome'
  BY <1>2 DEF ReadUsage, HomeInv, TypeOK, CountedAtHome
<1>5. SnapshotsAtHome'
  <2> SUFFICES ASSUME NEW x \in Runs, InRead(x)', NEW y \in snap'[x]
               PROVE  phase'[y] = "done" /\ target'[y] = target'[x]
    BY DEF SnapshotsAtHome
  <2>1. phase[y] = "done" /\ target[y] = target'[x]
    <3>1. CASE x = r
      BY <3>1, <1>3
    <3>2. CASE x # r
      BY <3>2, <1>2 DEF ReadUsage, HomeInv, SnapshotsAtHome, InRead, TypeOK
    <3> QED BY <3>1, <3>2
  <2>2. y # r
    BY <2>1, <1>2
  <2> QED BY <2>1, <2>2, <1>2 DEF ReadUsage, HomeInv, TypeOK
<1> QED BY <1>1, <1>4, <1>5 DEF HomeInv

\* A commit adds one run, and its row is that run's target.
LEMMA CommitHome ==
    ASSUME HomeInv, NEW r \in Runs, CommitUsage(r)
    PROVE  HomeInv'
<1>1. TypeOK'
  BY AgentType DEF HomeInv
<1>2. /\ phase' = [phase EXCEPT ![r] = "done"]
      /\ usage' = [usage EXCEPT ![target[r]] = snap[r] \cup {r}]
      /\ target' = target /\ snap' = snap /\ InRead(r) /\ target[r] \in Runs
  BY DEF CommitUsage, Total, HomeInv, TypeOK, InRead
<1>3. CountedAtHome'
  <2> SUFFICES ASSUME NEW i \in Runs, NEW y \in usage'[i]
               PROVE  phase'[y] = "done" /\ target'[y] = i
    BY DEF CountedAtHome
  <2>1. CASE i = target[r]
    <3>1. y \in snap[r] \cup {r}
      BY <2>1, <1>2 DEF HomeInv, TypeOK
    <3> QED BY <3>1, <2>1, <1>2 DEF HomeInv, SnapshotsAtHome, TypeOK
  <2>2. CASE i # target[r]
    <3>1. y \in usage[i]
      BY <2>2, <1>2 DEF HomeInv, TypeOK
    <3> QED BY <3>1, <1>2 DEF HomeInv, CountedAtHome, TypeOK
  <2> QED BY <2>1, <2>2
<1>4. SnapshotsAtHome'
  BY <1>2 DEF HomeInv, SnapshotsAtHome, InRead, TypeOK
<1> QED BY <1>1, <1>3, <1>4 DEF HomeInv

\* The other steps of an agent touch neither rows nor targets.
LEMMA OtherHome ==
    ASSUME HomeInv, NEW r \in Runs,
           ReadUsageFails(r) \/ FlushUsage(r) \/ RollbackUsage(r)
    PROVE  HomeInv'
<1>1. TypeOK'
  BY AgentType DEF HomeInv
<1>2. target' = target /\ snap' = snap /\ usage' = usage
  BY DEF ReadUsageFails, FlushUsage, RollbackUsage, usageVars
<1>3. phase[r] # "done" /\ \E p \in {"done", "flushed", "ready", "lost"} :
                              /\ phase' = [phase EXCEPT ![r] = p]
                              /\ p = "flushed" => phase[r] = "read"
  BY DEF ReadUsageFails, FlushUsage, RollbackUsage
<1>4. CountedAtHome'
  BY <1>2, <1>3 DEF HomeInv, CountedAtHome, TypeOK
<1>5. SnapshotsAtHome'
  BY <1>2, <1>3 DEF HomeInv, SnapshotsAtHome, InRead, TypeOK
<1> QED BY <1>1, <1>4, <1>5 DEF HomeInv

\* Dispatching leaves the roll-up alone, and moves no run to or from its end.
LEMMA DispatchingHome ==
    ASSUME HomeInv, NEW t \in Tx,
           \A q \in inserted[t] : phase[q] = "inserted",
           \/ CommitDispatch(t)
           \/ RollbackDispatch(t)
           \/ \E r \in Runs : Dispatch(t, r)
    PROVE  HomeInv'
<1>1. TypeOK'
  BY DispatchingType DEF HomeInv
<1>2. target' = target /\ snap' = snap /\ usage' = usage
  BY DEF CommitDispatch, RollbackDispatch, Dispatch, usageVars
<1>3. \A q \in Runs : phase'[q] # phase[q] =>
          phase[q] \in {"new", "inserted"} /\ phase'[q] \in {"new", "inserted", "ready"}
  BY DEF CommitDispatch, RollbackDispatch, Dispatch, HomeInv, TypeOK
<1>4. CountedAtHome'
  BY <1>2, <1>3 DEF HomeInv, CountedAtHome, TypeOK
<1>5. SnapshotsAtHome'
  BY <1>2, <1>3 DEF HomeInv, SnapshotsAtHome, InRead, TypeOK
<1> QED BY <1>1, <1>4, <1>5 DEF HomeInv

-----------------------------------------------------------------------------
(* The quota.  A set of runs fits if some limit that has been in force     *)
(* allows it; the runs a fresh request would commit always fit.            *)

Fits(S) == NoLimit \in limits \/ \E l \in limits : Cardinality(S) <= l

LimitInForce == RunLimit \in limits

\* What a transaction has inserted is in flight there, and nowhere else.
InFlight ==
    \A t \in Tx :
        /\ \A r \in inserted[t] : phase[r] = "inserted"
        /\ \A u \in Tx : u # t => inserted[t] \cap inserted[u] = {}

FreshRequestsFit ==
    \A t \in Requests : inserted[t] # {} /\ ~stale[t] => Fits(Committed \cup inserted[t])

QuotaInv ==
    /\ TypeOK /\ LimitInForce /\ InFlight /\ FreshRequestsFit
    /\ Fits(Committed \ exempt)

\* A subset of a set that fits does so too.
LEMMA FitsSubset ==
    ASSUME TypeOK, NEW S, NEW T \in SUBSET Runs, S \subseteq T, Fits(T)
    PROVE  Fits(S)
<1>1. IsFiniteSet(T)
  BY RunAssumption, FS_Subset
<1>2. Cardinality(S) \in Nat /\ Cardinality(T) \in Nat /\ Cardinality(S) <= Cardinality(T)
  BY <1>1, FS_Subset, FS_CardinalityType
<1>3. \A l \in limits : l \in Nat \/ l = NoLimit
  BY DEF TypeOK, Limit
<1> QED BY <1>2, <1>3 DEF Fits

\* A check that passes leaves room for one more run.
LEMMA RoomForOne ==
    ASSUME TypeOK, LimitInForce, NEW t \in Tx, NEW r \in Runs, AgentRunAllowed(t)
    PROVE  Fits(Committed \cup inserted[t] \cup {r})
<1> DEFINE S == Committed \cup inserted[t]
<1>1. IsFiniteSet(S)
  <2>1. S \subseteq Runs
    BY DEF TypeOK, Committed
  <2> QED BY <2>1, RunAssumption, FS_Subset
<1>2. Cardinality(S) \in Nat
  BY <1>1, FS_CardinalityType
<1>3. Cardinality(S \cup {r}) \in Nat /\ Cardinality(S \cup {r}) <= Cardinality(S) + 1
  BY <1>1, <1>2, FS_AddElement
<1>4. RunLimit \in Nat \/ RunLimit = NoLimit
  BY DEF LimitInForce, TypeOK, Limit
<1>5. CASE RunLimit = NoLimit
  BY <1>5 DEF LimitInForce, Fits
<1>6. CASE RunLimit # NoLimit
  <2>1. RunLimit # 0 /\ ~(2000 * Cardinality(S) >= 1999 * RunLimit)
    BY <1>6 DEF AgentRunAllowed, Exceeded, RunsUsed
  <2>2. Cardinality(S) + 1 <= RunLimit
    <3> DEFINE n == Cardinality(S)
    <3> DEFINE m == RunLimit
    <3>1. n \in Nat /\ m \in Nat /\ m # 0 /\ ~(2000 * n >= 1999 * m)
      BY <1>2, <1>4, <1>6, <2>1
    <3> HIDE DEF n, m
    <3>2. n + 1 <= m
      BY <3>1
    <3> QED BY <3>2 DEF n, m
  <2>3. Cardinality(S \cup {r}) <= RunLimit
    BY <1>2, <1>3, <1>4, <1>6, <2>2
  <2> QED BY <2>3 DEF Fits, LimitInForce
<1> QED BY <1>5, <1>6

\* Initially nothing has been committed.
LEMMA InitQuota == Init => QuotaInv
<1> SUFFICES ASSUME Init PROVE QuotaInv
  OBVIOUS
<1>1. TypeOK
  BY InitType
<1>2. LimitInForce
  BY LimitAssumption DEF Init, LimitInForce, RunLimit, Stored, DefaultRuns
<1>3. InFlight /\ FreshRequestsFit
  BY DEF Init, InFlight, FreshRequestsFit, Tx
<1>4. Committed \ exempt = {}
  BY DEF Init, Committed
<1>5. Fits({})
  BY LimitAssumption, FS_EmptySet DEF Init, Fits
<1> QED BY <1>1, <1>2, <1>3, <1>4, <1>5 DEF QuotaInv

\* A plan update adds the new limit to those that have been in force.
LEMMA UpsertPlanQuota ==
    ASSUME QuotaInv, NEW tier, NEW runs \in Overrides, UpsertPlan(tier, runs)
    PROVE  QuotaInv'
<1>1. TypeOK'
  BY UpsertPlanType DEF QuotaInv
<1>2. limits \subseteq limits' /\ Committed' = Committed
  BY DEF UpsertPlan, Committed
<1>3. LimitInForce'
  BY DEF UpsertPlan, LimitInForce, RunLimit
<1>4. \A S : Fits(S) => Fits(S)'
  BY <1>2 DEF Fits
<1>5. InFlight'
  BY DEF UpsertPlan, QuotaInv, InFlight
<1>6. FreshRequestsFit'
  <2> SUFFICES ASSUME NEW t \in Requests, inserted[t] # {}, ~stale[t]
               PROVE  Fits(Committed \cup inserted[t])'
    BY DEF UpsertPlan, FreshRequestsFit
  <2>1. Fits(Committed \cup inserted[t])
    BY DEF QuotaInv, FreshRequestsFit
  <2> QED BY <2>1, <1>2 DEF UpsertPlan, Fits
<1>7. Fits(Committed \ exempt)'
  BY <1>2 DEF UpsertPlan, Fits, QuotaInv
<1> QED BY <1>1, <1>3, <1>5, <1>6, <1>7 DEF QuotaInv

\* An agent's steps leave the committed runs as they are.
LEMMA AgentQuota ==
    ASSUME QuotaInv, NEW r \in Runs,
           \/ ReadUsage(r) \/ ReadUsageFails(r) \/ FlushUsage(r)
           \/ CommitUsage(r) \/ RollbackUsage(r)
    PROVE  QuotaInv'
<1>1. TypeOK'
  BY AgentType DEF QuotaInv
<1>2. plan' = plan /\ inserted' = inserted /\ limits' = limits /\ stale' = stale /\ exempt' = exempt
  BY DEF ReadUsage, ReadUsageFails, FlushUsage, CommitUsage, RollbackUsage, planVars, dispatchVars
<1>3. \E p \in {"ready", "read", "flushed", "done", "lost"} :
        phase' = [phase EXCEPT ![r] = p] /\ phase[r] \in {"ready", "read", "flushed"}
  BY DEF ReadUsage, ReadUsageFails, FlushUsage, CommitUsage, RollbackUsage
<1>4. Committed' = Committed
  BY <1>3 DEF Committed, QuotaInv, TypeOK
<1>5. InFlight'
  BY <1>2, <1>3 DEF InFlight, QuotaInv, TypeOK
<1>6. (LimitInForce /\ FreshRequestsFit /\ Fits(Committed \ exempt))'
  BY <1>2, <1>4 DEF QuotaInv, LimitInForce, RunLimit, FreshRequestsFit, Fits
<1> QED BY <1>1, <1>5, <1>6 DEF QuotaInv

\* A dispatch counts what is committed and what its own transaction inserted.
LEMMA DispatchQuota ==
    ASSUME QuotaInv, NEW t \in Tx, NEW r \in Runs, Dispatch(t, r)
    PROVE  QuotaInv'
<1>1. TypeOK'
  BY DispatchingType DEF QuotaInv
<1>2. plan' = plan /\ limits' = limits /\ exempt' = exempt
  BY DEF Dispatch, planVars
<1>3. /\ phase' = [phase EXCEPT ![r] = "inserted"] /\ phase[r] = "new"
      /\ inserted' = [inserted EXCEPT ![t] = @ \cup {r}]
      /\ stale' = [stale EXCEPT ![t] = FALSE]
  BY DEF Dispatch
<1>4. Committed' = Committed
  BY <1>3 DEF Committed, QuotaInv, TypeOK
<1>5. InFlight'
  BY <1>3 DEF InFlight, QuotaInv, TypeOK
<1>6. FreshRequestsFit'
  <2> SUFFICES ASSUME NEW u \in Requests, inserted'[u] # {}, ~stale'[u]
               PROVE  Fits(Committed \cup inserted'[u])
    BY <1>2, <1>4 DEF FreshRequestsFit, Fits
  <2>1. u \in Tx
    BY DEF Tx
  <2>2. CASE u = t
    <3>1. AgentRunAllowed(t)
      BY <2>2, TxAssumption DEF Dispatch
    <3>2. Committed \cup inserted'[u] = Committed \cup inserted[t] \cup {r}
      BY <2>2, <1>3 DEF QuotaInv, TypeOK
    <3> QED BY <3>1, <3>2, RoomForOne DEF QuotaInv
  <2>3. CASE u # t
    BY <2>1, <2>3, <1>3 DEF QuotaInv, FreshRequestsFit, TypeOK
  <2> QED BY <2>2, <2>3
<1>7. (LimitInForce /\ Fits(Committed \ exempt))'
  BY <1>2, <1>4 DEF QuotaInv, LimitInForce, RunLimit, Fits
<1> QED BY <1>1, <1>5, <1>6, <1>7 DEF QuotaInv

\* A rollback takes back runs that were not committed.
LEMMA RollbackQuota ==
    ASSUME QuotaInv, NEW t \in Tx, RollbackDispatch(t)
    PROVE  QuotaInv'
<1>1. TypeOK'
  BY DispatchingType DEF QuotaInv
<1>2. plan' = plan /\ limits' = limits /\ exempt' = exempt /\ stale' = stale
  BY DEF RollbackDispatch, planVars
<1>3. /\ phase' = [r \in Runs |-> IF r \in inserted[t] THEN "new" ELSE phase[r]]
      /\ inserted' = [inserted EXCEPT ![t] = {}]
  BY DEF RollbackDispatch
<1>4. Committed' = Committed
  BY <1>3 DEF Committed, QuotaInv, InFlight
<1>5. InFlight'
  BY <1>3 DEF InFlight, QuotaInv, TypeOK
<1>6. FreshRequestsFit'
  <2> SUFFICES ASSUME NEW u \in Requests, inserted'[u] # {}, ~stale[u]
               PROVE  Fits(Committed \cup inserted'[u])
    BY <1>2, <1>4 DEF FreshRequestsFit, Fits
  <2>1. u \in Tx
    BY DEF Tx
  <2>2. inserted'[u] = inserted[u]
    BY <2>1, <1>3 DEF QuotaInv, TypeOK
  <2> QED BY <2>2 DEF QuotaInv, FreshRequestsFit
<1>7. (LimitInForce /\ Fits(Committed \ exempt))'
  BY <1>2, <1>4 DEF QuotaInv, LimitInForce, RunLimit, Fits
<1> QED BY <1>1, <1>5, <1>6, <1>7 DEF QuotaInv

\* What a fresh request commits fits; everything else that is committed is exempt.
LEMMA CommitQuota ==
    ASSUME QuotaInv, NEW t \in Tx, CommitDispatch(t)
    PROVE  QuotaInv'
<1>1. TypeOK'
  BY DispatchingType DEF QuotaInv
<1>2. plan' = plan /\ limits' = limits
  BY DEF CommitDispatch, planVars
<1>3. /\ phase' = [r \in Runs |-> IF r \in inserted[t] THEN "ready" ELSE phase[r]]
      /\ inserted' = [inserted EXCEPT ![t] = {}]
      /\ stale' = [u \in Tx |-> u # t]
      /\ exempt' = IF t \in Passes \/ stale[t] THEN exempt \cup inserted[t] ELSE exempt
  BY DEF CommitDispatch
<1>4. Committed' = Committed \cup inserted[t]
  BY <1>3 DEF Committed, QuotaInv, InFlight, TypeOK
<1>5. InFlight'
  BY <1>3 DEF InFlight, QuotaInv, TypeOK
<1>6. FreshRequestsFit'
  BY <1>3 DEF FreshRequestsFit, QuotaInv, TypeOK, Tx
<1>7. Fits(Committed \ exempt)'
  <2>1. (Committed \ exempt)' \subseteq Committed \cup inserted[t]
    BY <1>3, <1>4 DEF QuotaInv, TypeOK
  <2>2. Committed \cup inserted[t] \subseteq Runs
    BY DEF Committed, QuotaInv, TypeOK
  <2>3. CASE t \in Passes \/ stale[t]
    <3>1. (Committed \ exempt)' = Committed \ (exempt \cup inserted[t])
      BY <2>3, <1>3, <1>4
    <3>2. Fits(Committed \ (exempt \cup inserted[t]))
      BY <2>2, FitsSubset DEF QuotaInv
    <3> QED BY <3>1, <3>2, <1>2 DEF Fits
  <2>4. CASE ~(t \in Passes \/ stale[t])
    <3>1. Fits(Committed \cup inserted[t])
      BY <2>4 DEF CommitDispatch, QuotaInv, FreshRequestsFit, Tx
    <3>2. Fits((Committed \ exempt)')
      BY <3>1, <2>1, <2>2, FitsSubset DEF QuotaInv
    <3> QED BY <3>2, <1>2 DEF Fits
  <2> QED BY <2>3, <2>4
<1>8. LimitInForce'
  BY <1>2 DEF QuotaInv, LimitInForce, RunLimit
<1> QED BY <1>1, <1>5, <1>6, <1>7, <1>8 DEF QuotaInv

\* Every step keeps the invariant of the quota.
LEMMA NextQuota == QuotaInv /\ [Next]_vars => QuotaInv'
<1> SUFFICES ASSUME QuotaInv, [Next]_vars PROVE QuotaInv'
  OBVIOUS
<1>1. CASE UNCHANGED vars
  BY <1>1 DEF vars, planVars, dispatchVars, usageVars, QuotaInv, TypeOK, LimitInForce,
              RunLimit, InFlight, FreshRequestsFit, Fits, Committed
<1>2. CASE Next
  BY <1>2, UpsertPlanQuota, DispatchQuota, CommitQuota, RollbackQuota, AgentQuota DEF Next
<1> QED BY <1>1, <1>2

\* The run quota holds, whatever the number of requests and plan changes, but
\* for scheduled runs and runs of requests overtaken by another commit.
THEOREM QuotaAlwaysExact == Spec => []QuotaExact
<1>1. QuotaInv => QuotaExact
  BY DEF QuotaInv, Fits, QuotaExact
<1> QED BY <1>1, InitQuota, NextQuota, PTL DEF Spec

-----------------------------------------------------------------------------
(* Billing, with what the quota's invariant says of transactions.          *)

\* Every step keeps every run counted at home.
LEMMA NextHome == HomeInv /\ InFlight /\ [Next]_vars => HomeInv'
<1> SUFFICES ASSUME HomeInv, InFlight, [Next]_vars PROVE HomeInv'
  OBVIOUS
<1>1. CASE UNCHANGED vars
  BY <1>1 DEF vars, planVars, dispatchVars, usageVars, HomeInv, TypeOK, CountedAtHome,
              SnapshotsAtHome, InRead
<1>2. ASSUME NEW tier, NEW runs \in Overrides, UpsertPlan(tier, runs)
      PROVE  HomeInv'
  <2>1. TypeOK'
    BY <1>2, UpsertPlanType DEF HomeInv
  <2> QED BY <1>2, <2>1 DEF UpsertPlan, usageVars, HomeInv, CountedAtHome, SnapshotsAtHome, InRead
<1>3. ASSUME NEW t \in Tx, \/ CommitDispatch(t) \/ RollbackDispatch(t)
                           \/ \E r \in Runs : Dispatch(t, r)
      PROVE  HomeInv'
  BY <1>3, DispatchingHome DEF InFlight
<1>4. ASSUME NEW r \in Runs, \/ ReadUsage(r) \/ ReadUsageFails(r) \/ FlushUsage(r)
                             \/ CommitUsage(r) \/ RollbackUsage(r)
      PROVE  HomeInv'
  BY <1>4, ReadHome, CommitHome, OtherHome
<1> QED BY <1>1, <1>2, <1>3, <1>4 DEF Next

\* No run's tokens are counted twice, or before its agent has committed.
THEOREM AlwaysBilledOnce == Spec => []BilledOnce
<1>1. Init => HomeInv
  BY InitType DEF Init, HomeInv, CountedAtHome, SnapshotsAtHome, InRead
<1>2. QuotaInv => InFlight
  BY DEF QuotaInv
<1>3. HomeInv => BilledOnce
  BY DEF HomeInv, TypeOK, CountedAtHome, BilledOnce
<1> QED BY <1>1, <1>2, <1>3, InitQuota, NextQuota, NextHome, PTL DEF Spec

-----------------------------------------------------------------------------
(* Races.  With at most one row every agent that overlapped nobody is      *)
(* counted, and whoever is about to write has read it; an agent about to   *)
(* insert a second row has overlapped those that inserted before it.       *)

Single == \A i, k \in Rows : i = k

LateInserts ==
    \A x \in Runs : InRead(x) /\ target[x] \notin Rows =>
        target[x] = x /\ Rows \subseteq raced /\ (Rows # {} => x \in raced)

AllCounted ==
    \A r \in Runs : phase[r] = "done" /\ r \notin raced =>
        /\ \E i \in Rows : r \in usage[i]
        /\ \A x \in Runs : InRead(x) => r \in snap[x]

RaceInv ==
    /\ TypeOK /\ LateInserts
    /\ ~Single => Rows \subseteq raced
    /\ Single => AllCounted

\* There is at most one row if and only if all rows are the same.
LEMMA SingleMeans == Cardinality(Rows) \in Nat /\ (Single <=> Cardinality(Rows) <= 1)
<1>1. Cardinality(Rows) \in Nat
  BY RunAssumption, FS_Subset, FS_CardinalityType DEF Rows
<1>2. Cardinality(Rows) <= 1 => Single
  BY <1>1, TwoRows DEF Single
<1>3. Single => Cardinality(Rows) <= 1
  <2>1. CASE Rows = {}
    BY <2>1, FS_EmptySet
  <2>2. ASSUME NEW i \in Rows, Single PROVE Cardinality(Rows) <= 1
    <3>1. Rows = {i}
      BY <2>2 DEF Single
    <3> QED BY <3>1, FS_Singleton
  <2> QED BY <2>1, <2>2
<1> QED BY <1>1, <1>2, <1>3

\* A read counts everybody that is counted, and finds the row if there is one.
LEMMA ReadRace ==
    ASSUME RaceInv, NEW r \in Runs, ReadUsage(r)
    PROVE  RaceInv'
<1>1. TypeOK'
  BY AgentType DEF RaceInv
<1>2. /\ phase' = [phase EXCEPT ![r] = "read"] /\ phase[r] = "ready"
      /\ target' = [target EXCEPT ![r] = RowFor(r)]
      /\ snap' = [snap EXCEPT ![r] = UNION {usage[i] : i \in Rows}]
      /\ usage' = usage /\ raced' = raced
  BY DEF ReadUsage
<1>3. Rows' = Rows /\ (Single' <=> Single) /\ Single
  <2>1. Rows' = Rows
    BY <1>2 DEF Rows
  <2> QED BY <2>1, SingleMeans DEF ReadUsage, Single
<1>4. LateInserts'
  <2> SUFFICES ASSUME NEW x \in Runs, InRead(x)', target'[x] \notin Rows
               PROVE  target'[x] = x /\ Rows \subseteq raced /\ (Rows # {} => x \in raced)
    BY <1>2, <1>3 DEF LateInserts
  <2>1. CASE x = r
    <3>1. target'[x] = RowFor(r)
      BY <2>1, <1>2 DEF RaceInv, TypeOK
    <3>2. Rows = {} /\ RowFor(r) = r
      BY <3>1 DEF RowFor
    <3> QED BY <2>1, <3>1, <3>2
  <2>2. CASE x # r
    <3>1. InRead(x) /\ target'[x] = target[x]
      BY <2>2, <1>2 DEF RaceInv, TypeOK, InRead
    <3> QED BY <3>1 DEF RaceInv, LateInserts
  <2> QED BY <2>1, <2>2
<1>5. AllCounted'
  <2> SUFFICES ASSUME NEW y \in Runs, phase'[y] = "done", y \notin raced
               PROVE  /\ \E i \in Rows : y \in usage[i]
                      /\ \A x \in Runs : InRead(x)' => y \in snap'[x]
    BY <1>2, <1>3 DEF AllCounted
  <2>1. phase[y] = "done"
    BY <1>2 DEF RaceInv, TypeOK
  <2>2. PICK i \in Rows : y \in usage[i]
    BY <1>3, <2>1 DEF RaceInv, AllCounted
  <2>3. ASSUME NEW x \in Runs, InRead(x)' PROVE y \in snap'[x]
    <3>1. CASE x = r
      <4>1. snap'[x] = UNION {usage[k] : k \in Rows}
        BY <3>1, <1>2 DEF RaceInv, TypeOK
      <4> QED BY <4>1, <2>2
    <3>2. CASE x # r
      <4>1. InRead(x) /\ snap'[x] = snap[x]
        BY <2>3, <3>2, <1>2 DEF RaceInv, TypeOK, InRead
      <4> QED BY <4>1, <1>3, <2>1 DEF RaceInv, AllCounted
    <3> QED BY <3>1, <3>2
  <2> QED BY <2>2, <2>3
<1> QED BY <1>1, <1>3, <1>4, <1>5 DEF RaceInv

\* A commit makes everybody that has read raced, and itself, unless it is alone.
LEMMA CommitRace ==
    ASSUME RaceInv, NEW r \in Runs, CommitUsage(r)
    PROVE  RaceInv'
<1> DEFINE others == {x \in Runs \ {r} : InRead(x)}
<1>0. TypeOK /\ InRead(r)
  BY DEF RaceInv, CommitUsage, InRead
<1>1. TypeOK'
  BY AgentType DEF RaceInv
<1>2. /\ phase' = [phase EXCEPT ![r] = "done"]
      /\ usage' = [usage EXCEPT ![target[r]] = snap[r] \cup {r}]
      /\ target' = target /\ snap' = snap
      /\ raced' = IF others = {} THEN raced ELSE raced \cup others \cup {r}
  BY DEF CommitUsage, Total, InRead
<1>3. raced \subseteq raced' /\ \A x \in others : x \in raced' /\ r \in raced'
  BY <1>2
<1>4. target[r] \in Runs /\ usage'[target[r]] = snap[r] \cup {r}
      /\ \A i \in Runs : i # target[r] => usage'[i] = usage[i]
  BY <1>0, <1>2 DEF TypeOK
<1>5. Rows' = Rows \cup {target[r]}
  BY <1>4 DEF Rows
<1>6. \A x \in Runs : InRead(x)' => x \in others /\ target'[x] = target[x] /\ snap'[x] = snap[x]
  BY <1>0, <1>2 DEF InRead, TypeOK
<1>7. LateInserts'
  <2> SUFFICES ASSUME NEW x \in Runs, InRead(x)', target'[x] \notin Rows'
               PROVE  target'[x] = x /\ Rows' \subseteq raced' /\ (Rows' # {} => x \in raced')
    BY DEF LateInserts
  <2>1. InRead(x) /\ x \in others /\ target[x] \notin Rows /\ target'[x] = target[x]
    BY <1>5, <1>6
  <2>2. target[x] = x /\ Rows \subseteq raced
    BY <2>1 DEF RaceInv, LateInserts
  <2>3. target[r] \in Rows \/ target[r] = r
    BY <1>0 DEF RaceInv, LateInserts
  <2> QED BY <1>3, <1>5, <2>1, <2>2, <2>3
<1>8. ASSUME ~Single' PROVE Rows' \subseteq raced'
  <2>1. CASE target[r] \in Rows
    BY <1>3, <1>5, <1>8, <2>1 DEF RaceInv, Single
  <2>2. CASE target[r] \notin Rows
    <3>1. target[r] = r /\ Rows \subseteq raced /\ (Rows # {} => r \in raced)
      BY <1>0, <2>2 DEF RaceInv, LateInserts
    <3>2. Rows # {}
      BY <1>5, <1>8 DEF Single
    <3> QED BY <1>3, <1>5, <3>1, <3>2
  <2> QED BY <2>1, <2>2
<1>9. ASSUME Single' PROVE AllCounted'
  <2>1. AllCounted
    BY <1>5, <1>9 DEF Single, RaceInv
  <2> SUFFICES ASSUME NEW y \in Runs, phase'[y] = "done", y \notin raced'
               PROVE  /\ \E i \in Rows' : y \in usage'[i]
                      /\ \A x \in Runs : InRead(x)' => y \in snap'[x]
    BY DEF AllCounted
  <2>2. CASE y = r
    <3>1. others = {}
      BY <1>3, <2>2
    <3> QED BY <1>4, <1>5, <1>6, <2>2, <3>1
  <2>3. CASE y # r
    <3>1. phase[y] = "done" /\ y \notin raced
      BY <1>0, <1>2, <1>3, <2>3 DEF TypeOK
    <3>2. PICK i \in Rows : y \in usage[i]
      BY <2>1, <3>1 DEF AllCounted
    <3>3. y \in snap[r] /\ \A x \in Runs : InRead(x) => y \in snap[x]
      BY <1>0, <2>1, <3>1 DEF AllCounted
    <3>4. y \in usage'[i]
      BY <1>4, <3>2, <3>3 DEF Rows
    <3> QED BY <1>5, <1>6, <3>2, <3>3, <3>4
  <2> QED BY <2>2, <2>3
<1> QED BY <1>1, <1>7, <1>8, <1>9 DEF RaceInv

\* No other step changes a row, or brings a run to its end while there is one row.
LEMMA OtherRace ==
    ASSUME RaceInv, TypeOK',
           target' = target, snap' = snap, usage' = usage, raced' = raced,
           \A x \in Runs : InRead(x)' => InRead(x),
           Single => \A x \in Runs : phase'[x] = "done" => phase[x] = "done"
    PROVE  RaceInv'
<1>1. Rows' = Rows /\ (Single' <=> Single)
  BY DEF Rows, Single
<1>2. LateInserts'
  BY <1>1 DEF RaceInv, LateInserts
<1>3. ASSUME Single PROVE AllCounted'
  <2> SUFFICES ASSUME NEW y \in Runs, phase'[y] = "done", y \notin raced
               PROVE  /\ \E i \in Rows' : y \in usage'[i]
                      /\ \A x \in Runs : InRead(x)' => y \in snap'[x]
    BY DEF AllCounted
  <2>1. phase[y] = "done"
    BY <1>3
  <2> QED BY <1>1, <1>3, <2>1 DEF RaceInv, AllCounted
<1> QED BY <1>1, <1>2, <1>3 DEF RaceInv

\* Every step keeps the invariant of races.
LEMMA NextRace == RaceInv /\ InFlight /\ [Next]_vars => RaceInv'
<1> SUFFICES ASSUME RaceInv, InFlight, [Next]_vars PROVE RaceInv'
  OBVIOUS
<1>0. TypeOK
  BY DEF RaceInv
<1>1. CASE UNCHANGED vars
  <2>1. TypeOK'
    BY <1>0, <1>1 DEF vars, planVars, dispatchVars, usageVars, TypeOK
  <2> QED BY <1>1, <2>1, OtherRace DEF vars, usageVars, InRead
<1>2. ASSUME NEW tier, NEW runs \in Overrides, UpsertPlan(tier, runs)
      PROVE  RaceInv'
  <2>1. TypeOK'
    BY <1>0, <1>2, UpsertPlanType
  <2> QED BY <1>2, <2>1, OtherRace DEF UpsertPlan, usageVars, InRead
<1>3. ASSUME NEW t \in Tx, \/ CommitDispatch(t) \/ RollbackDispatch(t)
                           \/ \E r \in Runs : Dispatch(t, r)
      PROVE  RaceInv'
  <2>1. TypeOK'
    BY <1>0, <1>3, DispatchingType
  <2>2. UNCHANGED usageVars
    BY <1>3 DEF CommitDispatch, RollbackDispatch, Dispatch
  <2>3. \A q \in Runs : phase'[q] = phase[q] \/ phase'[q] \in {"new", "inserted", "ready"}
    BY <1>0, <1>3 DEF CommitDispatch, RollbackDispatch, Dispatch, TypeOK
  <2> QED BY <2>1, <2>2, <2>3, OtherRace DEF usageVars, InRead
<1>4. ASSUME NEW r \in Runs, ReadUsageFails(r) \/ FlushUsage(r) \/ RollbackUsage(r)
      PROVE  RaceInv'
  <2>1. TypeOK'
    BY <1>0, <1>4, AgentType
  <2>2. UNCHANGED usageVars
    BY <1>4 DEF ReadUsageFails, FlushUsage, RollbackUsage
  <2>3. ReadUsageFails(r) => ~Single
    BY SingleMeans DEF ReadUsageFails
  <2>4. \A x \in Runs : InRead(x)' => InRead(x)
    BY <1>0, <1>4 DEF ReadUsageFails, FlushUsage, RollbackUsage, TypeOK, InRead
  <2>5. Single => \A x \in Runs : phase'[x] = "done" => phase[x] = "done"
    BY <1>0, <1>4, <2>3 DEF FlushUsage, RollbackUsage, TypeOK
  <2> QED BY <2>1, <2>2, <2>4, <2>5, OtherRace DEF usageVars
<1>5. ASSUME NEW r \in Runs, ReadUsage(r) \/ CommitUsage(r) PROVE RaceInv'
  BY <1>5, ReadRace, CommitRace
<1> QED BY <1>1, <1>2, <1>3, <1>4, <1>5 DEF Next

\* Usage is lost, and a second row inserted, only by agents that overlapped another one,
\* for any number of agents.
THEOREM LossesAreRaces == Spec => []LostOnlyByRaces
<1>1. Init => RaceInv
  BY InitType DEF Init, RaceInv, LateInserts, AllCounted, Single, Rows, InRead
<1>2. QuotaInv => InFlight
  BY DEF QuotaInv
<1>3. RaceInv => LostOnlyByRaces
  <2>1. Cardinality(Rows) > 1 <=> ~(Cardinality(Rows) <= 1)
    BY SingleMeans
  <2> QED BY <2>1, SingleMeans DEF RaceInv, AllCounted, LostOnlyByRaces
<1> QED BY <1>1, <1>2, <1>3, InitQuota, NextQuota, NextRace, PTL DEF Spec
=============================================================================
