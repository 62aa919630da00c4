-------------------------- MODULE SchedulerProofs --------------------------
(***************************************************************************)
(* Proofs about Scheduler, for any number of jobs, requests and rolled     *)
(* back passes and any length of time.  For any number of evaluators: its  *)
(* type invariant, that a deactivated job stays so, and that a pass        *)
(* disables a job only at the limit.  For a single evaluator: that the     *)
(* failure count of every job is exact, and that no window fires twice.    *)
(***************************************************************************)
EXTENDS Scheduler, TLAPS

\* NextRun is a later natural number.
LEMMA NextRunType ==
    ASSUME NEW p \in Periods, NEW t \in Nat
    PROVE  NextRun(p, t) \in Nat
BY PeriodAssumption DEF NextRun

\* What a pass makes of row r of job j, as against what a request may: it never
\* activates the job and leaves its limit alone; it fires it, in or after its window, or
\* counts a refused dispatch, and disables a recurring job only with the count at the limit.
PassRow(j, r, n) ==
    /\ n.active => r.active
    /\ n.max = r.max
    /\ \/ n.fails = r.fails /\ r.next <= n.last /\ (j \notin OneShot => n.active = r.active)
       \/ /\ n.fails = r.fails + 1 /\ n.last = r.last
          /\ n.active # r.active => n.fails >= r.max

\* A fired job's row is a row, with the same count.
LEMMA FiredFacts ==
    ASSUME NEW j \in Jobs, NEW row \in Row, now \in Nat
    PROVE  /\ Fired(j, row) \in Row /\ Fired(j, row).fails = row.fails
           /\ row.next <= now => PassRow(j, row, Fired(j, row))
<1>1. NextRun(row.period, now) \in Nat
  BY NextRunType DEF Row
<1> QED BY <1>1 DEF Fired, Row, PassRow

\* Setting is_active keeps a row a row, and its count.
LEMMA SwitchedRow ==
    ASSUME NEW row \in Row, NEW on \in BOOLEAN
    PROVE  /\ [row EXCEPT !.active = on] \in Row
           /\ [row EXCEPT !.active = on].fails = row.fails
BY DEF Row

\* So does setting it together with the count.
LEMMA CountedRow ==
    ASSUME NEW row \in Row, NEW on \in BOOLEAN, NEW n \in Nat
    PROVE  /\ [row EXCEPT !.fails = n, !.active = on] \in Row
           /\ [row EXCEPT !.fails = n, !.active = on].fails = n
<1>1. [row EXCEPT !.fails = n] \in Row /\ [row EXCEPT !.fails = n].fails = n
  BY DEF Row
<1>2. [row EXCEPT !.fails = n, !.active = on] = [[row EXCEPT !.fails = n] EXCEPT !.active = on]
  OBVIOUS
<1> QED BY <1>1, <1>2, SwitchedRow

\* And setting it together with the limit.
LEMMA LimitedRow ==
    ASSUME NEW row \in Row, NEW on \in BOOLEAN, NEW m \in Limits
    PROVE  /\ [row EXCEPT !.active = on, !.max = m] \in Row
           /\ [row EXCEPT !.active = on, !.max = m].fails = row.fails
<1>1. [row EXCEPT !.active = on] \in Row /\ [row EXCEPT !.active = on].fails = row.fails
  BY SwitchedRow
<1>2. \A q \in Row : [q EXCEPT !.max = m] \in Row /\ [q EXCEPT !.max = m].fails = q.fails
  BY DEF Row
<1>3. [row EXCEPT !.active = on, !.max = m] = [[row EXCEPT !.active = on] EXCEPT !.max = m]
  OBVIOUS
<1> QED BY <1>1, <1>2, <1>3

\* Moving the window, or the window and the period, keeps the count.
LEMMA MovedRow ==
    ASSUME NEW row \in Row, NEW p \in Periods, NEW t \in Nat
    PROVE  /\ [row EXCEPT !.next = t] \in Row
           /\ [row EXCEPT !.next = t].fails = row.fails
           /\ [row EXCEPT !.period = p, !.next = t] \in Row
           /\ [row EXCEPT !.period = p, !.next = t].fails = row.fails
BY DEF Row

\* A refused dispatch counts one.
LEMMA RefusedFacts ==
    ASSUME NEW j \in Jobs, NEW row \in Row
    PROVE  Refused(row) \in Row /\ PassRow(j, row, Refused(row))
<1>1. PICK on \in BOOLEAN : on = (row.active /\ row.fails + 1 < row.max)
  OBVIOUS
<1>2. row.fails \in Nat /\ row.fails + 1 \in Nat /\ row.max \in Nat
  <2>1. row.fails \in Nat /\ row.max \in Limits
    BY DEF Row
  <2>2. row.max \in Nat
    BY <2>1, LimitAssumption
  <2> QED BY <2>1, <2>2
<1>3. Refused(row) = [row EXCEPT !.fails = row.fails + 1, !.active = on]
  BY <1>1, Zenon DEF Refused
<1> DEFINE r == [row EXCEPT !.fails = row.fails + 1, !.active = on]
<1>4. r \in Row /\ r.fails = row.fails + 1
  BY <1>2, CountedRow
<1>5. r.last = row.last /\ r.active = on /\ r.max = row.max
  BY DEF Row
<1>6. on # row.active => row.fails + 1 >= row.max
  <2>1. row.fails + 1 < row.max => on = row.active
    BY <1>1, row.active \in BOOLEAN, Zenon DEF Row
  <2> QED BY <1>2, <2>1
<1>7. on => row.active
  BY <1>1
<1> HIDE DEF r
<1>8. PassRow(j, row, r)
  BY <1>4, <1>5, <1>6, <1>7 DEF PassRow
<1> QED BY <1>3, <1>4, <1>8, Zenon DEF r

\* A write is a row, and moves the count only if the session has.
LEMMA WriteFacts ==
    ASSUME NEW b \in Row, NEW r \in Row, NEW n \in Row
    PROVE  /\ Write(b, r, n) \in Row
           /\ Write(b, r, n).fails = IF n.fails = r.fails THEN b.fails ELSE n.fails
           /\ Write(b, r, n).active = IF n.active = r.active THEN b.active ELSE n.active
           /\ Write(b, r, n).last = IF n.last = r.last THEN b.last ELSE n.last
           /\ Write(b, r, n).max = IF n.max = r.max THEN b.max ELSE n.max
BY DEF Write, Row

\* A session with a row added is a session.
LEMMA WithSession ==
    ASSUME NEW s, NEW j \in Jobs, NEW row \in Row, IsSession(s)
    PROVE  IsSession(With(s, j, row))
<1> DEFINE w == With(s, j, row)
<1>1. DOMAIN w \subseteq Jobs
  BY DEF With, IsSession
<1>2. w = [k \in DOMAIN w |-> w[k]]
  BY DEF With
<1>3. \A k \in DOMAIN w : w[k] \in Row
  BY DEF With, IsSession
<1> HIDE DEF w
<1>4. IsSession(w)
  BY <1>1, <1>2, <1>3 DEF IsSession
<1> QED BY <1>4 DEF w

\* The session of a transaction that has not begun.
LEMMA EmptyFacts == IsSession(Empty) /\ DOMAIN Empty = {}
BY DEF Empty, IsSession

\* The invariant, for one transaction.  A session changes only rows it has read.
\* A request leaves the count alone; a pass has read rows that were due.
SessionInv(t) ==
    /\ IsSession(seen[t]) /\ IsSession(mine[t])
    /\ DOMAIN mine[t] \subseteq DOMAIN seen[t]
    /\ t \in Requests => \A j \in DOMAIN mine[t] : mine[t][j].fails = seen[t][j].fails
    /\ t \in Evaluators =>
        /\ \A j \in DOMAIN seen[t] :
            seen[t][j].active /\ seen[t][j].last < seen[t][j].next /\ seen[t][j].next <= now
        /\ \A j \in DOMAIN mine[t] : PassRow(j, seen[t][j], mine[t][j])

\* The types, apart from the sessions.
Others ==
    /\ now \in Nat /\ job \in [Jobs -> Row] /\ requests \in Nat /\ faults \in Nat
    /\ seen = [t \in Tx |-> seen[t]] /\ mine = [t \in Tx |-> mine[t]]
    /\ flushed \in [Evaluators -> SUBSET Jobs]
    /\ fired \in [Jobs -> SUBSET Nat] /\ refused \in [Jobs -> Nat]

JobsInv == Others /\ \A t \in Tx : SessionInv(t)

\* A transaction whose session stays.
LEMMA SessionFrame ==
    ASSUME NEW t \in Tx, SessionInv(t), seen'[t] = seen[t], mine'[t] = mine[t],
           now \in Nat, now' \in Nat, now <= now'
    PROVE  SessionInv(t)'
BY DEF SessionInv, IsSession, Row, PassRow

\* An ended transaction.
LEMMA SessionEnded ==
    ASSUME NEW t \in Tx, seen'[t] = Empty, mine'[t] = Empty
    PROVE  SessionInv(t)'
BY EmptyFacts DEF SessionInv

-----------------------------------------------------------------------------
(* The steps.                                                              *)

\* Requests start by reading the row and leave its count alone.
LEMMA RequestStep ==
    ASSUME JobsInv, NEW a \in Requests, NEW j \in Jobs, NEW rows, Request(a, j, rows),
           \A row \in rows : row \in Row /\ row.fails = job[j].fails
    PROVE  JobsInv'
<1>0. Others /\ \A t \in Tx : SessionInv(t)
  BY DEF JobsInv
<1>1. PICK row \in rows : /\ seen' = [seen EXCEPT ![a] = With(@, j, job[j])]
                          /\ mine' = [mine EXCEPT ![a] = With(@, j, row)]
  BY DEF Request
<1>2. UNCHANGED <<now, job, flushed, faults, fired, refused>> /\ requests' = requests + 1
  BY DEF Request
<1>3. job[j] \in Row /\ row \in Row /\ row.fails = job[j].fails /\ a \in Tx /\ a \notin Evaluators
  BY <1>0, TxAssumption DEF Others, Tx
<1>4. seen'[a] = With(Empty, j, job[j]) /\ mine'[a] = With(Empty, j, row)
  <2>1. seen[a] = Empty /\ DOMAIN mine[a] = {}
    BY <1>0, <1>3, EmptyFacts DEF Request, SessionInv
  <2>2. With(mine[a], j, row) = With(Empty, j, row)
    BY <2>1, EmptyFacts DEF With
  <2> QED BY <1>0, <1>1, <1>3, <2>1, <2>2 DEF Others
<1>5. SessionInv(a)'
  <2>1. ASSUME NEW r \in Row
        PROVE  /\ IsSession(With(Empty, j, r)) /\ DOMAIN With(Empty, j, r) = {j}
               /\ With(Empty, j, r)[j] = r
    <3>1. IsSession(With(Empty, j, r))
      BY EmptyFacts, WithSession
    <3>2. DOMAIN With(Empty, j, r) = DOMAIN Empty \cup {j} /\ With(Empty, j, r)[j] = r
      BY DEF With
    <3>3. DOMAIN Empty \cup {j} = {j}
      BY EmptyFacts
    <3>4. DOMAIN With(Empty, j, r) = {j}
      BY <3>2, <3>3
    <3> QED BY <3>1, <3>2, <3>4, Zenon
  <2>2. IsSession(seen'[a]) /\ DOMAIN seen'[a] = {j} /\ seen'[a][j] = job[j]
    BY <2>1, <1>3, <1>4
  <2>3. IsSession(mine'[a]) /\ DOMAIN mine'[a] = {j} /\ mine'[a][j] = row
    BY <2>1, <1>3, <1>4
  <2> QED BY <1>3, <2>2, <2>3 DEF SessionInv, IsSession
<1>6. \A t \in Tx : t # a => SessionInv(t)'
  BY <1>0, <1>1, <1>2, SessionFrame DEF Others
<1>7. Others'
  <2>1. seen' = [t \in Tx |-> seen'[t]] /\ mine' = [t \in Tx |-> mine'[t]]
    BY <1>0, <1>1 DEF Others
  <2> QED BY <1>0, <1>2, <2>1 DEF Others
<1> QED BY <1>5, <1>6, <1>7 DEF JobsInv

\* A pass reads committed rows, so their counts are the current ones.
LEMMA SelectStep ==
    ASSUME JobsInv, NEW e \in Evaluators, Select(e)
    PROVE  JobsInv'
<1>0. Others /\ (\A t \in Tx : SessionInv(t)) /\ e \in Tx /\ e \notin Requests
  BY TxAssumption DEF JobsInv, Tx
<1>1. PICK S \in SUBSET DueJobs : seen' = [seen EXCEPT ![e] = [j \in S |-> job[j]]]
  BY DEF Select
<1>2. UNCHANGED <<now, job, mine, flushed, requests, faults, fired, refused>> /\ seen[e] = Empty
  BY DEF Select
<1>3. S \subseteq Jobs /\ seen'[e] = [j \in S |-> job[j]] /\ DOMAIN mine'[e] = {}
  BY <1>0, <1>1, <1>2, EmptyFacts DEF DueJobs, Others, SessionInv
<1>4. SessionInv(e)'
  <2>1. \A j \in S : job[j] \in Row /\ job[j].active /\ job[j].last < job[j].next /\ job[j].next <= now
    BY <1>0 DEF Others, DueJobs, Due
  <2>2. IsSession(seen'[e]) /\ IsSession(mine'[e])
    <3>1. IsSession([j \in S |-> job[j]])
      BY <1>3, <2>1 DEF IsSession
    <3>2. IsSession(mine[e]) /\ mine' = mine
      BY <1>0, <1>2 DEF SessionInv
    <3> QED BY <1>3, <3>1, <3>2
  <2>3. \A j \in DOMAIN seen'[e] :
            seen'[e][j].active /\ seen'[e][j].last < seen'[e][j].next /\ seen'[e][j].next <= now'
    <3>1. DOMAIN seen'[e] = S /\ \A j \in S : seen'[e][j] = job[j]
      BY <1>3
    <3> QED BY <1>2, <2>1, <3>1
  <2> QED BY <1>0, <1>3, <2>2, <2>3 DEF SessionInv, IsSession
<1>5. \A t \in Tx : t # e => SessionInv(t)'
  BY <1>0, <1>1, <1>2, SessionFrame DEF Others
<1>6. Others'
  BY <1>0, <1>1, <1>2 DEF Others
<1> QED BY <1>4, <1>5, <1>6 DEF JobsInv

\* A dispatch changes one row of the session and counts at most one.
LEMMA DispatchStep ==
    ASSUME JobsInv, NEW e \in Evaluators, Dispatch(e)
    PROVE  JobsInv'
<1>0. Others /\ (\A t \in Tx : SessionInv(t)) /\ e \in Tx /\ e \notin Requests
  BY TxAssumption DEF JobsInv, Tx
<1>1. PICK j \in ToDo(e) : \E row \in {Fired(j, seen[e][j]), Refused(seen[e][j])} :
                                mine' = [mine EXCEPT ![e] = With(@, j, row)]
  BY DEF Dispatch
<1>2. PICK row \in {Fired(j, seen[e][j]), Refused(seen[e][j])} :
            mine' = [mine EXCEPT ![e] = With(@, j, row)]
  BY <1>1
<1>3. UNCHANGED <<now, job, seen, flushed, requests, faults, fired, refused>>
  BY DEF Dispatch
<1>4. j \in DOMAIN seen[e] /\ j \in Jobs /\ seen[e][j] \in Row
  BY <1>0 DEF ToDo, SessionInv, IsSession
<1>5. row \in Row /\ PassRow(j, seen[e][j], row)
  <2>1. seen[e][j].next <= now /\ now \in Nat
    BY <1>0, <1>4 DEF SessionInv, Others
  <2> QED BY <1>2, <1>4, <2>1, FiredFacts, RefusedFacts
<1>6. mine'[e] = With(mine[e], j, row)
  BY <1>0, <1>2 DEF Others
<1>7. /\ IsSession(mine'[e]) /\ DOMAIN mine'[e] = DOMAIN mine[e] \cup {j} /\ mine'[e][j] = row
      /\ \A k \in DOMAIN mine[e] : k # j => mine'[e][k] = mine[e][k]
  <2>1. IsSession(With(mine[e], j, row))
    BY <1>0, <1>4, <1>5, WithSession DEF SessionInv
  <2>2. IsSession(mine'[e])
    BY <2>1, <1>6
  <2>3. /\ DOMAIN mine'[e] = DOMAIN mine[e] \cup {j} /\ mine'[e][j] = row
        /\ \A k \in DOMAIN mine[e] : k # j => mine'[e][k] = mine[e][k]
    BY <1>6 DEF With
  <2> QED BY <2>2, <2>3, Zenon
<1>8. SessionInv(e)'
  <2>1. \A k \in DOMAIN mine'[e] : PassRow(k, seen[e][k], mine'[e][k])
    BY <1>0, <1>5, <1>7 DEF SessionInv
  <2>2. \A k \in DOMAIN seen[e] :
            seen[e][k].active /\ seen[e][k].last < seen[e][k].next /\ seen[e][k].next <= now
    BY <1>0 DEF SessionInv
  <2>3. DOMAIN mine'[e] \subseteq DOMAIN seen[e] /\ IsSession(seen[e])
    BY <1>0, <1>4, <1>7 DEF SessionInv
  <2> QED BY <1>0, <1>3, <1>7, <2>1, <2>2, <2>3 DEF SessionInv, IsSession, PassRow
<1>9. \A t \in Tx : t # e => SessionInv(t)'
  BY <1>0, <1>2, <1>3, SessionFrame DEF Others
<1>10. Others'
  BY <1>0, <1>2, <1>3 DEF Others
<1> QED BY <1>8, <1>9, <1>10 DEF JobsInv

\* A flush changes no row.
LEMMA FlushStep ==
    ASSUME JobsInv, NEW e \in Evaluators, Flush(e)
    PROVE  JobsInv'
<1>0. Others /\ \A t \in Tx : SessionInv(t)
  BY DEF JobsInv
<1>1. PICK j \in DOMAIN mine[e] : flushed' = [flushed EXCEPT ![e] = @ \cup {j}]
  BY DEF Flush
<1>2. UNCHANGED <<now, job, seen, mine, requests, faults, fired, refused>> /\ j \in Jobs
  BY <1>0 DEF Flush, SessionInv, IsSession, Tx
<1>3. \A t \in Tx : SessionInv(t)'
  BY <1>0, <1>2, SessionFrame DEF Others
<1>4. Others'
  BY <1>0, <1>1, <1>2 DEF Others
<1> QED BY <1>3, <1>4 DEF JobsInv

\* A rolled back pass leaves the committed rows alone.
LEMMA RollbackStep ==
    ASSUME JobsInv, NEW e \in Evaluators, RollbackPass(e)
    PROVE  JobsInv'
<1>0. Others /\ (\A t \in Tx : SessionInv(t)) /\ e \in Tx
  BY DEF JobsInv, Tx
<1>1. UNCHANGED <<now, job, requests, fired, refused>> /\ faults' = faults + 1
  BY DEF RollbackPass
<1>2. /\ seen' = [seen EXCEPT ![e] = Empty] /\ mine' = [mine EXCEPT ![e] = Empty]
      /\ flushed' = [flushed EXCEPT ![e] = {}]
  BY DEF RollbackPass
<1>3. SessionInv(e)'
  BY <1>0, <1>2, SessionEnded DEF Others
<1>4. \A t \in Tx : t # e => SessionInv(t)'
  BY <1>0, <1>1, <1>2, SessionFrame DEF Others
<1>5. Others'
  <2>1. seen' = [t \in Tx |-> seen'[t]] /\ mine' = [t \in Tx |-> mine'[t]]
    BY <1>0, <1>2 DEF Others
  <2>2. flushed' \in [Evaluators -> SUBSET Jobs]
    BY <1>0, <1>2 DEF Others
  <2> QED BY <1>0, <1>1, <2>1, <2>2 DEF Others
<1> QED BY <1>3, <1>4, <1>5 DEF JobsInv

\* What a commit does to the rows: those the transaction has not changed stay.
LEMMA CommitFacts ==
    ASSUME JobsInv, NEW t \in Tx, Commit(t)
    PROVE  /\ job' \in [Jobs -> Row]
           /\ \A j \in Jobs \ DOMAIN mine[t] : job'[j] = job[j]
           /\ \A j \in DOMAIN mine[t] :
                /\ job'[j].fails = IF mine[t][j].fails = seen[t][j].fails
                                      THEN job[j].fails ELSE mine[t][j].fails
                /\ job'[j].active = IF mine[t][j].active = seen[t][j].active
                                       THEN job[j].active ELSE mine[t][j].active
                /\ job'[j].last = IF mine[t][j].last = seen[t][j].last
                                     THEN job[j].last ELSE mine[t][j].last
                /\ job'[j].max = IF mine[t][j].max = seen[t][j].max
                                    THEN job[j].max ELSE mine[t][j].max
           /\ seen'[t] = Empty /\ mine'[t] = Empty
           /\ \A u \in Tx : u # t => seen'[u] = seen[u] /\ mine'[u] = mine[u]
           /\ seen' = [u \in Tx |-> seen'[u]] /\ mine' = [u \in Tx |-> mine'[u]]
<1>0. Others /\ SessionInv(t)
  BY DEF JobsInv
<1>1. job' = [j \in Jobs |-> IF j \in DOMAIN mine[t]
                              THEN Write(job[j], seen[t][j], mine[t][j]) ELSE job[j]]
  BY DEF Commit
<1>2. \A j \in DOMAIN mine[t] : j \in Jobs /\ job[j] \in Row /\ seen[t][j] \in Row /\ mine[t][j] \in Row
  BY <1>0 DEF Others, SessionInv, IsSession
<1>3. \A j \in DOMAIN mine[t] :
        /\ job'[j] \in Row
        /\ job'[j].fails = IF mine[t][j].fails = seen[t][j].fails
                             THEN job[j].fails ELSE mine[t][j].fails
        /\ job'[j].active = IF mine[t][j].active = seen[t][j].active
                              THEN job[j].active ELSE mine[t][j].active
        /\ job'[j].last = IF mine[t][j].last = seen[t][j].last
                            THEN job[j].last ELSE mine[t][j].last
        /\ job'[j].max = IF mine[t][j].max = seen[t][j].max
                           THEN job[j].max ELSE mine[t][j].max
  BY <1>1, <1>2, WriteFacts
<1>4. \A j \in Jobs \ DOMAIN mine[t] : job'[j] = job[j] /\ job'[j] \in Row
  BY <1>0, <1>1 DEF Others
<1>5. job' \in [Jobs -> Row]
  BY <1>1, <1>3, <1>4
<1>6. seen' = [seen EXCEPT ![t] = Empty] /\ mine' = [mine EXCEPT ![t] = Empty]
  BY DEF Commit
<1> QED BY <1>0, <1>3, <1>4, <1>5, <1>6 DEF Others

\* The commit of a request.
LEMMA CommitRequestStep ==
    ASSUME JobsInv, NEW a \in Requests, CommitRequest(a)
    PROVE  JobsInv'
<1>0. Others /\ (\A t \in Tx : SessionInv(t)) /\ a \in Tx
  BY DEF JobsInv, Tx
<1>1. Commit(a) /\ UNCHANGED <<now, flushed, requests, faults, refused>>
  BY DEF CommitRequest
<1>2. SessionInv(a)'
  BY <1>0, <1>1, CommitFacts, SessionEnded
<1>3. \A t \in Tx : t # a => SessionInv(t)'
  BY <1>0, <1>1, CommitFacts, SessionFrame DEF Others
<1>4. fired' \in [Jobs -> SUBSET Nat]
  BY <1>0 DEF CommitRequest, Others
<1>5. Others'
  BY <1>0, <1>1, <1>4, CommitFacts DEF Others
<1> QED BY <1>2, <1>3, <1>5 DEF JobsInv

\* A request that is rolled back leaves the rows alone.
LEMMA RollbackRequestStep ==
    ASSUME JobsInv, NEW a \in Requests, RollbackRequest(a)
    PROVE  JobsInv'
<1>0. Others /\ (\A t \in Tx : SessionInv(t)) /\ a \in Tx
  BY DEF JobsInv, Tx
<1>1. UNCHANGED <<now, job, flushed, requests, faults, fired, refused>>
  BY DEF RollbackRequest
<1>2. seen' = [seen EXCEPT ![a] = Empty] /\ mine' = [mine EXCEPT ![a] = Empty]
  BY DEF RollbackRequest
<1>3. SessionInv(a)'
  BY <1>0, <1>2, SessionEnded DEF Others
<1>4. \A t \in Tx : t # a => SessionInv(t)'
  BY <1>0, <1>1, <1>2, SessionFrame DEF Others
<1>5. Others'
  <2>1. seen' = [t \in Tx |-> seen'[t]] /\ mine' = [t \in Tx |-> mine'[t]]
    BY <1>0, <1>2 DEF Others
  <2> QED BY <1>0, <1>1, <2>1 DEF Others
<1> QED BY <1>3, <1>4, <1>5 DEF JobsInv

\* The commit of a pass.
LEMMA CommitPassStep ==
    ASSUME JobsInv, NEW e \in Evaluators, CommitPass(e)
    PROVE  JobsInv'
<1>0. Others /\ (\A t \in Tx : SessionInv(t)) /\ e \in Tx
  BY DEF JobsInv, Tx
<1>1. Commit(e) /\ UNCHANGED <<now, requests, faults>> /\ flushed' = [flushed EXCEPT ![e] = {}]
  BY DEF CommitPass
<1>2. SessionInv(e)'
  BY <1>0, <1>1, CommitFacts, SessionEnded
<1>3. \A t \in Tx : t # e => SessionInv(t)'
  BY <1>0, <1>1, CommitFacts, SessionFrame DEF Others
<1>4. fired' \in [Jobs -> SUBSET Nat]
  BY <1>0 DEF CommitPass, Others, HasFired, SessionInv, IsSession, Row
<1>5. refused' \in [Jobs -> Nat]
  BY <1>0 DEF CommitPass, Others
<1>6. Others'
  BY <1>0, <1>1, <1>4, <1>5, CommitFacts DEF Others
<1> QED BY <1>2, <1>3, <1>6 DEF JobsInv

\* Times at which a job may be asked to run are natural numbers, whatever the
\* zone its local time is read in.
LEMMA RunAtsType ==
    ASSUME NEW t \in Nat
    PROVE  \A n \in RunAts(t) : n \in Nat
<1> SUFFICES ASSUME NEW n \in RunAts(t) PROVE n \in Nat
  OBVIOUS
<1>1. PICK at \in t + 1 .. MaxTime, z \in Zones : n = at + z
  BY DEF RunAts
<1>2. n > 0
  BY DEF RunAts
<1>3. at \in Int /\ z \in Int
  BY ZoneAssumption
<1> QED BY <1>1, <1>2, <1>3

\* Each of the API requests is such a request.
LEMMA ApiStep ==
    ASSUME JobsInv, NEW a \in Requests, NEW j \in Jobs,
           TriggerNow(a, j) \/ Update(a, j) \/ Deactivate(a, j)
    PROVE  JobsInv'
<1>0. job[j] \in Row /\ now \in Nat
  BY DEF JobsInv, Others
<1>1. CASE TriggerNow(a, j)
  BY <1>0, <1>1, FiredFacts, RequestStep DEF TriggerNow
<1>2. CASE Update(a, j)
  <2>1. \A row \in Rescheduled(j) : row \in Row /\ row.fails = job[j].fails
    <3>1. \A n \in RunAts(now) : n \in Nat
      BY <1>0, RunAtsType
    <3>2. \A p \in Periods : NextRun(p, now) \in Nat
      BY <1>0, NextRunType
    <3>3. \A n \in RunAts(now) : LET r == [job[j] EXCEPT !.next = n]
                                 IN  r \in Row /\ r.fails = job[j].fails
      BY <1>0, <3>1, MovedRow, PeriodAssumption
    <3>4. \A p \in Periods : LET r == [job[j] EXCEPT !.period = p, !.next = NextRun(p, now)]
                             IN  r \in Row /\ r.fails = job[j].fails
      BY <1>0, <3>2, MovedRow
    <3> QED BY <1>0, <3>3, <3>4 DEF Rescheduled
  <2>2. PICK row \in Rescheduled(j), on \in {job[j].active, TRUE}, m \in Limits :
            Request(a, j, {[row EXCEPT !.active = on, !.max = m]})
    BY <1>2 DEF Update
  <2> DEFINE rows == {[row EXCEPT !.active = on, !.max = m]}
  <2>3. on \in BOOLEAN
    BY <1>0 DEF Row
  <2>4. \A r \in rows : r \in Row /\ r.fails = job[j].fails
    <3> DEFINE n == [row EXCEPT !.active = on, !.max = m]
    <3>1. row \in Row /\ row.fails = job[j].fails
      BY <2>1
    <3>2. n \in Row /\ n.fails = row.fails
      BY <2>3, <3>1, LimitedRow
    <3> HIDE DEF n
    <3> QED BY <3>1, <3>2 DEF n
  <2>5. Request(a, j, rows)
    BY <2>2
  <2> HIDE DEF rows
  <2> QED BY <2>4, <2>5, RequestStep
<1>3. CASE Deactivate(a, j)
  <2> DEFINE rows == {[job[j] EXCEPT !.active = FALSE]}
  <2>1. \A r \in rows : r \in Row /\ r.fails = job[j].fails
    BY <1>0, SwitchedRow
  <2>2. Request(a, j, rows)
    BY <1>3 DEF Deactivate
  <2> HIDE DEF rows
  <2> QED BY <2>1, <2>2, RequestStep
<1> QED BY <1>1, <1>2, <1>3

\* The rows a job may be created with.
LEMMA InitJobs == Init => JobsInv
<1> SUFFICES ASSUME Init PROVE JobsInv
  OBVIOUS
<1>1. \A t \in Tx : SessionInv(t)
  BY EmptyFacts DEF Init, SessionInv
<1>2. job \in [Jobs -> Row]
  <2>1. \A n \in RunAts(0) \cup {NextRun(q, 0) : q \in Periods} : n \in Nat
    BY NextRunType, RunAtsType
  <2>2. \A row \in FirstRows : row \in Row
    <3> DEFINE N == RunAts(0) \cup {NextRun(p, 0) : p \in Periods}
    <3>1. N \subseteq Nat
      BY <2>1
    <3> HIDE DEF N
    <3>2. ASSUME NEW r \in [active : {TRUE}, period : Periods, next : N, last : {0},
                            fails : {0}, max : Limits]
          PROVE  r \in Row
      <4>0. r.active \in {TRUE} /\ r.next \in N /\ r.last = 0 /\ r.fails = 0
        OBVIOUS
      <4>1. /\ r.active \in BOOLEAN /\ r.period \in Periods /\ r.next \in Nat /\ r.last \in Nat
            /\ r.fails \in Nat /\ r.max \in Limits
        <5>1. r.active \in BOOLEAN
          BY <4>0, Zenon
        <5>2. r.period \in Periods /\ r.max \in Limits
          OBVIOUS
        <5>3. r.next \in Nat
          BY <3>1, <4>0
        <5> QED BY <4>0, <5>1, <5>2, <5>3
      <4>2. r = [active |-> r.active, period |-> r.period, next |-> r.next, last |-> r.last,
                 fails |-> r.fails, max |-> r.max]
        OBVIOUS
      <4> QED BY <4>1, <4>2 DEF Row
    <3> QED BY <3>2 DEF FirstRows, N
  <2> QED BY <2>2 DEF Init
<1>3. Others
  BY <1>2 DEF Init, Others
<1> QED BY <1>1, <1>3 DEF JobsInv

\* Every step keeps the invariant.
LEMMA NextJobs == JobsInv /\ [Next]_vars => JobsInv'
<1> SUFFICES ASSUME JobsInv, [Next]_vars PROVE JobsInv'
  OBVIOUS
<1>1. ASSUME NEW e \in Evaluators, Pass(e) \/ RollbackPass(e) PROVE JobsInv'
  BY <1>1, SelectStep, DispatchStep, FlushStep, CommitPassStep, RollbackStep DEF Pass
<1>2. CASE Tick \/ UNCHANGED vars
  <2>1. Others /\ \A t \in Tx : SessionInv(t)
    BY DEF JobsInv
  <2>2. /\ UNCHANGED <<job, seen, mine, flushed, requests, faults, fired, refused>>
        /\ now' \in Nat /\ now <= now'
    BY <1>2, <2>1 DEF Tick, vars, Others
  <2>3. Others' /\ \A t \in Tx : SessionInv(t)'
    BY <2>1, <2>2, SessionFrame DEF Others
  <2> QED BY <2>3 DEF JobsInv
<1> QED BY <1>1, <1>2, ApiStep, CommitRequestStep, RollbackRequestStep DEF Next

\* The type invariant, for any number of evaluators and requests.
THEOREM SchedulerTypes == Spec => []TypeOK
<1>1. JobsInv => TypeOK
  BY DEF JobsInv, Others, SessionInv, TypeOK
<1> QED BY <1>1, InitJobs, NextJobs, PTL DEF Spec

\* Only commits change rows, and a pass that ends otherwise changes none.
LEMMA RowsMove ==
    ASSUME [Next]_vars, job' # job
    PROVE  (\E e \in Evaluators : CommitPass(e)) \/ (\E a \in Requests : CommitRequest(a))
BY DEF Next, vars, Pass, Select, Dispatch, Flush, RollbackPass, TriggerNow, Update,
       Deactivate, Request, RollbackRequest, Tick

\* A pass or a trigger that read the row of a job before it was deactivated does
\* not bring the job back: only a request that sets is_active does, for any
\* number of evaluators and requests and whatever they read when.
THEOREM DeactivationAlwaysSticks == Spec => DeactivationSticks
<1>1. JobsInv /\ [Next]_vars
        => \A j \in Jobs : ~job[j].active /\ Activating(j) = {} => ~job'[j].active
  <2> SUFFICES ASSUME JobsInv, [Next]_vars, NEW j \in Jobs, ~job[j].active, Activating(j) = {}
               PROVE  ~job'[j].active
    OBVIOUS
  <2>1. CASE job' = job
    BY <2>1
  <2>2. ASSUME NEW e \in Evaluators, CommitPass(e) PROVE ~job'[j].active
    <3>1. Commit(e) /\ e \in Tx /\ SessionInv(e)
      BY <2>2 DEF CommitPass, Tx, JobsInv
    <3>2. CASE j \in DOMAIN mine[e]
      <4>1. mine[e][j].active => seen[e][j].active
        BY <3>1, <3>2 DEF SessionInv, PassRow
      <4>2. mine[e][j].active \in BOOLEAN /\ seen[e][j].active \in BOOLEAN
        BY <3>1, <3>2 DEF SessionInv, IsSession, Row
      <4> QED BY <3>1, <3>2, <4>1, <4>2, CommitFacts
    <3> QED BY <3>1, <3>2, CommitFacts
  <2>3. ASSUME NEW a \in Requests, CommitRequest(a) PROVE ~job'[j].active
    <3>1. Commit(a) /\ a \in Tx /\ SessionInv(a)
      BY <2>3 DEF CommitRequest, Tx, JobsInv
    <3>2. CASE j \in DOMAIN mine[a]
      <4>1. mine[a][j].active # seen[a][j].active => ~mine[a][j].active
        BY <3>2 DEF Activating
      <4> QED BY <3>1, <3>2, <4>1, CommitFacts
    <3> QED BY <3>1, <3>2, CommitFacts
  <2> QED BY <2>1, <2>2, <2>3, RowsMove
<1> QED BY <1>1, InitJobs, NextJobs, PTL DEF Spec, DeactivationSticks

\* A pass that disables a recurring job leaves a count at the limit it has read, which is
\* the job's limit unless a request has changed it since, for any number of evaluators and
\* however stale the row; and it never writes the limit.
THEOREM AlwaysDisabledAtLimit == Spec => DisabledOnlyAtLimit
<1>1. JobsInv /\ [Next]_vars
        => \A e \in Evaluators, j \in Jobs \ OneShot :
             (seen[e] # Empty /\ seen'[e] = Empty /\ job[j].active /\ ~job'[j].active)
                => /\ job'[j].fails >= seen[e][j].max
                   /\ job'[j].max = job[j].max
                   /\ job[j].max = seen[e][j].max => job'[j].fails >= job'[j].max
  <2> SUFFICES ASSUME JobsInv, [Next]_vars, NEW e \in Evaluators, NEW j \in Jobs \ OneShot,
                      seen[e] # Empty, seen'[e] = Empty, job[j].active, ~job'[j].active
               PROVE  job'[j].fails >= seen[e][j].max /\ job'[j].max = job[j].max
    OBVIOUS
  <2>1. ASSUME NEW t \in Tx, Commit(t) PROVE t = e
    BY <2>1, CommitFacts, e \in Tx DEF Tx
  <2>2. CommitPass(e)
    <3>1. (\E f \in Evaluators : CommitPass(f)) \/ (\E a \in Requests : CommitRequest(a))
      BY RowsMove
    <3> QED BY <2>1, <3>1, TxAssumption DEF CommitPass, CommitRequest, Tx
  <2>3. Commit(e) /\ e \in Tx /\ SessionInv(e)
    BY <2>2 DEF CommitPass, Tx, JobsInv
  <2>4. j \in DOMAIN mine[e] /\ mine[e][j].active # seen[e][j].active
    BY <2>3, CommitFacts
  <2>5. /\ mine[e][j].fails = seen[e][j].fails + 1 /\ mine[e][j].fails >= seen[e][j].max
        /\ mine[e][j].max = seen[e][j].max
    BY <2>3, <2>4 DEF SessionInv, PassRow
  <2>6. mine[e][j].fails # seen[e][j].fails
    BY <2>3, <2>4, <2>5 DEF SessionInv, IsSession, Row
  <2> QED BY <2>3, <2>4, <2>5, <2>6, CommitFacts
<1> QED BY <1>1, InitJobs, NextJobs, PTL DEF Spec, DisabledOnlyAtLimit

-----------------------------------------------------------------------------
(* A single evaluator.                                                     *)

\* Nobody else counts or fires while a pass is on its way, so what it has read
\* of both stays true; and last_run_at is no earlier than any window fired.
Current ==
    /\ FailuresExact
    /\ \A j \in Jobs : \A w \in fired[j] : w <= job[j].last
    /\ \A e \in Evaluators : \A j \in DOMAIN seen[e] :
        /\ seen[e][j].fails = job[j].fails
        /\ \A w \in fired[j] : w <= seen[e][j].last

\* Steps that commit nothing and read nothing for a pass.
LEMMA CurrentFrame ==
    ASSUME Current, UNCHANGED <<job, fired, refused>>,
           \A e \in Evaluators : seen'[e] \in {seen[e], Empty}
    PROVE  Current'
BY EmptyFacts DEF Current, FailuresExact

\* What a pass reads is current.
LEMMA SelectCurrent ==
    ASSUME JobsInv, Current, NEW e \in Evaluators, Select(e), \A f \in Evaluators : f = e
    PROVE  Current'
<1>1. PICK S \in SUBSET DueJobs : seen' = [seen EXCEPT ![e] = [j \in S |-> job[j]]]
  BY DEF Select
<1>2. S \subseteq Jobs /\ seen'[e] = [j \in S |-> job[j]]
  BY <1>1 DEF DueJobs, JobsInv, Others, Tx
<1>3. UNCHANGED <<job, fired, refused>>
  BY DEF Select
<1> QED BY <1>2, <1>3 DEF Current, FailuresExact

\* A request's commit writes no count, and empties fired with last_run_at.
LEMMA CommitRequestCurrent ==
    ASSUME JobsInv, Current, NEW a \in Requests, CommitRequest(a)
    PROVE  Current'
<1>1. Commit(a) /\ a \in Tx /\ SessionInv(a) /\ refused' = refused /\ a \notin Evaluators
  BY TxAssumption DEF CommitRequest, Tx, JobsInv
<1>2. \A j \in Jobs : job'[j].fails = job[j].fails
  BY <1>1, CommitFacts DEF SessionInv
<1>3. \A e \in Evaluators : seen'[e] = seen[e]
  BY <1>1, CommitFacts DEF Tx
<1>4. \A j \in Jobs : fired'[j] \subseteq fired[j] /\ (Moves(a, j) => fired'[j] = {})
  BY DEF CommitRequest
<1>5. \A j \in Jobs : ~Moves(a, j) => job'[j].last = job[j].last
  BY <1>1, CommitFacts DEF Moves
<1>6. \A j \in Jobs : \A w \in fired'[j] : w <= job'[j].last
  BY <1>4, <1>5 DEF Current
<1>7. \A e \in Evaluators : \A j \in DOMAIN seen[e] : j \in Jobs
  BY DEF JobsInv, SessionInv, IsSession, Tx
<1> QED BY <1>1, <1>2, <1>3, <1>4, <1>6, <1>7 DEF Current, FailuresExact

\* A pass counts and fires what it has read, and that was current.
LEMMA CommitPassCurrent ==
    ASSUME JobsInv, Current, NEW e \in Evaluators, CommitPass(e), \A f \in Evaluators : f = e
    PROVE  Current'
<1>1. Commit(e) /\ e \in Tx /\ SessionInv(e)
  BY DEF CommitPass, Tx, JobsInv
<1>2. \A j \in Jobs :
        /\ fired'[j] = IF HasFired(e, j) THEN fired[j] \cup {seen[e][j].next} ELSE fired[j]
        /\ refused'[j] = IF HasRefused(e, j) THEN refused[j] + 1 ELSE refused[j]
  BY DEF CommitPass
<1>3. ASSUME NEW j \in Jobs
      PROVE  job'[j].fails = refused'[j] /\ \A w \in fired'[j] : w <= job'[j].last
  <2>1. job[j].fails = refused[j] /\ \A w \in fired[j] : w <= job[j].last
    BY DEF Current, FailuresExact
  <2>2. CASE j \notin DOMAIN mine[e]
    <3>1. ~HasFired(e, j) /\ ~HasRefused(e, j)
      BY <2>2 DEF HasFired, HasRefused
    <3>2. job'[j] = job[j]
      BY <1>1, <2>2, CommitFacts
    <3> QED BY <1>2, <2>1, <3>1, <3>2
  <2>3. CASE j \in DOMAIN mine[e]
    <3>1. /\ seen[e][j] \in Row /\ mine[e][j] \in Row /\ PassRow(j, seen[e][j], mine[e][j])
          /\ seen[e][j].last < seen[e][j].next /\ j \in DOMAIN seen[e]
      BY <1>1, <2>3 DEF SessionInv, IsSession
    <3>2. seen[e][j].fails = job[j].fails /\ \A w \in fired[j] : w <= seen[e][j].last
      BY <3>1 DEF Current
    <3>3. fired[j] \subseteq Nat
      BY DEF JobsInv, Others
    <3>4. CASE mine[e][j].fails = seen[e][j].fails
      <4>1. seen[e][j].next <= mine[e][j].last
        BY <3>1, <3>4 DEF PassRow, Row
      <4>2. job'[j].fails = refused'[j] /\ fired'[j] = fired[j] \cup {seen[e][j].next}
        BY <1>1, <1>2, <2>1, <2>3, <3>4, CommitFacts DEF HasFired, HasRefused
      <4>3. job'[j].last = mine[e][j].last
        BY <1>1, <2>3, <3>1, <4>1, CommitFacts DEF Row
      <4> QED BY <3>1, <3>2, <3>3, <4>1, <4>2, <4>3 DEF Row
    <3>5. CASE mine[e][j].fails # seen[e][j].fails
      <4>1. mine[e][j].fails = seen[e][j].fails + 1 /\ mine[e][j].last = seen[e][j].last
        BY <3>1, <3>5 DEF PassRow
      <4>2. job'[j].fails = refused'[j] /\ fired'[j] = fired[j] /\ job'[j].last = job[j].last
        <5>1. HasRefused(e, j) /\ ~HasFired(e, j)
          BY <2>3, <3>5 DEF HasFired, HasRefused
        <5>2. job'[j].fails = mine[e][j].fails /\ job'[j].last = job[j].last
          BY <1>1, <2>3, <3>5, <4>1, CommitFacts
        <5> QED BY <1>2, <2>1, <3>2, <4>1, <5>1, <5>2
      <4> QED BY <2>1, <4>2
    <3> QED BY <3>4, <3>5
  <2> QED BY <2>2, <2>3
<1>4. \A f \in Evaluators : seen'[f] = Empty
  BY <1>1, CommitFacts
<1> QED BY <1>3, <1>4, EmptyFacts DEF Current, FailuresExact

\* Every step keeps it.
LEMMA NextCurrent ==
    ASSUME \A e, f \in Evaluators : e = f, JobsInv, Current, [Next]_vars
    PROVE  Current'
<1>0. seen = [t \in Tx |-> seen[t]] /\ \A e \in Evaluators : e \in Tx /\ e \notin Requests
  BY TxAssumption DEF JobsInv, Others, Tx
<1>1. ASSUME NEW e \in Evaluators, Dispatch(e) \/ Flush(e) \/ RollbackPass(e) PROVE Current'
  BY <1>0, <1>1, CurrentFrame DEF Dispatch, Flush, RollbackPass
<1>2. ASSUME NEW a \in Requests, NEW j \in Jobs,
             TriggerNow(a, j) \/ Update(a, j) \/ Deactivate(a, j)
      PROVE  Current'
  <2>1. PICK rows : Request(a, j, rows)
    BY <1>2 DEF TriggerNow, Update, Deactivate
  <2>2. \A e \in Evaluators : seen'[e] = seen[e]
    BY <1>0, <2>1 DEF Request
  <2> QED BY <2>1, <2>2, CurrentFrame DEF Request
<1>3. ASSUME NEW a \in Requests, RollbackRequest(a) PROVE Current'
  <2>1. \A e \in Evaluators : seen'[e] = seen[e]
    BY <1>0, <1>3 DEF RollbackRequest
  <2> QED BY <1>3, <2>1, CurrentFrame DEF RollbackRequest
<1>4. CASE Tick \/ UNCHANGED vars
  BY <1>4, CurrentFrame DEF Tick, vars
<1> QED BY <1>1, <1>2, <1>3, <1>4, SelectCurrent, CommitPassCurrent, CommitRequestCurrent
        DEF Next, Pass

\* It holds to begin with.
LEMMA InitCurrent == Init => Current
BY EmptyFacts DEF Init, FirstRows, Current, FailuresExact, Tx

\* With one evaluator, whatever requests come between its steps and however many
\* of its passes are rolled back, consecutive_failures counts exactly the refused
\* dispatches its passes have committed, over the whole life of the job.
THEOREM FailuresAlwaysExact ==
    ASSUME \A e, f \in Evaluators : e = f
    PROVE  Spec => []FailuresExact
<1>1. JobsInv /\ Current /\ [Next]_vars => Current'
  BY NextCurrent
<1>2. Current => FailuresExact
  BY DEF Current
<1> QED BY <1>1, <1>2, InitJobs, NextJobs, InitCurrent, PTL DEF Spec

\* With one evaluator no window of a job is fired twice unless a request has
\* triggered or rescheduled the job since, whatever rolled back passes and
\* changes of is_active come between.
THEOREM WindowsFireOnce ==
    ASSUME \A e, f \in Evaluators : e = f
    PROVE  Spec => WindowFiredOnce
<1>1. JobsInv /\ Current /\ [Next]_vars => Current'
  BY NextCurrent
<1>2. JobsInv /\ Current
        => \A e \in Evaluators, j \in Jobs :
             CommitPass(e) /\ HasFired(e, j) => seen[e][j].next \notin fired[j]
  <2> SUFFICES ASSUME JobsInv, Current, NEW e \in Evaluators, NEW j \in Jobs, HasFired(e, j)
               PROVE  seen[e][j].next \notin fired[j]
    OBVIOUS
  <2>1. SessionInv(e) /\ fired[j] \subseteq Nat
    BY DEF JobsInv, Others, Tx
  <2>2. j \in DOMAIN seen[e] /\ seen[e][j] \in Row /\ seen[e][j].last < seen[e][j].next
    BY <2>1 DEF HasFired, SessionInv, IsSession
  <2>3. \A w \in fired[j] : w <= seen[e][j].last
    BY <2>2 DEF Current
  <2> QED BY <2>1, <2>2, <2>3 DEF Row
<1> QED BY <1>1, <1>2, InitJobs, NextJobs, InitCurrent, PTL DEF Spec, WindowFiredOnce
=============================================================================
