--------------------------- MODULE CyclesProofs ---------------------------
(***************************************************************************)
(* Proofs about Cycles: that a cycle is in progress only when a run of one *)
(* of its scripts is queued, and an assignment settled only by one of its  *)
(* results, for any scripts, assignments, requests and agents.             *)
(***************************************************************************)
EXTENDS Cycles, TLAPS

\* A script somebody is assigned to.
IsAssigned(s) == \E a \in Assignments : Present(a) /\ assigned[a].script = s

\* The cycle's status a session writes, and the runs that go with it.
StatusInv(r) ==
    /\ r.read \in CycleStatus /\ r.new \in CycleStatus
    /\ r.kind \in {"assign", "edit", "submit", "agent"} => r.new = r.read
    /\ r.kind = "cancel" => r.new = "aborted" /\ r.read # "completed"
    /\ r.kind = "execute" => r.read = "planned" \/ r.new = r.read
    /\ r.runs \subseteq r.scripts /\ r.scripts \subseteq CycleScripts
    /\ \A s \in r.scripts : IsAssigned(s)

\* The assignments and the result a session writes.
RowsInv(r) ==
    /\ r.kind \in {"update", "cancel", "execute", "agent"} => DOMAIN r.rows = {}
    /\ r.kind \in {"update", "cancel", "execute", "assign", "edit"} => r.result = None
    /\ r.kind \in {"submit", "agent"} => r.result \in Written
    /\ r.kind = "assign" =>
         /\ DOMAIN r.rows \subseteq Assignments
         /\ \A a \in DOMAIN r.rows : r.rows[a] \in Assignment /\ r.rows[a].status = "pending"
    /\ r.kind \in {"edit", "submit"} =>
         \E a \in Assignments :
            /\ Present(a) /\ DOMAIN r.rows = {a}
            /\ r.rows[a] \in Assignment /\ r.had[a] \in Assignment
            /\ r.rows[a].script = r.had[a].script
            /\ r.kind = "submit" =>
                 r.result.of = a /\ r.result.at = 0 /\ r.result.outcome = r.rows[a].status
    /\ r.kind = "agent" => r.result.at <= Len(results[r.result.of])

SessionInv(r) == r.kind \in SessionKinds /\ StatusInv(r) /\ RowsInv(r)

\* The types of the committed rows.
RowTypes ==
    /\ cycle \in CycleStatus
    /\ assigned \in [Assignments -> Assignment \cup {None}]
    /\ results \in [Assignments -> Seq(Outcomes)]
    /\ approved \subseteq CycleScripts /\ queued \subseteq CycleScripts
    /\ cRequests \in 0 .. MaxCycleRequests
    /\ byHand \subseteq Assignments \cup {"cycle"}
    /\ cReq = [q \in CycleRequests |-> cReq[q]]

\* The invariant of a cycle.
CycleInv ==
    /\ RowTypes
    /\ \A q \in CycleRequests : Free(q) \/ SessionInv(cReq[q])
    /\ StartedMeansQueued /\ OutcomeHasResult

\* A cycle as it is created.
LEMMA CycleStarts == CycleInit => CycleInv
<1> SUFFICES ASSUME CycleInit
             PROVE  CycleInv
  OBVIOUS
<1>1. RowTypes
  BY CycleAssumption DEF CycleInit, RowTypes, CycleStatus
<1>2. \A q \in CycleRequests : Free(q)
  BY DEF CycleInit, Free, Idle
<1>3. StartedMeansQueued /\ OutcomeHasResult
  BY DEF CycleInit, StartedMeansQueued, OutcomeHasResult, Present
<1> QED BY <1>1, <1>2, <1>3 DEF CycleInv

\* The type invariant follows.
LEMMA CycleTypesFollow == CycleInv => CycleTypeOK
<1> SUFFICES ASSUME CycleInv
             PROVE  CycleTypeOK
  OBVIOUS
<1>1. ASSUME NEW q \in CycleRequests, ~Free(q)
      PROVE  /\ cReq[q].kind \in SessionKinds /\ {cReq[q].read, cReq[q].new} \subseteq CycleStatus
             /\ \A a \in DOMAIN cReq[q].rows : cReq[q].rows[a] \in Assignment
             /\ cReq[q].result \in Written \cup {None} /\ cReq[q].runs \subseteq CycleScripts
  <2>1. cReq[q].kind \in SessionKinds /\ StatusInv(cReq[q]) /\ RowsInv(cReq[q])
    BY <1>1 DEF CycleInv, SessionInv
  <2>2. \A a \in DOMAIN cReq[q].rows : cReq[q].rows[a] \in Assignment
    BY <2>1 DEF RowsInv, SessionKinds
  <2>3. cReq[q].result \in Written \cup {None}
    BY <2>1 DEF RowsInv, SessionKinds
  <2> QED BY <2>1, <2>2, <2>3 DEF StatusInv
<1> QED BY <1>1 DEF CycleInv, RowTypes, CycleTypeOK

\* What the committed rows become never takes from a session what it relies on.
LEMMA SessionStays ==
    ASSUME NEW r, SessionInv(r), RowTypes,
           \A a \in Assignments : Present(a) =>
               Present(a)' /\ assigned'[a].script = assigned[a].script,
           \A a \in Assignments : Len(results[a]) <= Len(results'[a]) /\ Len(results'[a]) \in Nat
    PROVE  SessionInv(r)'
<1>1. StatusInv(r)'
  BY DEF SessionInv, StatusInv, IsAssigned
<1>2. r.kind = "agent" => r.result.at <= Len(results'[r.result.of])
  BY DEF SessionInv, RowsInv, Written, RowTypes
<1>3. RowsInv(r)'
  BY <1>2 DEF SessionInv, RowsInv
<1> QED BY <1>1, <1>3 DEF SessionInv

\* A request that opens a session changes nothing committed.
LEMMA OpenKeeps ==
    ASSUME CycleInv, NEW q \in CycleRequests, NEW r, Opens(q, r), SessionInv(r)
    PROVE  CycleInv'
<1>1. /\ cReq' = [cReq EXCEPT ![q] = r]
      /\ UNCHANGED <<cycle, assigned, results, approved, queued, byHand>>
      /\ cRequests' \in 0 .. MaxCycleRequests
  BY CycleAssumption DEF Opens, CycleInv, RowTypes
<1>2. RowTypes'
  BY <1>1 DEF CycleInv, RowTypes
<1>3. ASSUME NEW t, SessionInv(t)
      PROVE  SessionInv(t)'
  BY <1>1, <1>3 DEF SessionInv, StatusInv, RowsInv, IsAssigned, Present
<1>4. ASSUME NEW p \in CycleRequests
      PROVE  Free(p)' \/ SessionInv(cReq[p])'
  <2>1. CASE p = q
    <3>1. cReq'[p] = r
      BY <1>1, <2>1 DEF CycleInv, RowTypes
    <3>2. SessionInv(cReq'[p])
      BY <3>1
    <3> QED BY <1>1, <3>2 DEF SessionInv, StatusInv, RowsInv, IsAssigned, Present
  <2>2. CASE p # q
    <3>1. cReq'[p] = cReq[p]
      BY <1>1, <2>2 DEF CycleInv, RowTypes
    <3>2. Free(p) \/ SessionInv(cReq[p])
      BY DEF CycleInv
    <3> QED BY <1>1, <3>1, <3>2 DEF Free, SessionInv, StatusInv, RowsInv, IsAssigned, Present
  <2> QED BY <2>1, <2>2
<1>5. StartedMeansQueued' /\ OutcomeHasResult'
  BY <1>1 DEF CycleInv, StartedMeansQueued, OutcomeHasResult, Present
<1> QED BY <1>2, <1>4, <1>5 DEF CycleInv

\* A session with nothing but a status to write.
LEMMA StatusOpens ==
    ASSUME CycleInv, NEW q \in CycleRequests, NEW kind \in {"update", "cancel"},
           NEW s \in CycleStatus, kind = "cancel" => s = "aborted" /\ cycle # "completed",
           Opens(q, OnCycle(kind, s, {}))
    PROVE  CycleInv'
<1> DEFINE r == OnCycle(kind, s, {})
<1>1. cycle \in CycleStatus
  BY DEF CycleInv, RowTypes
<1>2. SessionInv(r)
  BY <1>1 DEF OnCycle, SessionInv, StatusInv, RowsInv, SessionKinds
<1> HIDE DEF r
<1> QED BY <1>2, OpenKeeps DEF r

\* One assignment with another status.
LEMMA OneRowFacts ==
    ASSUME NEW a \in Assignments, NEW row \in Assignment,
           NEW s \in Outcomes \cup {"pending", "in_progress"}
    PROVE  LET rows == OneRow(a, [row EXCEPT !.status = s])
               had == OneRow(a, row)
           IN  /\ DOMAIN rows = {a} /\ rows[a] \in Assignment /\ had[a] \in Assignment
               /\ rows[a].script = had[a].script /\ rows[a].status = s
BY DEF OneRow, Assignment

\* A session with one assignment to write, and perhaps its result.
LEMMA EditOpens ==
    ASSUME CycleInv, NEW q \in CycleRequests, UpdateAssignment(q)
    PROVE  CycleInv'
<1>1. PICK a \in Assignments, s \in Outcomes \cup {"pending", "in_progress"} :
        Present(a) /\ Opens(q, OnRows("edit", OneRow(a, assigned[a]),
                                      OneRow(a, [assigned[a] EXCEPT !.status = s]), None))
  BY DEF UpdateAssignment
<1> DEFINE had == OneRow(a, assigned[a])
           rows == OneRow(a, [assigned[a] EXCEPT !.status = s])
           r == OnRows("edit", had, rows, None)
<1>2. assigned[a] \in Assignment /\ cycle \in CycleStatus
  BY <1>1 DEF CycleInv, RowTypes, Present
<1>3. /\ DOMAIN rows = {a} /\ rows[a] \in Assignment /\ had[a] \in Assignment
      /\ rows[a].script = had[a].script
  BY <1>2, OneRowFacts
<1> HIDE DEF had, rows
<1>4. SessionInv(r)
  BY <1>1, <1>2, <1>3 DEF OnRows, SessionInv, StatusInv, RowsInv, SessionKinds
<1> QED BY <1>1, <1>4, OpenKeeps DEF had, rows

\* The same with the result that goes with it.
LEMMA SubmitOpens ==
    ASSUME CycleInv, NEW q \in CycleRequests, SubmitResult(q)
    PROVE  CycleInv'
<1>1. PICK a \in Assignments, o \in Outcomes :
        Present(a) /\ Opens(q, OnRows("submit", OneRow(a, assigned[a]),
                              OneRow(a, [assigned[a] EXCEPT !.status = o]), InsertResult(a, o)))
  BY DEF SubmitResult
<1> DEFINE had == OneRow(a, assigned[a])
           rows == OneRow(a, [assigned[a] EXCEPT !.status = o])
           w == InsertResult(a, o)
           r == OnRows("submit", had, rows, w)
<1>2. assigned[a] \in Assignment /\ cycle \in CycleStatus
  BY <1>1 DEF CycleInv, RowTypes, Present
<1>3. /\ DOMAIN rows = {a} /\ rows[a] \in Assignment /\ had[a] \in Assignment
      /\ rows[a].script = had[a].script /\ rows[a].status = o
  <2>1. o \in Outcomes \cup {"pending", "in_progress"}
    OBVIOUS
  <2> QED BY <1>2, <2>1, OneRowFacts
<1>4. w \in Written /\ w.of = a /\ w.at = 0 /\ w.outcome = o
  BY DEF InsertResult, Written
<1> HIDE DEF had, rows, w
<1>5. SessionInv(r)
  BY <1>1, <1>2, <1>3, <1>4 DEF OnRows, SessionInv, StatusInv, RowsInv, SessionKinds
<1> QED BY <1>1, <1>5, OpenKeeps DEF had, rows, w

\* A session of the agent, with a result to write and no assignment.
LEMMA AgentOpens ==
    ASSUME CycleInv, NEW q \in CycleRequests, AgentResult(q)
    PROVE  CycleInv'
<1>1. PICK a \in Assignments, o \in Outcomes :
        Opens(q, OnRows("agent", <<>>, <<>>, [of |-> a, at |-> Len(results[a]), outcome |-> o]))
  BY DEF AgentResult
<1> DEFINE w == [of |-> a, at |-> Len(results[a]), outcome |-> o]
           r == OnRows("agent", <<>>, <<>>, w)
<1>2. cycle \in CycleStatus /\ results[a] \in Seq(Outcomes)
  BY DEF CycleInv, RowTypes
<1>3. w \in Written /\ w.at <= Len(results[w.of])
  BY <1>2 DEF Written
<1> HIDE DEF w
<1>4. SessionInv(r)
  BY <1>2, <1>3 DEF OnRows, SessionInv, StatusInv, RowsInv, SessionKinds
<1> QED BY <1>1, <1>4, OpenKeeps DEF w

\* A session that assigns approved scripts.
LEMMA AssignOpens ==
    ASSUME CycleInv, NEW q \in CycleRequests, BulkAssign(q)
    PROVE  CycleInv'
<1>1. PICK A \in SUBSET Assignments : \E script \in [A -> approved] :
        Opens(q, OnRows("assign", <<>>,
                        [a \in A |-> [script |-> script[a], status |-> "pending"]], None))
  BY DEF BulkAssign
<1>2. PICK script \in [A -> approved] :
        Opens(q, OnRows("assign", <<>>,
                        [a \in A |-> [script |-> script[a], status |-> "pending"]], None))
  BY <1>1
<1> DEFINE rows == [a \in A |-> [script |-> script[a], status |-> "pending"]]
           r == OnRows("assign", <<>>, rows, None)
<1>3. cycle \in CycleStatus /\ approved \subseteq CycleScripts
  BY DEF CycleInv, RowTypes
<1>4. /\ DOMAIN rows = A
      /\ \A a \in A : rows[a] \in Assignment /\ rows[a].status = "pending"
  BY <1>3 DEF Assignment
<1> HIDE DEF rows
<1>5. SessionInv(r)
  BY <1>3, <1>4 DEF OnRows, SessionInv, StatusInv, RowsInv, SessionKinds
<1> QED BY <1>2, <1>5, OpenKeeps DEF rows

\* A session that will run the scripts assigned.
LEMMA ExecuteOpens ==
    ASSUME CycleInv, NEW q \in CycleRequests, ExecuteAll(q)
    PROVE  CycleInv'
<1> DEFINE scripts == {assigned[a].script : a \in {b \in Assignments : Present(b)}}
           r == OnCycle("execute", StartedBy(cycle), scripts)
<1>1. Opens(q, r)
  BY DEF ExecuteAll
<1>2. /\ cycle \in CycleStatus /\ StartedBy(cycle) \in CycleStatus
      /\ cycle = "planned" \/ StartedBy(cycle) = cycle
  BY DEF CycleInv, RowTypes, StartedBy, CycleStatus
<1>3. \A a \in Assignments : Present(a) => assigned[a].script \in CycleScripts
  BY DEF CycleInv, RowTypes, Present, Assignment
<1>4. scripts \subseteq CycleScripts /\ \A s \in scripts : IsAssigned(s)
  BY <1>3 DEF IsAssigned
<1> HIDE DEF scripts
<1>5. SessionInv(r)
  BY <1>2, <1>4 DEF OnCycle, SessionInv, StatusInv, RowsInv, SessionKinds
<1> HIDE DEF r
<1> QED BY <1>1, <1>5, OpenKeeps

\* A script more to run is one of those the session has read.
LEMMA DispatchKeeps ==
    ASSUME CycleInv, NEW q \in CycleRequests, DispatchOne(q)
    PROVE  CycleInv'
<1>1. PICK s \in cReq[q].scripts : cReq' = [cReq EXCEPT ![q].runs = cReq[q].runs \cup {s}]
  BY DEF DispatchOne
<1>2. /\ cReq[q].kind = "execute"
      /\ UNCHANGED <<cycle, assigned, results, approved, queued, cRequests, byHand>>
  BY DEF DispatchOne
<1> DEFINE r == [cReq[q] EXCEPT !.runs = cReq[q].runs \cup {s}]
<1>3. cReq' = [cReq EXCEPT ![q] = r]
  BY <1>1
<1>4. SessionInv(cReq[q])
  BY <1>2 DEF CycleInv, Free
<1>5. /\ r.kind = "execute" /\ r.read = cReq[q].read /\ r.new = cReq[q].new
      /\ r.rows = cReq[q].rows /\ r.result = cReq[q].result /\ r.scripts = cReq[q].scripts
  BY <1>2
<1>6. r.runs \subseteq r.scripts
  BY <1>1, <1>4 DEF SessionInv, StatusInv
<1> HIDE DEF r
<1>7. SessionInv(r)
  BY <1>2, <1>4, <1>5, <1>6 DEF SessionInv, StatusInv, RowsInv
<1>8. ASSUME NEW p \in CycleRequests
      PROVE  Free(p)' \/ SessionInv(cReq[p])'
  <2>1. CASE p = q
    <3>1. cReq'[p] = r
      BY <1>3, <2>1 DEF CycleInv, RowTypes
    <3>2. SessionInv(cReq'[p])
      BY <1>7, <3>1
    <3> QED BY <1>2, <3>2 DEF SessionInv, StatusInv, RowsInv, IsAssigned, Present
  <2>2. CASE p # q
    <3>1. cReq'[p] = cReq[p]
      BY <1>3, <2>2 DEF CycleInv, RowTypes
    <3>2. Free(p) \/ SessionInv(cReq[p])
      BY DEF CycleInv
    <3> QED BY <1>2, <3>1, <3>2 DEF Free, SessionInv, StatusInv, RowsInv, IsAssigned, Present
  <2> QED BY <2>1, <2>2
<1>9. RowTypes'
  BY <1>2, <1>3 DEF CycleInv, RowTypes
<1>10. StartedMeansQueued' /\ OutcomeHasResult'
  BY <1>2 DEF CycleInv, StartedMeansQueued, OutcomeHasResult, Present
<1> QED BY <1>8, <1>9, <1>10 DEF CycleInv

\* The results after a commit: none is lost, and one is rewritten only by hand.
LEMMA RecordedFacts ==
    ASSUME RowTypes, NEW w \in Written, w.at <= Len(results[w.of]), NEW after,
           after = Recorded(w)
    PROVE  /\ after \in [Assignments -> Seq(Outcomes)]
           /\ \A a \in Assignments : Len(results[a]) <= Len(after[a]) /\ Len(after[a]) \in Nat
           /\ \A a \in Assignments : a # w.of \/ w.at = 0 =>
                \A i \in DOMAIN results[a] : i \in DOMAIN after[a] /\ after[a][i] = results[a][i]
           /\ w.at = 0 => \E i \in DOMAIN after[w.of] : after[w.of][i] = w.outcome
<1> DEFINE old == results[w.of]
           new == IF w.at = 0 THEN Append(old, w.outcome) ELSE [old EXCEPT ![w.at] = w.outcome]
<1>1. old \in Seq(Outcomes) /\ w.of \in Assignments /\ w.at \in Nat /\ w.outcome \in Outcomes
  BY DEF RowTypes, Written
<1>2. after = [results EXCEPT ![w.of] = new]
  BY RowAssumption DEF Recorded
<1>3. /\ new \in Seq(Outcomes) /\ Len(old) <= Len(new) /\ Len(new) \in Nat
      /\ w.at = 0 => /\ \A i \in DOMAIN old : i \in DOMAIN new /\ new[i] = old[i]
                     /\ \E i \in DOMAIN new : new[i] = w.outcome
  <2>1. CASE w.at = 0
    <3>1. new = Append(old, w.outcome)
      BY <2>1
    <3> HIDE DEF new, old
    <3>2. new \in Seq(Outcomes) /\ Len(new) = Len(old) + 1 /\ new[Len(old) + 1] = w.outcome
          /\ Len(old) \in Nat /\ \A i \in 1 .. Len(old) : new[i] = old[i]
      BY <1>1, <3>1
    <3>3. Len(old) + 1 \in DOMAIN new /\ DOMAIN old = 1 .. Len(old) /\ DOMAIN new = 1 .. Len(old) + 1
      BY <1>1, <3>2
    <3> QED BY <3>2, <3>3
  <2>2. CASE w.at # 0
    <3>1. new = [old EXCEPT ![w.at] = w.outcome]
      BY <2>2
    <3> HIDE DEF new
    <3>2. w.at \in 1 .. Len(old)
      BY <1>1, <2>2
    <3> HIDE DEF old
    <3>3. new \in Seq(Outcomes) /\ Len(new) = Len(old) /\ Len(old) \in Nat
      BY <1>1, <3>1, <3>2
    <3> QED BY <2>2, <3>3
  <2> QED BY <2>1, <2>2
<1> HIDE DEF new
<1>4. \A a \in Assignments : after[a] = IF a = w.of THEN new ELSE results[a]
  BY <1>2 DEF RowTypes
<1>5. \A a \in Assignments : results[a] \in Seq(Outcomes) /\ Len(results[a]) \in Nat
  BY DEF RowTypes
<1>6. after \in [Assignments -> Seq(Outcomes)]
  BY <1>1, <1>2, <1>3 DEF RowTypes
<1> QED BY <1>1, <1>3, <1>4, <1>5, <1>6

\* The assignment rows after a commit: none is gone or of another script, and one has
\* another outcome only by an edit or by the result submitted with it.
LEMMA AssignedFacts ==
    ASSUME CycleInv, NEW q \in CycleRequests, CommitCycle(q)
    PROVE  LET c == cReq[q] IN
           /\ assigned' \in [Assignments -> Assignment \cup {None}]
           /\ \A a \in Assignments : Present(a) =>
                Present(a)' /\ assigned'[a].script = assigned[a].script
           /\ \A a \in Assignments : Present(a)' /\ assigned'[a].status \in Outcomes =>
                \/ Present(a) /\ assigned'[a].status = assigned[a].status
                \/ c.kind = "edit" /\ a \in DOMAIN c.rows
                \/ /\ c.kind = "submit" /\ c.result.of = a /\ c.result.at = 0
                   /\ c.result.outcome = assigned'[a].status
<1> DEFINE c == cReq[q]
<1>1. RowsInv(c) /\ c.kind \in SessionKinds
  BY DEF CommitCycle, CycleInv, SessionInv
<1>2. /\ \A a \in DOMAIN c.rows : c.kind = "assign" => ~Present(a)
      /\ assigned' = [a \in Assignments |->
                IF a \notin DOMAIN c.rows THEN assigned[a]
                ELSE IF c.kind = "assign" THEN c.rows[a]
                ELSE Merge(assigned[a], c.had[a], c.rows[a])]
  BY DEF CommitCycle
<1> HIDE DEF c
<1>3. \A a \in Assignments : assigned[a] \in Assignment \cup {None}
  BY DEF CycleInv, RowTypes
<1>4. ASSUME NEW a \in Assignments
      PROVE  /\ assigned'[a] \in Assignment \cup {None}
             /\ Present(a) => assigned'[a] # None /\ assigned'[a].script = assigned[a].script
             /\ assigned'[a] # None /\ assigned'[a].status \in Outcomes =>
                  \/ Present(a) /\ assigned'[a].status = assigned[a].status
                  \/ c.kind = "edit" /\ a \in DOMAIN c.rows
                  \/ /\ c.kind = "submit" /\ c.result.of = a /\ c.result.at = 0
                     /\ c.result.outcome = assigned'[a].status
  <2>1. CASE a \notin DOMAIN c.rows
    BY <1>2, <1>3, <2>1 DEF Present
  <2>2. CASE a \in DOMAIN c.rows /\ c.kind = "assign"
    <3>1. assigned'[a] = c.rows[a] /\ c.rows[a] \in Assignment /\ c.rows[a].status = "pending"
          /\ ~Present(a)
      BY <1>1, <1>2, <2>2 DEF RowsInv
    <3> QED BY <3>1, CycleAssumption
  <2>3. CASE a \in DOMAIN c.rows /\ c.kind # "assign"
    <3>1. c.kind \in {"edit", "submit"}
      BY <1>1, <2>3 DEF RowsInv, SessionKinds
    <3>2. /\ Present(a) /\ c.rows[a] \in Assignment /\ c.had[a] \in Assignment
          /\ c.rows[a].script = c.had[a].script
          /\ c.kind = "submit" =>
               c.result.of = a /\ c.result.at = 0 /\ c.result.outcome = c.rows[a].status
      BY <1>1, <2>3, <3>1 DEF RowsInv
    <3>3. assigned[a] \in Assignment /\ assigned'[a] = Merge(assigned[a], c.had[a], c.rows[a])
      BY <1>2, <1>3, <2>3, <3>2 DEF Present
    <3>4. /\ assigned'[a] \in Assignment
          /\ assigned'[a].script = assigned[a].script
          /\ assigned'[a].status \in {assigned[a].status, c.rows[a].status}
      BY <3>2, <3>3 DEF Merge, Assignment
    <3> QED BY <2>3, <3>1, <3>2, <3>4, RowAssumption
  <2> QED BY <2>1, <2>2, <2>3
<1>5. assigned' \in [Assignments -> Assignment \cup {None}]
  BY <1>2, <1>4
<1> QED BY <1>4, <1>5 DEF Present, c

\* The commit of a session keeps the invariant.
LEMMA CycleCommitKeeps ==
    ASSUME CycleInv, NEW q \in CycleRequests, CommitCycle(q)
    PROVE  CycleInv'
<1> DEFINE c == cReq[q]
<1>1. c.kind \in SessionKinds /\ StatusInv(c) /\ RowsInv(c) /\ Dispatched(q)
  BY DEF CommitCycle, CycleInv, SessionInv
<1>2. /\ cycle' = IF c.new = c.read THEN cycle ELSE c.new
      /\ results' = Recorded(c.result) /\ queued' = queued \cup c.runs
      /\ byHand' = byHand \cup (IF c.kind = "update" THEN {"cycle"} ELSE {})
                          \cup (IF c.kind = "edit" THEN DOMAIN c.rows ELSE {})
                          \cup (IF c.kind = "agent" /\ c.result.at > 0 THEN {c.result.of} ELSE {})
      /\ cReq' = [cReq EXCEPT ![q] = Idle] /\ UNCHANGED <<approved, cRequests>>
  BY DEF CommitCycle
<1>3. /\ assigned' \in [Assignments -> Assignment \cup {None}]
      /\ \A a \in Assignments : Present(a) =>
           Present(a)' /\ assigned'[a].script = assigned[a].script
      /\ \A a \in Assignments : Present(a)' /\ assigned'[a].status \in Outcomes =>
           \/ Present(a) /\ assigned'[a].status = assigned[a].status
           \/ c.kind = "edit" /\ a \in DOMAIN c.rows
           \/ /\ c.kind = "submit" /\ c.result.of = a /\ c.result.at = 0
              /\ c.result.outcome = assigned'[a].status
  BY AssignedFacts
<1>4. RowTypes
  BY DEF CycleInv
<1>5. c.result # None => /\ c.kind \in {"submit", "agent"} /\ c.result \in Written
                         /\ c.result.at <= Len(results[c.result.of])
                         /\ c.kind = "submit" => c.result.at = 0
  <2> SUFFICES ASSUME c.result # None
               PROVE  /\ c.kind \in {"submit", "agent"} /\ c.result \in Written
                      /\ c.result.at <= Len(results[c.result.of])
                      /\ c.kind = "submit" => c.result.at = 0
    OBVIOUS
  <2>1. c.kind \in {"submit", "agent"} /\ c.result \in Written
    BY <1>1 DEF RowsInv, SessionKinds
  <2>2. c.kind = "submit" => c.result.at = 0
    BY <1>1 DEF RowsInv
  <2>3. Len(results[c.result.of]) \in Nat
    BY <1>4, <2>1 DEF RowTypes, Written
  <2> QED BY <1>1, <2>1, <2>2, <2>3 DEF RowsInv
<1>6. /\ results' \in [Assignments -> Seq(Outcomes)]
      /\ \A a \in Assignments : Len(results[a]) <= Len(results'[a]) /\ Len(results'[a]) \in Nat
      /\ \A a \in Assignments : c.result = None \/ a # c.result.of \/ c.result.at = 0 =>
           \A i \in DOMAIN results[a] : i \in DOMAIN results'[a] /\ results'[a][i] = results[a][i]
      /\ c.result # None /\ c.result.at = 0 =>
           \E i \in DOMAIN results'[c.result.of] : results'[c.result.of][i] = c.result.outcome
  <2>1. CASE c.result = None
    <3>1. results' = results
      BY <1>2, <2>1 DEF Recorded
    <3> QED BY <1>4, <2>1, <3>1 DEF RowTypes
  <2>2. CASE c.result # None
    <3> DEFINE w == c.result
    <3>1. w \in Written /\ w.at <= Len(results[w.of]) /\ results' = Recorded(w)
      BY <1>2, <1>5, <2>2
    <3> HIDE DEF w
    <3>2. /\ results' \in [Assignments -> Seq(Outcomes)]
          /\ \A a \in Assignments : Len(results[a]) <= Len(results'[a]) /\ Len(results'[a]) \in Nat
          /\ \A a \in Assignments : a # w.of \/ w.at = 0 =>
               \A i \in DOMAIN results[a] : i \in DOMAIN results'[a] /\ results'[a][i] = results[a][i]
          /\ w.at = 0 => \E i \in DOMAIN results'[w.of] : results'[w.of][i] = w.outcome
      BY <1>4, <3>1, RecordedFacts
    <3> QED BY <2>2, <3>2 DEF w
  <2> QED BY <2>1, <2>2
<1> HIDE DEF c
<1>7. RowTypes'
  <2>1. byHand' \subseteq Assignments \cup {"cycle"}
    BY <1>1, <1>2, <1>4, <1>5, RowAssumption DEF RowTypes, RowsInv, Written
  <2>2. cycle' \in CycleStatus /\ queued' \subseteq CycleScripts
    BY <1>1, <1>2, <1>4 DEF RowTypes, StatusInv
  <2> QED BY <1>2, <1>3, <1>4, <1>6, <2>1, <2>2 DEF RowTypes
<1>8. ASSUME NEW p \in CycleRequests
      PROVE  Free(p)' \/ SessionInv(cReq[p])'
  <2>1. CASE p = q
    BY <1>2, <1>4, <2>1 DEF RowTypes, Free, Idle
  <2>2. CASE p # q
    <3>1. cReq'[p] = cReq[p]
      BY <1>2, <1>4, <2>2 DEF RowTypes
    <3>2. Free(p) \/ SessionInv(cReq[p])
      BY DEF CycleInv
    <3>3. CASE Free(p)
      BY <3>1, <3>3 DEF Free
    <3>4. CASE SessionInv(cReq[p])
      <4>1. PICK r : r = cReq'[p]
        OBVIOUS
      <4>2. SessionInv(r)
        BY <3>1, <3>4, <4>1
      <4>3. SessionInv(r)'
        BY <1>3, <1>4, <1>6, <4>2, SessionStays
      <4> QED BY <4>1, <4>3 DEF SessionInv, StatusInv, RowsInv
    <3> QED BY <3>2, <3>3, <3>4
  <2> QED BY <2>1, <2>2
<1>9. StartedMeansQueued'
  <2> SUFFICES ASSUME cycle' = "in_progress", "cycle" \notin byHand'
               PROVE  \E a \in Assignments : Present(a)' /\ assigned'[a].script \in queued'
    BY DEF StartedMeansQueued
  <2>1. CASE c.new = c.read
    <3>1. \E a \in Assignments : Present(a) /\ assigned[a].script \in queued
      BY <1>2, <2>1 DEF CycleInv, StartedMeansQueued
    <3> QED BY <1>2, <1>3, <3>1
  <2>2. CASE c.new # c.read
    <3>1. c.kind = "execute"
      BY <1>1, <1>2, <2>2 DEF StatusInv, SessionKinds
    <3>2. c.runs # {} /\ c.runs \subseteq c.scripts
      BY <1>1, <3>1 DEF StatusInv, Dispatched, SomeDispatched, c
    <3>3. PICK s \in c.runs : IsAssigned(s)
      BY <1>1, <3>2 DEF StatusInv
    <3> QED BY <1>2, <1>3, <3>3 DEF IsAssigned
  <2> QED BY <2>1, <2>2
<1>10. OutcomeHasResult'
  <2> SUFFICES ASSUME NEW a \in Assignments \ byHand', Present(a)', assigned'[a].status \in Outcomes
               PROVE  \E i \in DOMAIN results'[a] : results'[a][i] = assigned'[a].status
    BY DEF OutcomeHasResult
  <2>1. CASE Present(a) /\ assigned'[a].status = assigned[a].status
    <3>1. PICK i \in DOMAIN results[a] : results[a][i] = assigned[a].status
      BY <1>2, <2>1 DEF CycleInv, OutcomeHasResult
    <3>2. c.result = None \/ a # c.result.of \/ c.result.at = 0
      BY <1>2, <1>5 DEF Written
    <3> QED BY <1>6, <2>1, <3>1, <3>2
  <2>2. CASE c.kind = "edit" /\ a \in DOMAIN c.rows
    BY <1>2, <2>2
  <2>3. CASE /\ c.kind = "submit" /\ c.result.of = a /\ c.result.at = 0
             /\ c.result.outcome = assigned'[a].status
    <3>1. c.result # None
      BY <1>1, <2>3, RowAssumption DEF RowsInv
    <3> QED BY <1>6, <2>3, <3>1
  <2> QED BY <1>3, <2>1, <2>2, <2>3
<1> QED BY <1>7, <1>8, <1>9, <1>10 DEF CycleInv

\* What changes no committed row keeps the invariant, if it only ends sessions.
LEMMA QuietKeeps ==
    ASSUME CycleInv, UNCHANGED <<cycle, assigned, results, queued, cRequests, byHand>>,
           approved' \subseteq CycleScripts,
           cReq' = cReq \/ \E q \in CycleRequests : cReq' = [cReq EXCEPT ![q] = Idle]
    PROVE  CycleInv'
<1>1. /\ cReq' = [p \in CycleRequests |-> cReq'[p]]
      /\ \A p \in CycleRequests : cReq'[p] \in {cReq[p], Idle}
  BY DEF CycleInv, RowTypes
<1>2. ASSUME NEW p \in CycleRequests
      PROVE  Free(p)' \/ SessionInv(cReq[p])'
  <2>1. CASE cReq'[p] = Idle
    BY <2>1 DEF Free, Idle
  <2>2. CASE cReq'[p] = cReq[p]
    <3>1. Free(p) \/ SessionInv(cReq[p])
      BY DEF CycleInv
    <3> QED BY <2>2, <3>1 DEF Free, SessionInv, StatusInv, RowsInv, IsAssigned, Present
  <2> QED BY <1>1, <2>1, <2>2
<1>3. StartedMeansQueued' /\ OutcomeHasResult'
  BY DEF CycleInv, StartedMeansQueued, OutcomeHasResult, Present
<1> QED BY <1>1, <1>2, <1>3 DEF CycleInv, RowTypes

\* Every step keeps the invariant.
LEMMA CycleStep == CycleInv /\ [CycleNext]_cycleVars => CycleInv'
<1> SUFFICES ASSUME CycleInv, [CycleNext]_cycleVars
             PROVE  CycleInv'
  OBVIOUS
<1>1. approved \subseteq CycleScripts
  BY DEF CycleInv, RowTypes
<1>2. CASE UNCHANGED cycleVars
  BY <1>1, <1>2, QuietKeeps DEF cycleVars
<1>3. CASE ScriptApproval
  BY <1>1, <1>3, QuietKeeps DEF ScriptApproval
<1>4. ASSUME NEW q \in CycleRequests, RollbackCycle(q)
      PROVE  CycleInv'
  BY <1>1, <1>4, QuietKeeps DEF RollbackCycle
<1>5. ASSUME NEW q \in CycleRequests, UpdateCycle(q) \/ CancelCycle(q)
      PROVE  CycleInv'
  <2>1. CASE UpdateCycle(q)
    BY <2>1, StatusOpens DEF UpdateCycle
  <2>2. CASE CancelCycle(q)
    <3>1. "aborted" \in CycleStatus /\ cycle # "completed" /\ Opens(q, OnCycle("cancel", "aborted", {}))
      BY <2>2 DEF CancelCycle, CycleStatus
    <3> QED BY <3>1, StatusOpens
  <2> QED BY <1>5, <2>1, <2>2
<1> QED
  BY <1>2, <1>3, <1>4, <1>5, EditOpens, SubmitOpens, AgentOpens, AssignOpens, ExecuteOpens,
     DispatchKeeps, CycleCommitKeeps DEF CycleNext

\* The cycle, its assignments, results and requests keep their types.
THEOREM CycleTypes == CycleSpec => []CycleTypeOK
BY CycleStarts, CycleStep, CycleTypesFollow, PTL DEF CycleSpec

\* A cycle that nobody has edited is in progress only when a run of one of its scripts is
\* queued, though execute_all swallows refused dispatches.
THEOREM StartedAlwaysQueued == CycleSpec => []StartedMeansQueued
<1>1. CycleInv => StartedMeansQueued
  BY DEF CycleInv
<1> QED BY <1>1, CycleStarts, CycleStep, PTL DEF CycleSpec

\* An assignment is settled only by one of its results, however the submissions overlap,
\* unless it was edited or an agent has rewritten a result (submit_result,
\* create_test_result).
THEOREM OutcomesHaveResults == CycleSpec => []OutcomeHasResult
<1>1. CycleInv => OutcomeHasResult
  BY DEF CycleInv
<1> QED BY <1>1, CycleStarts, CycleStep, PTL DEF CycleSpec

\* What a commit does to a cycle that is completed or cancelled.
LEMMA CommitSettled ==
    ASSUME CycleInv, NEW q \in CycleRequests, CommitCycle(q),
           NEW s \in {"completed", "aborted"}, cycle = s, cycle' # s
    PROVE  ~Free(q) /\ (cReq[q].kind = "update" \/ cReq[q].read # s)
<1>1. ~Free(q) /\ SessionInv(cReq[q])
  BY DEF CommitCycle, CycleInv
<1>2. cReq[q].new # cReq[q].read /\ cycle' = cReq[q].new
  BY DEF CommitCycle
<1>3. cReq[q].kind \in {"update", "cancel", "execute"}
  BY <1>1, <1>2 DEF SessionInv, StatusInv, SessionKinds
<1>4. CASE cReq[q].kind = "cancel"
  BY <1>1, <1>2, <1>4 DEF SessionInv, StatusInv
<1>5. CASE cReq[q].kind = "execute"
  BY <1>1, <1>2, <1>5 DEF SessionInv, StatusInv
<1> QED BY <1>1, <1>3, <1>4, <1>5

\* Only a commit changes the cycle.
LEMMA SettledStep ==
    ASSUME CycleInv, [CycleNext]_cycleVars, NEW s \in {"completed", "aborted"},
           cycle = s, cycle' # s
    PROVE  \E q \in CycleRequests : ~Free(q) /\ (cReq[q].kind = "update" \/ cReq[q].read # s)
<1>1. \E q \in CycleRequests : CommitCycle(q)
  BY DEF cycleVars, CycleNext, UpdateCycle, CancelCycle, BulkAssign, UpdateAssignment,
         SubmitResult, AgentResult, ExecuteAll, Opens, DispatchOne, RollbackCycle, ScriptApproval
<1> QED BY <1>1, CommitSettled

\* A cancelled or completed cycle changes only by update_cycle, or by a request that had
\* read it before it was settled (cancel_cycle, execute_all).
THEOREM SettledCyclesStay == CycleSpec => SettledCycleStays
<1>1. ASSUME CycleInv, [CycleNext]_cycleVars
      PROVE  [\A s \in {"completed", "aborted"} :
                cycle = s /\ cycle' # s =>
                    \E q \in CycleRequests :
                        ~Free(q) /\ (cReq[q].kind = "update" \/ cReq[q].read # s)]_cycleVars
  BY <1>1, SettledStep
<1> QED BY <1>1, CycleStarts, CycleStep, PTL DEF CycleSpec, SettledCycleStays
=============================================================================
