---------------------------- MODULE ContentProofs ----------------------------
(***************************************************************************)
(* Proofs about what users and agents write, and what is read of it:       *)
(* requirements, their list and import, the output of agents, the pictures *)
(* of their steps, their calls of the language model, reports and exports; *)
(* and what follows for all of MCContent, for any value of the constants.  *)
(***************************************************************************)
EXTENDS MCContent, ScriptsProofs, CyclesProofs, FiniteSetTheorems, TLAPS

-----------------------------------------------------------------------------
(* The quality score (Requirements).                                       *)

\* The text readers can load was last seen now, and an entry of a cache is the score of a
\* text that was seen no more than a TTL before the entry expires.
QualityInv ==
    /\ ReqTypeOK
    /\ \A t \in Texts : /\ lastSeen[t] # None => lastSeen[t] <= clock
                        /\ Visible(req, t) => lastSeen[t] = clock
    /\ \A p \in ApiProcesses : cache[p] # None =>
          \E t \in Texts : /\ Quality(t) = cache[p].result
                           /\ lastSeen[t] # None /\ cache[p].expires <= lastSeen[t] + QualityTTL

\* What the history of texts may do in a step: it forgets nothing and only moves on.
LaterSeen ==
    \A t \in Texts : lastSeen[t] # None => lastSeen'[t] \in Nat /\ lastSeen[t] <= lastSeen'[t]

\* An entry that is as it was is accounted for as before.
LEMMA EntryKept ==
    ASSUME QualityInv, LaterSeen, NEW p \in ApiProcesses, cache'[p] = cache[p],
           cache[p] # None
    PROVE  \E t \in Texts : /\ Quality(t) = cache'[p].result
                            /\ lastSeen'[t] # None /\ cache'[p].expires <= lastSeen'[t] + QualityTTL
<1>1. PICK t \in Texts : /\ Quality(t) = cache[p].result
                         /\ lastSeen[t] # None /\ cache[p].expires <= lastSeen[t] + QualityTTL
  BY DEF QualityInv
<1>2. lastSeen'[t] \in Nat /\ lastSeen[t] <= lastSeen'[t] /\ lastSeen[t] \in Nat /\ lastSeen'[t] # None
  BY <1>1, QualityAssumption DEF LaterSeen, QualityInv, ReqTypeOK
<1>3. cache[p].expires \in Nat /\ QualityTTL \in Nat
  BY QualityAssumption DEF QualityInv, ReqTypeOK
<1>4. cache'[p].expires <= lastSeen'[t] + QualityTTL
  BY <1>1, <1>2, <1>3
<1> QED BY <1>1, <1>2, <1>4

\* The UPDATE of a row is a row.
LEMMA MergedRequirement ==
    ASSUME NEW base \in Requirement, NEW read \in Requirement, NEW new \in Requirement
    PROVE  Merge(base, read, new) \in Requirement
BY DEF Merge, Requirement

\* A request that begins carries two rows.
LEMMA RequestTyped ==
    ASSUME QualityInv, NEW p \in ApiProcesses, NEW new \in Requirement, ReqRequest(p, new)
    PROVE  QualityInv'
<1>1. edits' \in 0 .. MaxEdits
  BY QualityAssumption DEF ReqRequest, QualityInv, ReqTypeOK
<1>2. edit' \in [ApiProcesses ->
                    [read : Requirement, new : Requirement, flushed : BOOLEAN] \cup {None}]
  BY DEF ReqRequest, QualityInv, ReqTypeOK
<1> QED BY <1>1, <1>2 DEF ReqRequest, QualityInv, ReqTypeOK, Visible

\* The rows requests write are rows.
LEMMA WrittenRows ==
    ASSUME req \in Requirement
    PROVE  /\ \A t \in Texts, s \in ReqStatus : [req EXCEPT !.text = t, !.status = s] \in Requirement
           /\ [req EXCEPT !.status = "active"] \in Requirement
           /\ [req EXCEPT !.deleted = TRUE] \in Requirement
BY DEF Requirement, ReqStatus

\* Every step keeps the invariant.
LEMMA QualityStep == QualityInv /\ [ReqNext]_reqVars => QualityInv'
<1> SUFFICES ASSUME QualityInv, [ReqNext]_reqVars PROVE QualityInv'
  OBVIOUS
<1> USE QualityAssumption
<1>0. req \in Requirement
  BY DEF QualityInv, ReqTypeOK
<1>1. ASSUME NEW p \in ApiProcesses, ReqUpdate(p) \/ ApproveRequirement(p) \/ SoftDeleteRequirement(p)
      PROVE  QualityInv'
  BY <1>0, <1>1, WrittenRows, RequestTyped DEF ReqUpdate, ApproveRequirement, SoftDeleteRequirement
<1>2. ASSUME NEW p \in ApiProcesses, ReqFlush(p) PROVE QualityInv'
  <2>1. LaterSeen
    BY <1>2 DEF ReqFlush, LaterSeen, QualityInv, ReqTypeOK
  <2>2. \A q \in ApiProcesses : cache'[q] \in {cache[q], None}
    BY <1>2 DEF ReqFlush, QualityInv, ReqTypeOK
  <2>3. ReqTypeOK'
    BY <1>2 DEF ReqFlush, QualityInv, ReqTypeOK
  <2>4. UNCHANGED <<clock, req, lastSeen>>
    BY <1>2 DEF ReqFlush
  <2>5. \A t \in Texts : /\ lastSeen'[t] # None => lastSeen'[t] <= clock'
                         /\ Visible(req, t)' => lastSeen'[t] = clock'
    BY <2>4 DEF QualityInv, Visible
  <2> QED BY <2>1, <2>2, <2>3, <2>5, EntryKept DEF QualityInv
<1>3. ASSUME NEW p \in ApiProcesses, ReqCommit(p) PROVE QualityInv'
  <2>1. req' \in Requirement /\ clock \in 0 .. MaxQualityTime
    <3>1. edit[p].read \in Requirement /\ edit[p].new \in Requirement /\ clock \in 0 .. MaxQualityTime
      BY <1>3 DEF ReqCommit, QualityInv, ReqTypeOK
    <3>2. req' = Merge(req, edit[p].read, edit[p].new)
      BY <1>3 DEF ReqCommit
    <3> QED BY <1>0, <3>1, <3>2, MergedRequirement
  <2>2. /\ lastSeen' \in [Texts -> 0 .. MaxQualityTime \cup {None}]
        /\ \A t \in Texts : lastSeen'[t] = IF Visible(req, t) \/ Visible(req', t) THEN clock ELSE lastSeen[t]
    <3>1. lastSeen' = [t \in Texts |-> IF Visible(req, t) \/ Visible(req', t) THEN clock ELSE lastSeen[t]]
      BY <1>3 DEF ReqCommit
    <3>2. lastSeen \in [Texts -> 0 .. MaxQualityTime \cup {None}]
      BY DEF QualityInv, ReqTypeOK
    <3> QED BY <2>1, <3>1, <3>2
  <2>3. LaterSeen
    <3> SUFFICES ASSUME NEW t \in Texts, lastSeen[t] # None
                 PROVE  lastSeen'[t] \in Nat /\ lastSeen[t] <= lastSeen'[t]
      BY DEF LaterSeen
    <3>1. lastSeen[t] \in 0 .. MaxQualityTime /\ MaxQualityTime \in Nat /\ lastSeen'[t] \in {clock, lastSeen[t]}
      BY <2>2 DEF QualityInv, ReqTypeOK
    <3>2. lastSeen[t] <= clock
      BY DEF QualityInv
    <3> QED BY <2>1, <3>1, <3>2
  <2>4. ReqTypeOK'
    BY <1>3, <2>1, <2>2 DEF ReqCommit, QualityInv, ReqTypeOK
  <2>5. \A t \in Texts : /\ lastSeen'[t] # None => lastSeen'[t] <= clock'
                         /\ Visible(req, t)' => lastSeen'[t] = clock'
    <3> SUFFICES ASSUME NEW t \in Texts
                 PROVE  /\ lastSeen'[t] # None => lastSeen'[t] <= clock
                        /\ Visible(req', t) => lastSeen'[t] = clock
      BY <1>3 DEF ReqCommit, Visible
    <3>1. /\ lastSeen[t] # None => lastSeen[t] <= clock
          /\ lastSeen'[t] = IF Visible(req, t) \/ Visible(req', t) THEN clock ELSE lastSeen[t]
      BY <2>2 DEF QualityInv
    <3> QED BY <2>1, <3>1
  <2> QED BY <1>3, <2>3, <2>4, <2>5, EntryKept DEF ReqCommit, QualityInv
<1>4. ASSUME NEW p \in ApiProcesses, ReqRollback(p) PROVE QualityInv'
  <2>1. ReqTypeOK'
    BY <1>4 DEF ReqRollback, QualityInv, ReqTypeOK
  <2> QED BY <1>4, <2>1 DEF ReqRollback, QualityInv, Visible
<1>5. ASSUME NEW p \in ApiProcesses, QualityCheck(p) PROVE QualityInv'
  <2>1. LaterSeen /\ UNCHANGED <<clock, req, edit, edits, lastSeen>>
    BY <1>5 DEF QualityCheck, LaterSeen, QualityInv, ReqTypeOK
  <2>2. CASE cache[p] # None /\ cache[p].expires > clock
    BY <1>5, <2>1, <2>2 DEF QualityCheck, CacheHit, QualityInv, ReqTypeOK, Visible
  <2>3. CASE ~(cache[p] # None /\ cache[p].expires > clock)
    <3> DEFINE entry == [expires |-> clock + QualityTTL, result |-> Quality(req.text)]
    <3>1. cache' = [cache EXCEPT ![p] = entry] /\ ~req.deleted /\ req.text \in Texts
      BY <1>0, <1>5, <2>3, Zenon DEF QualityCheck, Requirement
    <3>2. entry \in [expires : Nat, result : {Quality(t) : t \in Texts}]
      BY <3>1 DEF QualityInv, ReqTypeOK
    <3>3. cache' \in [ApiProcesses -> [expires : Nat, result : {Quality(t) : t \in Texts}] \cup {None}]
      BY <3>1, <3>2 DEF QualityInv, ReqTypeOK
    <3>4. ReqTypeOK'
      BY <2>1, <3>3 DEF QualityInv, ReqTypeOK
    <3>5. lastSeen'[req.text] = clock /\ clock \in Nat /\ clock # None
      BY <2>1, <3>1 DEF QualityInv, Visible, ReqTypeOK
    <3>6. cache'[p] = entry /\ \A q \in ApiProcesses : q # p => cache'[q] = cache[q]
      BY <3>1 DEF QualityInv, ReqTypeOK
    <3>7. ASSUME NEW q \in ApiProcesses, cache'[q] # None
          PROVE  \E t \in Texts : /\ Quality(t) = cache'[q].result
                            /\ lastSeen'[t] # None /\ cache'[q].expires <= lastSeen'[t] + QualityTTL
      <4>1. CASE q = p
        <5>1. cache'[q].result = Quality(req.text) /\ cache'[q].expires = clock + QualityTTL
          BY <3>6, <4>1
        <5>2. cache'[q].expires <= lastSeen'[req.text] + QualityTTL
          BY <3>5, <5>1
        <5> QED BY <3>1, <3>5, <5>1, <5>2
      <4>2. CASE q # p
        BY <2>1, <3>6, <3>7, <4>2, EntryKept
      <4> QED BY <4>1, <4>2
    <3>8. \A t \in Texts : /\ lastSeen'[t] # None => lastSeen'[t] <= clock'
                           /\ Visible(req, t)' => lastSeen'[t] = clock'
      BY <2>1 DEF QualityInv, Visible
    <3>9. \A q \in ApiProcesses : cache'[q] # None =>
            \E t \in Texts : /\ Quality(t) = cache'[q].result
                            /\ lastSeen'[t] # None /\ cache'[q].expires <= lastSeen'[t] + QualityTTL
      BY <3>7, Zenon
    <3> QED BY <3>4, <3>8, <3>9, Zenon DEF QualityInv
  <2> QED BY <2>2, <2>3
<1>6. CASE ReqTick
  <2>1. clock' = clock + 1 /\ clock' \in 0 .. MaxQualityTime /\ UNCHANGED <<req, edit, edits, cache>>
    BY <1>6 DEF ReqTick, QualityInv, ReqTypeOK
  <2>2. /\ lastSeen' \in [Texts -> 0 .. MaxQualityTime \cup {None}]
        /\ \A t \in Texts : lastSeen'[t] = IF Visible(req, t) THEN clock' ELSE lastSeen[t]
    BY <1>6, <2>1 DEF ReqTick, QualityInv, ReqTypeOK
  <2>3. LaterSeen
    <3> SUFFICES ASSUME NEW t \in Texts, lastSeen[t] # None
                 PROVE  lastSeen'[t] \in Nat /\ lastSeen[t] <= lastSeen'[t]
      BY DEF LaterSeen
    <3>1. lastSeen[t] \in Nat /\ clock \in Nat
      BY DEF QualityInv, ReqTypeOK
    <3>2. Visible(req, t) => lastSeen[t] = clock
      BY DEF QualityInv
    <3> QED BY <2>1, <2>2, <3>1, <3>2
  <2>4. ReqTypeOK'
    BY <2>1, <2>2 DEF QualityInv, ReqTypeOK
  <2>5. \A t \in Texts : /\ lastSeen'[t] # None => lastSeen'[t] <= clock'
                         /\ Visible(req, t)' => lastSeen'[t] = clock'
    <3> SUFFICES ASSUME NEW t \in Texts
                 PROVE  /\ lastSeen'[t] # None => lastSeen'[t] <= clock'
                        /\ Visible(req, t) => lastSeen'[t] = clock'
      BY <2>1 DEF Visible
    <3>1. /\ lastSeen[t] # None => lastSeen[t] \in Nat /\ lastSeen[t] <= clock
          /\ lastSeen'[t] = IF Visible(req, t) THEN clock' ELSE lastSeen[t]
      BY <2>2 DEF QualityInv, ReqTypeOK
    <3>2. clock \in Nat
      BY DEF QualityInv, ReqTypeOK
    <3> QED BY <2>1, <3>1, <3>2
  <2> QED BY <2>1, <2>3, <2>4, <2>5, EntryKept DEF QualityInv
<1>7. CASE UNCHANGED reqVars
  BY <1>7 DEF reqVars, QualityInv, ReqTypeOK, Visible
<1> QED BY <1>1, <1>2, <1>3, <1>4, <1>5, <1>6, <1>7 DEF ReqNext

\* The text of a new requirement is seen at once, and nothing is cached.
LEMMA QualityStarts == ReqInit => QualityInv
<1> SUFFICES ASSUME ReqInit PROVE QualityInv
  OBVIOUS
<1>1. req \in Requirement
  BY DEF ReqInit, Requirement, ReqStatus
<1>2. ReqTypeOK
  BY <1>1, QualityAssumption DEF ReqInit, ReqTypeOK
<1> QED BY <1>2 DEF ReqInit, QualityInv, Visible

\* No score is served for a text that has been gone for a TTL, whatever the texts, the
\* number of processes, the TTL and the edits (quality_check and update of
\* requirement_service.py).
THEOREM StaleScoresExpire == ReqSpec => []StaleAtMostTTL
<1>1. ASSUME QualityInv PROVE StaleAtMostTTL
  <2> SUFFICES ASSUME NEW p \in ApiProcesses, cache[p] # None, cache[p].expires > clock
               PROVE  \E t \in Texts : /\ Quality(t) = cache[p].result
                                       /\ lastSeen[t] # None /\ clock < lastSeen[t] + QualityTTL
    BY DEF StaleAtMostTTL
  <2>1. PICK t \in Texts : /\ Quality(t) = cache[p].result
                           /\ lastSeen[t] # None /\ cache[p].expires <= lastSeen[t] + QualityTTL
    BY <1>1 DEF QualityInv
  <2>2. lastSeen[t] \in Nat /\ clock \in Nat /\ cache[p].expires \in Nat /\ QualityTTL \in Nat
    BY <1>1, <2>1, QualityAssumption DEF QualityInv, ReqTypeOK
  <2> QED BY <2>1, <2>2
<1> QED BY <1>1, QualityStarts, QualityStep, PTL DEF ReqSpec

-----------------------------------------------------------------------------
(* The list of requirements (RequirementPages).                            *)

\* Row r was listed all the while: it was given, or was skipped at the end of a page, or
\* is still ahead of the cursor.
Accounted(r) == r \in got \/ created[r] \in pageEnds \/ (reading /\ Before(r))

\* What the reader has been given was created at the cursor or later, so it is not ahead;
\* and nothing that was listed all the while is forgotten.
PageInv ==
    /\ PageTypeOK /\ stable \subseteq Listed
    /\ ~twice
    /\ reading => \A r \in got : cutoff # None /\ created[r] # None /\ created[r] >= cutoff
    /\ \A r \in stable : Accounted(r)

\* A page leaves its reader with all that was ahead and is ahead no more.
LEMMA PageRead == PageInv /\ ReadPage => PageInv'
<1> SUFFICES ASSUME PageInv, ReadPage PROVE PageInv'
  OBVIOUS
<1> USE PageAssumption
<1> DEFINE Ahead == {r \in Listed : Before(r)}
<1>1. /\ created \in [Requirements -> Instants \cup {None}] /\ Instants \subseteq Nat /\ None \notin Nat
      /\ cutoff \in Instants \cup {None} /\ pageEnds \subseteq Instants
      /\ gone \cup got \cup stable \subseteq Requirements /\ stable \subseteq Listed
      /\ reading \in BOOLEAN
  BY DEF PageInv, PageTypeOK
<1>2. reading /\ UNCHANGED <<created, gone, stable>>
  BY DEF ReadPage
<1>3. PICK given \in SUBSET Ahead :
        LET rest == Ahead \ given IN
        /\ Cardinality(given) <= PageLimit /\ (rest # {} => Cardinality(given) = PageLimit)
        /\ \A r \in given, s \in rest : created[r] >= created[s]
        /\ got' = got \cup given
        /\ twice' = (twice \/ got \cap given # {})
        /\ IF Cardinality(given) = PageLimit
             THEN \E last \in given :
                    /\ \A r \in given : created[last] <= created[r]
                    /\ cutoff' = created[last]
                    /\ pageEnds' = pageEnds \cup {created[last]}
                    /\ UNCHANGED reading
             ELSE reading' = FALSE /\ UNCHANGED <<cutoff, pageEnds>>
  BY Zenon DEF ReadPage
<1>4. \A r \in Ahead : created[r] \in Instants /\ created[r] \in Nat /\ r \in Requirements
  BY <1>1 DEF Listed
<1>5. got \cap given = {}
  <2> SUFFICES ASSUME NEW r \in got, r \in given PROVE FALSE
    OBVIOUS
  <2>1. cutoff # None /\ created[r] >= cutoff
    BY <1>2 DEF PageInv
  <2>2. created[r] < cutoff /\ created[r] \in Nat /\ cutoff \in Nat
    BY <1>1, <1>4, <2>1 DEF Before
  <2> QED BY <2>1, <2>2
<1>6. twice' = FALSE
  BY <1>3, <1>5, Zenon DEF PageInv
<1>7. got' = got \cup given /\ got' \subseteq Requirements
  BY <1>1, <1>3, <1>4
<1>8. Listed' = Listed
  BY <1>2 DEF Listed
<1>9. CASE Cardinality(given) = PageLimit
  <2>1. PICK last \in given : /\ \A r \in given : created[last] <= created[r]
                             /\ cutoff' = created[last]
                             /\ pageEnds' = pageEnds \cup {created[last]}
                             /\ UNCHANGED reading
    BY <1>3, <1>9
  <2>2. created[last] \in Instants /\ created[last] \in Nat /\ cutoff' # None
    BY <1>1, <1>4, <2>1
  <2>3. PageTypeOK'
    BY <1>1, <1>2, <1>6, <1>7, <2>1, <2>2 DEF PageTypeOK
  <2>4. \A r \in got' : created[r] # None /\ created[r] >= created[last]
    <3> SUFFICES ASSUME NEW r \in got' PROVE created[r] # None /\ created[r] >= created[last]
      OBVIOUS
    <3>1. CASE r \in given
      BY <1>1, <1>4, <2>1, <3>1
    <3>2. CASE r \in got
      <4>1. cutoff # None /\ created[r] # None /\ created[r] >= cutoff
        BY <1>2, <3>2 DEF PageInv
      <4>2. created[last] < cutoff /\ cutoff \in Nat /\ created[r] \in Nat
        BY <1>1, <2>2, <3>2, <4>1 DEF Before
      <4> QED BY <2>2, <4>1, <4>2
    <3> QED BY <1>7, <3>1, <3>2
  <2>5. ASSUME NEW r \in stable PROVE r \in got' \/ created[r] \in pageEnds' \/ created[r] < created[last]
    <3>1. CASE r \in got \/ created[r] \in pageEnds
      BY <1>7, <2>1, <3>1
    <3>2. CASE Before(r) /\ r \notin given
      <4>1. r \in Ahead \ given
        BY <1>1, <3>2
      <4>2. created[last] >= created[r] /\ created[r] \in Nat
        BY <1>3, <1>4, <4>1
      <4> QED BY <2>1, <2>2, <4>2
    <3>3. CASE r \in given
      BY <1>7, <3>3
    <3> QED BY <3>1, <3>2, <3>3 DEF PageInv, Accounted
  <2>6. \A r \in stable' : Accounted(r)'
    BY <1>2, <2>1, <2>5 DEF Accounted, Before
  <2> QED BY <1>1, <1>2, <1>6, <1>8, <2>1, <2>2, <2>3, <2>4, <2>6 DEF PageInv
<1>10. CASE Cardinality(given) # PageLimit
  <2>1. reading' = FALSE /\ UNCHANGED <<cutoff, pageEnds>> /\ Ahead \ given = {}
    BY <1>3, <1>10
  <2>2. PageTypeOK'
    BY <1>1, <1>2, <1>6, <1>7, <2>1 DEF PageTypeOK
  <2>3. ASSUME NEW r \in stable PROVE r \in got' \/ created[r] \in pageEnds
    BY <1>1, <1>7, <2>1 DEF PageInv, Accounted
  <2> QED BY <1>1, <1>2, <1>6, <1>8, <2>1, <2>2, <2>3 DEF PageInv, Accounted
<1> QED BY <1>9, <1>10

\* Every step keeps the invariant.
LEMMA PageStep == PageInv /\ [PageNext]_pageVars => PageInv'
<1> SUFFICES ASSUME PageInv, [PageNext]_pageVars PROVE PageInv'
  OBVIOUS
<1> USE PageAssumption
<1>1. CASE SaveRequirements
  <2>1. PICK rows \in SUBSET {r \in Requirements : created[r] = None} \ {{}}, t \in Instants :
          created' = [r \in Requirements |-> IF r \in rows THEN t ELSE created[r]]
    BY <1>1 DEF SaveRequirements
  <2>2. UNCHANGED <<gone, reading, cutoff, got, twice, stable, pageEnds>>
    BY <1>1 DEF SaveRequirements
  <2>3. \A r \in Requirements : created[r] # None => created'[r] = created[r]
    BY <2>1
  <2>4. created' \in [Requirements -> Instants \cup {None}] /\ Listed \subseteq Listed'
    BY <2>1, <2>2, <2>3 DEF PageInv, PageTypeOK, Listed
  <2>5. got \subseteq Requirements /\ stable \subseteq Listed /\ stable \subseteq Requirements
    BY DEF PageInv, PageTypeOK
  <2>6. \A r \in stable : created'[r] = created[r]
    BY <2>3, <2>5 DEF Listed
  <2>7. \A r \in stable' : Accounted(r)'
    BY <2>2, <2>6 DEF PageInv, Accounted, Before
  <2>8. PageTypeOK'
    BY <2>2, <2>4 DEF PageInv, PageTypeOK
  <2>9. reading' => \A r \in got' : cutoff' # None /\ created'[r] # None /\ created'[r] >= cutoff'
    BY <2>2, <2>3, <2>5 DEF PageInv
  <2> QED BY <2>2, <2>4, <2>5, <2>7, <2>8, <2>9 DEF PageInv
<1>2. CASE DeleteRequirements
  <2>1. PICK rows \in (SUBSET Listed) \ {{}} : gone' = gone \cup rows /\ stable' = stable \ rows
    BY <1>2 DEF DeleteRequirements
  <2>2. UNCHANGED <<created, reading, cutoff, got, twice, pageEnds>>
    BY <1>2 DEF DeleteRequirements
  <2>3. stable' \subseteq stable /\ stable' \subseteq Listed' /\ gone' \subseteq Requirements
    BY <2>1, <2>2 DEF PageInv, PageTypeOK, Listed
  <2>4. \A r \in stable' : Accounted(r)'
    BY <2>2, <2>3 DEF PageInv, Accounted, Before
  <2> QED BY <2>2, <2>3, <2>4 DEF PageInv, PageTypeOK
<1>3. CASE StartReading
  <2>1. /\ reading' = TRUE /\ cutoff' = None /\ got' = {} /\ twice' = FALSE
        /\ stable' = Listed /\ pageEnds' = {} /\ UNCHANGED <<created, gone>> /\ Listed' = Listed
    BY <1>3 DEF StartReading, Listed
  <2>2. Listed \subseteq Requirements
    BY DEF Listed
  <2> QED BY <2>1, <2>2 DEF PageInv, PageTypeOK, Accounted, Before
<1>4. CASE ReadPage
  BY <1>4, PageRead
<1>5. CASE UNCHANGED pageVars
  BY <1>5 DEF pageVars, PageInv, PageTypeOK, Listed, Accounted, Before
<1> QED BY <1>1, <1>2, <1>3, <1>4, <1>5 DEF PageNext

\* Nobody reads at first.
LEMMA PagesStart == PageInit => PageInv
BY DEF PageInit, PageInv, PageTypeOK, Listed, Accounted

\* Following the cursors gives every requirement that stays, once, but for those created at
\* the instant of a page's end, whatever the limit and whatever others save and delete
\* (list_for_system_paginated).
THEOREM WalkIsComplete == PageSpec => []WalkComplete
<1>1. PageInv => WalkComplete
  BY DEF PageInv, WalkComplete, Accounted
<1> QED BY <1>1, PagesStart, PageStep, PTL DEF PageSpec

-----------------------------------------------------------------------------
(* The import of files (RequirementImport).                                *)

\* The lines these previews show, and those of the one under way.
ShownIn(ps) == UNION {Shown(ps[i]) : i \in DOMAIN ps}
UnderWayLines == (IF title = 0 THEN {} ELSE {title}) \cup {lines[k] : k \in DOMAIN lines}

\* Previews in the order of the file.
Orderly(ps) ==
    /\ \A i \in DOMAIN ps : InOrder(ps[i])
    /\ \A i, j \in DOMAIN ps : i < j => \A m \in Shown(ps[i]), n \in Shown(ps[j]) : m < n

\* The preview under way is in order, and goes on from the finished ones.
WayInv ==
    /\ \A m \in ShownIn(previews), n \in UnderWayLines : m < n
    /\ \A k \in DOMAIN lines : title < lines[k]
    /\ \A j, k \in DOMAIN lines : j < k => lines[j] < lines[k]

\* A block has a title; a docx has none under way before its first heading.
TitleInv ==
    /\ parser = "text" /\ title = 0 => lines = <<>>
    /\ parser = "docx" => IF title = 0 THEN previews = <<>> /\ Headings = {} ELSE title \in Headings

\* The invariant: of what has been read, nothing is missing from the previews finished and
\* under way but what comes before the first heading of a docx.
ImportInv ==
    /\ ImportTypeOK /\ (parsed => ImportKeepsText)
    /\ ~parsed => /\ Orderly(previews) /\ WayInv /\ TitleInv
                  /\ ShownIn(previews) \cup UnderWayLines = TextLines \ Dropped

\* The file with another line.
LEMMA LineFacts ==
    ASSUME ImportTypeOK, NEW kind \in Kinds, NEW n, NextLine(kind, n)
    PROVE  /\ n \in Nat \ {0} /\ n \notin DOMAIN file /\ \A m \in DOMAIN file : m < n /\ m \in Nat \ {0}
           /\ file' \in Seq(Kinds) /\ UNCHANGED <<parser, crlf, parsed>>
           /\ TextLines' = IF kind \in TextKinds THEN TextLines \cup {n} ELSE TextLines
           /\ Headings' = IF kind = "heading" THEN Headings \cup {n} ELSE Headings
           /\ Headings \subseteq TextLines /\ TextLines \subseteq DOMAIN file
<1>1. file \in Seq(Kinds) /\ Len(file) \in Nat /\ DOMAIN file = 1 .. Len(file)
  BY DEF ImportTypeOK
<1>2. n = Len(file) + 1 /\ file' = Append(file, kind) /\ UNCHANGED <<parser, crlf, parsed>>
  BY DEF NextLine
<1>3. /\ n \in Nat \ {0} /\ n \notin DOMAIN file /\ file' \in Seq(Kinds)
      /\ DOMAIN file' = DOMAIN file \cup {n} /\ file'[n] = kind
      /\ \A m \in DOMAIN file : file'[m] = file[m] /\ m < n /\ m \in Nat \ {0}
  BY <1>1, <1>2
<1>4. TextLines' = IF kind \in TextKinds THEN TextLines \cup {n} ELSE TextLines
  BY <1>3 DEF TextLines
<1>5. Headings' = IF kind = "heading" THEN Headings \cup {n} ELSE Headings
  BY <1>3 DEF Headings
<1>6. Headings \subseteq TextLines /\ TextLines \subseteq DOMAIN file
  BY DEF Headings, TextLines, TextKinds
<1> QED BY <1>2, <1>3, <1>4, <1>5, <1>6

\* What is known while a file is read.
LEMMA ReadingFacts ==
    ASSUME ImportInv, ~parsed
    PROVE  /\ Orderly(previews) /\ WayInv /\ TitleInv /\ ImportTypeOK
           /\ ShownIn(previews) \cup UnderWayLines = TextLines \ Dropped
BY DEF ImportInv

\* The preview under way, when it is finished.
LEMMA FlushFacts ==
    ASSUME ImportInv, ~parsed
    PROVE  /\ Flushed \in Seq(Preview) /\ Orderly(Flushed)
           /\ ShownIn(Flushed) = ShownIn(previews) \cup (IF title = 0 THEN {} ELSE UnderWayLines)
<1>1. CASE title = 0
  BY <1>1 DEF Flushed, ImportInv, ImportTypeOK
<1>2. CASE title # 0
  <2> DEFINE p == [title |-> title, description |-> IF lines = <<>> THEN <<title>> ELSE lines]
  <2>1. /\ Flushed = Append(previews, p) /\ p \in Preview /\ previews \in Seq(Preview)
        /\ p.title = title /\ p.description = IF lines = <<>> THEN <<title>> ELSE lines
        /\ lines \in Seq(Nat) /\ title \in Nat
    BY <1>2 DEF Flushed, ImportInv, ImportTypeOK, Preview
  <2> HIDE DEF p
  <2>2. Shown(p) = UnderWayLines
    <3>1. CASE lines = <<>>
      BY <1>2, <2>1, <3>1 DEF Shown, UnderWayLines
    <3>2. CASE lines # <<>>
      BY <1>2, <2>1, <3>2 DEF Shown, UnderWayLines
    <3> QED BY <3>1, <3>2
  <2>3. WayInv /\ Orderly(previews)
    BY ReadingFacts
  <2>4. InOrder(p)
    <3>1. CASE lines = <<>>
      BY <2>1, <3>1 DEF InOrder
    <3>2. CASE lines # <<>>
      BY <2>1, <2>3, <3>2 DEF InOrder, WayInv
    <3> QED BY <3>1, <3>2
  <2> DEFINE N == Len(previews)
  <2>5. /\ Flushed \in Seq(Preview) /\ DOMAIN Flushed = DOMAIN previews \cup {N + 1} /\ N \in Nat
        /\ DOMAIN previews = 1 .. N
        /\ Flushed[N + 1] = p /\ \A i \in DOMAIN previews : Flushed[i] = previews[i]
    BY <2>1
  <2> HIDE DEF N
  <2>6. ShownIn(Flushed) = ShownIn(previews) \cup Shown(p)
    BY <2>5 DEF ShownIn
  <2>7. Orderly(Flushed)
    <3>1. \A i \in DOMAIN Flushed : InOrder(Flushed[i])
      BY <2>3, <2>4, <2>5 DEF Orderly
    <3>2. ASSUME NEW i \in DOMAIN Flushed, NEW j \in DOMAIN Flushed, i < j,
                 NEW m \in Shown(Flushed[i]), NEW k \in Shown(Flushed[j])
          PROVE  m < k
      <4>1. i \in DOMAIN previews
        BY <2>5, <3>2
      <4>2. CASE j \in DOMAIN previews
        BY <2>3, <2>5, <3>2, <4>1, <4>2 DEF Orderly
      <4>3. CASE j = N + 1
        <5>1. m \in ShownIn(previews) /\ k \in UnderWayLines
          BY <2>2, <2>5, <3>2, <4>1, <4>3 DEF ShownIn
        <5> QED BY <2>3, <5>1 DEF WayInv
      <4> QED BY <2>5, <4>2, <4>3
    <3> QED BY <3>1, <3>2 DEF Orderly
  <2> QED BY <1>2, <2>2, <2>5, <2>6, <2>7
<1> QED BY <1>1, <1>2

\* A line begins a preview, or ends the block that is under way.
LEMMA LineBegins ==
    ASSUME ImportInv, NEW kind \in Kinds, NEW n, NEW t, NextLine(kind, n), Begin(t),
           \/ t = n /\ kind \in TextKinds /\ (parser = "docx" => kind = "heading")
                    /\ (parser = "text" => title = 0)
           \/ t = 0 /\ parser = "text" /\ kind \notin TextKinds
    PROVE  ImportInv'
<1>1. ~parsed /\ ImportTypeOK
  BY DEF NextLine, ImportInv
<1>2. /\ n \in Nat \ {0} /\ n \notin DOMAIN file /\ \A m \in DOMAIN file : m < n /\ m \in Nat \ {0}
      /\ file' \in Seq(Kinds) /\ UNCHANGED <<parser, crlf, parsed>>
      /\ TextLines' = IF kind \in TextKinds THEN TextLines \cup {n} ELSE TextLines
      /\ Headings' = IF kind = "heading" THEN Headings \cup {n} ELSE Headings
      /\ Headings \subseteq TextLines /\ TextLines \subseteq DOMAIN file
  BY <1>1, LineFacts
<1>3. title' = t /\ lines' = <<>> /\ previews' = Flushed
  BY DEF Begin
<1>4. /\ Flushed \in Seq(Preview) /\ Orderly(Flushed)
      /\ ShownIn(Flushed) = ShownIn(previews) \cup (IF title = 0 THEN {} ELSE UnderWayLines)
  BY <1>1, FlushFacts
<1>5. /\ WayInv /\ TitleInv /\ ShownIn(previews) \cup UnderWayLines = TextLines \ Dropped
  BY <1>1, ReadingFacts
<1>6. ImportTypeOK'
  BY <1>1, <1>2, <1>3, <1>4 DEF ImportTypeOK
<1>7. UnderWayLines' = IF t = 0 THEN {} ELSE {t}
  BY <1>3 DEF UnderWayLines
<1>8. ShownIn(previews)' = ShownIn(Flushed) /\ ShownIn(Flushed) \subseteq DOMAIN file
  BY <1>2, <1>3, <1>4, <1>5 DEF ShownIn, Shown
<1>9. WayInv'
  BY <1>2, <1>3, <1>7, <1>8 DEF WayInv
<1>10. TitleInv'
  BY <1>2, <1>3 DEF TitleInv
<1>11. (ShownIn(previews) \cup UnderWayLines = TextLines \ Dropped)'
  <2>1. CASE parser = "text"
    <3>1. Dropped = {} /\ Dropped' = {}
      BY <1>2, <2>1 DEF Dropped
    <3>2. title = 0 => UnderWayLines = {}
      BY <1>5, <2>1 DEF UnderWayLines, TitleInv
    <3> QED BY <1>2, <1>4, <1>5, <1>7, <1>8, <2>1, <3>1, <3>2
  <2>2. CASE parser = "docx" /\ title = 0
    <3>1. previews = <<>> /\ Headings = {} /\ t = n /\ Headings' = {n} /\ TextLines' = TextLines \cup {n}
      BY <1>2, <1>5, <2>2 DEF TitleInv, TextKinds
    <3>2. ShownIn(Flushed) = {}
      BY <2>2, <3>1 DEF Flushed, ShownIn
    <3>3. Dropped' = TextLines
      BY <1>2, <2>2, <3>1 DEF Dropped
    <3> QED BY <1>2, <1>7, <1>8, <3>1, <3>2, <3>3
  <2>3. CASE parser = "docx" /\ title # 0
    <3>1. title \in Headings /\ t = n /\ Headings' = Headings \cup {n} /\ TextLines' = TextLines \cup {n}
      BY <1>2, <1>5, <2>3 DEF TitleInv, TextKinds
    <3>2. Dropped' = Dropped
      <4>1. \A m \in TextLines : m < n /\ (\A h \in Headings' : m < h) <=> (\A h \in Headings : m < h)
        BY <1>2, <3>1
      <4>2. ~\A h \in Headings' : n < h
        BY <1>2, <3>1
      <4> QED BY <1>2, <3>1, <4>1, <4>2 DEF Dropped
    <3>3. n \notin Dropped
      BY <1>2 DEF Dropped
    <3> QED BY <1>2, <1>4, <1>5, <1>7, <1>8, <2>3, <3>1, <3>2, <3>3
  <2> QED BY <1>1, <2>1, <2>2, <2>3 DEF ImportTypeOK
<1>12. Orderly(previews)'
  BY <1>3, <1>4 DEF Orderly, InOrder, Shown
<1> QED BY <1>1, <1>2, <1>6, <1>9, <1>10, <1>11, <1>12 DEF ImportInv

\* A line goes on with the preview under way.
LEMMA LineContinues ==
    ASSUME ImportInv, NEW kind \in TextKinds, NEW n, NextLine(kind, n), Continue(n),
           IF parser = "text" THEN title # 0 ELSE kind # "heading"
    PROVE  ImportInv'
<1>1. ~parsed /\ ImportTypeOK /\ kind \in Kinds
  BY DEF NextLine, ImportInv, Kinds
<1>2. /\ n \in Nat \ {0} /\ n \notin DOMAIN file /\ \A m \in DOMAIN file : m < n /\ m \in Nat \ {0}
      /\ file' \in Seq(Kinds) /\ UNCHANGED <<parser, crlf, parsed>>
      /\ TextLines' = TextLines \cup {n}
      /\ Headings' = IF kind = "heading" THEN Headings \cup {n} ELSE Headings
      /\ Headings \subseteq TextLines /\ TextLines \subseteq DOMAIN file
  BY <1>1, LineFacts
<1>3. lines' = Append(lines, n) /\ title' = title /\ previews' = previews
  BY DEF Continue
<1>4. ImportTypeOK'
  BY <1>1, <1>2, <1>3 DEF ImportTypeOK
<1>5. /\ Orderly(previews) /\ WayInv /\ TitleInv
      /\ ShownIn(previews) \cup UnderWayLines = TextLines \ Dropped
  BY <1>1, ReadingFacts
<1> DEFINE K == Len(lines)
<1>6. /\ DOMAIN lines' = DOMAIN lines \cup {K + 1} /\ K \in Nat /\ DOMAIN lines = 1 .. K
      /\ lines'[K + 1] = n /\ \A k \in DOMAIN lines : lines'[k] = lines[k]
  BY <1>1, <1>3 DEF ImportTypeOK
<1> HIDE DEF K
<1>7. UnderWayLines' = UnderWayLines \cup {n} /\ ShownIn(previews)' = ShownIn(previews)
  BY <1>3, <1>6 DEF UnderWayLines, ShownIn, Shown
<1>8. /\ \A m \in ShownIn(previews) \cup UnderWayLines : m < n
      /\ title < n
  BY <1>2, <1>5 DEF UnderWayLines
<1>9. WayInv'
  <2>1. \A m \in ShownIn(previews)', l \in UnderWayLines' : m < l
    BY <1>5, <1>7, <1>8 DEF WayInv
  <2>2. \A k \in DOMAIN lines' : title' < lines'[k]
    BY <1>3, <1>5, <1>6, <1>8 DEF WayInv
  <2>3. \A k \in DOMAIN lines : lines[k] < n
    BY <1>8 DEF UnderWayLines
  <2>4. \A j, k \in DOMAIN lines' : j < k => lines'[j] < lines'[k]
    BY <1>5, <1>6, <2>3 DEF WayInv
  <2> QED BY <2>1, <2>2, <2>4 DEF WayInv
<1>10. TitleInv'
  BY <1>2, <1>3, <1>5 DEF TitleInv
<1>11. Dropped' = Dropped /\ n \notin Dropped
  <2>1. n \notin Dropped
    BY <1>2 DEF Dropped
  <2>2. CASE parser = "text"
    BY <1>2, <2>2 DEF Dropped
  <2>3. CASE parser = "docx"
    <3>1. Headings' = Headings /\ (title # 0 => title \in Headings) /\ (title = 0 => Headings = {})
      BY <1>2, <1>5, <2>3 DEF TitleInv
    <3>2. Headings = {} \/ ~\A h \in Headings : n < h
      BY <1>2, <3>1
    <3> QED BY <1>2, <3>1, <3>2 DEF Dropped
  <2> QED BY <1>1, <2>1, <2>2, <2>3 DEF ImportTypeOK
<1>12. (ShownIn(previews) \cup UnderWayLines = TextLines \ Dropped)'
  BY <1>2, <1>5, <1>7, <1>11
<1>13. Orderly(previews)'
  BY <1>3, <1>5 DEF Orderly, InOrder, Shown
<1> QED BY <1>1, <1>2, <1>4, <1>9, <1>10, <1>12, <1>13 DEF ImportInv

\* A line without text is passed over.
LEMMA LinePassedOver ==
    ASSUME ImportInv, NEW kind \in Kinds, kind \notin TextKinds, NEW n, NextLine(kind, n), PassOver
    PROVE  ImportInv'
<1>1. ~parsed /\ ImportTypeOK
  BY DEF NextLine, ImportInv
<1>2. /\ file' \in Seq(Kinds) /\ UNCHANGED <<parser, crlf, parsed>>
      /\ TextLines' = TextLines /\ Headings' = Headings
  BY <1>1, LineFacts DEF TextKinds
<1>3. UNCHANGED <<title, lines, previews>>
  BY DEF PassOver
<1>4. ImportTypeOK'
  BY <1>1, <1>2, <1>3 DEF ImportTypeOK
<1>5. Dropped' = Dropped /\ UnderWayLines' = UnderWayLines /\ ShownIn(previews)' = ShownIn(previews)
  BY <1>2, <1>3 DEF Dropped, UnderWayLines, ShownIn, Shown
<1>6. /\ Orderly(previews) /\ WayInv /\ TitleInv
      /\ ShownIn(previews) \cup UnderWayLines = TextLines \ Dropped
  BY <1>1, ReadingFacts
<1>7. WayInv' /\ TitleInv' /\ Orderly(previews)'
  BY <1>2, <1>3, <1>5, <1>6 DEF WayInv, TitleInv, Orderly, InOrder, Shown
<1> QED BY <1>1, <1>2, <1>4, <1>5, <1>6, <1>7 DEF ImportInv

\* At the end of the file what is under way is finished, and a docx without a heading whole.
LEMMA FileEnds ==
    ASSUME ImportInv, EndOfFile
    PROVE  ImportInv'
<1>1. ~parsed /\ parsed' = TRUE /\ previews' = Finished /\ UNCHANGED <<parser, crlf, file, title, lines>>
  BY DEF EndOfFile
<1>2. /\ Orderly(previews) /\ WayInv /\ TitleInv /\ ImportTypeOK
      /\ ShownIn(previews) \cup UnderWayLines = TextLines \ Dropped
  BY <1>1, ReadingFacts
<1>3. NoText <=> TextLines = {}
  <2>1. CASE parser = "docx"
    BY <2>1 DEF NoText
  <2>2. CASE parser = "text"
    <3>1. Dropped = {} /\ (title = 0 => UnderWayLines = {})
      BY <1>2, <2>2 DEF Dropped, TitleInv, UnderWayLines
    <3>2. Flushed \in Seq(Preview) /\ ShownIn(Flushed) = TextLines
      BY <1>1, <1>2, <3>1, FlushFacts
    <3>3. ASSUME Flushed # <<>> PROVE ShownIn(Flushed) # {}
      <4>1. 1 \in DOMAIN Flushed /\ Flushed[1].title \in Shown(Flushed[1])
        BY <3>2, <3>3 DEF Shown
      <4> QED BY <4>1 DEF ShownIn
    <3>4. Flushed = <<>> => ShownIn(Flushed) = {}
      BY DEF ShownIn
    <3> QED BY <2>2, <3>2, <3>3, <3>4 DEF NoText
  <2> QED BY <1>2, <2>1, <2>2 DEF ImportTypeOK
<1>4. ~NoText => /\ Finished \in Seq(Preview) /\ Orderly(Finished)
                 /\ ShownIn(Finished) = ShownIn(previews) \cup UnderWayLines
  <2> SUFFICES ASSUME ~NoText
               PROVE  /\ Finished \in Seq(Preview) /\ Orderly(Finished)
                      /\ ShownIn(Finished) = ShownIn(previews) \cup UnderWayLines
    OBVIOUS
  <2>1. CASE Whole
    <3> DEFINE p == [title |-> lines[1], description |-> lines]
    <3>1. /\ previews = <<>> /\ title = 0 /\ lines # <<>> /\ Finished = <<p>>
          /\ lines \in Seq(Nat) /\ lines[1] \in Nat /\ 1 \in DOMAIN lines
      BY <1>2, <2>1 DEF Whole, Finished, ImportTypeOK
    <3>2. p \in Preview /\ p.title = lines[1] /\ p.description = lines
      BY <3>1 DEF Preview
    <3> HIDE DEF p
    <3>3. Shown(p) = UnderWayLines
      BY <3>1, <3>2 DEF Shown, UnderWayLines
    <3>4. InOrder(p)
      <4>1. \A k \in DOMAIN lines : k \in Nat /\ (k = 1 \/ 1 < k) /\ lines[k] \in Nat
        BY <3>1
      <4>2. \A k \in DOMAIN lines : lines[1] <= lines[k]
        BY <1>2, <3>1, <4>1 DEF WayInv
      <4> QED BY <1>2, <3>2, <4>2 DEF InOrder, WayInv
    <3>5. DOMAIN <<p>> = {1} /\ <<p>>[1] = p
      OBVIOUS
    <3>6. ShownIn(<<p>>) = Shown(p) /\ Orderly(<<p>>)
      BY <3>4, <3>5 DEF ShownIn, Orderly
    <3>7. ShownIn(previews) = {}
      BY <3>1 DEF ShownIn
    <3> QED BY <3>1, <3>2, <3>3, <3>6, <3>7
  <2>2. CASE ~Whole
    <3>1. Finished = Flushed
      BY <2>2 DEF Finished
    <3>2. title = 0 => UnderWayLines = {}
      <4>1. title = 0 => lines = <<>>
        BY <1>2, <2>2 DEF Whole, TitleInv, ImportTypeOK
      <4> QED BY <4>1 DEF UnderWayLines
    <3> QED BY <1>1, <3>1, <3>2, FlushFacts
  <2> QED BY <2>1, <2>2
<1>5. NoText => Finished = <<MadeUp>> /\ <<MadeUp>> \in Seq(Preview)
  <2>1. MadeUp \in Preview
    BY DEF MadeUp, Preview
  <2> QED BY <2>1 DEF Finished
<1>6. ImportTypeOK'
  <2>1. Finished \in Seq(Preview)
    BY <1>4, <1>5
  <2> QED BY <1>1, <1>2, <2>1 DEF ImportTypeOK
<1>7. ImportKeepsText'
  <2>1. TextLines' = TextLines /\ Headings' = Headings
    BY <1>1 DEF TextLines, Headings
  <2>2. Dropped' = Dropped
    BY <1>1, <2>1 DEF Dropped
  <2>3. CASE NoText
    BY <1>1, <1>3, <1>5, <2>1, <2>3 DEF ImportKeepsText, MadeUp
  <2>4. CASE ~NoText
    <3>1. ShownIn(Finished) = TextLines' \ Dropped' /\ TextLines' # {}
      BY <1>2, <1>3, <1>4, <2>1, <2>2, <2>4
    <3>2. Orderly(Finished)
      BY <1>4, <2>4
    <3> QED BY <1>1, <3>1, <3>2 DEF ImportKeepsText, Orderly, InOrder, Shown, ShownIn
  <2> QED BY <2>3, <2>4
<1> QED BY <1>1, <1>6, <1>7 DEF ImportInv

LEMMA ImportStarts == ImportInit => ImportInv
<1> SUFFICES ASSUME ImportInit PROVE ImportInv
  OBVIOUS
<1>1. ~parsed /\ file = <<>> /\ previews = <<>> /\ lines = <<>> /\ title = 0
  BY DEF ImportInit
<1>2. ImportTypeOK
  <2>1. parser \in {"text", "docx"} /\ crlf \in BOOLEAN /\ parsed \in BOOLEAN
    BY DEF ImportInit
  <2>2. file \in Seq(Kinds) /\ lines \in Seq(Nat) /\ previews \in Seq(Preview)
    BY <1>1
  <2> QED BY <1>1, <2>1, <2>2 DEF ImportTypeOK
<1>3. TextLines = {} /\ Headings = {} /\ UnderWayLines = {} /\ ShownIn(previews) = {}
  BY <1>1 DEF TextLines, Headings, UnderWayLines, ShownIn
<1>4. DOMAIN previews = {} /\ DOMAIN lines = {}
  BY <1>1
<1>5. Orderly(previews) /\ WayInv /\ TitleInv
  BY <1>1, <1>3, <1>4 DEF Orderly, WayInv, TitleInv
<1> QED BY <1>1, <1>2, <1>3, <1>5 DEF ImportInv, Dropped

LEMMA ImportStep == ImportInv /\ [ImportNext]_importVars => ImportInv'
<1> SUFFICES ASSUME ImportInv, [ImportNext]_importVars PROVE ImportInv'
  OBVIOUS
<1>1. ASSUME NEW kind \in Kinds, NEW n \in 1 .. MaxLines, ParseText(kind, n) PROVE ImportInv'
  <2>1. parser = "text" /\ NextLine(kind, n)
    BY <1>1 DEF ParseText
  <2>2. CASE EndsBlock(kind) /\ Begin(0)
    <3>1. kind \notin TextKinds
      BY <2>2 DEF EndsBlock, TextKinds
    <3> QED BY <2>1, <2>2, <3>1, LineBegins
  <2>3. CASE kind \in TextKinds /\ title = 0 /\ Begin(n)
    BY <2>1, <2>3, LineBegins
  <2>4. CASE kind \in TextKinds /\ title # 0 /\ Continue(n)
    BY <2>1, <2>4, LineContinues
  <2>5. CASE kind \notin TextKinds /\ ~EndsBlock(kind) /\ PassOver
    BY <2>1, <2>5, LinePassedOver
  <2> QED BY <1>1, <2>2, <2>3, <2>4, <2>5 DEF ParseText
<1>2. ASSUME NEW kind \in Kinds, NEW n \in 1 .. MaxLines, ParseDocx(kind, n) PROVE ImportInv'
  <2>1. parser = "docx" /\ NextLine(kind, n)
    BY <1>2 DEF ParseDocx
  <2>2. CASE kind = "heading" /\ Begin(n)
    <3>1. kind \in TextKinds
      BY <2>2 DEF TextKinds
    <3> QED BY <2>1, <2>2, <3>1, LineBegins
  <2>3. CASE kind = "body" /\ Continue(n)
    BY <2>1, <2>3, LineContinues DEF TextKinds
  <2>4. CASE kind \notin TextKinds /\ PassOver
    BY <2>1, <2>4, LinePassedOver
  <2> QED BY <1>2, <2>2, <2>3, <2>4 DEF ParseDocx
<1>3. CASE EndOfFile
  BY <1>3, FileEnds
<1>4. CASE UNCHANGED importVars
  <2>1. UNCHANGED <<parser, crlf, file, title, lines, previews, parsed>>
    BY <1>4 DEF importVars
  <2>2. TextLines' = TextLines /\ Headings' = Headings /\ UnderWayLines' = UnderWayLines
        /\ ShownIn(previews)' = ShownIn(previews) /\ Orderly(previews)' = Orderly(previews)
    BY <2>1 DEF TextLines, Headings, UnderWayLines, ShownIn, Shown, Orderly, InOrder
  <2>3. Dropped' = Dropped
    BY <2>1, <2>2 DEF Dropped
  <2>4. ImportTypeOK' = ImportTypeOK /\ WayInv' = WayInv /\ TitleInv' = TitleInv
        /\ ImportKeepsText' = ImportKeepsText
    BY <2>1, <2>2, <2>3 DEF ImportTypeOK, WayInv, TitleInv, ImportKeepsText, InOrder, Shown, MadeUp
  <2> QED BY <2>1, <2>2, <2>3, <2>4 DEF ImportInv
<1> QED BY <1>1, <1>2, <1>3, <1>4 DEF ImportNext

\* Whatever its lines, no text of an imported file disappears or is made up: each line but
\* those before the first heading of a docx is in one preview, in the order of the file; the
\* one preview that is made up stands for a file in which no line has text.
THEOREM TextIsKept == ImportSpec => []ImportKeepsText
<1>1. ImportInv => ImportKeepsText
  BY DEF ImportInv, ImportKeepsText
<1> QED BY <1>1, ImportStarts, ImportStep, PTL DEF ImportSpec

-----------------------------------------------------------------------------
(* What agents leave behind (AgentOutputs).                                *)

\* What a summary says of run r.
SumInv(r) ==
    summary # None /\ r \in DOMAIN summary.tallied =>
        /\ exRun[r] # None /\ TotalsOf(summary.tallied[r], steps[r])
        /\ summary.tallied[r].total > 0 => exRun[r].status # "running"

\* A row and a report of run r: totals of the steps inserted, none before the run is
\* finalized; and calls under way have counted and listed steps that were there.
RunInv(r) ==
    /\ exRun[r] # None => /\ TotalsOf(exRun[r], steps[r])
                          /\ exRun[r].total > 0 => exRun[r].status # "running"
    /\ r \in told => exRun[r] # None
    /\ tallies[r] \subseteq 0 .. Len(steps[r])
    /\ listing[r] # None /\ ~listing[r].late => exRun[r] # None /\ exRun[r].total <= listing[r].listed
    /\ report[r] # None => /\ TotalsOf(report[r].run, steps[r])
                           /\ report[r].run.total > report[r].listed => report[r].late
    /\ SumInv(r)

\* What is remembered and told of scripts was saved to the end.
ScriptInv ==
    /\ \A s \in memory : saved[s] \in {"whole", "thinned"}
    /\ summary # None => \A s \in summary.scripts : saved[s] \in {"whole", "thinned"}

OutputInv ==
    /\ OutputTypeOK
    /\ \A r \in ExecutionRuns : RunInv(r)
    /\ ScriptInv

\* Counting gives a number.
LEMMA CountFacts ==
    ASSUME NEW s \in Seq(StepOutcomes), NEW o
    PROVE  Count(s, o) \in Nat
<1>1. DOMAIN s = 1 .. Len(s) /\ Len(s) \in Nat /\ IsFiniteSet(1 .. Len(s))
  <2>1. DOMAIN s = 1 .. Len(s) /\ Len(s) \in Nat
    OBVIOUS
  <2> QED BY <2>1, FS_Interval
<1> DEFINE At == {i \in DOMAIN s : s[i] = o}
<1>2. At \subseteq 1 .. Len(s)
  BY <1>1
<1> HIDE DEF At
<1>3. IsFiniteSet(At)
  BY <1>1, <1>2, FS_Subset
<1>4. Cardinality(At) \in Nat
  BY <1>3, FS_CardinalityType
<1> QED BY <1>4 DEF Count, At

\* Putting one sequence after another.
LEMMA Longer ==
    ASSUME NEW s \in Seq(StepOutcomes), NEW w \in Seq(StepOutcomes)
    PROVE  /\ s \o w \in Seq(StepOutcomes)
           /\ Len(s) \in Nat /\ Len(s \o w) \in Nat /\ Len(s) <= Len(s \o w)
OBVIOUS

\* Totals of some of the steps stay so when more are inserted.
LEMMA MoreSteps ==
    ASSUME NEW rec, NEW s \in Seq(StepOutcomes), NEW w \in Seq(StepOutcomes), TotalsOf(rec, s)
    PROVE  TotalsOf(rec, s \o w)
<1>1. PICK n \in 0 .. Len(s) :
        LET counted == SubSeq(s, 1, n) IN
        /\ rec.total = n
        /\ rec.passed = Count(counted, "passed") /\ rec.failed = Count(counted, "failed")
        /\ rec.status = "passed" =>
             n > 0 /\ \A x \in {"failed", "blocked"} : Count(counted, x) = 0
  BY DEF TotalsOf
<1>2. SubSeq(s \o w, 1, n) = SubSeq(s, 1, n)
  OBVIOUS
<1>3. n \in 0 .. Len(s \o w)
  OBVIOUS
<1> QED BY <1>1, <1>2, <1>3 DEF TotalsOf

\* A new run has the totals of no steps, a finalized one those of all.
LEMMA NewTotals == ASSUME NEW s \in Seq(StepOutcomes) PROVE TotalsOf(NewRun, s)
<1>1. SubSeq(s, 1, 0) = <<>> /\ 0 \in 0 .. Len(s)
  OBVIOUS
<1>2. \A o : Count(<<>>, o) = 0
  <2>1. \A o : {i \in DOMAIN <<>> : <<>>[i] = o} = {}
    OBVIOUS
  <2> QED BY <2>1, FS_EmptySet DEF Count
<1> QED BY <1>1, <1>2 DEF TotalsOf, NewRun

\* Totals of the first n steps are totals of the steps.
LEMMA FinalTotals ==
    ASSUME NEW s \in Seq(StepOutcomes), NEW n \in 0 .. Len(s)
    PROVE  LET final == Finalized(SubSeq(s, 1, n)) IN
           TotalsOf(final, s) /\ final \in ExecutionRun /\ final.status # "running"
<1> DEFINE c == SubSeq(s, 1, n)
<1>1. c \in Seq(StepOutcomes) /\ Len(c) = n /\ n \in Nat
  OBVIOUS
<1>2. c # <<>> => n > 0
  BY <1>1
<1> HIDE DEF c
<1>3. Finalized(c) \in ExecutionRun /\ Finalized(c).status # "running"
  BY <1>1, CountFacts DEF Finalized, ExecutionRun
<1>4. Finalized(c).status = "passed" =>
        n > 0 /\ \A o \in {"failed", "blocked"} : Count(c, o) = 0
  BY <1>2 DEF Finalized, Passed
<1>5. /\ Finalized(c).total = n /\ Finalized(c).passed = Count(c, "passed")
      /\ Finalized(c).failed = Count(c, "failed")
  BY <1>1 DEF Finalized
<1> HIDE DEF Finalized
<1> QED BY <1>3, <1>4, <1>5 DEF TotalsOf, c

\* The totals of a final fit in its steps.
LEMMA TotalsFit ==
    ASSUME NEW rec, NEW s \in Seq(StepOutcomes), TotalsOf(rec, s)
    PROVE  rec.total \in Nat /\ rec.total <= Len(s)
<1>1. PICK n \in 0 .. Len(s) : rec.total = n
  BY DEF TotalsOf
<1> QED BY <1>1

\* The runs that a step leaves alone.
LEMMA RunKept ==
    ASSUME NEW r \in ExecutionRuns, RunInv(r), exRun'[r] = exRun[r], steps'[r] = steps[r],
           tallies'[r] = tallies[r], listing'[r] = listing[r], report'[r] = report[r],
           r \in told' => r \in told, summary' = summary
    PROVE  RunInv(r)'
BY DEF RunInv, SumInv

\* A step of the execution agent on run r.
LEMMA RunSteps ==
    ASSUME OutputInv, NEW r \in ExecutionRuns, Unchanged, UNCHANGED <<steps, saved, memory>>, stray' \in BOOLEAN,
           NEW e \in ExecutionRun \cup {None}, NEW w \in Seq(StepOutcomes), NEW t \in SUBSET Nat,
           NEW l \in Listing \cup {None}, NEW p \in Report \cup {None},
           exRun' = [exRun EXCEPT ![r] = e], waiting' = [waiting EXCEPT ![r] = w],
           tallies' = [tallies EXCEPT ![r] = t], listing' = [listing EXCEPT ![r] = l],
           report' = [report EXCEPT ![r] = p],
           told' \in {told, told \cup {r}}, unsent' \in {unsent, unsent \cup {r}},
           RunInv(r)'
    PROVE  OutputInv'
<1>1. ASSUME NEW q \in ExecutionRuns, q # r
      PROVE  /\ exRun'[q] = exRun[q] /\ tallies'[q] = tallies[q]
             /\ listing'[q] = listing[q] /\ report'[q] = report[q]
  BY <1>1 DEF OutputInv, OutputTypeOK
<1>2. \A q \in ExecutionRuns : RunInv(q)'
  <2>1. ASSUME NEW q \in ExecutionRuns PROVE RunInv(q)'
    <3>1. CASE q # r
      <4>1. summary' = summary /\ steps' = steps /\ (q \in told' => q \in told)
        BY <3>1 DEF Unchanged
      <4> QED BY <1>1, <3>1, <4>1, RunKept DEF OutputInv
    <3> QED BY <3>1
  <2> QED BY <2>1
<1>3. /\ exRun' \in [ExecutionRuns -> ExecutionRun \cup {None}]
      /\ waiting' \in [ExecutionRuns -> Seq(StepOutcomes)]
      /\ tallies' \in [ExecutionRuns -> SUBSET Nat]
      /\ told' \subseteq ExecutionRuns /\ unsent' \subseteq ExecutionRuns
  BY DEF OutputInv, OutputTypeOK
<1>4. /\ listing' \in [ExecutionRuns -> Listing \cup {None}]
      /\ report' \in [ExecutionRuns -> Report \cup {None}]
  BY DEF OutputInv, OutputTypeOK
<1>5. UNCHANGED <<agent, lost, summary, kept, saved, memory, steps>>
  BY DEF Unchanged
<1>6. OutputTypeOK'
  BY <1>3, <1>4, <1>5 DEF OutputInv, OutputTypeOK
<1>7. ScriptInv'
  BY <1>5 DEF OutputInv, ScriptInv
<1> QED BY <1>2, <1>6, <1>7 DEF OutputInv

\* The runs stay, and so does what is known of them.
LEMMA RunsKept ==
    ASSUME OutputInv, UNCHANGED <<exRun, told, steps, tallies, listing, report, summary>>
    PROVE  \A r \in ExecutionRuns : RunInv(r)'
<1>1. ASSUME NEW r \in ExecutionRuns PROVE RunInv(r)'
  BY RunKept DEF OutputInv
<1> QED BY <1>1 DEF OutputInv

\* Rows that waited are inserted.
LEMMA RowsInserted ==
    ASSUME OutputInv, Inserted, kept' \in BOOLEAN,
           UNCHANGED <<agent, exRun, told, tallies, unsent, listing, report, saved, memory, stray, lost, summary>>
    PROVE  OutputInv'
<1>1. ASSUME NEW r \in ExecutionRuns
      PROVE  /\ steps[r] \in Seq(StepOutcomes) /\ waiting[r] \in Seq(StepOutcomes)
             /\ steps'[r] = steps[r] \o waiting[r] /\ waiting'[r] = <<>> /\ RunInv(r)
  BY DEF OutputInv, OutputTypeOK, Inserted
<1>2. steps' \in [ExecutionRuns -> Seq(StepOutcomes)] /\ waiting' \in [ExecutionRuns -> Seq(StepOutcomes)]
  <2>1. ASSUME NEW r \in ExecutionRuns PROVE steps[r] \o waiting[r] \in Seq(StepOutcomes)
    BY <1>1, Longer
  <2>2. <<>> \in Seq(StepOutcomes)
    OBVIOUS
  <2> QED BY <2>1, <2>2 DEF Inserted
<1>3. OutputTypeOK'
  BY <1>2 DEF OutputInv, OutputTypeOK
<1>4. ASSUME NEW r \in ExecutionRuns PROVE RunInv(r)'
  <2>1. Len(steps'[r]) \in Nat /\ Len(steps[r]) \in Nat /\ Len(steps[r]) <= Len(steps'[r])
    BY <1>1, Longer
  <2>2. \A rec : TotalsOf(rec, steps[r]) => TotalsOf(rec, steps'[r])
    BY <1>1, MoreSteps
  <2>3. tallies'[r] \subseteq 0 .. Len(steps'[r])
    <3>1. tallies'[r] \subseteq 0 .. Len(steps[r])
      BY <1>1 DEF RunInv
    <3> QED BY <2>1, <3>1
  <2>4. SumInv(r)'
    BY <1>1, <2>2 DEF RunInv, SumInv
  <2> QED BY <1>1, <2>2, <2>3, <2>4 DEF RunInv
<1>5. ScriptInv'
  BY DEF OutputInv, ScriptInv
<1> QED BY <1>3, <1>4, <1>5 DEF OutputInv

\* What the proofs of the steps use of run r.
LEMMA RunFacts ==
    ASSUME OutputInv, NEW r \in ExecutionRuns
    PROVE  /\ exRun[r] \in ExecutionRun \cup {None} /\ steps[r] \in Seq(StepOutcomes)
           /\ waiting[r] \in Seq(StepOutcomes) /\ tallies[r] \in SUBSET Nat /\ RunInv(r)
           /\ listing[r] \in Listing \cup {None} /\ report[r] \in Report \cup {None}
           /\ exRun = [exRun EXCEPT ![r] = exRun[r]] /\ waiting = [waiting EXCEPT ![r] = waiting[r]]
           /\ tallies = [tallies EXCEPT ![r] = tallies[r]]
           /\ listing = [listing EXCEPT ![r] = listing[r]] /\ report = [report EXCEPT ![r] = report[r]]
           /\ \A x : [exRun EXCEPT ![r] = x][r] = x
           /\ \A x : [tallies EXCEPT ![r] = x][r] = x
           /\ \A x : [listing EXCEPT ![r] = x][r] = x
           /\ \A x : [report EXCEPT ![r] = x][r] = x
           /\ stray \in BOOLEAN
BY DEF OutputInv, OutputTypeOK

\* A run is created, and the model told or not.
LEMMA RunCreated == ASSUME OutputInv, NEW r \in ExecutionRuns, CreateExecutionRun(r) PROVE OutputInv'
<1>1. /\ Unchanged /\ UNCHANGED <<saved, memory, steps, waiting, tallies, unsent, listing, report>>
      /\ exRun[r] = None /\ exRun' = [exRun EXCEPT ![r] = NewRun]
      /\ told' \in {told, told \cup {r}} /\ stray' \in BOOLEAN
  BY RunFacts DEF CreateExecutionRun
<1>2. NewRun \in ExecutionRun /\ NewRun.total = 0 /\ NewRun # None
  <2>1. NewRun \in ExecutionRun /\ NewRun.total = 0
    BY DEF NewRun, ExecutionRun
  <2> QED BY <2>1, OutputAssumption
<1>3. exRun'[r] = NewRun
  BY <1>1, RunFacts
<1>4. RunInv(r)'
  <2>1. TotalsOf(NewRun, steps[r]) /\ RunInv(r)
    BY NewTotals, RunFacts
  <2>2. SumInv(r)'
    BY <1>1, <2>1 DEF RunInv, SumInv, Unchanged
  <2> QED BY <1>1, <1>2, <1>3, <2>1, <2>2 DEF RunInv
<1>5. /\ waiting' = [waiting EXCEPT ![r] = waiting[r]] /\ tallies' = [tallies EXCEPT ![r] = tallies[r]]
      /\ listing' = [listing EXCEPT ![r] = listing[r]] /\ report' = [report EXCEPT ![r] = report[r]]
  BY <1>1, RunFacts
<1>6. /\ waiting[r] \in Seq(StepOutcomes) /\ tallies[r] \in SUBSET Nat
      /\ listing[r] \in Listing \cup {None} /\ report[r] \in Report \cup {None}
  BY RunFacts
<1> QED BY <1>1, <1>2, <1>4, <1>5, <1>6, RunSteps

\* A step result waits.
LEMMA ResultSaved == ASSUME OutputInv, NEW r \in ExecutionRuns, SaveStepResult(r) PROVE OutputInv'
<1>1. /\ Unchanged /\ UNCHANGED <<saved, memory, stray, exRun, told, steps, tallies, unsent, listing, report>>
  BY DEF SaveStepResult
<1>2. PICK o \in StepOutcomes : waiting' = [waiting EXCEPT ![r] = Append(@, o)]
  BY DEF SaveStepResult
<1>3. waiting' \in [ExecutionRuns -> Seq(StepOutcomes)]
  <2>1. Append(waiting[r], o) \in Seq(StepOutcomes)
    BY RunFacts
  <2> QED BY <1>2, <2>1 DEF OutputInv, OutputTypeOK
<1>4. OutputTypeOK'
  BY <1>1, <1>3 DEF OutputInv, OutputTypeOK, Unchanged
<1>5. ScriptInv'
  BY <1>1 DEF OutputInv, ScriptInv, Unchanged
<1> QED BY <1>1, <1>4, <1>5, RunsKept DEF OutputInv, Unchanged

\* The steps inserted are counted by a finalization, or listed by a report.
LEMMA StepsRead ==
    ASSUME OutputInv, NEW r \in ExecutionRuns, FinalizeReads(r) \/ ReportReads(r)
    PROVE  OutputInv'
<1>1. /\ Unchanged /\ UNCHANGED <<saved, memory, stray, exRun, told, steps, waiting, unsent, report>>
      /\ r \in told
  BY DEF FinalizeReads, ReportReads, OnRun
<1>2. /\ exRun[r] \in ExecutionRun \cup {None} /\ waiting[r] \in Seq(StepOutcomes) /\ tallies[r] \in SUBSET Nat
      /\ listing[r] \in Listing \cup {None} /\ report[r] \in Report \cup {None}
      /\ exRun' = [exRun EXCEPT ![r] = exRun[r]]
      /\ waiting' = [waiting EXCEPT ![r] = waiting[r]] /\ report' = [report EXCEPT ![r] = report[r]]
      /\ stray' \in BOOLEAN /\ RunInv(r) /\ steps[r] \in Seq(StepOutcomes)
  BY <1>1, RunFacts
<1>3. Len(steps[r]) \in Nat
  BY <1>2
<1>4. SumInv(r)'
  BY <1>1, <1>2 DEF RunInv, SumInv, Unchanged
<1>5. CASE FinalizeReads(r)
  <2> DEFINE t == tallies[r] \cup {Len(steps[r])}
  <2>1. tallies' = [tallies EXCEPT ![r] = t] /\ listing' = [listing EXCEPT ![r] = listing[r]]
    BY <1>5, RunFacts DEF FinalizeReads
  <2>2. t \in SUBSET Nat /\ t \subseteq 0 .. Len(steps[r])
    <3>1. tallies[r] \subseteq 0 .. Len(steps[r])
      BY <1>2 DEF RunInv
    <3> QED BY <1>3, <3>1
  <2>3. tallies'[r] = t /\ listing'[r] = listing[r]
    BY <2>1, RunFacts
  <2> HIDE DEF t
  <2>4. RunInv(r)'
    BY <1>1, <1>2, <1>4, <2>2, <2>3 DEF RunInv
  <2> QED BY <1>1, <1>2, <2>1, <2>2, <2>4, RunSteps
<1>6. CASE ReportReads(r)
  <2> DEFINE l == [listed |-> Len(steps[r]), late |-> FALSE]
  <2>1. listing' = [listing EXCEPT ![r] = l] /\ tallies' = [tallies EXCEPT ![r] = tallies[r]]
    BY <1>6, RunFacts DEF ReportReads
  <2>2. /\ l.listed = Len(steps[r]) /\ l.late = FALSE /\ l \in Listing
        /\ listing'[r] = l /\ tallies'[r] = tallies[r]
    BY <1>3, <2>1, RunFacts DEF Listing
  <2> HIDE DEF l
  <2>3. exRun[r] # None /\ exRun[r].total <= Len(steps[r])
    BY <1>1, <1>2, TotalsFit DEF RunInv
  <2>4. RunInv(r)'
    BY <1>1, <1>2, <1>4, <2>2, <2>3 DEF RunInv
  <2> QED BY <1>1, <1>2, <1>3, <2>1, <2>2, <2>4, RunSteps
<1> QED BY <1>5, <1>6

\* A run is finalized with the totals of the steps that the call has counted.
LEMMA RunFinalized == ASSUME OutputInv, NEW r \in ExecutionRuns, FinalizeExecutionRun(r) PROVE OutputInv'
<1>1. /\ Unchanged /\ UNCHANGED <<saved, memory, stray, told, steps, waiting, unsent, report>>
      /\ r \in told
      /\ listing' = [listing EXCEPT ![r] = IF @ = None THEN None ELSE [@ EXCEPT !.late = TRUE]]
  BY DEF FinalizeExecutionRun, OnRun
<1>2. PICK n \in tallies[r] :
        /\ tallies' \in {tallies, [tallies EXCEPT ![r] = @ \ {n}]}
        /\ exRun' = [exRun EXCEPT ![r] = Finalized(SubSeq(steps[r], 1, n))]
  BY DEF FinalizeExecutionRun
<1>3. /\ waiting[r] \in Seq(StepOutcomes) /\ tallies[r] \in SUBSET Nat
      /\ listing[r] \in Listing \cup {None} /\ report[r] \in Report \cup {None}
      /\ waiting' = [waiting EXCEPT ![r] = waiting[r]] /\ report' = [report EXCEPT ![r] = report[r]]
      /\ stray' \in BOOLEAN /\ RunInv(r) /\ steps[r] \in Seq(StepOutcomes)
  BY <1>1, RunFacts
<1> DEFINE e == Finalized(SubSeq(steps[r], 1, n))
           l == IF listing[r] = None THEN None ELSE [listing[r] EXCEPT !.late = TRUE]
<1>4. TotalsOf(e, steps[r]) /\ e \in ExecutionRun /\ e.status # "running" /\ e # None
  <2>1. n \in 0 .. Len(steps[r])
    BY <1>2, <1>3 DEF RunInv
  <2>2. TotalsOf(e, steps[r]) /\ e \in ExecutionRun /\ e.status # "running"
    BY <1>3, <2>1, FinalTotals
  <2> QED BY <2>2, OutputAssumption
<1>5. PICK t \in SUBSET tallies[r] : tallies' = [tallies EXCEPT ![r] = t]
  <2>1. tallies[r] \ {n} \in SUBSET tallies[r] /\ tallies[r] \in SUBSET tallies[r]
    OBVIOUS
  <2>2. tallies = [tallies EXCEPT ![r] = tallies[r]]
    BY RunFacts
  <2> QED BY <1>2, <2>1, <2>2
<1>6. /\ exRun' = [exRun EXCEPT ![r] = e] /\ exRun'[r] = e /\ tallies'[r] = t
      /\ listing' = [listing EXCEPT ![r] = l] /\ listing'[r] = l
  <2>1. exRun' = [exRun EXCEPT ![r] = e] /\ listing' = [listing EXCEPT ![r] = l]
    BY <1>1, <1>2
  <2> HIDE DEF e, l
  <2> QED BY <1>5, <2>1, RunFacts
<1>7. l \in Listing \cup {None} /\ (l # None => l.late)
  BY <1>3 DEF Listing
<1> HIDE DEF e, l
<1>8. SumInv(r)'
  BY <1>1, <1>3, <1>4, <1>6 DEF RunInv, SumInv, Unchanged
<1>9. RunInv(r)'
  BY <1>1, <1>3, <1>4, <1>5, <1>6, <1>7, <1>8 DEF RunInv
<1>10. t \in SUBSET Nat
  BY <1>3, <1>5
<1>11. Unchanged /\ UNCHANGED <<steps, saved, memory>> /\ told' = told /\ unsent' = unsent
  BY <1>1
<1> QED BY <1>3, <1>4, <1>5, <1>6, <1>7, <1>9, <1>10, <1>11, RunSteps

\* A finalization is refused.
LEMMA RunNotFinalized == ASSUME OutputInv, NEW r \in ExecutionRuns, FinalizeRefused(r) PROVE OutputInv'
<1>1. /\ Unchanged /\ UNCHANGED <<saved, memory, exRun, told, steps, waiting, report>> /\ stray' = TRUE
      /\ unsent' = unsent \cup {r}
      /\ tallies' = [tallies EXCEPT ![r] = {}] /\ listing' = [listing EXCEPT ![r] = None]
  BY DEF FinalizeRefused
<1>2. /\ exRun[r] \in ExecutionRun \cup {None} /\ waiting[r] \in Seq(StepOutcomes)
      /\ report[r] \in Report \cup {None} /\ RunInv(r)
      /\ exRun' = [exRun EXCEPT ![r] = exRun[r]]
      /\ waiting' = [waiting EXCEPT ![r] = waiting[r]] /\ report' = [report EXCEPT ![r] = report[r]]
      /\ tallies'[r] = {} /\ listing'[r] = None
  BY <1>1, RunFacts
<1>3. SumInv(r)'
  BY <1>1, <1>2 DEF RunInv, SumInv, Unchanged
<1>4. RunInv(r)'
  BY <1>1, <1>2, <1>3 DEF RunInv
<1>5. {} \in SUBSET Nat
  OBVIOUS
<1> QED BY <1>1, <1>2, <1>4, <1>5, RunSteps

\* A report is made of what was listed and of the totals there are.
LEMMA CoverPrinted == ASSUME OutputInv, NEW r \in ExecutionRuns, ReportMade(r) PROVE OutputInv'
<1> DEFINE p == [run |-> exRun[r], listed |-> listing[r].listed, late |-> listing[r].late]
<1>1. /\ Unchanged /\ UNCHANGED <<saved, memory, stray, exRun, told, steps, waiting, tallies, unsent>>
      /\ r \in told /\ listing[r] # None
      /\ report' = [report EXCEPT ![r] = p] /\ listing' = [listing EXCEPT ![r] = None]
  BY DEF ReportMade, OnRun
<1>2. /\ exRun[r] \in ExecutionRun \cup {None} /\ waiting[r] \in Seq(StepOutcomes) /\ tallies[r] \in SUBSET Nat
      /\ listing[r] \in Listing \cup {None} /\ RunInv(r) /\ steps[r] \in Seq(StepOutcomes)
      /\ exRun' = [exRun EXCEPT ![r] = exRun[r]]
      /\ waiting' = [waiting EXCEPT ![r] = waiting[r]] /\ tallies' = [tallies EXCEPT ![r] = tallies[r]]
      /\ stray' \in BOOLEAN
  BY <1>1, RunFacts
<1>3. exRun[r] # None /\ exRun[r] \in ExecutionRun
  BY <1>1, <1>2 DEF RunInv
<1>4. p \in Report /\ p.run = exRun[r] /\ p.listed = listing[r].listed /\ p.late = listing[r].late
  BY <1>1, <1>2, <1>3 DEF Report, Listing
<1>5. p.run.total > p.listed => p.late
  <2>1. p.listed \in Nat /\ p.run.total \in Nat /\ p.late \in BOOLEAN
    BY <1>4 DEF Report, ExecutionRun
  <2>2. ~p.late => p.run.total <= p.listed
    BY <1>1, <1>2, <1>4 DEF RunInv
  <2> QED BY <2>1, <2>2
<1> HIDE DEF p
<1>6. report'[r] = p /\ listing'[r] = None
  BY <1>1, RunFacts
<1>7. SumInv(r)'
  BY <1>1, <1>2 DEF RunInv, SumInv, Unchanged
<1>8. RunInv(r)'
  <2>1. TotalsOf(p.run, steps[r])
    BY <1>2, <1>3, <1>4 DEF RunInv
  <2> QED BY <1>1, <1>2, <1>3, <1>5, <1>6, <1>7, <2>1 DEF RunInv
<1> QED BY <1>1, <1>2, <1>4, <1>8, RunSteps

\* A script is begun, or comes to an end.
LEMMA ScriptSaved ==
    ASSUME OutputInv, NEW s \in NewScripts, SaveTestScript(s) \/ EndTestScript(s)
    PROVE  OutputInv'
<1>1. /\ UNCHANGED <<agent, lost, summary, kept, exRun, told, steps, waiting, tallies, unsent, listing, report, stray>>
  BY DEF SaveTestScript, EndTestScript, Unchanged, runVars
<1>2. PICK how \in Progress :
        /\ saved' = [saved EXCEPT ![s] = how]
        /\ memory' = memory \/ (how \in {"whole", "thinned"} /\ memory' = memory \cup {s})
  <2>1. CASE SaveTestScript(s)
    <3>1. saved' = [saved EXCEPT ![s] = "begun"] /\ memory' = memory /\ "begun" \in Progress
      BY <2>1 DEF SaveTestScript, Progress
    <3> QED BY <3>1
  <2>2. CASE EndTestScript(s)
    <3>1. PICK h \in {"whole", "thinned", "cut"} : saved' = [saved EXCEPT ![s] = h] /\ memory' = Remember(s, h)
      BY <2>2 DEF EndTestScript
    <3>2. h = "cut" => memory' = memory
      BY <3>1 DEF Remember
    <3>3. h # "cut" => memory' = memory \cup {s}
      BY <3>1 DEF Remember
    <3>4. h \in Progress /\ (h # "cut" => h \in {"whole", "thinned"})
      BY <3>1 DEF Progress
    <3> QED BY <3>1, <3>2, <3>3, <3>4
  <2> QED BY <2>1, <2>2
<1>3. saved[s] \notin {"whole", "thinned"}
  BY OutputAssumption DEF SaveTestScript, EndTestScript, Progress
<1>4. saved' \in [NewScripts -> Progress \cup {None}] /\ memory' \subseteq NewScripts
  BY <1>2 DEF OutputInv, OutputTypeOK
<1>5. saved \in [NewScripts -> Progress \cup {None}] /\ memory \subseteq NewScripts
  BY DEF OutputInv, OutputTypeOK
<1>6. ASSUME NEW x \in NewScripts, saved[x] \in {"whole", "thinned"} PROVE saved'[x] \in {"whole", "thinned"}
  <2>1. x # s
    BY <1>3, <1>6
  <2> QED BY <1>2, <1>5, <1>6, <2>1
<1>7. \A x \in memory' : saved'[x] \in {"whole", "thinned"}
  <2> SUFFICES ASSUME NEW x \in memory' PROVE saved'[x] \in {"whole", "thinned"}
    OBVIOUS
  <2>1. CASE x \in memory
    BY <1>5, <1>6, <2>1 DEF OutputInv, ScriptInv
  <2>2. CASE x \notin memory
    <3>1. x = s /\ how \in {"whole", "thinned"}
      BY <1>2, <2>2
    <3> QED BY <1>2, <1>5, <3>1
  <2> QED BY <2>1, <2>2
<1>8. summary # None => \A x \in summary.scripts : x \in NewScripts /\ saved[x] \in {"whole", "thinned"}
  BY DEF OutputInv, OutputTypeOK, ScriptInv
<1>9. ScriptInv'
  BY <1>1, <1>6, <1>7, <1>8 DEF ScriptInv
<1>10. OutputTypeOK'
  BY <1>1, <1>4 DEF OutputInv, OutputTypeOK
<1> QED BY <1>1, <1>9, <1>10, RunsKept DEF OutputInv

\* The agent returns its summary.
LEMMA SummaryTrue == ASSUME OutputInv, ReturnOutput PROVE OutputInv'
<1>1. /\ summary' = [tallied |-> [r \in told |-> exRun[r]], scripts |-> memory]
      /\ UNCHANGED <<exRun, told, steps, waiting, tallies, unsent, listing, report, saved, memory, stray, agent, lost, kept>>
  BY DEF ReturnOutput, runVars
<1>2. /\ summary'.scripts = memory /\ DOMAIN summary'.tallied = told
      /\ \A r \in told : summary'.tallied[r] = exRun[r]
  BY <1>1
<1>3. told \subseteq ExecutionRuns /\ \A r \in told : exRun[r] \in ExecutionRun /\ exRun[r] # None
  BY DEF OutputInv, OutputTypeOK, RunInv
<1>4. OutputTypeOK'
  BY <1>1, <1>2, <1>3 DEF OutputInv, OutputTypeOK
<1>5. ScriptInv'
  BY <1>1, <1>2 DEF OutputInv, ScriptInv
<1>6. ASSUME NEW r \in ExecutionRuns PROVE RunInv(r)'
  <2>1. RunInv(r)
    BY DEF OutputInv
  <2>2. SumInv(r)'
    BY <1>1, <1>2, <2>1 DEF RunInv, SumInv
  <2> QED BY <1>1, <2>1, <2>2 DEF RunInv
<1> QED BY <1>4, <1>5, <1>6 DEF OutputInv

\* Every step keeps the invariant.
LEMMA OutputStep == OutputInv /\ [OutputNext]_outputVars => OutputInv'
<1> SUFFICES ASSUME OutputInv, [OutputNext]_outputVars PROVE OutputInv'
  OBVIOUS
<1>1. CASE FlushRows
  <2>1. /\ Inserted /\ kept' \in BOOLEAN
        /\ UNCHANGED <<agent, exRun, told, tallies, unsent, listing, report, saved, memory, stray, lost, summary>>
    BY <1>1 DEF FlushRows, Unchanged, OutputInv, OutputTypeOK
  <2> QED BY <2>1, RowsInserted
<1>2. CASE KeepOutput
  BY <1>2, RowsInserted DEF KeepOutput
<1>3. CASE ToolRaises \/ FlushFails \/ UNCHANGED outputVars
  <2>1. /\ UNCHANGED <<exRun, told, steps, waiting, tallies, unsent, listing, report, saved, memory, agent, summary>>
        /\ stray' \in BOOLEAN /\ lost' \in BOOLEAN /\ kept' \in BOOLEAN
    BY <1>3 DEF ToolRaises, FlushFails, Unchanged, runVars, outputVars, OutputInv, OutputTypeOK
  <2>2. OutputTypeOK'
    BY <2>1 DEF OutputInv, OutputTypeOK
  <2>3. ScriptInv'
    BY <2>1 DEF OutputInv, ScriptInv
  <2> QED BY <2>1, <2>2, <2>3, RunsKept DEF OutputInv
<1> QED BY <1>1, <1>2, <1>3, RunCreated, ResultSaved, StepsRead, RunFinalized, RunNotFinalized, CoverPrinted,
           ScriptSaved, SummaryTrue DEF OutputNext

\* An agent begins with nothing.
LEMMA OutputStarts == OutputInit => OutputInv
<1> SUFFICES ASSUME OutputInit PROVE OutputInv
  OBVIOUS
<1>1. OutputTypeOK
  <2>1. <<>> \in Seq(StepOutcomes)
    OBVIOUS
  <2>2. steps \in [ExecutionRuns -> Seq(StepOutcomes)] /\ waiting \in [ExecutionRuns -> Seq(StepOutcomes)]
    BY <2>1 DEF OutputInit
  <2> QED BY <2>2 DEF OutputInit, OutputTypeOK
<1>2. ScriptInv
  BY DEF OutputInit, ScriptInv
<1>3. ASSUME NEW r \in ExecutionRuns PROVE RunInv(r)
  BY DEF OutputInit, RunInv, SumInv
<1> QED BY <1>1, <1>2, <1>3 DEF OutputInv

\* What an agent tells of its work agrees with the rows it leaves, for any runs, scripts and
\* outcomes, in whatever order the model calls the tools, side by side or one after another,
\* with calls that are refused or raise (finalize_execution_run, generate_evidence_report
\* and save_test_script of agents/tool_registry.py; run_agent of the two agents).
THEOREM OutputsAlwaysAgree == OutputSpec => []OutputsAgree
<1>1. ASSUME OutputInv PROVE OutputsAgree
  <2>1. TotalsMatchSteps
    BY <1>1 DEF OutputInv, RunInv, TotalsMatchSteps
  <2>2. SummaryMatchesRows
    <3> SUFFICES ASSUME summary # None, NEW r \in DOMAIN summary.tallied
                 PROVE  /\ TotalsOf(summary.tallied[r], steps[r])
                        /\ summary.tallied[r].total > 0 => exRun[r].status # "running"
      BY <1>1 DEF OutputInv, ScriptInv, SummaryMatchesRows
    <3>1. r \in ExecutionRuns
      BY <1>1 DEF OutputInv, OutputTypeOK
    <3> QED BY <1>1, <3>1 DEF OutputInv, RunInv, SumInv
  <2> QED BY <2>1, <2>2 DEF OutputsAgree
<1> QED BY <1>1, OutputStarts, OutputStep, PTL DEF OutputSpec

-----------------------------------------------------------------------------
(* The pictures of steps (StepEvidence).                                   *)

\* What is stored under a path is a picture of that path, and no older than any picture
\* stored there; a path ends with the number of the step.
PathInv ==
    /\ \A p \in Path : blobs[p] # 0 => shots[blobs[p]].path = p
    /\ \A j \in DOMAIN shots : /\ shots[j].path[2] = shots[j].of.number
                               /\ shots[j].stored => blobs[shots[j].path] >= j

\* The answer to a request is the link of a result of that run and number.
AnswerInv ==
    answered # None /\ answered.found = "link" =>
        \E j \in Mine(answered.run) :
            shots[j].of.number = answered.number /\ answered.path = shots[j].path

\* A picture being taken has its path, and what the browser showed.
CameraInv(s) ==
    camera[s] # None => /\ camera[s].path[2] = s.number
                        /\ camera[s].acted => camera[s].shows \in {s, None}

\* The page of the report is one of a picture that stands for its result.
PagePictureInv == page # None /\ page[2] # 0 => StandsFor(page[2], page[1])

\* The invariant: the browser shows what the last step that acted did.
EvidenceInv ==
    /\ EvidenceTypeOK /\ PathInv /\ AnswerInv /\ PagePictureInv
    /\ \A s \in Steps : CameraInv(s)
    /\ acted \subseteq {screen}
    /\ ~sealed => answered = None
    /\ \A j \in DOMAIN shots : shots[j].acted => shots[j].shows \in {shots[j].of, None}

\* A picture with one link is stood for by what is stored there.
LEMMA LinksLead ==
    ASSUME EvidenceInv, NEW j \in DOMAIN shots
    PROVE  StandsFor(blobs[shots[j].path], j) /\ shots[j].path \in Path
<1>1. shots \in Seq(Shot) /\ blobs \in [Path -> 0 .. Len(shots)] /\ j \in 1 .. Len(shots)
  BY DEF EvidenceInv, EvidenceTypeOK
<1>2. shots[j].path \in Path
  <2>1. shots[j] \in Shot
    BY <1>1
  <2> QED BY <2>1 DEF Shot
<1> DEFINE i == blobs[shots[j].path]
<1>3. i \in 0 .. Len(shots) /\ Len(shots) \in Nat
  BY <1>1, <1>2
<1>4. i # 0 => shots[i].path = shots[j].path /\ i \in DOMAIN shots
  BY <1>1, <1>2, <1>3 DEF EvidenceInv, PathInv
<1>5. i # 0 => shots[i].of.number = shots[j].of.number
  BY <1>4 DEF EvidenceInv, PathInv
<1>6. shots[j].stored => i >= j
  BY DEF EvidenceInv, PathInv
<1> QED BY <1>1, <1>2, <1>3, <1>5, <1>6 DEF StandsFor

\* A set of results of which there are not several, and not none, is one.
LEMMA OneResult ==
    ASSUME EvidenceTypeOK, NEW rows \in SUBSET linked, rows # {}, ~(Cardinality(rows) > 1)
    PROVE  Cardinality(rows) = 1
<1>1. shots \in Seq(Shot) /\ linked \subseteq 1 .. Len(shots) /\ Len(shots) \in Nat
  BY DEF EvidenceTypeOK
<1>2. IsFiniteSet(rows)
  <2>1. IsFiniteSet(1 .. Len(shots)) /\ rows \subseteq 1 .. Len(shots)
    BY <1>1, FS_Interval
  <2> QED BY <2>1, FS_Subset
<1> QED BY <1>2, FS_CardinalityType, FS_EmptySet

\* A step that stores nothing leaves the pictures as they are.
LEMMA PicturesKept ==
    ASSUME EvidenceInv, UNCHANGED <<shots, blobs>>
    PROVE  /\ PathInv'
           /\ \A j \in DOMAIN shots' : shots'[j].acted => shots'[j].shows \in {shots'[j].of, None}
           /\ page' = page => PagePictureInv'
BY DEF EvidenceInv, PathInv, PagePictureInv, StandsFor

LEMMA AnswerKept ==
    ASSUME EvidenceInv, UNCHANGED <<shots, answered>>, linked \subseteq linked'
    PROVE  AnswerInv'
BY DEF EvidenceInv, AnswerInv, Mine

LEMMA CamerasKept ==
    ASSUME EvidenceInv, UNCHANGED camera
    PROVE  \A s \in Steps : CameraInv(s)'
BY DEF EvidenceInv, CameraInv

\* The camera of one step changes.
LEMMA CameraMoved ==
    ASSUME EvidenceInv, NEW s \in Steps, NEW c, camera' = [camera EXCEPT ![s] = c],
           c # None => c.path[2] = s.number /\ (c.acted => c.shows \in {s, None})
    PROVE  \A x \in Steps : CameraInv(x)'
<1> SUFFICES ASSUME NEW x \in Steps PROVE CameraInv(x)'
  OBVIOUS
<1>1. camera'[x] = IF x = s THEN c ELSE camera[x]
  BY DEF EvidenceInv, EvidenceTypeOK
<1>2. CASE x = s
  BY <1>1, <1>2 DEF CameraInv
<1>3. CASE x # s
  BY <1>1, <1>3 DEF CameraInv, EvidenceInv
<1> QED BY <1>2, <1>3

\* A picture is uploaded.
LEMMA ShotTaken == ASSUME EvidenceInv, NEW s \in Steps, Upload(s) PROVE EvidenceInv'
<1> DEFINE path == camera[s].path
           n == Len(shots) + 1
<1>1. /\ camera[s] # None /\ camera' = [camera EXCEPT ![s] = None]
      /\ link' = [link EXCEPT ![s] = IF sealed THEN 0 ELSE Len(shots')]
      /\ UNCHANGED <<known, folder, screen, acted, linked, page, sealed, answered>>
  BY DEF Upload
<1>2. PICK stored \in BOOLEAN :
        /\ shots' = Append(shots, [of |-> s, acted |-> camera[s].acted, shows |-> camera[s].shows,
                                   path |-> path, stored |-> stored])
        /\ blobs' = IF stored THEN [blobs EXCEPT ![path] = Len(shots')] ELSE blobs
  BY DEF Upload
<1> DEFINE shot == [of |-> s, acted |-> camera[s].acted, shows |-> camera[s].shows,
                    path |-> path, stored |-> stored]
<1>3. /\ shots \in Seq(Shot) /\ Len(shots) \in Nat /\ n \in Nat
      /\ camera[s] \in Picture /\ blobs \in [Path -> 0 .. Len(shots)]
      /\ linked \subseteq 1 .. Len(shots) /\ link \in [Steps -> 0 .. Len(shots)]
  BY <1>1 DEF EvidenceInv, EvidenceTypeOK
<1>4. path \in Path /\ path[2] = s.number
  BY <1>1, <1>3 DEF EvidenceInv, CameraInv, Picture
<1>5. shot \in Shot
  BY <1>3, <1>4 DEF Shot, Picture
<1>6. /\ shot.of = s /\ shot.acted = camera[s].acted /\ shot.shows = camera[s].shows /\ shot.path = path
      /\ shot.stored = stored
  OBVIOUS
<1>7. shots' = Append(shots, shot) /\ blobs' = IF stored THEN [blobs EXCEPT ![path] = Len(shots')] ELSE blobs
  BY <1>2
<1> HIDE DEF shot, path
<1>8. /\ shots' \in Seq(Shot) /\ Len(shots') = n /\ shots'[n] = shot
      /\ \A j \in 1 .. Len(shots) : shots'[j] = shots[j]
      /\ DOMAIN shots = 1 .. Len(shots) /\ DOMAIN shots' = 1 .. n
  BY <1>3, <1>5, <1>7
<1>9. /\ blobs' \in [Path -> 0 .. n]
      /\ \A p \in Path : blobs'[p] = IF stored /\ p = path THEN n ELSE blobs[p]
  <2>1. CASE stored
    <3>1. blobs' = [blobs EXCEPT ![path] = n]
      BY <1>7, <1>8, <2>1
    <3> QED BY <1>3, <1>4, <2>1, <3>1
  <2>2. CASE ~stored
    BY <1>3, <1>7, <2>2
  <2> QED BY <2>1, <2>2
<1>10. link' \in [Steps -> 0 .. n]
  BY <1>1, <1>3, <1>8
<1>11. EvidenceTypeOK'
  <2>1. camera' \in [Steps -> Picture \cup {None}]
    BY <1>1 DEF EvidenceInv, EvidenceTypeOK
  <2>2. linked' \subseteq 1 .. n
    BY <1>1, <1>3
  <2>3. page' # None => page'[1] \in 1 .. n /\ page'[2] \in 0 .. n
    BY <1>1, <1>3, <1>8 DEF EvidenceInv, EvidenceTypeOK
  <2> QED BY <1>1, <1>8, <1>9, <1>10, <2>1, <2>2, <2>3 DEF EvidenceInv, EvidenceTypeOK
<1>12. PathInv'
  <2>1. ASSUME NEW p \in Path, blobs'[p] # 0 PROVE shots'[blobs'[p]].path = p
    <3>1. CASE stored /\ p = path
      BY <1>6, <1>8, <1>9, <3>1
    <3>2. CASE ~(stored /\ p = path)
      <4>1. blobs'[p] = blobs[p] /\ blobs[p] \in 1 .. Len(shots)
        BY <1>3, <1>9, <2>1, <3>2
      <4> QED BY <1>8, <4>1 DEF EvidenceInv, PathInv
    <3> QED BY <3>1, <3>2
  <2>2. ASSUME NEW j \in 1 .. n
        PROVE  /\ shots'[j].path[2] = shots'[j].of.number
               /\ shots'[j].stored => blobs'[shots'[j].path] >= j
    <3>1. CASE j = n
      BY <1>4, <1>6, <1>8, <1>9, <3>1
    <3>2. CASE j # n
      <4>1. j \in 1 .. Len(shots) /\ shots'[j] = shots[j] /\ j \in DOMAIN shots
        BY <1>3, <1>8, <3>2
      <4>2. shots[j].path \in Path /\ shots[j].path[2] = shots[j].of.number
        BY <4>1, LinksLead DEF EvidenceInv, PathInv
      <4>3. shots[j].stored => blobs[shots[j].path] >= j
        BY <4>1 DEF EvidenceInv, PathInv
      <4>4. blobs[shots[j].path] \in 0 .. Len(shots)
        BY <1>3, <4>2
      <4>5. blobs'[shots[j].path] >= blobs[shots[j].path]
        <5>1. blobs'[shots[j].path] \in {n, blobs[shots[j].path]}
          BY <1>9, <4>2
        <5>2. Len(shots) \in Nat /\ n = Len(shots) + 1
          BY <1>3
        <5> HIDE DEF n
        <5> QED BY <4>4, <5>1, <5>2
      <4> QED BY <1>9, <4>1, <4>2, <4>3, <4>4, <4>5, <1>3
    <3> QED BY <3>1, <3>2
  <2> QED BY <1>8, <2>1, <2>2 DEF PathInv
<1>13. PagePictureInv'
  <2> SUFFICES ASSUME page # None, page[2] # 0 PROVE StandsFor(page[2], page[1])'
    BY <1>1 DEF PagePictureInv
  <2>1. page[1] \in 1 .. Len(shots) /\ page[2] \in 0 .. Len(shots) /\ StandsFor(page[2], page[1])
    BY <1>8 DEF EvidenceInv, EvidenceTypeOK, PagePictureInv
  <2>2. shots'[page[1]] = shots[page[1]] /\ shots'[page[2]] = shots[page[2]]
    BY <1>3, <1>8, <2>1
  <2> QED BY <1>1, <2>1, <2>2 DEF StandsFor
<1>14. AnswerInv'
  <2> SUFFICES ASSUME answered # None, answered.found = "link"
               PROVE  \E j \in Mine(answered.run)' :
                        shots'[j].of.number = answered.number /\ answered.path = shots'[j].path
    BY <1>1 DEF AnswerInv, Mine
  <2>1. PICK j \in Mine(answered.run) : shots[j].of.number = answered.number /\ answered.path = shots[j].path
    BY DEF EvidenceInv, AnswerInv
  <2>2. j \in linked /\ j \in 1 .. Len(shots) /\ shots'[j] = shots[j]
    BY <1>3, <1>8, <2>1 DEF Mine
  <2> QED BY <1>1, <2>1, <2>2 DEF Mine
<1>15. ASSUME NEW j \in 1 .. n, shots'[j].acted PROVE shots'[j].shows \in {shots'[j].of, None}
  <2>1. CASE j = n
    BY <1>1, <1>6, <1>8, <1>15, <2>1 DEF EvidenceInv, CameraInv
  <2>2. CASE j # n
    <3>1. j \in 1 .. Len(shots) /\ shots'[j] = shots[j]
      BY <1>3, <1>8, <2>2
    <3> QED BY <1>8, <1>15, <3>1 DEF EvidenceInv
  <2> QED BY <2>1, <2>2
<1>16. \A x \in Steps : CameraInv(x)'
  BY <1>1, CameraMoved
<1> QED BY <1>1, <1>8, <1>11, <1>12, <1>13, <1>14, <1>15, <1>16 DEF EvidenceInv

\* A camera is set up, or captures what the browser shows.
LEMMA CameraSet ==
    ASSUME EvidenceInv, NEW s \in Steps, TakeStepScreenshot(s) \/ Capture(s)
    PROVE  EvidenceInv'
<1>1. UNCHANGED <<known, folder, screen, acted, link, shots, blobs, linked, page, sealed, answered>>
  BY DEF TakeStepScreenshot, Capture
<1>2. /\ camera \in [Steps -> Picture \cup {None}] /\ folder \in StepRuns \cup {None}
      /\ screen \in Steps \cup {None} /\ acted \subseteq {screen}
  BY DEF EvidenceInv, EvidenceTypeOK
<1>3. PICK c \in Picture : /\ camera' = [camera EXCEPT ![s] = c]
                           /\ c.path[2] = s.number /\ (c.acted => c.shows \in {s, None})
  <2>1. CASE TakeStepScreenshot(s)
    <3> DEFINE c == [path |-> EvidencePath(s), taken |-> FALSE, acted |-> FALSE, shows |-> None]
    <3>1. camera' = [camera EXCEPT ![s] = c]
      BY <2>1 DEF TakeStepScreenshot
    <3>2. EvidencePath(s) \in Path /\ EvidencePath(s)[2] = s.number
      BY <1>2 DEF EvidencePath, Path, Numbers
    <3>3. c \in Picture /\ c.path[2] = s.number /\ c.acted = FALSE
      BY <3>2 DEF Picture
    <3> QED BY <3>1, <3>3
  <2>2. CASE Capture(s)
    <3>1. PICK seen \in {screen, None} :
            camera' = [camera EXCEPT ![s] = [path |-> @.path, taken |-> TRUE, acted |-> s \in acted, shows |-> seen]]
      BY <2>2 DEF Capture
    <3> DEFINE c == [path |-> camera[s].path, taken |-> TRUE, acted |-> s \in acted, shows |-> seen]
    <3>2. camera' = [camera EXCEPT ![s] = c]
      BY <3>1
    <3>3. camera[s] \in Picture /\ camera[s].path[2] = s.number
      BY <1>2, <2>2 DEF Capture, EvidenceInv, CameraInv
    <3>4. (s \in acted) \in BOOLEAN /\ seen \in Steps \cup {None}
      BY <1>2
    <3>5. c \in Picture
      BY <3>3, <3>4 DEF Picture
    <3>6. c.path[2] = s.number /\ (c.acted => c.shows \in {s, None})
      BY <1>2, <3>3
    <3> QED BY <3>2, <3>5, <3>6
  <2> QED BY <2>1, <2>2
<1>4. camera' \in [Steps -> Picture \cup {None}]
  BY <1>2, <1>3
<1>5. EvidenceTypeOK'
  BY <1>1, <1>4 DEF EvidenceInv, EvidenceTypeOK
<1>6. \A x \in Steps : CameraInv(x)'
  BY <1>3, CameraMoved
<1> QED BY <1>1, <1>5, <1>6, PicturesKept, AnswerKept DEF EvidenceInv

\* Every step keeps the invariant.
LEMMA EvidenceStep == EvidenceInv /\ [EvidenceNext]_evidenceVars => EvidenceInv'
<1> SUFFICES ASSUME EvidenceInv, [EvidenceNext]_evidenceVars PROVE EvidenceInv'
  OBVIOUS
<1>1. ASSUME NEW r \in StepRuns, LoadTestScript(r) \/ SaveToMemory(r) PROVE EvidenceInv'
  <2>1. UNCHANGED <<screen, acted, camera, link, shots, blobs, linked, page, sealed, answered>>
    BY <1>1 DEF LoadTestScript, SaveToMemory
  <2>2. known' \subseteq StepRuns /\ folder' \in StepRuns \cup {None}
    BY <1>1 DEF LoadTestScript, SaveToMemory, EvidenceInv, EvidenceTypeOK
  <2>3. EvidenceTypeOK'
    BY <2>1, <2>2 DEF EvidenceInv, EvidenceTypeOK
  <2> QED BY <2>1, <2>3, PicturesKept, AnswerKept, CamerasKept DEF EvidenceInv
<1>2. ASSUME NEW s \in Steps, BrowserAct(s) PROVE EvidenceInv'
  <2>1. UNCHANGED <<known, folder, camera, link, shots, blobs, linked, page, sealed, answered>>
    BY <1>2 DEF BrowserAct
  <2>2. screen' \in Steps \cup {None} /\ acted' \subseteq {screen'} /\ acted' \subseteq Steps
    BY <1>2 DEF BrowserAct, EvidenceInv, EvidenceTypeOK
  <2>3. EvidenceTypeOK'
    BY <2>1, <2>2 DEF EvidenceInv, EvidenceTypeOK
  <2> QED BY <2>1, <2>2, <2>3, PicturesKept, AnswerKept, CamerasKept DEF EvidenceInv
<1>3. ASSUME NEW s \in Steps, SaveEvidence(s) PROVE EvidenceInv'
  <2>1. /\ link[s] # 0 /\ linked' = linked \cup {link[s]} /\ link' = [link EXCEPT ![s] = 0]
        /\ UNCHANGED <<known, folder, screen, acted, camera, shots, blobs, page, sealed, answered>>
    BY <1>3 DEF SaveEvidence
  <2>2. linked' \subseteq DOMAIN shots /\ link' \in [Steps -> 0 .. Len(shots)]
    BY <2>1 DEF EvidenceInv, EvidenceTypeOK
  <2>3. EvidenceTypeOK'
    BY <2>1, <2>2 DEF EvidenceInv, EvidenceTypeOK
  <2> QED BY <2>1, <2>3, PicturesKept, AnswerKept, CamerasKept DEF EvidenceInv
<1>4. ASSUME NEW i \in DOMAIN shots, ReportPage(i) PROVE EvidenceInv'
  <2>1. PICK found \in {0, blobs[shots[i].path]} : page' = <<i, found>>
    BY <1>4 DEF ReportPage
  <2>2. UNCHANGED <<known, folder, screen, acted, camera, link, shots, blobs, linked, sealed, answered>>
    BY <1>4 DEF ReportPage
  <2>3. StandsFor(blobs[shots[i].path], i) /\ blobs[shots[i].path] \in 0 .. Len(shots)
    BY LinksLead DEF EvidenceInv, EvidenceTypeOK
  <2>4. found \in 0 .. Len(shots) /\ (found # 0 => StandsFor(found, i))
    BY <2>3 DEF EvidenceInv, EvidenceTypeOK
  <2>5. page'[1] = i /\ page'[2] = found
    BY <2>1
  <2>6. PagePictureInv'
    BY <2>2, <2>4, <2>5 DEF PagePictureInv, StandsFor
  <2>7. EvidenceTypeOK'
    BY <2>2, <2>4, <2>5 DEF EvidenceInv, EvidenceTypeOK
  <2> QED BY <2>2, <2>6, <2>7, PicturesKept, AnswerKept, CamerasKept DEF EvidenceInv
<1>5. CASE SealResults
  <2>1. /\ ~sealed /\ known' = {} /\ folder' = None /\ screen' = None /\ acted' = {} /\ sealed' = TRUE
        /\ link' = [s \in Steps |-> 0] /\ linked' \in {linked, {}}
        /\ UNCHANGED <<camera, shots, blobs, page, answered>>
    BY <1>5 DEF SealResults
  <2>2. EvidenceTypeOK'
    BY <2>1 DEF EvidenceInv, EvidenceTypeOK
  <2>3. AnswerInv'
    BY <2>1 DEF EvidenceInv, AnswerInv
  <2> QED BY <2>1, <2>2, <2>3, PicturesKept, CamerasKept DEF EvidenceInv
<1>6. ASSUME NEW r \in StepRuns, NEW n \in Numbers, GetStepScreenshot(r, n) PROVE EvidenceInv'
  <2> DEFINE rows == {i \in Mine(r) : shots[i].of.number = n}
             one == CHOOSE i \in rows : TRUE
  <2>1. /\ sealed /\ UNCHANGED <<known, folder, screen, acted, camera, link, shots, blobs, linked, page, sealed>>
        /\ answered' = [run |-> r, number |-> n,
                         found |-> CASE rows = {} -> "missing"
                                     [] Cardinality(rows) > 1 -> "error"
                                     [] OTHER -> "link",
                         path |-> IF Cardinality(rows) = 1 THEN shots[one].path ELSE None]
    BY <1>6 DEF GetStepScreenshot
  <2>2. rows \subseteq linked /\ linked \subseteq DOMAIN shots
    BY DEF Mine, EvidenceInv, EvidenceTypeOK
  <2>3. Cardinality(rows) = 1 => one \in rows /\ shots[one].path \in Path
    <3>1. Cardinality(rows) = 1 => rows # {}
      BY FS_EmptySet
    <3> QED BY <2>2, <3>1, LinksLead
  <2>4. rows # {} /\ ~(Cardinality(rows) > 1) => Cardinality(rows) = 1
    BY <2>2, OneResult DEF EvidenceInv
  <2> HIDE DEF rows, one
  <2>5. /\ answered'.found \in {"missing", "error", "link"} /\ answered'.path \in Path \cup {None}
        /\ answered'.found = "link" => Cardinality(rows) = 1 /\ answered'.path = shots[one].path
    <3>1. CASE rows = {}
      BY <2>1, <2>3, <3>1
    <3>2. CASE rows # {} /\ Cardinality(rows) > 1
      BY <2>1, <2>3, <3>2
    <3>3. CASE rows # {} /\ ~(Cardinality(rows) > 1)
      BY <2>1, <2>3, <2>4, <3>3
    <3> QED BY <3>1, <3>2, <3>3
  <2>6. AnswerInv'
    <3>1. answered'.found = "link" => one \in Mine(r) /\ shots[one].of.number = n
      BY <2>3, <2>5 DEF rows
    <3>2. answered'.run = r /\ answered'.number = n
      BY <2>1
    <3> QED BY <2>1, <2>5, <3>1, <3>2 DEF AnswerInv, Mine
  <2>7. answered' \in [run : StepRuns, number : Numbers,
                       found : {"missing", "error", "link"}, path : Path \cup {None}]
    BY <2>1, <2>5
  <2>8. EvidenceTypeOK'
    BY <2>1, <2>7 DEF EvidenceInv, EvidenceTypeOK
  <2> QED BY <2>1, <2>6, <2>8, PicturesKept, CamerasKept DEF EvidenceInv
<1>7. CASE UNCHANGED evidenceVars
  <2>1. UNCHANGED <<known, folder, screen, acted, camera, link, shots, blobs, linked, page, sealed, answered>>
    BY <1>7 DEF evidenceVars
  <2>2. EvidenceTypeOK'
    BY <2>1 DEF EvidenceInv, EvidenceTypeOK
  <2> QED BY <2>1, <2>2, PicturesKept, AnswerKept, CamerasKept DEF EvidenceInv
<1> QED BY <1>1, <1>2, <1>3, <1>4, <1>5, <1>6, <1>7, ShotTaken, CameraSet DEF EvidenceNext

\* No picture has been taken at first.
LEMMA EvidenceStarts == EvidenceInit => EvidenceInv
<1> SUFFICES ASSUME EvidenceInit PROVE EvidenceInv
  OBVIOUS
<1>1. shots = <<>> /\ DOMAIN shots = {} /\ Len(shots) = 0 /\ shots \in Seq(Shot)
  BY DEF EvidenceInit
<1>2. EvidenceTypeOK
  <2>1. blobs \in [Path -> 0 .. Len(shots)] /\ link \in [Steps -> 0 .. Len(shots)]
    BY <1>1 DEF EvidenceInit
  <2>2. camera \in [Steps -> Picture \cup {None}] /\ linked \subseteq DOMAIN shots
    BY <1>1 DEF EvidenceInit
  <2> QED BY <1>1, <2>1, <2>2 DEF EvidenceInit, EvidenceTypeOK
<1>3. \A s \in Steps : CameraInv(s)
  BY DEF EvidenceInit, CameraInv
<1> QED BY <1>1, <1>2, <1>3 DEF EvidenceInit, EvidenceInv, PathInv, AnswerInv, PagePictureInv

\* Links, pages and answers lead to pictures of a step with the right number that are no
\* older than the step's own, for any steps and however the model works through them, one
\* after another or side by side (take_step_screenshot, save_step_result and
\* generate_evidence_report of agents/tool_registry.py; get_step_screenshot_sas_url of
\* services/evidence_service.py).
THEOREM EvidenceAlwaysShown == EvidenceSpec => []EvidenceShown
<1>1. ASSUME EvidenceInv PROVE EvidenceShown
  <2>1. \A j \in linked : StandsFor(blobs[shots[j].path], j)
    BY <1>1, LinksLead DEF EvidenceInv, EvidenceTypeOK
  <2>2. answered # None /\ answered.found = "link" =>
         \E j \in Mine(answered.run) :
             shots[j].of.number = answered.number /\ StandsFor(blobs[answered.path], j)
    <3> SUFFICES ASSUME answered # None, answered.found = "link"
                 PROVE  \E j \in Mine(answered.run) :
                          shots[j].of.number = answered.number /\ StandsFor(blobs[answered.path], j)
      OBVIOUS
    <3>1. PICK j \in Mine(answered.run) : shots[j].of.number = answered.number /\ answered.path = shots[j].path
      BY <1>1 DEF EvidenceInv, AnswerInv
    <3>2. StandsFor(blobs[answered.path], j)
      BY <2>1, <3>1 DEF Mine
    <3> QED BY <3>1, <3>2
  <2> QED BY <1>1, <2>1, <2>2 DEF EvidenceInv, PagePictureInv, EvidenceShown
<1> QED BY <1>1, EvidenceStarts, EvidenceStep, PTL DEF EvidenceSpec

-----------------------------------------------------------------------------
(* The calls of the language model (ModelCalls).                           *)

\* The requests a tool may have made before the client's present series of tries.
Earlier(tool) == IF tool = "analysis" THEN 1 ELSE 0

\* A tool in a mode it can be in; only call_ai, the format tools and the analysis that
\* falls back ask for plain text.
ToolMode(tool, mode) ==
    IF mode = "plain" THEN tool \in {"call_ai", "format", "analysis"}
    ELSE mode = "structured" /\ tool \in {"analysis", "quality", "cases"}

\* A call, what of it is logged, and the requests made for it.
CallInv(a, log, n) ==
    /\ a \in Ask /\ ToolMode(a.tool, a.mode)
    /\ log["structured"] = None \/ a.tool \in {"analysis", "quality", "cases"}
    /\ a.phase \in {"asking", "waiting"} => log[a.mode] = None /\ Fits(a.tool, a.mode, a.room)
    /\ a.mode = "structured" => a.tries = 0 /\ log["plain"] = None
    /\ a.phase = "asking" => n <= Earlier(a.tool) + a.tries
    /\ a.mode = "structured" /\ a.phase = "asking" => n = 0
    /\ a.phase = "waiting" => a.mode = "plain" /\ a.tries < 2 /\ n <= Earlier(a.tool) + a.tries + 1
    /\ n <= Earlier(a.tool) + 3
    /\ a.tool = "analysis" /\ a.mode = "plain" =>
          (log["structured"] = None <=> ~Fits("analysis", "structured", a.room))
    /\ a.phase = "error" /\ n = 0 => log["structured"] = None /\ log["plain"] = None
    /\ a.phase = "model" => log[a.mode] = "success"

Logs == [Modes -> {"success", "failure", None}]

\* What holds of one tool call; nothing is known of one that has not started.
OneCall(k) ==
    /\ ask[k] = None => sent[k] = 0 /\ \A m \in Modes : logged[k][m] = None
    /\ ask[k] # None => CallInv(ask[k], logged[k], sent[k])
    /\ timedOut => ~UnderWay(k)
    /\ \A m \in Modes : /\ logged[k][m] = "success" => <<k, m>> \in worked
                        /\ <<k, m>> \in worked => logged[k][m] # None

AskInv == AskTypeOK /\ \A k \in Asks : OneCall(k)

\* The log of a call with a new entry.
LEMMA LogFacts ==
    ASSUME NEW log \in Logs, NEW mode \in Modes, NEW e \in {"success", "failure"}
    PROVE  /\ [log EXCEPT ![mode] = e] \in Logs
           /\ [log EXCEPT ![mode] = e][mode] = e /\ e # None
           /\ \A m \in Modes : m # mode => [log EXCEPT ![mode] = e][m] = log[m]
BY AskAssumption DEF Logs

\* A call whose text does not fit is answered without a request, or falls back.
LEMMA NotFitting ==
    ASSUME NEW tool \in AskTools, NEW room \in Rooms, NEW log \in Logs,
           log["structured"] = None, log["plain"] = None,
           ~Fits(tool, FirstMode(tool), room)
    PROVE  CallInv(OnError(tool, FirstMode(tool), room), log, 0)
<1> USE AskAssumption DEF CallInv, Ask, ToolMode, Asking, OnError, FirstMode, FormatTools, Modes, Earlier, AskTools
<1>1. CASE tool = "analysis"
  BY <1>1
<1>2. CASE tool # "analysis"
  BY <1>2
<1> QED BY <1>1, <1>2

\* One that fits is asked.
LEMMA Fitting ==
    ASSUME NEW tool \in AskTools, NEW room \in Rooms, NEW log \in Logs,
           log["structured"] = None, log["plain"] = None,
           Fits(tool, FirstMode(tool), room)
    PROVE  CallInv(Asking(tool, FirstMode(tool), room), log, 0)
BY AskAssumption DEF CallInv, Ask, ToolMode, Asking, FirstMode, FormatTools, Modes, Earlier, AskTools

\* A request that raised, once it is logged: the tool makes something of it, or asks again.
LEMMA Raising ==
    ASSUME NEW a, NEW log \in Logs, NEW n \in Nat, CallInv(a, log, n), a.phase = "asking",
           NEW e \in {"success", "failure"}
    PROVE  CallInv(OnError(a.tool, a.mode, a.room), [log EXCEPT ![a.mode] = e], n + 1)
<1> DEFINE new == [log EXCEPT ![a.mode] = e]
<1> SUFFICES CallInv(OnError(a.tool, a.mode, a.room), new, n + 1)
  OBVIOUS
<1>1. /\ a.tool \in AskTools /\ a.room \in Rooms /\ a.mode \in Modes /\ a.tries \in 0 .. 2
      /\ ToolMode(a.tool, a.mode) /\ Fits(a.tool, a.mode, a.room)
      /\ n <= Earlier(a.tool) + a.tries /\ (a.mode = "structured" => n = 0 /\ log["plain"] = None)
      /\ (log["structured"] = None \/ a.tool \in {"analysis", "quality", "cases"})
      /\ a.tool = "analysis" /\ a.mode = "plain" =>
          (log["structured"] = None <=> ~Fits("analysis", "structured", a.room))
  BY DEF CallInv, Ask
<1>2. /\ new \in Logs /\ new[a.mode] = e /\ new[a.mode] # None
      /\ \A m \in Modes : m # a.mode => new[m] = log[m]
  BY <1>1, AskAssumption DEF Logs
<1>3. Earlier(a.tool) \in 0 .. 1
  BY DEF Earlier
<1> HIDE DEF new
<1> USE DEF Modes, ToolMode
<1>4. CASE a.tool = "analysis" /\ a.mode = "structured" /\ Fits(a.tool, "plain", a.room)
  <2>1. OnError(a.tool, a.mode, a.room) = Asking(a.tool, "plain", a.room)
    BY <1>4 DEF OnError
  <2>2. new["plain"] = None /\ new["structured"] # None
    BY <1>1, <1>2, <1>4
  <2> QED BY <1>1, <1>2, <1>4, <2>1, <2>2, AskAssumption DEF CallInv, Ask, Asking, Earlier
<1>5. CASE a.tool = "quality"
  <2>1. OnError(a.tool, a.mode, a.room) = [Asking(a.tool, a.mode, a.room) EXCEPT !.phase = "made_up"]
    BY <1>5 DEF OnError
  <2> QED BY <1>1, <1>2, <1>3, <1>5, <2>1, AskAssumption DEF CallInv, Ask, Asking, Earlier
<1>6. CASE ~(a.tool = "analysis" /\ a.mode = "structured" /\ Fits(a.tool, "plain", a.room)) /\ a.tool # "quality"
  <2>1. OnError(a.tool, a.mode, a.room) = [Asking(a.tool, a.mode, a.room) EXCEPT !.phase = "error"]
    BY <1>6 DEF OnError
  <2> QED BY <1>1, <1>2, <1>3, <1>6, <2>1, AskAssumption DEF CallInv, Ask, Asking, Earlier
<1> QED BY <1>4, <1>5, <1>6

\* Calls that a step leaves alone are as they were.
LEMMA CallKept ==
    ASSUME AskInv, NEW k \in Asks, ask'[k] = ask[k], logged'[k] = logged[k], sent'[k] = sent[k],
           timedOut' = timedOut, \A m \in Modes : <<k, m>> \in worked' <=> <<k, m>> \in worked
    PROVE  OneCall(k)'
<1>1. OneCall(k)
  BY DEF AskInv
<1> QED BY <1>1 DEF OneCall, UnderWay, AskPhase

\* The calls under way.
LEMMA AskingFacts ==
    ASSUME AskInv, NEW k \in Asks, NEW phase, AskPhase(k, phase)
    PROVE  /\ ask[k] \in Ask /\ ask[k].phase = phase /\ CallInv(ask[k], logged[k], sent[k])
           /\ logged[k] \in Logs /\ sent[k] \in Nat /\ ask[k].mode \in Modes
           /\ phase \in {"asking", "waiting"} => timedOut = FALSE
<1>1. ask[k] # None /\ ask[k].phase = phase
  BY DEF AskPhase
<1>2. ask[k] \in Ask /\ logged[k] \in Logs /\ sent[k] \in Nat /\ timedOut \in BOOLEAN
  BY <1>1 DEF AskInv, AskTypeOK, Logs
<1>3. phase \in {"asking", "waiting"} => ~timedOut
  BY DEF AskInv, OneCall, UnderWay
<1> QED BY <1>1, <1>2, <1>3 DEF AskInv, OneCall, Ask

\* A step of call k that is under way: the request it makes, the entry it leaves.
LEMMA CallSteps ==
    ASSUME AskInv, NEW k \in Asks, NEW a \in Ask, NEW log \in Logs, NEW n \in Nat,
           ask' = [ask EXCEPT ![k] = a], logged' = [logged EXCEPT ![k] = log], sent' = [sent EXCEPT ![k] = n],
           timedOut' = timedOut, written' \subseteq Asks \X Modes,
           worked' \subseteq Asks \X Modes,
           \A j \in Asks, m \in Modes : j # k => (<<j, m>> \in worked' <=> <<j, m>> \in worked),
           CallInv(a, log, n), timedOut => a.phase \notin {"asking", "waiting"},
           \A m \in Modes : /\ log[m] = "success" => <<k, m>> \in worked'
                            /\ <<k, m>> \in worked' => log[m] # None
    PROVE  AskInv'
<1>1. AskTypeOK'
  BY DEF AskInv, AskTypeOK, Logs
<1>2. OneCall(k)'
  <2>1. ask'[k] = a /\ logged'[k] = log /\ sent'[k] = n /\ a # None
    BY AskAssumption DEF AskInv, AskTypeOK
  <2>2. UnderWay(k)' => a.phase \in {"asking", "waiting"}
    BY <2>1 DEF UnderWay, AskPhase
  <2> QED BY <2>1, <2>2 DEF OneCall
<1>3. ASSUME NEW j \in Asks, j # k PROVE OneCall(j)'
  <2>1. ask'[j] = ask[j] /\ logged'[j] = logged[j] /\ sent'[j] = sent[j]
    BY <1>3 DEF AskInv, AskTypeOK
  <2> QED BY <1>3, <2>1, CallKept
<1>4. \A j \in Asks : OneCall(j)'
  BY <1>2, <1>3
<1> QED BY <1>1, <1>4 DEF AskInv

\* A call that starts.
LEMMA StartKeeps == ASSUME AskInv, NEW k \in Asks, StartAsk(k) PROVE AskInv'
<1>1. /\ ask[k] = None /\ timedOut = FALSE /\ UNCHANGED <<logged, written, sent, worked, timedOut>>
      /\ sent[k] = 0 /\ logged[k] \in Logs /\ \A m \in Modes : logged[k][m] = None
      /\ ask \in [Asks -> Ask \cup {None}] /\ logged \in [Asks -> Logs] /\ sent \in [Asks -> Nat]
      /\ written \subseteq Asks \X Modes /\ worked \subseteq Asks \X Modes
  BY DEF StartAsk, AskInv, AskTypeOK, OneCall, Logs
<1>2. PICK tool \in AskTools, room \in Rooms :
        ask' = [ask EXCEPT ![k] = IF Fits(tool, FirstMode(tool), room) THEN Asking(tool, FirstMode(tool), room)
                                  ELSE OnError(tool, FirstMode(tool), room)]
  BY DEF StartAsk
<1> DEFINE a == IF Fits(tool, FirstMode(tool), room) THEN Asking(tool, FirstMode(tool), room)
                ELSE OnError(tool, FirstMode(tool), room)
<1>3. CallInv(a, logged[k], 0)
  <2>1. logged[k]["structured"] = None /\ logged[k]["plain"] = None
    BY <1>1 DEF Modes
  <2> QED BY <1>1, <2>1, Fitting, NotFitting
<1>4. a \in Ask
  BY <1>3 DEF CallInv
<1> HIDE DEF a
<1>5. \A m \in Modes : <<k, m>> \notin worked
  BY <1>1 DEF AskInv, OneCall
<1>6. \A m \in Modes : logged[k][m] # "success"
  BY <1>1, AskAssumption
<1>7. ask' = [ask EXCEPT ![k] = a] /\ logged' = [logged EXCEPT ![k] = logged[k]] /\ sent' = [sent EXCEPT ![k] = 0]
  BY <1>1, <1>2 DEF a
<1> QED BY <1>1, <1>3, <1>4, <1>5, <1>6, <1>7, CallSteps

\* A request that is over: it is logged, and the tool makes something of it.
LEMMA EndKeeps ==
    ASSUME AskInv, NEW k \in Asks, AskPhase(k, "asking"),
           NEW b, NEW e \in {"success", "failure"},
           ask' = [ask EXCEPT ![k] = b], sent' = [sent EXCEPT ![k] = @ + 1],
           logged' = [logged EXCEPT ![k][ask[k].mode] = e],
           UNCHANGED <<written, timedOut>>,
           worked' \in {worked, worked \cup {<<k, ask[k].mode>>}},
           e = "success" => <<k, ask[k].mode>> \in worked',
           \/ b = [ask[k] EXCEPT !.phase = "model"] /\ e = "success"
           \/ b = OnError(ask[k].tool, ask[k].mode, ask[k].room)
    PROVE  AskInv'
<1> DEFINE a == ask[k]
           log == [logged[k] EXCEPT ![a.mode] = e]
<1>1. /\ a \in Ask /\ a.phase = "asking" /\ CallInv(a, logged[k], sent[k])
      /\ logged[k] \in Logs /\ sent[k] \in Nat /\ a.mode \in Modes /\ timedOut = FALSE
  BY AskingFacts
<1>2. /\ logged \in [Asks -> Logs] /\ sent \in [Asks -> Nat] /\ ask \in [Asks -> Ask \cup {None}]
      /\ written \subseteq Asks \X Modes /\ worked \subseteq Asks \X Modes
  BY DEF AskInv, AskTypeOK, Logs
<1>3. log \in Logs /\ log[a.mode] = e /\ e # None /\ \A m \in Modes : m # a.mode => log[m] = logged[k][m]
  BY <1>1, AskAssumption DEF Logs
<1>4. CallInv(b, log, sent[k] + 1)
  <2>1. CASE b = OnError(a.tool, a.mode, a.room)
    BY <1>1, <2>1, Raising
  <2>2. CASE b = [a EXCEPT !.phase = "model"] /\ e = "success"
    <3>1. /\ b.tool = a.tool /\ b.mode = a.mode /\ b.room = a.room /\ b.tries = a.tries
          /\ b.phase = "model" /\ b \in Ask
      BY <1>1, <2>2 DEF Ask
    <3>2. a.tries \in 0 .. 2 /\ Earlier(a.tool) \in 0 .. 1
      BY <1>1 DEF Ask, Earlier
    <3> HIDE DEF log
    <3> QED BY <1>1, <1>3, <2>2, <3>1, <3>2 DEF CallInv, ToolMode, Modes
  <2> QED BY <2>1, <2>2
<1>5. \A m \in Modes : /\ log[m] = "success" => <<k, m>> \in worked'
                       /\ <<k, m>> \in worked' => log[m] # None
  <2> SUFFICES ASSUME NEW m \in Modes
               PROVE  /\ log[m] = "success" => <<k, m>> \in worked'
                      /\ <<k, m>> \in worked' => log[m] # None
    OBVIOUS
  <2> HIDE DEF log
  <2>1. /\ logged[k][m] = "success" => <<k, m>> \in worked
        /\ <<k, m>> \in worked => logged[k][m] # None
    BY DEF AskInv, OneCall
  <2>2. CASE m = a.mode
    BY <1>3, <2>2
  <2>3. CASE m # a.mode
    BY <1>3, <2>1, <2>3
  <2> QED BY <2>2, <2>3
<1>6. worked' \subseteq Asks \X Modes /\ written' \subseteq Asks \X Modes
  BY <1>1, <1>2
<1>7. \A j \in Asks, m \in Modes : j # k => (<<j, m>> \in worked' <=> <<j, m>> \in worked)
  OBVIOUS
<1>8. b \in Ask /\ sent[k] + 1 \in Nat
  BY <1>1, <1>4 DEF CallInv
<1>9. sent' = [sent EXCEPT ![k] = sent[k] + 1] /\ logged' = [logged EXCEPT ![k] = log]
  OBVIOUS
<1>10. timedOut' = timedOut /\ (timedOut => b.phase \notin {"asking", "waiting"})
  BY <1>1
<1> HIDE DEF log
<1> QED BY <1>3, <1>4, <1>5, <1>6, <1>7, <1>8, <1>9, <1>10, CallSteps

\* The rate limit, and the next try.
LEMMA RetryKeeps == ASSUME AskInv, NEW k \in Asks, RateLimited(k) \/ AskAgain(k) PROVE AskInv'
<1> DEFINE a == ask[k]
<1>1. PICK b, n :
        /\ ask' = [ask EXCEPT ![k] = b] /\ sent' = [sent EXCEPT ![k] = n]
        /\ \/ /\ AskPhase(k, "asking") /\ ~LastTry(a)
              /\ b = [a EXCEPT !.phase = "waiting"] /\ n = sent[k] + 1
           \/ /\ AskPhase(k, "waiting")
              /\ b = [a EXCEPT !.phase = "asking", !.tries = @ + 1] /\ n = sent[k]
  <2>1. CASE RateLimited(k)
    BY <2>1 DEF RateLimited
  <2>2. CASE AskAgain(k)
    <3>1. sent' = [sent EXCEPT ![k] = sent[k]]
      BY <2>2 DEF AskAgain, AskInv, AskTypeOK
    <3> QED BY <2>2, <3>1 DEF AskAgain
  <2> QED BY <2>1, <2>2
<1>2. UNCHANGED <<logged, written, worked, timedOut>>
  BY DEF RateLimited, AskAgain
<1>3. /\ logged \in [Asks -> Logs] /\ written \subseteq Asks \X Modes /\ worked \subseteq Asks \X Modes
      /\ logged' = [logged EXCEPT ![k] = logged[k]]
  BY <1>2 DEF AskInv, AskTypeOK, Logs
<1>4. /\ a \in Ask /\ CallInv(a, logged[k], sent[k]) /\ logged[k] \in Logs /\ sent[k] \in Nat
      /\ timedOut = FALSE /\ Earlier(a.tool) \in 0 .. 1
  <2>1. PICK phase \in {"asking", "waiting"} : AskPhase(k, phase)
    BY <1>1
  <2>2. Earlier(a.tool) \in 0 .. 1
    BY DEF Earlier
  <2> QED BY <2>1, <2>2, AskingFacts
<1>5. CallInv(b, logged[k], n) /\ n \in Nat
  <2>1. CASE a.phase = "asking" /\ ~LastTry(a) /\ b = [a EXCEPT !.phase = "waiting"] /\ n = sent[k] + 1
    <3>1. /\ b.tool = a.tool /\ b.mode = a.mode /\ b.room = a.room /\ b.tries = a.tries
          /\ b.phase = "waiting" /\ b \in Ask /\ a.tries \in 0 .. 2 /\ a.mode \in Modes
      BY <1>4, <2>1 DEF Ask
    <3> QED BY <1>4, <2>1, <3>1 DEF CallInv, LastTry, Modes, ToolMode
  <2>2. CASE a.phase = "waiting" /\ b = [a EXCEPT !.phase = "asking", !.tries = @ + 1] /\ n = sent[k]
    <3>1. a.tries \in 0 .. 1 /\ a.mode = "plain"
      BY <1>4, <2>2 DEF CallInv, Ask
    <3>2. a.tries + 1 \in 0 .. 2
      BY <3>1
    <3>3. /\ b.tool = a.tool /\ b.mode = a.mode /\ b.room = a.room /\ b.tries = a.tries + 1
          /\ b.phase = "asking" /\ b \in Ask
      BY <1>4, <2>2, <3>2 DEF Ask
    <3> QED BY <1>4, <2>2, <3>1, <3>3 DEF CallInv, Modes, ToolMode
  <2> QED BY <1>1, <2>1, <2>2 DEF AskPhase
<1>6. \A m \in Modes : /\ logged[k][m] = "success" => <<k, m>> \in worked'
                       /\ <<k, m>> \in worked' => logged[k][m] # None
  BY <1>2 DEF AskInv, OneCall
<1>7. b \in Ask
  BY <1>5 DEF CallInv
<1> QED BY <1>1, <1>2, <1>3, <1>4, <1>5, <1>6, <1>7, CallSteps

\* The timeout ends every call under way.
LEMMA TimeOutKeeps == AskInv /\ TimeOut => AskInv'
<1> SUFFICES ASSUME AskInv, TimeOut PROVE AskInv'
  OBVIOUS
<1>1. /\ timedOut' = TRUE /\ written' = written
      /\ ask' = [k \in Asks |-> IF UnderWay(k) THEN [ask[k] EXCEPT !.phase = "cancelled"] ELSE ask[k]]
      /\ logged' = [k \in Asks |-> IF UnderWay(k) THEN [logged[k] EXCEPT ![ask[k].mode] = "failure"] ELSE logged[k]]
  BY DEF TimeOut
<1>2. PICK reached \in SUBSET {k \in Asks : AskPhase(k, "asking")} :
        /\ sent' = [k \in Asks |-> IF k \in reached THEN sent[k] + 1 ELSE sent[k]]
        /\ worked' \in {worked, worked \cup {<<k, ask[k].mode>> : k \in reached}}
  BY DEF TimeOut
<1>3. ASSUME NEW k \in Asks
      PROVE  /\ ask'[k] \in Ask \cup {None} /\ logged'[k] \in Logs /\ sent'[k] \in Nat
             /\ OneCall(k)'
  <2>0. /\ ask[k] \in Ask \cup {None} /\ logged[k] \in Logs /\ sent[k] \in Nat /\ OneCall(k)
    BY DEF AskInv, AskTypeOK, Logs
  <2>1. CASE ~UnderWay(k)
    <3>1. k \notin reached
      BY <2>1 DEF UnderWay
    <3>2. ask'[k] = ask[k] /\ logged'[k] = logged[k] /\ sent'[k] = sent[k]
      BY <1>1, <1>2, <2>1, <3>1
    <3>3. \A m \in Modes : <<k, m>> \in worked' <=> <<k, m>> \in worked
      BY <1>2, <3>1
    <3>4. ~UnderWay(k)'
      BY <2>1, <3>2 DEF UnderWay, AskPhase
    <3> QED BY <2>0, <3>2, <3>3, <3>4 DEF OneCall
  <2>2. CASE UnderWay(k)
    <3> DEFINE a == ask[k]
               b == [a EXCEPT !.phase = "cancelled"]
               log == [logged[k] EXCEPT ![a.mode] = "failure"]
    <3>1. PICK phase \in {"asking", "waiting"} : AskPhase(k, phase)
      BY <2>2 DEF UnderWay
    <3>2. /\ a \in Ask /\ a.phase = phase /\ CallInv(a, logged[k], sent[k])
          /\ a.mode \in Modes /\ Earlier(a.tool) \in 0 .. 1 /\ a.tries \in 0 .. 2
      <4>1. Earlier(a.tool) \in 0 .. 1
        BY DEF Earlier
      <4>2. a \in Ask /\ a.phase = phase /\ CallInv(a, logged[k], sent[k]) /\ a.mode \in Modes
        BY <3>1, AskingFacts
      <4> QED BY <4>1, <4>2 DEF Ask
    <3>3. /\ ask'[k] = b /\ logged'[k] = log /\ sent'[k] \in {sent[k], sent[k] + 1}
          /\ (sent'[k] # sent[k] => phase = "asking")
      <4>1. k \in reached => phase = "asking"
        BY <3>2 DEF AskPhase
      <4> QED BY <1>1, <1>2, <2>2, <4>1
    <3>4. log \in Logs /\ log[a.mode] = "failure" /\ \A m \in Modes : m # a.mode => log[m] = logged[k][m]
      BY <2>0, <3>2, AskAssumption DEF Logs
    <3>5. /\ b.tool = a.tool /\ b.mode = a.mode /\ b.room = a.room /\ b.tries = a.tries
          /\ b.phase = "cancelled" /\ b \in Ask
      BY <3>2 DEF Ask
    <3> HIDE DEF log, b
    <3>6. CallInv(b, log, sent'[k])
      BY <2>0, <3>1, <3>2, <3>3, <3>4, <3>5, AskAssumption DEF CallInv, ToolMode, Modes
    <3>7. \A m \in Modes : /\ log[m] = "success" => <<k, m>> \in worked'
                           /\ <<k, m>> \in worked' => log[m] # None
      <4> SUFFICES ASSUME NEW m \in Modes
                   PROVE  /\ log[m] = "success" => <<k, m>> \in worked'
                          /\ <<k, m>> \in worked' => log[m] # None
        OBVIOUS
      <4>1. CASE m = a.mode
        BY <3>4, <4>1, AskAssumption
      <4>2. CASE m # a.mode
        <5>1. <<k, m>> \in worked' <=> <<k, m>> \in worked
          BY <1>2, <4>2
        <5> QED BY <2>0, <3>4, <4>2, <5>1 DEF OneCall
      <4> QED BY <4>1, <4>2
    <3>8. ~UnderWay(k)'
      BY <3>3, <3>5 DEF UnderWay, AskPhase
    <3>9. b # None
      BY <3>5, AskAssumption
    <3> QED BY <2>0, <3>3, <3>4, <3>5, <3>6, <3>7, <3>8, <3>9 DEF OneCall
  <2> QED BY <2>1, <2>2
<1>4. worked' \subseteq Asks \X Modes
  <2>1. worked \subseteq Asks \X Modes
    BY DEF AskInv, AskTypeOK
  <2>2. \A k \in reached : <<k, ask[k].mode>> \in Asks \X Modes
    BY <1>2, AskingFacts
  <2> QED BY <1>2, <2>1, <2>2
<1>5. ask' \in [Asks -> Ask \cup {None}] /\ logged' \in [Asks -> Logs] /\ sent' \in [Asks -> Nat]
  BY <1>1, <1>2, <1>3
<1>6. AskTypeOK'
  BY <1>1, <1>4, <1>5 DEF AskInv, AskTypeOK, Logs
<1> QED BY <1>3, <1>6 DEF AskInv

\* Every step keeps the invariant.
LEMMA AskStep == AskInv /\ [AskNext]_askVars => AskInv'
<1> SUFFICES ASSUME AskInv, [AskNext]_askVars PROVE AskInv'
  OBVIOUS
<1>1. ASSUME NEW k \in Asks, Answer(k) PROVE AskInv'
  <2>1. AskPhase(k, "asking") /\ worked' = worked \cup {<<k, ask[k].mode>>}
    BY <1>1 DEF Answer
  <2>2. PICK b \in {[ask[k] EXCEPT !.phase = "model"], OnError(ask[k].tool, ask[k].mode, ask[k].room)} :
          ask' = [ask EXCEPT ![k] = b]
    BY <1>1 DEF Answer
  <2>3. /\ sent' = [sent EXCEPT ![k] = @ + 1] /\ UNCHANGED <<written, timedOut>>
        /\ logged' = [logged EXCEPT ![k][ask[k].mode] = "success"]
    BY <1>1 DEF Answer, Entry
  <2> QED BY <2>1, <2>2, <2>3, EndKeeps
<1>2. ASSUME NEW k \in Asks, AskFails(k) PROVE AskInv'
  <2>1. /\ AskPhase(k, "asking") /\ worked' \in {worked, worked \cup {<<k, ask[k].mode>>}}
        /\ ask' = [ask EXCEPT ![k] = OnError(ask[k].tool, ask[k].mode, ask[k].room)]
        /\ sent' = [sent EXCEPT ![k] = @ + 1] /\ UNCHANGED <<written, timedOut>>
        /\ logged' = [logged EXCEPT ![k][ask[k].mode] = "failure"]
    BY <1>2 DEF AskFails, Entry
  <2> QED BY <2>1, EndKeeps
<1>3. ASSUME NEW k \in Asks, NEW mode \in Modes, WriteLog(k, mode) PROVE AskInv'
  <2>1. AskTypeOK'
    BY <1>3 DEF WriteLog, AskInv, AskTypeOK
  <2>2. ASSUME NEW j \in Asks PROVE OneCall(j)'
    BY <1>3, CallKept DEF WriteLog
  <2> QED BY <2>1, <2>2 DEF AskInv
<1>4. CASE UNCHANGED askVars
  <2>1. AskTypeOK'
    BY <1>4 DEF askVars, AskInv, AskTypeOK
  <2>2. ASSUME NEW j \in Asks PROVE OneCall(j)'
    BY <1>4, CallKept DEF askVars
  <2> QED BY <2>1, <2>2 DEF AskInv
<1> QED BY <1>1, <1>2, <1>3, <1>4, StartKeeps, RetryKeeps, TimeOutKeeps DEF AskNext

\* No tool has asked at first.
LEMMA AsksStart == AskInit => AskInv
<1> SUFFICES ASSUME AskInit PROVE AskInv
  OBVIOUS
<1>1. AskTypeOK
  BY DEF AskInit, AskTypeOK
<1>2. ASSUME NEW k \in Asks PROVE OneCall(k)
  BY AskAssumption DEF AskInit, OneCall, UnderWay, AskPhase
<1> QED BY <1>1, <1>2 DEF AskInv

\* What tools send to the model, what they are answered and what the log says of it agree,
\* and no tool call makes more than four requests, for any number of concurrent calls
\* (ai/client.py and the tools of agents/tool_registry.py).
THEOREM CallsAlwaysAccounted == AskSpec => []CallsAccounted
<1>1. ASSUME AskInv PROVE CallsAccounted
  <2>1. LogTellsSpending
    <3> SUFFICES ASSUME NEW k \in Asks, NEW m \in Modes
                 PROVE  /\ logged[k][m] = "success" => <<k, m>> \in worked
                        /\ <<k, m>> \in worked => logged[k][m] # None
                        /\ AskPhase(k, "model") /\ ask[k].mode = m => logged[k][m] = "success"
      BY DEF LogTellsSpending
    <3>1. AskPhase(k, "model") => CallInv(ask[k], logged[k], sent[k])
      BY <1>1 DEF AskInv, OneCall, AskPhase
    <3> QED BY <1>1, <3>1 DEF AskInv, OneCall, AskPhase, CallInv
  <2>2. AskingBounded
    <3> SUFFICES ASSUME NEW k \in Asks, ask[k] # None
                 PROVE  /\ sent[k] <= (IF ask[k].tool = "analysis" THEN 4 ELSE 3)
                        /\ ask[k].tool = "analysis" /\ ask[k].mode = "plain" =>
                             (logged[k]["structured"] = None <=> ask[k].room < MaxTokens("analysis", "structured"))
                        /\ sent[k] = 0 /\ AskPhase(k, "error") => \A m \in Modes : logged[k][m] = None
                        /\ timedOut => ~UnderWay(k)
      BY DEF AskingBounded
    <3>1. CallInv(ask[k], logged[k], sent[k]) /\ ask[k] \in Ask /\ sent[k] \in Nat
      BY <1>1 DEF AskInv, AskTypeOK, OneCall
    <3>2. sent[k] <= (IF ask[k].tool = "analysis" THEN 4 ELSE 3)
      BY <3>1 DEF CallInv, Earlier
    <3>3. ask[k].tool = "analysis" /\ ask[k].mode = "plain" =>
            (logged[k]["structured"] = None <=> ask[k].room < MaxTokens("analysis", "structured"))
      BY <3>1 DEF CallInv, Fits, MaxTokens, Ask, Rooms
    <3>4. sent[k] = 0 /\ AskPhase(k, "error") => \A m \in Modes : logged[k][m] = None
      BY <3>1 DEF CallInv, AskPhase, Modes
    <3> QED BY <1>1, <3>2, <3>3, <3>4 DEF AskInv, OneCall
  <2> QED BY <2>1, <2>2 DEF CallsAccounted
<1> QED BY <1>1, AsksStart, AskStep, PTL DEF AskSpec

-----------------------------------------------------------------------------
(* The reports that count (Reports).                                       *)

SelectNames == {"requirements", "scripts", "ready requirements", "ready scripts", "covered"}

\* What a SELECT counts now, were its joins to be ignored.
Base(select) == IF select = "covered" THEN Live(CountedReqs) ELSE Selected(select)

\* What was counted is what would be counted now, but for the rows changed since.
StillCounts(X, select) ==
    /\ X \subseteq Base(select) \cup moved
    /\ select # "covered" => Base(select) \subseteq X \cup moved

\* A SELECT of the report under way has counted X.
Answered(X, select) == \E n \in 1 .. Len(counts) : counts[n] = X /\ Selects[asking][n] = select

ReportInv ==
    /\ ReportTypeOK
    /\ asking # None =>
          \A X \in SUBSET Counted, select \in SelectNames : Answered(X, select) => StillCounts(X, select)
    /\ ReportsAddUp

\* The SELECTs of a report have different names, and what a part is taken of is asked for too.
Consistent(selects) ==
    /\ \A i \in 1 .. Len(selects) : selects[i] \in SelectNames
    /\ \A i, j \in 1 .. Len(selects) : selects[i] = selects[j] => i = j
    /\ selects[1] = "requirements"
    /\ \A i \in 1 .. Len(selects) :
          selects[i] = "ready scripts" => \E j \in 1 .. Len(selects) : selects[j] = "scripts"

LEMMA SelectsOf ==
    ASSUME NEW k \in ReportKinds
    PROVE  /\ Len(Selects[k]) \in {2, 3, 4} /\ Consistent(Selects[k])
           /\ k = "domains" => Len(Selects[k]) = 3 /\ Selects[k][2] = "scripts" /\ Selects[k][3] = "ready scripts"
<1>1. ASSUME NEW s, Len(s) = 2, s[1] = "requirements", s[2] \in {"scripts", "covered"} PROVE Consistent(s)
  <2>1. \A i \in 1 .. 2 : i = 1 \/ i = 2
    OBVIOUS
  <2> QED BY <1>1, <2>1 DEF Consistent, SelectNames
<1>2. ASSUME NEW s, Len(s) = 3, s[1] = "requirements", s[2] = "scripts", s[3] = "ready scripts" PROVE Consistent(s)
  <2>1. 2 \in 1 .. 3 /\ \A i \in 1 .. 3 : i = 1 \/ i = 2 \/ i = 3
    OBVIOUS
  <2>2. \A i \in 1 .. 3 : s[i] \in SelectNames
    BY <1>2, <2>1 DEF SelectNames
  <2>3. \A i, j \in 1 .. 3 : s[i] = s[j] => i = j
    BY <1>2, <2>1
  <2> QED BY <1>2, <2>1, <2>2, <2>3 DEF Consistent
<1>3. ASSUME NEW s, Len(s) = 4, s[1] = "requirements", s[2] = "ready requirements", s[3] = "scripts",
             s[4] = "ready scripts"
      PROVE  Consistent(s)
  <2>1. 3 \in 1 .. 4 /\ \A i \in 1 .. 4 : i = 1 \/ i = 2 \/ i = 3 \/ i = 4
    OBVIOUS
  <2>2. \A i \in 1 .. 4 : s[i] \in SelectNames
    BY <1>3, <2>1 DEF SelectNames
  <2>3. \A i, j \in 1 .. 4 : s[i] = s[j] => i = j
    BY <1>3, <2>1
  <2> QED BY <1>3, <2>1, <2>2, <2>3 DEF Consistent
<1>4. /\ Selects["project"] = <<"requirements", "scripts">>
      /\ Selects["coverage"] = <<"requirements", "covered">>
      /\ Selects["domains"] = <<"requirements", "scripts", "ready scripts">>
      /\ Selects["overview"] = <<"requirements", "scripts", "ready scripts">>
      /\ Selects["stats"] = <<"requirements", "ready requirements", "scripts", "ready scripts">>
  BY DEF Selects
<1>5. k \in {"project", "coverage", "domains", "overview", "stats"}
  BY DEF ReportKinds, Selects
<1>6. CASE k = "project"
  BY <1>1, <1>4, <1>6
<1>7. CASE k = "coverage"
  BY <1>1, <1>4, <1>7
<1>8. CASE k \in {"domains", "overview"}
  <2>1. PICK s : s = Selects[k]
    OBVIOUS
  <2>2. s = <<"requirements", "scripts", "ready scripts">>
    BY <1>4, <1>8, <2>1
  <2>3. Len(s) = 3 /\ s[1] = "requirements" /\ s[2] = "scripts" /\ s[3] = "ready scripts"
    BY <2>2
  <2> QED BY <1>2, <2>1, <2>3
<1>9. CASE k = "stats"
  BY <1>3, <1>4, <1>9
<1> QED BY <1>5, <1>6, <1>7, <1>8, <1>9

\* Who is counted is decided row by row: select counts x while its row is value.
Counts(x, value, select) ==
    /\ value.status # "absent" /\ ~value.deleted
    /\ x \in IF select \in {"scripts", "ready scripts"} THEN CountedScripts ELSE CountedReqs
    /\ select \in {"ready requirements", "ready scripts"} => value.status = "ready"

LEMMA BaseRows ==
    ASSUME NEW select \in SelectNames
    PROVE  /\ Base(select) = {x \in Counted : Counts(x, row[x], select)}
           /\ Selected(select) \subseteq Base(select)
           /\ select # "covered" => Selected(select) = Base(select)
<1> USE DEF Base, Selected, Live, Ready, Covered, Counted, Counts, Exists
<1>1. CASE select \in {"requirements", "scripts"}
  BY <1>1
<1>2. CASE select \in {"ready requirements", "ready scripts"}
  BY <1>2
<1>3. CASE select = "covered"
  BY <1>3
<1> QED BY <1>1, <1>2, <1>3 DEF SelectNames

LEMMA BaseRowsNext ==
    ASSUME NEW select \in SelectNames PROVE Base(select)' = {x \in Counted : Counts(x, row'[x], select)}
<1> USE DEF Base, Selected, Live, Ready, Covered, Counted, Counts, Exists
<1>1. CASE select \in {"requirements", "scripts"}
  BY <1>1
<1>2. CASE select \in {"ready requirements", "ready scripts"}
  BY <1>2
<1>3. CASE select = "covered"
  BY <1>3
<1> QED BY <1>1, <1>2, <1>3 DEF SelectNames

LEMMA BaseParts ==
    /\ Base("ready requirements") \subseteq Base("requirements")
    /\ Base("ready scripts") \subseteq Base("scripts")
    /\ Base("covered") = Base("requirements")
BY DEF Base, Selected, Live, Ready

\* Others change rows: what has been counted still counts but for those.
LEMMA MovesKeep ==
    ASSUME ReportInv, NEW X \in SUBSET Counted, asking # None, row' \in [Counted -> Row],
           \A x \in Counted \ X : row'[x] = row[x], moved' = moved \cup X, moves < MaxMoves, moves' = moves + 1,
           UNCHANGED <<asking, counts, shown>>
    PROVE  ReportInv'
<1>1. ReportTypeOK'
  BY ReportAssumption DEF ReportInv, ReportTypeOK
<1>2. ASSUME NEW select \in SelectNames
      PROVE  Base(select)' \subseteq Base(select) \cup X /\ Base(select) \subseteq Base(select)' \cup X
  BY <1>2, BaseRows, BaseRowsNext
<1>3. ASSUME NEW Y \in SUBSET Counted, NEW select \in SelectNames, Answered(Y, select)'
      PROVE  StillCounts(Y, select)'
  <2>1. StillCounts(Y, select)
    BY <1>3 DEF Answered, ReportInv
  <2> QED BY <1>2, <2>1 DEF StillCounts
<1>4. ReportsAddUp'
  BY DEF ReportInv, ReportsAddUp
<1> QED BY <1>1, <1>3, <1>4 DEF ReportInv

\* What a report has counted, under the names of its SELECTs.
Reported(kind) ==
    [select \in {Selects[kind][n] : n \in DOMAIN counts} |->
        counts[CHOOSE n \in DOMAIN counts : Selects[kind][n] = select]]

\* The report is put together.
LEMMA AnswerKeeps == ReportInv /\ AnswerReport => ReportInv'
<1> SUFFICES ASSUME ReportInv, AnswerReport PROVE ReportInv'
  OBVIOUS
<1> DEFINE k == asking
<1>1. /\ k \in ReportKinds /\ k # None /\ Len(counts) = Len(Selects[k]) /\ counts \in Seq(SUBSET Counted)
      /\ shown' = [kind |-> k, moved |-> moved, counted |-> Reported(k),
                   lines |-> IF k = "domains" THEN Breakdown ELSE <<>>]
      /\ asking' = None /\ counts' = <<>> /\ moved' = {} /\ moved \subseteq Counted
      /\ UNCHANGED <<row, moves>>
  BY DEF AnswerReport, ReportInv, ReportTypeOK, Reported
<1>0. Len(Selects[k]) \in {2, 3, 4} /\ Consistent(Selects[k])
  BY <1>1, SelectsOf
<1>2. Len(counts) \in {2, 3, 4} /\ DOMAIN counts = 1 .. Len(counts)
  BY <1>0, <1>1
<1>3. /\ shown'.kind = k /\ shown'.moved = moved /\ shown'.counted = Reported(k)
      /\ shown'.lines = IF k = "domains" THEN Breakdown ELSE <<>>
  BY <1>1
<1>4. ReportTypeOK'
  <2>1. <<>> \in Seq(SUBSET Counted)
    OBVIOUS
  <2> QED BY <1>1, <1>3, <2>1 DEF ReportInv, ReportTypeOK
<1>5. /\ DOMAIN Reported(k) = {Selects[k][n] : n \in 1 .. Len(counts)}
      /\ \A n \in 1 .. Len(counts) :
            /\ Reported(k)[Selects[k][n]] = counts[n] /\ Selects[k][n] \in SelectNames
            /\ StillCounts(counts[n], Selects[k][n])
  <2>1. ASSUME NEW n \in 1 .. Len(counts) PROVE Reported(k)[Selects[k][n]] = counts[n]
    <3>1. \A i, j \in DOMAIN counts : Selects[k][i] = Selects[k][j] => i = j
      BY <1>0, <1>1, <1>2 DEF Consistent
    <3>2. (CHOOSE i \in DOMAIN counts : Selects[k][i] = Selects[k][n]) = n
      BY <1>2, <3>1
    <3> QED BY <1>2, <3>2 DEF Reported
  <2>2. \A n \in 1 .. Len(counts) : Selects[k][n] \in SelectNames
    BY <1>0, <1>1 DEF Consistent
  <2>3. ASSUME NEW n \in 1 .. Len(counts) PROVE StillCounts(counts[n], Selects[k][n])
    <3>1. counts[n] \in SUBSET Counted /\ Answered(counts[n], Selects[k][n])
      BY <1>1 DEF Answered
    <3> QED BY <1>1, <2>2, <3>1 DEF ReportInv
  <2> QED BY <1>2, <2>1, <2>2, <2>3 DEF Reported
<1>6. \A select \in DOMAIN Reported(k) : select \in SelectNames /\ StillCounts(Reported(k)[select], select)
  BY <1>5
<1>7. /\ "requirements" \in DOMAIN Reported(k)
      /\ "ready scripts" \in DOMAIN Reported(k) => "scripts" \in DOMAIN Reported(k)
  <2>1. ASSUME NEW i \in 1 .. Len(counts) PROVE Selects[k][i] \in DOMAIN Reported(k)
    <3>1. DOMAIN Reported(k) = {Selects[k][n] : n \in 1 .. Len(counts)}
      BY <1>5
    <3> QED BY <3>1, Zenon
  <2>2. 1 \in 1 .. Len(counts) /\ 1 .. Len(counts) = 1 .. Len(Selects[k])
    BY <1>1, <1>2
  <2>3. ASSUME "ready scripts" \in DOMAIN Reported(k) PROVE "scripts" \in DOMAIN Reported(k)
    <3>1. PICK i \in 1 .. Len(counts) : Selects[k][i] = "ready scripts"
      BY <1>5, <2>3
    <3>2. PICK j \in 1 .. Len(counts) : Selects[k][j] = "scripts"
      BY <1>0, <2>2, <3>1 DEF Consistent
    <3> QED BY <2>1, <3>2
  <2> QED BY <1>0, <2>1, <2>2, <2>3 DEF Consistent
<1> HIDE DEF k
<1>8. ASSUME NEW some, NEW whole, some \in DOMAIN Reported(k) => whole \in DOMAIN Reported(k),
             <<some, whole>> \in {<<"ready requirements", "requirements">>, <<"ready scripts", "scripts">>,
                                  <<"covered", "requirements">>}
      PROVE  PartOf(shown', some, whole)
  <2> SUFFICES ASSUME some \in DOMAIN Reported(k)
               PROVE  Reported(k)[some] \subseteq Reported(k)[whole] \cup moved
    BY <1>3 DEF PartOf
  <2>1. StillCounts(Reported(k)[some], some) /\ StillCounts(Reported(k)[whole], whole) /\ whole # "covered"
    BY <1>6, <1>8
  <2>2. Base(some) \subseteq Base(whole)
    BY <1>8, BaseParts
  <2> QED BY <2>1, <2>2 DEF StillCounts
<1>9. PartOf(shown', "ready requirements", "requirements") /\ PartOf(shown', "ready scripts", "scripts")
      /\ PartOf(shown', "covered", "requirements")
  BY <1>7, <1>8
<1> DEFINE inLines(n) == UNION {Breakdown[d][n] : d \in DOMAIN Breakdown}
<1>10. ASSUME k = "domains", NEW n \in 1 .. 3
       PROVE  inLines(n) \subseteq counts[n] /\ counts[n] \subseteq inLines(n) \cup moved
  <2>1. Selects[k][2] = "scripts" /\ Selects[k][3] = "ready scripts"
    BY <1>1, <1>10, SelectsOf
  <2>5. Len(counts) = 3
    BY <1>1, <1>10, SelectsOf
  <2>2. StillCounts(counts[n], Selects[k][n]) /\ StillCounts(counts[2], "scripts")
    <3>1. n \in 1 .. Len(counts) /\ 2 \in 1 .. Len(counts)
      BY <2>5
    <3>2. \A i \in 1 .. Len(counts) : StillCounts(counts[i], Selects[k][i])
      BY <1>5
    <3> QED BY <2>1, <3>1, <3>2
  <2> DEFINE domains == {Domain[x] : x \in counts[1] \cup counts[2]}
  <2>3. DOMAIN Breakdown = domains /\ \A d \in domains : Breakdown[d][n] = {x \in counts[n] : Domain[x] = d}
    BY DEF Breakdown, In
  <2>4. ASSUME NEW x \in counts[n], x \notin moved PROVE Domain[x] \in domains
    <3>1. CASE n \in {1, 2}
      BY <3>1
    <3>2. CASE n = 3
      <4>1. x \in Base("ready scripts")
        BY <2>1, <2>2, <2>4, <3>2 DEF StillCounts
      <4>2. x \in Base("scripts")
        BY <4>1, BaseParts
      <4>3. x \in counts[2]
        BY <2>2, <2>4, <4>2 DEF StillCounts
      <4> QED BY <4>3
    <3> QED BY <3>1, <3>2
  <2> HIDE DEF domains
  <2> QED BY <2>3, <2>4
<1>11. k = "domains" =>
          \A n \in 1 .. 3 : counts[n] = Reported(k)[Selects["domains"][n]]
  <2> SUFFICES ASSUME k = "domains", NEW n \in 1 .. 3 PROVE counts[n] = Reported(k)[Selects[k][n]]
    OBVIOUS
  <2>1. Len(counts) = 3
    BY <1>1, SelectsOf
  <2> QED BY <1>5, <2>1
<1>14. ASSUME k = "domains", NEW n \in 1 .. 3
       PROVE  LET counted == shown'.counted[Selects["domains"][n]]
                  listed == UNION {shown'.lines[d][n] : d \in DOMAIN shown'.lines}
              IN  listed \subseteq counted /\ counted \subseteq listed \cup shown'.moved
  <2>1. UNION {shown'.lines[d][n] : d \in DOMAIN shown'.lines} = inLines(n)
    BY <1>3, <1>14
  <2>2. shown'.counted[Selects["domains"][n]] = counts[n] /\ shown'.moved = moved
    BY <1>3, <1>11, <1>14
  <2> HIDE DEF inLines
  <2> QED BY <1>10, <1>14, <2>1, <2>2
<1>12. AddsUp(shown')
  BY <1>3, <1>9, <1>14 DEF AddsUp
<1>13. ReportsAddUp'
  BY <1>12 DEF ReportsAddUp
<1> QED BY <1>1, <1>4, <1>13 DEF ReportInv

\* A report begins, and asks.
LEMMA AskingKeeps == ReportInv /\ (AskReport \/ Select \/ UNCHANGED reportVars) => ReportInv'
<1> SUFFICES ASSUME ReportInv, AskReport \/ Select \/ UNCHANGED reportVars PROVE ReportInv'
  OBVIOUS
<1>1. ReportsAddUp'
  BY DEF AskReport, Select, reportVars, ReportInv, ReportsAddUp
<1>2. CASE AskReport
  <2>1. /\ asking' \in ReportKinds /\ counts' = <<>> /\ moved' = {} /\ UNCHANGED <<row, shown, moves>>
        /\ <<>> \in Seq(SUBSET Counted) /\ Len(counts') = 0
    BY <1>2 DEF AskReport
  <2>2. Len(Selects[asking']) \in {2, 3, 4}
    BY <2>1, SelectsOf
  <2>3. ReportTypeOK'
    BY <2>1, <2>2 DEF ReportInv, ReportTypeOK
  <2> QED BY <1>1, <2>1, <2>3 DEF ReportInv, Answered
<1>3. CASE Select
  <2> DEFINE n == Len(counts) + 1
             s == Selects[asking][n]
  <2>1. /\ asking \in ReportKinds /\ asking # None /\ n - 1 < Len(Selects[asking])
        /\ counts \in Seq(SUBSET Counted) /\ Len(counts) \in Nat
        /\ counts' = Append(counts, Selected(s)) /\ UNCHANGED <<row, asking, moved, shown, moves>>
    BY <1>3 DEF Select, ReportInv, ReportTypeOK
  <2>2. Len(Selects[asking]) \in {2, 3, 4} /\ Consistent(Selects[asking])
    BY <2>1, SelectsOf
  <2>3. n \in 1 .. Len(Selects[asking])
    BY <2>1, <2>2
  <2>4. s \in SelectNames
    BY <2>2, <2>3 DEF Consistent
  <2>5. Selected(s) \in SUBSET Counted /\ StillCounts(Selected(s), s)
    BY <2>4, BaseRows DEF StillCounts
  <2>6. /\ counts' \in Seq(SUBSET Counted) /\ Len(counts') = n
        /\ \A i \in 1 .. n : (i = n /\ counts'[i] = Selected(s)) \/ (i \in 1 .. Len(counts) /\ counts'[i] = counts[i])
    BY <2>1, <2>5
  <2>7. ReportTypeOK'
    BY <2>1, <2>3, <2>6 DEF ReportInv, ReportTypeOK
  <2>8. ASSUME NEW X \in SUBSET Counted, NEW select \in SelectNames, Answered(X, select)'
        PROVE  StillCounts(X, select)'
    <3>1. PICK i \in 1 .. n : counts'[i] = X /\ Selects[asking][i] = select
      BY <2>1, <2>6, <2>8 DEF Answered
    <3>2. StillCounts(X, select)
      <4>1. CASE i = n
        BY <2>1, <2>5, <2>6, <3>1, <4>1
      <4>2. CASE i \in 1 .. Len(counts) /\ counts'[i] = counts[i]
        <5>1. Answered(X, select)
          BY <3>1, <4>2 DEF Answered
        <5> QED BY <2>1, <5>1 DEF ReportInv
      <4> QED BY <2>6, <4>1, <4>2
    <3> QED BY <2>1, <3>2 DEF StillCounts, Base, Selected, Live, Ready, Covered, Exists
  <2> QED BY <1>1, <2>7, <2>8 DEF ReportInv
<1>4. CASE UNCHANGED reportVars
  <2>1. ReportTypeOK'
    BY <1>4 DEF reportVars, ReportInv, ReportTypeOK
  <2>2. ASSUME NEW X \in SUBSET Counted, NEW select \in SelectNames
        PROVE  Answered(X, select)' = Answered(X, select) /\ StillCounts(X, select)' = StillCounts(X, select)
    BY <1>4 DEF reportVars, Answered, StillCounts, Base, Selected, Live, Ready, Covered, Exists
  <2>3. asking' = asking
    BY <1>4 DEF reportVars
  <2> QED BY <1>1, <2>1, <2>2, <2>3 DEF ReportInv
<1> QED BY <1>2, <1>3, <1>4

\* Every step keeps the invariant.
LEMMA ReportStep == ReportInv /\ [ReportNext]_reportVars => ReportInv'
<1> SUFFICES ASSUME ReportInv, [ReportNext]_reportVars PROVE ReportInv'
  OBVIOUS
<1>1. row \in [Counted -> Row]
  BY DEF ReportInv, ReportTypeOK
<1>2. ASSUME NEW x \in Counted, NEW value \in Row, Moves({x}, value) PROVE ReportInv'
  BY <1>1, <1>2, MovesKeep DEF Moves
<1>3. CASE CreateRow
  BY <1>2, <1>3 DEF CreateRow, Row
<1>4. CASE ReadyRow
  <2>1. PICK x \in Live(Counted) : Moves({x}, [row[x] EXCEPT !.status = IF @ = "ready" THEN "draft" ELSE "ready"])
    BY <1>4 DEF ReadyRow
  <2>2. x \in Counted /\ [row[x] EXCEPT !.status = IF @ = "ready" THEN "draft" ELSE "ready"] \in Row
    BY <1>1 DEF Live, Row
  <2> QED BY <1>2, <2>1, <2>2
<1>5. CASE DeleteRow
  <2>1. PICK x \in Live(Counted) : Moves({x}, [row[x] EXCEPT !.deleted = TRUE])
    BY <1>5 DEF DeleteRow
  <2>2. x \in Counted /\ [row[x] EXCEPT !.deleted = TRUE] \in Row
    BY <1>1 DEF Live, Row
  <2> QED BY <1>2, <2>1, <2>2
<1>6. CASE BulkDelete
  <2>1. PICK X \in SUBSET Live(CountedScripts) :
          /\ row' = [x \in Counted |-> IF x \in X THEN [row[x] EXCEPT !.deleted = TRUE] ELSE row[x]]
          /\ moved' = moved \cup X
    BY <1>6 DEF BulkDelete
  <2>2. \A x \in Counted : [row[x] EXCEPT !.deleted = TRUE] \in Row
    BY <1>1 DEF Row
  <2>3. X \in SUBSET Counted /\ row' \in [Counted -> Row] /\ \A x \in Counted \ X : row'[x] = row[x]
    BY <1>1, <2>1, <2>2 DEF Live, Counted
  <2>4. asking # None /\ moves < MaxMoves /\ moves' = moves + 1 /\ UNCHANGED <<asking, counts, shown>>
    BY <1>6 DEF BulkDelete
  <2> QED BY <2>1, <2>3, <2>4, MovesKeep
<1> QED BY <1>3, <1>4, <1>5, <1>6, AnswerKeeps, AskingKeeps DEF ReportNext

\* No report has been asked for at first.
LEMMA ReportsStart == ReportInit => ReportInv
<1> SUFFICES ASSUME ReportInit PROVE ReportInv
  OBVIOUS
<1>1. <<>> \in Seq(SUBSET Counted)
  OBVIOUS
<1>2. ReportTypeOK
  BY <1>1, ReportAssumption DEF ReportInit, ReportTypeOK
<1> QED BY <1>2 DEF ReportInit, ReportInv, ReportsAddUp, Answered

\* What a report counts as ready or covered is among what it counts, and its lines by domain
\* add up to its totals, but for the rows that others changed while it asked, for any rows,
\* domains and number of changes (services/report_service.py, system_service.py).
THEOREM ReportsAlwaysAddUp == ReportSpec => []ReportsAddUp
<1>1. ReportInv => ReportsAddUp
  BY DEF ReportInv
<1> QED BY <1>1, ReportsStart, ReportStep, PTL DEF ReportSpec

-----------------------------------------------------------------------------
(* The exports of scripts (Exports).                                       *)

\* The name of a blob tells a ZIP and its second, or the script of a single file.
NameOf(x) ==
    IF x.kind = "script" THEN [script |-> First(x.files), second |-> 0]
    ELSE [script |-> None, second |-> x.packed]

\* What export x has read: a cycle's scripts were approved since it began, a single export
\* has one script, and what is stored has a name.
PickInv(x, since) ==
    /\ x.at = "picking" => x.kind = "cycle"
    /\ x.kind = "cycle" => /\ x.picked \subseteq since /\ x.files \subseteq since
                           /\ x.at = "loading" => x.left \subseteq since
    /\ x.kind = "script" => \E s \in ExportScripts : x.left \cup x.files \subseteq {s}
    /\ x.at \in {"storing", "linked"} => x.files # {} /\ x.name = NameOf(x)

\* Where the link of export e leads.
LinkInv(e) ==
    Stands(e, "linked") =>
        /\ \E i \in DOMAIN order : order[i] = e
        /\ \E f \in Exporters :
              /\ container[export[e].name] = f /\ Stands(f, "linked") /\ export[f].name = export[e].name
              /\ f # e => StoredAfter(f, e)

ExportInv ==
    /\ ExportTypeOK
    /\ \A e \in Exporters :
          /\ export[e] # None => Approved \subseteq eligible[e] /\ PickInv(export[e], eligible[e])
          /\ LinkInv(e)

\* Two exports with one name are of the same script, or ZIPs of the same second.
LEMMA SameName ==
    ASSUME NEW x \in Export, NEW y \in Export, NEW X, NEW Y, PickInv(x, X), PickInv(y, Y),
           x.at = "linked", y.at = "linked", x.name = y.name
    PROVE  /\ {x.kind, y.kind} \subseteq {"bulk", "cycle"} => x.packed = y.packed
           /\ "script" \in {x.kind, y.kind} => x.files = y.files
<1>1. /\ x.files # {} /\ y.files # {} /\ x.name = NameOf(x) /\ y.name = NameOf(y)
      /\ x.files \subseteq ExportScripts /\ y.files \subseteq ExportScripts
      /\ x.kind \in {"script", "bulk", "cycle"} /\ y.kind \in {"script", "bulk", "cycle"}
  BY DEF PickInv, Export
<1>2. \A z \in {x, y} : z.kind = "script" => z.name.script = First(z.files) /\ First(z.files) \in z.files
  BY <1>1 DEF NameOf, First
<1>3. \A z \in {x, y} : z.kind # "script" => z.name.script = None /\ z.name.second = z.packed
  BY <1>1 DEF NameOf
<1>4. \A z \in {x, y} : z.kind = "script" => z.files = {z.name.script} /\ z.name.script # None
  <2>1. ASSUME NEW z \in {x, y}, z.kind = "script" PROVE z.files = {z.name.script} /\ z.name.script # None
    <3>1. PICK s \in ExportScripts : z.files \subseteq {s}
      BY <2>1 DEF PickInv
    <3>2. First(z.files) \in z.files /\ z.name.script = First(z.files)
      BY <1>2, <2>1
    <3>3. z.name.script = s /\ z.files = {s}
      BY <3>1, <3>2
    <3> QED BY <3>3, ExportAssumption
  <2> QED BY <2>1
<1> QED BY <1>1, <1>3, <1>4

\* An export that has not stored takes a step, and leaves the container alone.
LEMMA OneExport ==
    ASSUME ExportInv, NEW e \in Exporters, NEW x \in Export,
           export' = [export EXCEPT ![e] = x], UNCHANGED <<source, second, changes, container, order>>,
           ~Stands(e, "linked"), x.at # "linked",
           eligible' \in [Exporters -> SUBSET ExportScripts],
           \A g \in Exporters : g # e => eligible'[g] = eligible[g],
           Approved \subseteq eligible'[e], PickInv(x, eligible'[e])
    PROVE  ExportInv'
<1>1. ExportTypeOK'
  BY DEF ExportInv, ExportTypeOK
<1>2. export'[e] = x /\ \A g \in Exporters : g # e => export'[g] = export[g]
  BY DEF ExportInv, ExportTypeOK
<1>3. Approved' = Approved
  BY DEF Approved
<1>4. ~Stands(e, "linked")'
  BY <1>2 DEF Stands
<1>5. ASSUME NEW g \in Exporters PROVE LinkInv(g)'
  <2> SUFFICES ASSUME Stands(g, "linked")' PROVE LinkInv(g)'
    BY DEF LinkInv
  <2>1. g # e /\ export'[g] = export[g] /\ Stands(g, "linked")
    BY <1>2, <1>4 DEF Stands
  <2>2. PICK f \in Exporters :
            /\ container[export[g].name] = f /\ Stands(f, "linked") /\ export[f].name = export[g].name
            /\ f # g => StoredAfter(f, g)
    BY <2>1 DEF ExportInv, LinkInv
  <2>3. f # e /\ export'[f] = export[f]
    BY <1>2, <2>2
  <2>4. container'[export'[g].name] = f /\ Stands(f, "linked")' /\ (StoredAfter(f, g) => StoredAfter(f, g)')
    BY <2>1, <2>2, <2>3 DEF Stands, StoredAfter
  <2>5. export'[f].name = export'[g].name
    BY <2>1, <2>2, <2>3
  <2>6. \E i \in DOMAIN order' : order'[i] = g
    BY <2>1 DEF ExportInv, LinkInv
  <2> QED BY <2>2, <2>4, <2>5, <2>6 DEF LinkInv
<1>6. ASSUME NEW g \in Exporters, export'[g] # None
      PROVE  Approved' \subseteq eligible'[g] /\ PickInv(export'[g], eligible'[g])
  BY <1>2, <1>3, <1>6 DEF ExportInv
<1> QED BY <1>1, <1>5, <1>6 DEF ExportInv

\* An export under way.
LEMMA StandsFacts ==
    ASSUME ExportInv, NEW e \in Exporters, NEW at, Stands(e, at)
    PROVE  /\ export[e] \in Export /\ export[e].at = at /\ PickInv(export[e], eligible[e])
           /\ Approved \subseteq eligible[e] /\ eligible[e] \in SUBSET ExportScripts
           /\ eligible \in [Exporters -> SUBSET ExportScripts]
BY DEF Stands, ExportInv, ExportTypeOK

\* An export that raises is over.
LEMMA RaisedFacts ==
    ASSUME NEW x \in Export, NEW since
    PROVE  Raised(x) \in Export /\ Raised(x).at = "raised" /\ (PickInv(x, since) => PickInv(Raised(x), since))
<1>1. /\ Raised(x).kind = x.kind /\ Raised(x).at = "raised" /\ Raised(x).left = {} /\ Raised(x).picked = {}
      /\ Raised(x).files = {} /\ Raised(x) \in Export
  BY DEF Raised, Export
<1> QED BY <1>1 DEF PickInv

\* The steps before an export stores.
LEMMA ReadingKeeps ==
    ASSUME ExportInv, NEW e \in Exporters,
           ExportBegins(e) \/ PickScript(e) \/ HandOver(e) \/ LoadScript(e) \/ Pack(e)
    PROVE  ExportInv'
<1> DEFINE x == export[e]
<1>1. CASE ExportBegins(e)
  <2>1. PICK kind \in {"script", "bulk", "cycle"}, asked \in (SUBSET ExportScripts) \ {{}} :
        /\ kind = "script" => \E s \in ExportScripts : asked = {s}
        /\ kind = "cycle" => asked = ExportScripts
        /\ export' = [export EXCEPT ![e] =
               [kind |-> kind, at |-> IF kind = "cycle" THEN "picking" ELSE "loading", left |-> asked,
                picked |-> {}, files |-> {}, name |-> None, packed |-> 0]]
    BY <1>1 DEF ExportBegins
  <2> DEFINE y == [kind |-> kind, at |-> IF kind = "cycle" THEN "picking" ELSE "loading", left |-> asked,
                   picked |-> {}, files |-> {}, name |-> None, packed |-> 0]
  <2>2. y \in Export /\ y.at # "linked"
    BY ExportAssumption DEF Export
  <2>3. /\ eligible' = [eligible EXCEPT ![e] = Approved] /\ ~Stands(e, "linked")
        /\ UNCHANGED <<source, changes, second, container, order>>
    BY <1>1 DEF ExportBegins, Stands
  <2>4. Approved \subseteq ExportScripts
    BY DEF Approved
  <2>5. /\ eligible' \in [Exporters -> SUBSET ExportScripts] /\ eligible'[e] = Approved
        /\ \A g \in Exporters : g # e => eligible'[g] = eligible[g]
    BY <2>3, <2>4 DEF ExportInv, ExportTypeOK
  <2>6. PickInv(y, Approved)
    BY <2>1 DEF PickInv
  <2>7. export' = [export EXCEPT ![e] = y]
    BY <2>1
  <2> HIDE DEF y
  <2> QED BY <2>2, <2>3, <2>5, <2>6, <2>7, OneExport
<1>2. CASE PickScript(e)
  <2> DEFINE s == First(x.left)
             y == [x EXCEPT !.left = @ \ {s}, !.picked = IF Picked(s) THEN @ \cup {s} ELSE @]
  <2>1. /\ Stands(e, "picking") /\ x.left # {} /\ export' = [export EXCEPT ![e] = y]
        /\ UNCHANGED <<source, changes, second, container, order, eligible>>
    BY <1>2 DEF PickScript, GoesOn
  <2>2. /\ x \in Export /\ x.at = "picking" /\ PickInv(x, eligible[e]) /\ Approved \subseteq eligible[e]
        /\ eligible \in [Exporters -> SUBSET ExportScripts]
    BY <2>1, StandsFacts
  <2>3. s \in x.left /\ s \in ExportScripts
    BY <2>1, <2>2 DEF First, Export
  <2> HIDE DEF s
  <2>4. /\ y \in Export /\ y.kind = x.kind /\ y.at = "picking" /\ y.left = x.left \ {s} /\ y.files = x.files
        /\ y.picked = IF Picked(s) THEN x.picked \cup {s} ELSE x.picked
    BY <2>2, <2>3 DEF Export
  <2> HIDE DEF y
  <2>5. PickInv(y, eligible[e])
    BY <2>2, <2>4 DEF PickInv, Picked
  <2> QED BY <2>1, <2>2, <2>4, <2>5, OneExport DEF Stands
<1>3. CASE HandOver(e)
  <2> DEFINE y == IF x.picked = {} THEN Raised(x)
                  ELSE [x EXCEPT !.at = "loading", !.left = x.picked, !.picked = {}]
  <2>1. /\ Stands(e, "picking") /\ export' = [export EXCEPT ![e] = y] /\ x.left = {}
        /\ UNCHANGED <<source, changes, second, container, order, eligible>>
    BY <1>3 DEF HandOver, GoesOn
  <2>2. /\ x \in Export /\ x.at = "picking" /\ PickInv(x, eligible[e]) /\ Approved \subseteq eligible[e]
        /\ eligible \in [Exporters -> SUBSET ExportScripts]
    BY <2>1, StandsFacts
  <2>3. y \in Export /\ y.at # "linked" /\ PickInv(y, eligible[e])
    <3>1. CASE x.picked = {}
      BY <2>2, <3>1, RaisedFacts
    <3>2. CASE x.picked # {}
      <4>1. /\ y \in Export /\ y.kind = x.kind /\ y.at = "loading" /\ y.left = x.picked /\ y.picked = {}
            /\ y.files = x.files
        BY <2>2, <3>2 DEF Export
      <4>2. x.kind = "cycle"
        BY <2>2 DEF PickInv
      <4> HIDE DEF y
      <4> QED BY <2>1, <2>2, <4>1, <4>2 DEF PickInv
    <3> QED BY <3>1, <3>2
  <2> HIDE DEF y
  <2> QED BY <2>1, <2>2, <2>3, OneExport DEF Stands
<1>4. CASE LoadScript(e)
  <2> DEFINE s == First(x.left)
             y == [x EXCEPT !.left = @ \ {s}, !.files = @ \cup {s}]
             z == [x EXCEPT !.left = @ \ {s}]
  <2>1. /\ Stands(e, "loading") /\ x.left # {}
        /\ GoesOn(e, Raised(x)) \/ GoesOn(e, y) \/ GoesOn(e, IF x.kind = "script" THEN Raised(x) ELSE z)
    BY <1>4 DEF LoadScript
  <2>2. /\ x \in Export /\ x.at = "loading" /\ PickInv(x, eligible[e]) /\ Approved \subseteq eligible[e]
        /\ eligible \in [Exporters -> SUBSET ExportScripts]
    BY <2>1, StandsFacts
  <2>3. s \in x.left /\ s \in ExportScripts
    BY <2>1, <2>2 DEF First, Export
  <2> HIDE DEF s
  <2>4. /\ y \in Export /\ y.kind = x.kind /\ y.at = "loading" /\ y.left = x.left \ {s}
        /\ y.files = x.files \cup {s} /\ y.picked = x.picked
    BY <2>2, <2>3 DEF Export
  <2>5. /\ z \in Export /\ z.kind = x.kind /\ z.at = "loading" /\ z.left = x.left \ {s}
        /\ z.files = x.files /\ z.picked = x.picked
    BY <2>2, <2>3 DEF Export
  <2> HIDE DEF y, z
  <2>6. PickInv(y, eligible[e])
    BY <2>2, <2>3, <2>4 DEF PickInv
  <2>7. PickInv(z, eligible[e])
    BY <2>2, <2>5 DEF PickInv
  <2>8. PickInv(Raised(x), eligible[e]) /\ Raised(x) \in Export /\ Raised(x).at = "raised"
    BY <2>2, RaisedFacts
  <2>9. PICK w \in {y, z, Raised(x)} : GoesOn(e, w)
    BY <2>1
  <2>10. w \in Export /\ w.at # "linked" /\ PickInv(w, eligible[e])
    BY <2>4, <2>5, <2>6, <2>7, <2>8
  <2>11. ~Stands(e, "linked")
    BY <2>2 DEF Stands
  <2> QED BY <2>2, <2>9, <2>10, <2>11, OneExport DEF GoesOn
<1>5. CASE Pack(e)
  <2> DEFINE y == [x EXCEPT !.at = "storing", !.name = BlobNamed(e), !.packed = second]
  <2>1. /\ Stands(e, "loading") /\ x.left = {}
        /\ GoesOn(e, IF x.files = {} THEN Raised(x) ELSE y)
    BY <1>5 DEF Pack
  <2>2. /\ x \in Export /\ x.at = "loading" /\ PickInv(x, eligible[e]) /\ Approved \subseteq eligible[e]
        /\ eligible \in [Exporters -> SUBSET ExportScripts] /\ second \in 0 .. MaxSecond
    BY <2>1, StandsFacts DEF ExportInv, ExportTypeOK
  <2>3. ~Stands(e, "linked")
    BY <2>2 DEF Stands
  <2>4. CASE x.files = {}
    <3>1. PickInv(Raised(x), eligible[e]) /\ Raised(x) \in Export /\ Raised(x).at = "raised"
      BY <2>2, RaisedFacts
    <3>2. GoesOn(e, Raised(x))
      BY <2>1, <2>4
    <3> QED BY <2>2, <2>3, <3>1, <3>2, OneExport DEF GoesOn
  <2>5. CASE x.files # {}
    <3>1. x.files \subseteq ExportScripts /\ First(x.files) \in x.files
      BY <2>2, <2>5 DEF Export, First
    <3>2. BlobNamed(e) \in BlobName
      BY <2>2, <3>1, ExportAssumption DEF BlobNamed, BlobName
    <3>3. /\ y \in Export /\ y.kind = x.kind /\ y.at = "storing" /\ y.left = x.left /\ y.files = x.files
          /\ y.picked = x.picked /\ y.name = BlobNamed(e) /\ y.packed = second
      BY <2>2, <3>2 DEF Export
    <3>4. GoesOn(e, y)
      BY <2>1, <2>5
    <3> HIDE DEF y
    <3>5. y.name = NameOf(y)
      BY <3>3 DEF NameOf, BlobNamed
    <3>6. PickInv(y, eligible[e])
      BY <2>2, <2>5, <3>3, <3>5 DEF PickInv
    <3> QED BY <2>2, <2>3, <3>3, <3>4, <3>6, OneExport DEF GoesOn
  <2> QED BY <2>4, <2>5
<1> QED BY <1>1, <1>2, <1>3, <1>4, <1>5

\* An export that stores is the last that did, so the links that led to another export of
\* its name lead to it.
LEMMA StoreKeeps == ASSUME ExportInv, NEW e \in Exporters, Store(e) PROVE ExportInv'
<1> DEFINE x == export[e]
<1>1. /\ Stands(e, "storing") /\ UNCHANGED <<source, changes, second, eligible>>
      /\ \/ /\ container' = [container EXCEPT ![x.name] = e]
            /\ order' = Append(order, e)
            /\ export' = [export EXCEPT ![e].at = "linked"]
         \/ /\ export' = [export EXCEPT ![e] = Raised(x)]
            /\ UNCHANGED <<container, order>>
  BY DEF Store
<1>2. /\ x \in Export /\ x.at = "storing" /\ PickInv(x, eligible[e]) /\ Approved \subseteq eligible[e]
      /\ eligible \in [Exporters -> SUBSET ExportScripts] /\ ~Stands(e, "linked")
  BY <1>1, StandsFacts DEF Stands
<1>3. CASE export' = [export EXCEPT ![e] = Raised(x)] /\ UNCHANGED <<container, order>>
  <2>1. PickInv(Raised(x), eligible[e]) /\ Raised(x) \in Export /\ Raised(x).at = "raised"
    BY <1>2, RaisedFacts
  <2> QED BY <1>1, <1>2, <1>3, <2>1, OneExport
<1>4. CASE /\ container' = [container EXCEPT ![x.name] = e] /\ order' = Append(order, e)
           /\ export' = [export EXCEPT ![e].at = "linked"]
  <2> DEFINE y == [x EXCEPT !.at = "linked"]
             n == Len(order) + 1
  <2>1. /\ y \in Export /\ y.kind = x.kind /\ y.at = "linked" /\ y.left = x.left /\ y.files = x.files
        /\ y.picked = x.picked /\ y.name = x.name /\ y.packed = x.packed
    BY <1>2 DEF Export
  <2>2. export' = [export EXCEPT ![e] = y]
    BY <1>4
  <2> HIDE DEF y
  <2>3. PickInv(y, eligible[e])
    <3>1. NameOf(y) = NameOf(x)
      BY <2>1 DEF NameOf
    <3> QED BY <1>2, <2>1, <3>1 DEF PickInv
  <2>4. x.name \in BlobName /\ x.files # {} /\ x.name = NameOf(x)
    <3>1. x.files # {} /\ x.name = NameOf(x) /\ x.files \subseteq ExportScripts /\ x.packed \in 0 .. MaxSecond
      BY <1>2 DEF PickInv, Export
    <3>2. First(x.files) \in ExportScripts
      BY <3>1 DEF First
    <3> QED BY <3>1, <3>2, ExportAssumption DEF NameOf, BlobName
  <2>5. /\ order \in Seq(Exporters) /\ Len(order) \in Nat /\ DOMAIN order = 1 .. Len(order)
        /\ container \in [BlobName -> Exporters \cup {None}] /\ export \in [Exporters -> Export \cup {None}]
    BY DEF ExportInv, ExportTypeOK
  <2>6. /\ order' \in Seq(Exporters) /\ DOMAIN order' = 1 .. n /\ order'[n] = e
        /\ \A i \in DOMAIN order : i \in DOMAIN order' /\ i < n /\ order'[i] = order[i]
    BY <1>4, <2>5
  <2>7. n \in DOMAIN order'
    BY <2>5, <2>6
  <2>8. /\ container' \in [BlobName -> Exporters \cup {None}] /\ container'[x.name] = e
        /\ \A p \in BlobName : p # x.name => container'[p] = container[p]
        /\ export' \in [Exporters -> Export \cup {None}] /\ export'[e] = y
        /\ \A g \in Exporters : g # e => export'[g] = export[g]
    BY <1>4, <2>1, <2>2, <2>4, <2>5
  <2>9. ExportTypeOK'
    BY <1>1, <2>6, <2>8 DEF ExportInv, ExportTypeOK
  <2>10. Stands(e, "linked")'
    BY <2>1, <2>8, NotAnExport DEF Stands
  <2>11. ASSUME NEW g \in Exporters, NEW f \in Exporters, StoredAfter(f, g) PROVE StoredAfter(f, g)'
    BY <2>6, <2>11 DEF StoredAfter
  <2>12. ASSUME NEW g \in Exporters PROVE LinkInv(g)'
    <3> SUFFICES ASSUME Stands(g, "linked")' PROVE LinkInv(g)'
      BY DEF LinkInv
    <3>1. CASE g = e
      <4>1. container'[export'[g].name] = e
        BY <2>1, <2>8, <3>1
      <4>2. \E i \in DOMAIN order' : order'[i] = g
        BY <2>6, <2>7, <3>1
      <4> QED BY <2>10, <3>1, <4>1, <4>2 DEF LinkInv
    <3>2. CASE g # e
      <4>1. export'[g] = export[g] /\ Stands(g, "linked") /\ export[g] \in Export
        BY <2>8, <3>2 DEF Stands, ExportInv, ExportTypeOK
      <4>2. PICK f \in Exporters :
                /\ container[export[g].name] = f /\ Stands(f, "linked") /\ export[f].name = export[g].name
                /\ f # g => StoredAfter(f, g)
        BY <4>1 DEF ExportInv, LinkInv
      <4>6. PICK i \in DOMAIN order : order[i] = g
        BY <4>1 DEF ExportInv, LinkInv
      <4>3. \E k \in DOMAIN order' : order'[k] = g
        BY <2>6, <4>6
      <4>4. CASE export[g].name = x.name
        <5>1. container'[export'[g].name] = e /\ export'[e].name = export'[g].name
          BY <2>1, <2>8, <4>1, <4>4
        <5>2. StoredAfter(e, g)'
          BY <2>6, <2>7, <4>6 DEF StoredAfter
        <5> QED BY <2>10, <4>3, <5>1, <5>2 DEF LinkInv
      <4>5. CASE export[g].name # x.name
        <5>1. export[g].name \in BlobName
          <6>1. export[g].at = "linked" /\ PickInv(export[g], eligible[g]) /\ export[g].files \subseteq ExportScripts
                /\ export[g].packed \in 0 .. MaxSecond
            BY <4>1, StandsFacts DEF Export
          <6>2. export[g].files # {} /\ export[g].name = NameOf(export[g])
            BY <6>1 DEF PickInv
          <6>3. First(export[g].files) \in ExportScripts
            BY <6>1, <6>2 DEF First
          <6> QED BY <6>1, <6>2, <6>3, ExportAssumption DEF NameOf, BlobName
        <5>2. container'[export'[g].name] = f /\ f # e
          BY <1>2, <2>8, <4>1, <4>2, <4>5, <5>1
        <5>3. export'[f] = export[f] /\ Stands(f, "linked")' /\ export'[f].name = export'[g].name
          BY <2>8, <4>1, <4>2, <5>2 DEF Stands
        <5>4. f # g => StoredAfter(f, g)'
          BY <2>11, <4>2
        <5> QED BY <4>2, <4>3, <5>2, <5>3, <5>4 DEF LinkInv
      <4> QED BY <4>4, <4>5
    <3> QED BY <3>1, <3>2
  <2>13. Approved' = Approved
    BY <1>1 DEF Approved
  <2>14. ASSUME NEW g \in Exporters, export'[g] # None
         PROVE  Approved' \subseteq eligible'[g] /\ PickInv(export'[g], eligible'[g])
    BY <1>1, <1>2, <2>3, <2>8, <2>13, <2>14 DEF ExportInv
  <2> QED BY <2>9, <2>12, <2>14 DEF ExportInv
<1> QED BY <1>1, <1>3, <1>4

\* Scripts that change, and the clock.
LEMMA OthersKeep == ExportInv /\ (SourceChanges \/ SecondPasses \/ UNCHANGED exportVars) => ExportInv'
<1> SUFFICES ASSUME ExportInv, SourceChanges \/ SecondPasses \/ UNCHANGED exportVars PROVE ExportInv'
  OBVIOUS
<1>1. UNCHANGED <<export, container, order>>
  BY DEF SourceChanges, SecondPasses, exportVars
<1>2. ASSUME NEW e \in Exporters PROVE LinkInv(e)'
  BY <1>1 DEF ExportInv, LinkInv, Stands, StoredAfter
<1>3. CASE SourceChanges
  <2>1. PICK s \in ExportScripts :
          source' \in {[source EXCEPT ![s].approved = ~@], [source EXCEPT ![s].deleted = TRUE]}
    BY <1>3 DEF SourceChanges
  <2>2. source' \in [ExportScripts -> Source]
    <3>1. source \in [ExportScripts -> Source]
      BY DEF ExportInv, ExportTypeOK
    <3>2. [source[s] EXCEPT !.approved = ~@] \in Source /\ [source[s] EXCEPT !.deleted = TRUE] \in Source
      BY <3>1 DEF Source
    <3> QED BY <2>1, <3>1, <3>2
  <2>3. changes' \in 0 .. MaxChanges /\ second' = second
    BY <1>3, ExportAssumption DEF SourceChanges, ExportInv, ExportTypeOK
  <2>4. Approved' \subseteq ExportScripts
    BY DEF Approved
  <2>5. /\ eligible' = [e \in Exporters |-> IF export[e] = None THEN {} ELSE eligible[e] \cup Approved']
        /\ eligible \in [Exporters -> SUBSET ExportScripts]
    BY <1>3 DEF SourceChanges, ExportInv, ExportTypeOK
  <2>6. eligible' \in [Exporters -> SUBSET ExportScripts]
    BY <2>4, <2>5
  <2>7. ExportTypeOK'
    BY <1>1, <2>2, <2>3, <2>6 DEF ExportInv, ExportTypeOK
  <2>8. ASSUME NEW e \in Exporters, export'[e] # None
        PROVE  Approved' \subseteq eligible'[e] /\ PickInv(export'[e], eligible'[e])
    <3>1. eligible'[e] = eligible[e] \cup Approved' /\ PickInv(export[e], eligible[e])
      BY <1>1, <2>5, <2>8 DEF ExportInv
    <3>2. PickInv(export[e], eligible'[e])
      BY <3>1 DEF PickInv
    <3> QED BY <1>1, <3>1, <3>2
  <2> QED BY <1>2, <2>7, <2>8 DEF ExportInv
<1>4. CASE SecondPasses \/ UNCHANGED exportVars
  <2>1. UNCHANGED <<source, changes, eligible>> /\ second' \in 0 .. MaxSecond
    BY <1>4, ExportAssumption DEF SecondPasses, exportVars, ExportInv, ExportTypeOK
  <2>2. ExportTypeOK' /\ Approved' = Approved
    BY <1>1, <2>1 DEF ExportInv, ExportTypeOK, Approved
  <2> QED BY <1>1, <1>2, <2>1, <2>2 DEF ExportInv
<1> QED BY <1>3, <1>4

\* Every step keeps the invariant.
LEMMA ExportStep == ExportInv /\ [ExportNext]_exportVars => ExportInv'
BY ReadingKeeps, StoreKeeps, OthersKeep DEF ExportNext

\* No export has begun at first.
LEMMA ExportsStart == ExportInit => ExportInv
<1> SUFFICES ASSUME ExportInit PROVE ExportInv
  OBVIOUS
<1>1. <<>> \in Seq(Exporters)
  OBVIOUS
<1>2. \A a \in BOOLEAN : [approved |-> a, deleted |-> FALSE] \in Source
  BY DEF Source
<1>3. source \in [ExportScripts -> Source]
  BY <1>2 DEF ExportInit
<1>4. ExportTypeOK
  BY <1>1, <1>3, ExportAssumption DEF ExportInit, ExportTypeOK
<1> QED BY <1>4 DEF ExportInit, ExportInv, LinkInv, Stands

\* A link leads to the files of its export, or of a later one of the same script or packed in
\* the same second, and a cycle's files were approved while it was exported, for any
\* scripts and any number of exports (services/export_service.py).
THEOREM ExportsAlwaysFaithful == ExportSpec => []ExportsFaithful
<1>1. ASSUME ExportInv, NEW e \in Exporters, Stands(e, "linked")
      PROVE  LET f == container[export[e].name] IN
             /\ f # e =>
                  /\ StoredAfter(f, e)
                  /\ {export[e].kind, export[f].kind} \subseteq {"bulk", "cycle"} => export[f].packed = export[e].packed
                  /\ "script" \in {export[e].kind, export[f].kind} =>
                       export[f].files = export[e].files
             /\ export[e].kind = "cycle" => export[e].files \subseteq eligible[e]
  <2>1. PICK f \in Exporters :
          /\ container[export[e].name] = f /\ Stands(f, "linked") /\ export[f].name = export[e].name
          /\ f # e => StoredAfter(f, e)
    BY <1>1 DEF ExportInv, LinkInv
  <2>2. /\ export[e] \in Export /\ export[e].at = "linked" /\ PickInv(export[e], eligible[e])
        /\ export[f] \in Export /\ export[f].at = "linked" /\ PickInv(export[f], eligible[f])
    BY <1>1, <2>1, StandsFacts
  <2>3. /\ {export[e].kind, export[f].kind} \subseteq {"bulk", "cycle"} => export[e].packed = export[f].packed
        /\ "script" \in {export[e].kind, export[f].kind} => export[e].files = export[f].files
    BY <2>1, <2>2, SameName
  <2>4. export[e].kind = "cycle" => export[e].files \subseteq eligible[e]
    BY <2>2 DEF PickInv
  <2> QED BY <2>1, <2>3, <2>4
<1>2. ExportInv => ExportsFaithful
  BY <1>1 DEF ExportsFaithful
<1> QED BY <1>2, ExportsStart, ExportStep, PTL DEF ExportSpec

-----------------------------------------------------------------------------
(* The components side by side (MCContent).                                *)

\* Nothing but its own steps moves a component.
LEMMA ContentParts ==
    /\ ContentInit => /\ ScriptInit /\ ReqInit /\ PageInit /\ ImportInit /\ CycleInit /\ OutputInit
                      /\ EvidenceInit /\ ReportInit /\ ExportInit /\ AskInit
    /\ [ContentNext]_mcVars =>
          /\ [ScriptNext]_scriptVars /\ [ReqNext]_reqVars /\ [PageNext]_pageVars
          /\ [ImportNext]_importVars /\ [CycleNext]_cycleVars /\ [OutputNext]_outputVars /\ [EvidenceNext]_evidenceVars
          /\ [ReportNext]_reportVars /\ [ExportNext]_exportVars /\ [AskNext]_askVars
<1>1. ASSUME ContentInit
      PROVE  /\ ScriptInit /\ ReqInit /\ PageInit /\ ImportInit /\ CycleInit /\ OutputInit
             /\ EvidenceInit /\ ReportInit /\ ExportInit /\ AskInit
  BY <1>1, Zenon DEF ContentInit
<1>2. ASSUME [ContentNext]_mcVars
      PROVE  /\ [ScriptNext]_scriptVars /\ [ReqNext]_reqVars /\ [PageNext]_pageVars
             /\ [ImportNext]_importVars /\ [CycleNext]_cycleVars /\ [OutputNext]_outputVars /\ [EvidenceNext]_evidenceVars
             /\ [ReportNext]_reportVars /\ [ExportNext]_exportVars /\ [AskNext]_askVars
  BY <1>2 DEF ContentNext, mcVars
<1> QED BY <1>1, <1>2

\* What agents tell and show of their work agrees with the rows they leave, for any number
\* of agents' steps, scripts, runs and pictures.
THEOREM EvidenceAlwaysAgrees == ContentSpec => []EvidenceAgrees
<1>1. ContentSpec => OutputSpec /\ EvidenceSpec
  BY ContentParts, PTL DEF ContentSpec, OutputSpec, EvidenceSpec
<1>2. OutputsAgree /\ EvidenceShown => EvidenceAgrees
  BY DEF EvidenceAgrees
<1> QED BY <1>1, <1>2, OutputsAlwaysAgree, EvidenceAlwaysShown, PTL

\* What is counted and exported while the rows change is what was there, for any rows and
\* any number of readers and changes.
THEOREM ReadersAlwaysFaithful == ContentSpec => []ReadersFaithful
<1>1. ContentSpec => ReportSpec /\ ExportSpec
  BY ContentParts, PTL DEF ContentSpec, ReportSpec, ExportSpec
<1>2. ReportsAddUp /\ ExportsFaithful => ReadersFaithful
  BY DEF ReadersFaithful
<1> QED BY <1>1, <1>2, ReportsAlwaysAddUp, ExportsAlwaysFaithful, PTL

\* Every variable of the ten components keeps its type.
THEOREM ContentTypes == ContentSpec => []ContentTypeOK
<1>1. ContentSpec => /\ ScriptSpec /\ ReqSpec /\ PageSpec /\ ImportSpec /\ CycleSpec /\ OutputSpec
                     /\ EvidenceSpec /\ ReportSpec /\ ExportSpec /\ AskSpec
  BY ContentParts, PTL
  DEF ContentSpec, ScriptSpec, ReqSpec, PageSpec, ImportSpec, CycleSpec, OutputSpec, EvidenceSpec,
      ReportSpec, ExportSpec, AskSpec
<1>2. /\ QualityInv => ReqTypeOK
      /\ PageInv => PageTypeOK
      /\ ImportInv => ImportTypeOK
      /\ OutputInv => OutputTypeOK
      /\ EvidenceInv => EvidenceTypeOK
      /\ ReportInv => ReportTypeOK
      /\ ExportInv => ExportTypeOK
      /\ AskInv => AskTypeOK
  BY DEF QualityInv, PageInv, ImportInv, OutputInv, EvidenceInv, ReportInv, ExportInv, AskInv
<1>3. ReqSpec => []QualityInv
  BY QualityStarts, QualityStep, PTL DEF ReqSpec
<1>4. PageSpec => []PageInv
  BY PagesStart, PageStep, PTL DEF PageSpec
<1>5. OutputSpec => []OutputInv
  BY OutputStarts, OutputStep, PTL DEF OutputSpec
<1>6. EvidenceSpec => []EvidenceInv
  BY EvidenceStarts, EvidenceStep, PTL DEF EvidenceSpec
<1>7. ReportSpec => []ReportInv
  BY ReportsStart, ReportStep, PTL DEF ReportSpec
<1>8. ExportSpec => []ExportInv
  BY ExportsStart, ExportStep, PTL DEF ExportSpec
<1>9. AskSpec => []AskInv
  BY AsksStart, AskStep, PTL DEF AskSpec
<1>10. ImportSpec => []ImportInv
  BY ImportStarts, ImportStep, PTL DEF ImportSpec
<1>11. /\ ScriptTypeOK /\ ReqTypeOK /\ PageTypeOK /\ ImportTypeOK /\ CycleTypeOK /\ OutputTypeOK
       /\ EvidenceTypeOK /\ ReportTypeOK /\ ExportTypeOK /\ AskTypeOK
       => ContentTypeOK
  BY DEF ContentTypeOK
<1> QED BY <1>1, <1>2, <1>3, <1>4, <1>5, <1>6, <1>7, <1>8, <1>9, <1>10, <1>11,
           ScriptTypes, CycleTypes, PTL
=============================================================================
