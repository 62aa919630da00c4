--------------------------- MODULE ScriptsProofs ---------------------------
(***************************************************************************)
(* Proofs about Scripts: its type invariant, and that the history of a     *)
(* script is true and, but for the overwrites it excuses, complete, for    *)
(* any contents, any number of requests and any number of edits.           *)
(***************************************************************************)
EXTENDS Scripts, TLAPS

\* What a request of the handlers carries: it read a row the script really was, it records
\* that row or nothing, and a versioned one that changes the content records it.
RequestInv(r) ==
    /\ r.read \in Script /\ r.new \in Script \cup {None} /\ r.legacy \in BOOLEAN
    /\ <<r.read.version, r.read.content>> \in wasContent
    /\ r.records \subseteq {<<r.read.version, r.read.content>>}
    /\ ~r.legacy /\ r.new # None /\ r.new.content # r.read.content => r.records # {}

\* The invariant: the row as it is was the row, every request is one of those, and the
\* history is kept.
HistoryInv ==
    /\ script \in Script \cup {None} /\ sEdits \in 0 .. MaxScriptEdits
    /\ wasContent \subseteq Record /\ excused \subseteq Contents \cup {None}
    /\ sReq = [q \in ScriptRequests |-> sReq[q]]
    /\ script # None => <<script.version, script.content>> \in wasContent
    /\ \A q \in ScriptRequests : sReq[q] # None => RequestInv(sReq[q])
    /\ HistoryKept

\* A row's number and content make a record.
LEMMA RowRecord ==
    ASSUME NEW s \in Script
    PROVE  <<s.version, s.content>> \in Record /\ s.content \in Contents \cup {None}
BY DEF Script, Record

\* The UPDATE of a row is a row; its content is the one written if the request changed it,
\* and the committed one otherwise.
LEMMA MergedRow ==
    ASSUME NEW base \in Script, NEW read \in Script, NEW new \in Script
    PROVE  /\ Merge(base, read, new) \in Script
           /\ Merge(base, read, new).content =
                IF new.content = read.content THEN base.content ELSE new.content
BY DEF Merge, Script

\* The type invariant follows from the invariant.
LEMMA HistoryTypes == HistoryInv => ScriptTypeOK
<1> SUFFICES ASSUME HistoryInv
             PROVE  ScriptTypeOK
  OBVIOUS
<1>1. versions \subseteq Record
  BY DEF HistoryInv, HistoryKept, SnapshotsFaithful
<1>2. ASSUME NEW q \in ScriptRequests, sReq[q] # None
      PROVE  /\ sReq[q].read \in Script /\ sReq[q].new \in Script \cup {None}
             /\ sReq[q].records \subseteq Record
  <2>1. RequestInv(sReq[q])
    BY <1>2 DEF HistoryInv
  <2> QED BY <2>1, RowRecord DEF RequestInv
<1> QED BY <1>1, <1>2 DEF HistoryInv, ScriptTypeOK

\* Both ways a script comes to be establish the invariant.
LEMMA HistoryInit == ScriptInit => HistoryInv
<1> SUFFICES ASSUME ScriptInit
             PROVE  HistoryInv
  OBVIOUS
<1>1. PICK c \in Contents \cup {None} :
        script = NewScript(c) /\ versions \subseteq {<<1, c>>}
  BY DEF ScriptInit, CreatedByUser, SavedByAgent
<1>2. NewScript(c) \in Script /\ NewScript(c).version = 1 /\ NewScript(c).content = c
  BY DEF NewScript, Script, ScriptStatus
<1>3. wasContent = {<<1, c>>} /\ excused = {} /\ sEdits = 0
  BY <1>1, <1>2 DEF ScriptInit
<1>4. <<1, c>> \in Record
  BY <1>1 DEF Record
<1>5. sReq = [q \in ScriptRequests |-> None]
  BY DEF ScriptInit
<1>6. HistoryKept
  BY <1>1, <1>2, <1>3 DEF HistoryKept, SnapshotsFaithful, ContentKept
<1> QED BY <1>1, <1>2, <1>3, <1>4, <1>5, <1>6, ScriptAssumption DEF HistoryInv

\* A request that begins leaves the invariant as it is, if it carries what it should.
LEMMA BeginKeeps ==
    ASSUME HistoryInv, NEW q \in ScriptRequests, script # None,
           NEW new \in Script \cup {None}, NEW records, NEW legacy \in BOOLEAN,
           records \subseteq {<<script.version, script.content>>},
           ~legacy /\ new # None /\ new.content # script.content => records # {},
           ScriptRequestBegins(q, new, records, legacy)
    PROVE  HistoryInv'
<1> DEFINE r == [read |-> script, new |-> new, records |-> records, legacy |-> legacy]
<1>1. UNCHANGED <<script, versions, wasContent, excused>> /\ sReq' = [sReq EXCEPT ![q] = r]
  BY DEF ScriptRequestBegins
<1>2. sEdits' \in 0 .. MaxScriptEdits
  BY ScriptAssumption DEF ScriptRequestBegins, HistoryInv
<1>3. RequestInv(r)
  BY DEF RequestInv, HistoryInv
<1>5. ASSUME NEW p \in ScriptRequests, sReq'[p] # None
      PROVE  RequestInv(sReq[p])'
  <2>1. CASE p = q
    <3>1. sReq'[p] = r
      BY <1>1, <2>1 DEF HistoryInv
    <3> QED BY <1>1, <1>3, <3>1 DEF RequestInv
  <2>2. CASE p # q
    <3>1. sReq'[p] = sReq[p] /\ RequestInv(sReq[p])
      BY <1>1, <1>5, <2>2 DEF HistoryInv
    <3> QED BY <1>1, <3>1 DEF RequestInv
  <2> QED BY <2>1, <2>2
<1>6. sReq' = [p \in ScriptRequests |-> sReq'[p]]
  BY <1>1 DEF HistoryInv
<1>7. HistoryKept'
  BY <1>1 DEF HistoryInv, HistoryKept, SnapshotsFaithful, ContentKept
<1> QED BY <1>1, <1>2, <1>5, <1>6, <1>7 DEF HistoryInv

\* A request that ends takes nothing with it that the others need.
LEMMA OthersKept ==
    ASSUME HistoryInv, NEW q \in ScriptRequests, sReq' = [sReq EXCEPT ![q] = None],
           wasContent \subseteq wasContent'
    PROVE  /\ sReq' = [p \in ScriptRequests |-> sReq'[p]]
           /\ \A p \in ScriptRequests : sReq'[p] # None => RequestInv(sReq[p])'
<1>1. \A p \in ScriptRequests : sReq'[p] # None => sReq'[p] = sReq[p] /\ RequestInv(sReq[p])
  BY DEF HistoryInv
<1> QED BY <1>1 DEF HistoryInv, RequestInv

\* The commit: a snapshot recorded is of a row that was, and the content overwritten is
\* recorded or excused.
LEMMA CommitKeeps ==
    ASSUME HistoryInv, NEW q \in ScriptRequests, CommitScript(q)
    PROVE  HistoryInv'
<1> DEFINE r == sReq[q]
           now == IF r.new = None THEN None ELSE Merge(script, r.read, r.new)
           was == <<script.version, script.content>>
<1>1. RequestInv(r) /\ script \in Script /\ script # None /\ was \in wasContent
  BY DEF CommitScript, HistoryInv
<1>2. r.new # None => /\ r.new \in Script /\ now \in Script
                      /\ now.content = IF r.new.content = r.read.content
                                       THEN script.content ELSE r.new.content
  BY <1>1, MergedRow DEF RequestInv
<1>3. now # None => r.new # None
  OBVIOUS
<1> HIDE DEF now
<1>4. /\ script' = now
      /\ versions' = versions \cup r.records
      /\ wasContent' = IF now = None THEN wasContent
                         ELSE wasContent \cup {<<now.version, now.content>>}
      /\ excused' = IF /\ now = None \/ now.content # script.content
                       /\ r.legacy \/ r.read.content # script.content
                    THEN excused \cup {script.content} ELSE excused
      /\ sReq' = [sReq EXCEPT ![q] = None] /\ sEdits' = sEdits
  BY DEF CommitScript, now
<1>5. script' \in Script \cup {None}
  BY <1>2, <1>3, <1>4
<1>6. /\ wasContent \subseteq wasContent' /\ wasContent' \subseteq Record
      /\ script' # None => <<script'.version, script'.content>> \in wasContent'
  BY <1>2, <1>3, <1>4, RowRecord DEF HistoryInv
<1>7. excused \subseteq excused' /\ excused' \subseteq Contents \cup {None}
  BY <1>1, <1>4, RowRecord DEF HistoryInv
<1>8. SnapshotsFaithful'
  BY <1>1, <1>4, <1>6 DEF RequestInv, HistoryInv, HistoryKept, SnapshotsFaithful
<1>9. ASSUME script' # None
      PROVE  \/ script.content = script'.content \/ script.content \in excused'
             \/ \E v \in versions' : v[2] = script.content
  <2>1. CASE r.legacy \/ r.read.content # script.content
    BY <1>4, <2>1
  <2>2. CASE ~r.legacy /\ r.read.content = script.content
    <3>1. CASE r.new.content = r.read.content
      BY <1>2, <1>3, <1>4, <1>9, <3>1
    <3>2. CASE r.new.content # r.read.content
      <4>1. r.records = {<<r.read.version, r.read.content>>}
        BY <1>1, <1>3, <1>4, <1>9, <2>2, <3>2 DEF RequestInv
      <4>2. <<r.read.version, r.read.content>> \in versions'
        BY <1>4, <4>1
      <4> QED BY <2>2, <4>2
    <3> QED BY <3>1, <3>2
  <2> QED BY <2>1, <2>2
<1>10. ContentKept'
  <2> SUFFICES ASSUME script' # None, NEW w \in wasContent'
               PROVE  \/ w[2] = script'.content \/ w[2] \in excused'
                      \/ \E v \in versions' : v[2] = w[2]
    BY DEF ContentKept
  <2>1. CASE w \in wasContent
    <3>1. \/ w[2] = script.content \/ w[2] \in excused
          \/ \E v \in versions : v[2] = w[2]
      BY <1>1, <2>1 DEF HistoryInv, HistoryKept, ContentKept
    <3> QED BY <1>4, <1>7, <1>9, <3>1
  <2>2. CASE w \notin wasContent
    BY <1>4, <2>2
  <2> QED BY <2>1, <2>2
<1>11. /\ sReq' = [p \in ScriptRequests |-> sReq'[p]]
       /\ \A p \in ScriptRequests : sReq'[p] # None => RequestInv(sReq[p])'
  BY <1>4, <1>6, OthersKept
<1>12. sEdits' \in 0 .. MaxScriptEdits
  BY <1>4 DEF HistoryInv
<1> QED BY <1>5, <1>6, <1>7, <1>8, <1>10, <1>11, <1>12 DEF HistoryInv, HistoryKept

\* A rollback changes nothing but the request.
LEMMA RollbackKeeps ==
    ASSUME HistoryInv, NEW q \in ScriptRequests, RollbackScript(q)
    PROVE  HistoryInv'
<1>1. UNCHANGED <<script, versions, sEdits, wasContent, excused>>
      /\ sReq' = [sReq EXCEPT ![q] = None]
  BY DEF RollbackScript
<1>2. /\ sReq' = [p \in ScriptRequests |-> sReq'[p]]
      /\ \A p \in ScriptRequests : sReq'[p] # None => RequestInv(sReq[p])'
  BY <1>1, OthersKept
<1>3. HistoryKept'
  BY <1>1 DEF HistoryInv, HistoryKept, SnapshotsFaithful, ContentKept
<1> QED BY <1>1, <1>2, <1>3 DEF HistoryInv

\* The row with another status, content, number or flag is a row.
LEMMA ChangedRow ==
    ASSUME NEW s \in Script
    PROVE  /\ \A t \in ScriptStatus : /\ [s EXCEPT !.status = t] \in Script
                                      /\ [s EXCEPT !.status = t].content = s.content
           /\ \A c \in Contents \cup {None} : [s EXCEPT !.content = c] \in Script
           /\ [s EXCEPT !.version = s.version + 1] \in Script
           /\ [s EXCEPT !.deleted = TRUE] \in Script
           /\ [s EXCEPT !.deleted = TRUE].content = s.content
<1>1. ASSUME NEW t \in ScriptStatus
      PROVE  [s EXCEPT !.status = t] \in Script /\ [s EXCEPT !.status = t].content = s.content
  BY DEF Script
<1>2. ASSUME NEW c \in Contents \cup {None}
      PROVE  [s EXCEPT !.content = c] \in Script
  BY DEF Script
<1>3. [s EXCEPT !.version = s.version + 1] \in Script
  BY DEF Script
<1>4. [s EXCEPT !.deleted = TRUE] \in Script /\ [s EXCEPT !.deleted = TRUE].content = s.content
  BY DEF Script
<1> QED BY <1>1, <1>2, <1>3, <1>4

\* So is the row with the fields of an update.
LEMMA FieldRow ==
    ASSUME script \in Script, NEW new \in Fields
    PROVE  new \in Script
<1>1. PICK t \in ScriptStatus, c \in Contents \cup {script.content} : new = EditedScript(t, c)
  BY DEF Fields
<1>2. script.content \in Contents \cup {None}
  BY RowRecord
<1>3. [script EXCEPT !.status = t] \in Script
  BY ChangedRow
<1>4. new = [[script EXCEPT !.status = t] EXCEPT !.content = c]
  BY <1>1 DEF EditedScript
<1> QED BY <1>2, <1>3, <1>4, ChangedRow

\* Every request begins with what it should carry, and every step keeps the invariant.
LEMMA HistoryStep == HistoryInv /\ [ScriptNext]_scriptVars => HistoryInv'
<1> SUFFICES ASSUME HistoryInv, [ScriptNext]_scriptVars
             PROVE  HistoryInv'
  OBVIOUS
<1>1. CASE UNCHANGED scriptVars
  BY <1>1 DEF scriptVars, HistoryInv, RequestInv, HistoryKept, SnapshotsFaithful, ContentKept
<1>2. ASSUME NEW q \in ScriptRequests, UpdateWithVersion(q)
      PROVE  HistoryInv'
  <2>1. script # None /\ script \in Script
    BY <1>2 DEF UpdateWithVersion, Loaded, HistoryInv
  <2>2. PICK new \in Fields :
          ScriptRequestBegins(q, [new EXCEPT !.version = @ + 1], Snapshot(new), FALSE)
    BY <1>2 DEF UpdateWithVersion
  <2>3. new \in Script
    BY <2>1, FieldRow
  <2>4. [new EXCEPT !.version = @ + 1] \in Script
    BY <2>3, ChangedRow
  <2>5. Snapshot(new) = {<<script.version, script.content>>}
    BY DEF Snapshot
  <2> QED BY <2>1, <2>2, <2>4, <2>5, BeginKeeps
<1>3. ASSUME NEW q \in ScriptRequests, UpdateLegacy(q)
      PROVE  HistoryInv'
  <2>1. script # None /\ script \in Script
    BY <1>3 DEF UpdateLegacy, HistoryInv
  <2>2. PICK new \in Fields : ScriptRequestBegins(q, new, {}, TRUE)
    BY <1>3 DEF UpdateLegacy
  <2>3. new \in Script
    BY <2>1, FieldRow
  <2> QED BY <2>1, <2>2, <2>3, BeginKeeps
<1>4. ASSUME NEW q \in ScriptRequests, NEW t \in ScriptStatus,
             NEW records \in {{}, {<<script.version, script.content>>}}, script # None,
             ScriptRequestBegins(q, [script EXCEPT !.status = t], records, FALSE)
      PROVE  HistoryInv'
  <2>1. script \in Script
    BY <1>4 DEF HistoryInv
  <2>2. [script EXCEPT !.status = t] \in Script
        /\ [script EXCEPT !.status = t].content = script.content
    BY <2>1, ChangedRow
  <2> QED BY <1>4, <2>1, <2>2, BeginKeeps
<1>5. ASSUME NEW q \in ScriptRequests,
             SubmitForReview(q) \/ Approve(q) \/ Reject(q) \/ BulkStatus(q)
      PROVE  HistoryInv'
  BY <1>4, <1>5 DEF SubmitForReview, Approve, Reject, BulkStatus, Loaded, ScriptStatus
<1>6. ASSUME NEW q \in ScriptRequests, SoftDeleteScript(q)
      PROVE  HistoryInv'
  <2>1. script # None /\ script \in Script
        /\ ScriptRequestBegins(q, [script EXCEPT !.deleted = TRUE], {}, FALSE)
    BY <1>6 DEF SoftDeleteScript, Loaded, HistoryInv
  <2>2. [script EXCEPT !.deleted = TRUE] \in Script
        /\ [script EXCEPT !.deleted = TRUE].content = script.content
    BY <2>1, ChangedRow
  <2> QED BY <2>1, <2>2, BeginKeeps
<1>7. ASSUME NEW q \in ScriptRequests, HardDelete(q)
      PROVE  HistoryInv'
  BY <1>7, BeginKeeps DEF HardDelete
<1> QED BY <1>1, <1>2, <1>3, <1>5, <1>6, <1>7, CommitKeeps, RollbackKeeps DEF ScriptNext

\* The invariant holds throughout.
LEMMA HistoryAlways == ScriptSpec => []HistoryInv
BY HistoryInit, HistoryStep, PTL DEF ScriptSpec

\* A script, its records and the requests on it keep their types.
THEOREM ScriptTypes == ScriptSpec => []ScriptTypeOK
BY HistoryAlways, HistoryTypes, PTL

\* Every version record is of a content the script had under that number, and every
\* content it had is its content still, recorded, or overwritten by a legacy PUT or an
\* update that overlapped another (update_with_version, _create_version).
THEOREM HistoryIsKept == ScriptSpec => []HistoryKept
<1>1. HistoryInv => HistoryKept
  BY DEF HistoryInv
<1> QED BY <1>1, HistoryAlways, PTL
=============================================================================
