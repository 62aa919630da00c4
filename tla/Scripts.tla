------------------------------ MODULE Scripts -------------------------------
(***************************************************************************)
(* One test script, its version records and the requests that change it    *)
(* (services/test_script_service.py, routers/test_scripts.py, and the tool *)
(* save_test_script of the generation agent).  A version record is the     *)
(* number and the content the script had when the record was made; two     *)
(* requests may read the same row and compute the same next number.        *)
(***************************************************************************)
EXTENDS Sessions, Integers, FiniteSets

CONSTANTS
    Contents,        \* values of script_content other than NULL
    ScriptRequests,  \* requests on the script in progress at the same time
    MaxScriptEdits   \* bound on the requests in all (TLC)

ASSUME ScriptAssumption == None \notin Contents /\ MaxScriptEdits \in Nat

VARIABLES
    script,     \* the committed row, None once it is deleted for good
    versions,   \* its committed version records
    sReq,       \* sReq[q]: what request q has read, will write and will record
    sEdits,     \* requests so far
    wasContent, \* every <<version, content>> the committed row has had (history)
    excused     \* contents overwritten by a legacy update, or by an update that had read
                \* another content (history)

scriptVars == <<script, versions, sReq, sEdits, wasContent, excused>>

ScriptStatus == {"DRAFT", "IN_REVIEW", "APPROVED", "DEPRECATED"}
Script == [status : ScriptStatus, content : Contents \cup {None}, version : Nat,
           deleted : BOOLEAN]
Record == Nat \X (Contents \cup {None})

ScriptTypeOK ==
    /\ script \in Script \cup {None}
    /\ versions \subseteq Record
    /\ \A q \in ScriptRequests : sReq[q] = None \/
          /\ sReq[q].read \in Script /\ sReq[q].new \in Script \cup {None}
          /\ sReq[q].records \subseteq Record
    /\ sEdits \in 0 .. MaxScriptEdits
    /\ wasContent \subseteq Record /\ excused \subseteq Contents \cup {None}

NewScript(content) == [status |-> "DRAFT", content |-> content, version |-> 1, deleted |-> FALSE]

\* create_with_context: no content yet, and a first version record.
CreatedByUser == script = NewScript(None) /\ versions = {<<1, None>>}

\* save_test_script: the generated cases are the content, and nothing is recorded.
SavedByAgent == \E c \in Contents : script = NewScript(c) /\ versions = {}

ScriptInit ==
    /\ CreatedByUser \/ SavedByAgent
    /\ sReq = [q \in ScriptRequests |-> None]
    /\ sEdits = 0
    /\ wasContent = {<<script.version, script.content>>}
    /\ excused = {}

-----------------------------------------------------------------------------
\* Request q has read the row and will replace it; records go in with the UPDATE.
ScriptRequestBegins(q, new, records, legacy) ==
    /\ sReq[q] = None /\ sEdits < MaxScriptEdits
    /\ sEdits' = sEdits + 1
    /\ sReq' = [sReq EXCEPT ![q] =
                   [read |-> script, new |-> new, records |-> records, legacy |-> legacy]]
    /\ UNCHANGED <<script, versions, wasContent, excused>>

\* _load: rows with deleted_at are not found.
Loaded == script # None /\ ~script.deleted

\* The fields of a TestScriptUpdate, each of which may be absent.
EditedScript(s, c) == [script EXCEPT !.status = s, !.content = c]
Fields == {EditedScript(s, c) : s \in ScriptStatus, c \in Contents \cup {script.content}}

\* Mutant: the fields are set before the snapshot is taken.
SnapshotAfter(new) == {<<script.version, new.content>>}

\* _create_version: the row as it was loaded.
Snapshot(new) == {<<script.version, script.content>>}

UpdateWithVersion(q) ==
    /\ Loaded
    /\ \E new \in Fields :
        ScriptRequestBegins(q, [new EXCEPT !.version = @ + 1], Snapshot(new), FALSE)

\* update, behind the legacy PUT: no version record, and deleted rows are found.
UpdateLegacy(q) ==
    /\ script # None
    /\ \E new \in Fields : ScriptRequestBegins(q, new, {}, TRUE)

SubmitForReview(q) ==
    /\ Loaded /\ script.status = "DRAFT"
    /\ ScriptRequestBegins(q, [script EXCEPT !.status = "IN_REVIEW"], {}, FALSE)

Approve(q) ==
    /\ Loaded /\ script.status \in {"IN_REVIEW", "DRAFT"}
    /\ ScriptRequestBegins(q, [script EXCEPT !.status = "APPROVED"], {}, FALSE)

\* The reason is kept in a version record, under the current number.
Reject(q) ==
    /\ Loaded /\ script.status \in {"IN_REVIEW", "APPROVED"}
    /\ ScriptRequestBegins(q, [script EXCEPT !.status = "DRAFT"],
                           {<<script.version, script.content>>}, FALSE)

\* soft_delete, also for each script of a bulk delete.
SoftDeleteScript(q) ==
    Loaded /\ ScriptRequestBegins(q, [script EXCEPT !.deleted = TRUE], {}, FALSE)

\* bulk_update_script_status: the status the caller names, whatever the current one.
BulkStatus(q) ==
    /\ Loaded
    /\ \E s \in ScriptStatus \ {script.status} :
        ScriptRequestBegins(q, [script EXCEPT !.status = s], {}, FALSE)

\* delete: the row goes; its version records forbid it (their foreign key is NOT NULL).
HardDelete(q) ==
    /\ script # None
    /\ ScriptRequestBegins(q, None, {}, TRUE)

\* A row deleted meanwhile makes the UPDATE match nothing, which the session refuses.
CommitScript(q) ==
    /\ sReq[q] # None /\ script # None
    /\ LET r == sReq[q]
           now == IF r.new = None THEN None ELSE Merge(script, r.read, r.new)
       IN  /\ now = None => versions = {}
           /\ script' = now
           /\ versions' = versions \cup r.records
           /\ wasContent' = IF now = None THEN wasContent
                              ELSE wasContent \cup {<<now.version, now.content>>}
           /\ excused' = IF /\ now = None \/ now.content # script.content
                            /\ r.legacy \/ r.read.content # script.content
                           THEN excused \cup {script.content} ELSE excused
    /\ sReq' = [sReq EXCEPT ![q] = None]
    /\ UNCHANGED sEdits

RollbackScript(q) ==
    /\ sReq[q] # None
    /\ sReq' = [sReq EXCEPT ![q] = None]
    /\ UNCHANGED <<script, versions, sEdits, wasContent, excused>>

ScriptNext ==
    \E q \in ScriptRequests :
        \/ UpdateWithVersion(q) \/ UpdateLegacy(q) \/ SubmitForReview(q) \/ Approve(q)
        \/ Reject(q) \/ SoftDeleteScript(q) \/ BulkStatus(q) \/ HardDelete(q)
        \/ CommitScript(q) \/ RollbackScript(q)

ScriptSpec == ScriptInit /\ [][ScriptNext]_scriptVars

-----------------------------------------------------------------------------
\* A version record is what the script really was: its content was the committed content
\* while its number was the committed version, however the requests overlapped
\* (_create_version is called on a row that others may have changed meanwhile).
SnapshotsFaithful == versions \subseteq wasContent

\* A content the script once had is its content still, or kept in a version record; only
\* the unversioned PUT and an update that overlapped another one lose it
\* (update_with_version, "Snapshot current content before overwriting").
ContentKept ==
    script # None =>
        \A was \in wasContent :
            \/ was[2] = script.content \/ was[2] \in excused
            \/ \E v \in versions : v[2] = was[2]

\* The history of a script is true and, but for those overwrites, complete.
HistoryKept == SnapshotsFaithful /\ ContentKept
=============================================================================
