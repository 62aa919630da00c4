---------------------------- MODULE Requirements ----------------------------
(***************************************************************************)
(* One requirement, the requests that edit, approve and delete it, and the *)
(* quality score the API keeps in the memory of each of its processes for  *)
(* an hour (services/requirement_service.py, routers/requirements.py).     *)
(* An edit forgets the score in its own process only, and before it        *)
(* commits, so that a score of the old text may be kept again, or be kept  *)
(* elsewhere: what a reader gets is bounded by the age of the entry.       *)
(*                                                                         *)
(* A text is what the score looks at: the length class of the title and of *)
(* the description, whether a testable word and whether a digit occurs.    *)
(***************************************************************************)
EXTENDS Sessions, Integers

CONSTANTS
    Texts,           \* texts in use, see Text
    ApiProcesses,    \* processes of the API
    QualityTTL,      \* _QUALITY_TTL, in ticks
    MaxQualityTime,  \* bound on the clock (TLC)
    MaxEdits         \* bound on the edits (TLC)

Text == [title : {"short", "fit", "long"}, description : {"brief", "fair", "full"},
         testable : BOOLEAN, digit : BOOLEAN]

ASSUME QualityAssumption ==
    Texts \subseteq Text /\ {QualityTTL, MaxQualityTime, MaxEdits} \subseteq Nat /\ None \notin Nat

VARIABLES
    clock,      \* time.time()
    req,        \* the committed row
    edit,       \* edit[p]: the request of process p that changes the row, None if there is none
    edits,      \* edits so far
    cache,      \* cache[p]: _quality_cache of process p, for this requirement
    lastSeen    \* lastSeen[t]: when t was last the text of a requirement readers can load (history)

reqVars == <<clock, req, edit, edits, cache, lastSeen>>

ReqStatus == {"draft", "active"}
Requirement == [text : Texts, status : ReqStatus, deleted : BOOLEAN]

\* _compute_quality
Score(t) ==
    100 - (CASE t.title = "short" -> 20 [] t.title = "long" -> 10 [] OTHER -> 0)
        - (CASE t.description = "brief" -> 25 [] t.description = "fair" -> 10 [] OTHER -> 0)
        - (IF t.testable THEN 0 ELSE 15) - (IF t.digit THEN 0 ELSE 5)
Grade(s) == CASE s >= 80 -> "A" [] s >= 60 -> "B" [] s >= 40 -> "C" [] OTHER -> "D"
Quality(t) == [score |-> Score(t), grade |-> Grade(Score(t))]

ReqTypeOK ==
    /\ clock \in 0 .. MaxQualityTime /\ edits \in 0 .. MaxEdits
    /\ req \in Requirement
    /\ edit \in [ApiProcesses ->
                    [read : Requirement, new : Requirement, flushed : BOOLEAN] \cup {None}]
    /\ cache \in [ApiProcesses -> [expires : Nat, result : {Quality(t) : t \in Texts}] \cup {None}]
    /\ lastSeen \in [Texts -> 0 .. MaxQualityTime \cup {None}]

\* create_with_context, bulk_create, save_requirement
ReqInit ==
    /\ clock = 0
    /\ req \in [text : Texts, status : {"draft"}, deleted : {FALSE}]
    /\ edit = [p \in ApiProcesses |-> None] /\ edits = 0
    /\ cache = [p \in ApiProcesses |-> None]
    /\ lastSeen = [t \in Texts |-> IF t = req.text THEN 0 ELSE None]

-----------------------------------------------------------------------------
ReqRequest(p, new) ==
    /\ edit[p] = None /\ edits < MaxEdits
    /\ edits' = edits + 1
    /\ edit' = [edit EXCEPT ![p] = [read |-> req, new |-> new, flushed |-> FALSE]]
    /\ UNCHANGED <<clock, req, cache, lastSeen>>

\* update: _load, then the fields of the body, among them perhaps the status.
ReqUpdate(p) ==
    /\ ~req.deleted
    /\ \E t \in Texts, s \in ReqStatus : ReqRequest(p, [req EXCEPT !.text = t, !.status = s])

\* approve: whatever the status, also of a deleted requirement.
ApproveRequirement(p) == ReqRequest(p, [req EXCEPT !.status = "active"])

\* soft_delete, once no approved script of the requirement is left; the score stays.
SoftDeleteRequirement(p) == ~req.deleted /\ ReqRequest(p, [req EXCEPT !.deleted = TRUE])

\* After its flush, which may have waited for another edit, update forgets the score.
ReqFlush(p) ==
    /\ edit[p] # None /\ ~edit[p].flushed
    /\ edit' = [edit EXCEPT ![p].flushed = TRUE]
    /\ cache' = IF edit[p].new.text # edit[p].read.text THEN [cache EXCEPT ![p] = None] ELSE cache
    /\ UNCHANGED <<clock, req, edits, lastSeen>>

Visible(row, t) == row.text = t /\ ~row.deleted

ReqCommit(p) ==
    /\ edit[p] # None /\ edit[p].flushed
    /\ req' = Merge(req, edit[p].read, edit[p].new)
    /\ edit' = [edit EXCEPT ![p] = None]
    /\ lastSeen' = [t \in Texts |-> IF Visible(req, t) \/ Visible(req', t) THEN clock ELSE lastSeen[t]]
    /\ UNCHANGED <<clock, edits, cache>>

ReqRollback(p) ==
    /\ edit[p] # None
    /\ edit' = [edit EXCEPT ![p] = None]
    /\ UNCHANGED <<clock, req, edits, cache, lastSeen>>

\* Mutant: an entry lives on for another TTL whenever it is used.
CacheHitRenews(p) == [cache EXCEPT ![p].expires = clock + QualityTTL]
\* A hit leaves the entry as it is.
CacheHit(p) == cache

\* quality_check: an entry that has not expired is served without looking at the row.
QualityCheck(p) ==
    /\ IF cache[p] # None /\ cache[p].expires > clock
         THEN cache' = CacheHit(p)
         ELSE /\ ~req.deleted
              /\ cache' = [cache EXCEPT ![p] =
                              [expires |-> clock + QualityTTL, result |-> Quality(req.text)]]
    /\ UNCHANGED <<clock, req, edit, edits, lastSeen>>

ReqTick ==
    /\ clock < MaxQualityTime
    /\ clock' = clock + 1
    /\ lastSeen' = [t \in Texts |-> IF Visible(req, t) THEN clock' ELSE lastSeen[t]]
    /\ UNCHANGED <<req, edit, edits, cache>>

ReqNext ==
    \/ \E p \in ApiProcesses :
        \/ ReqUpdate(p) \/ ApproveRequirement(p) \/ SoftDeleteRequirement(p)
        \/ ReqFlush(p) \/ ReqCommit(p) \/ ReqRollback(p) \/ QualityCheck(p)
    \/ ReqTick

ReqSpec == ReqInit /\ [][ReqNext]_reqVars

-----------------------------------------------------------------------------
\* The score quality_check serves may be of a text that is no longer there, in its own
\* process too, but that text was the requirement's less than a TTL ago ("Result is
\* cached for 1 hour"): neither hits nor edits keep a stale score longer.
StaleAtMostTTL ==
    \A p \in ApiProcesses :
        cache[p] # None /\ cache[p].expires > clock =>
            \E t \in Texts : /\ Quality(t) = cache[p].result
                             /\ lastSeen[t] # None /\ clock < lastSeen[t] + QualityTTL
=============================================================================
