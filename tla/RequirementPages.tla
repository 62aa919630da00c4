-------------------------- MODULE RequirementPages --------------------------
(***************************************************************************)
(* The list of a system's requirements, read page by page while rows come  *)
(* and go (services/requirement_service.py, schemas/common.py).            *)
(*                                                                         *)
(* A page holds the newest rows created before the cursor, which is the    *)
(* created_at of the last row of the page before.  The rows of one INSERT  *)
(* share their created_at, an SQL expression, and a transaction commits    *)
(* rows older than those that others have committed already.               *)
(***************************************************************************)
EXTENDS Sessions, Integers, FiniteSets

CONSTANTS
    Requirements,   \* requirements of the system, present or to come
    Instants,       \* values of created_at
    PageLimit       \* the reader's limit

ASSUME PageAssumption ==
    Instants \subseteq Nat /\ PageLimit \in Nat \ {0} /\ None \notin Nat

VARIABLES
    created,    \* created[r]: the created_at of a committed row, None without one
    gone,       \* the rows soft-deleted
    reading,    \* a reader is on its way from page to page
    cutoff,     \* the cursor of the next page, None for the first
    got,        \* the rows the reader has been given
    twice,      \* some row was given twice (history)
    stable,     \* the rows listed ever since the reader began (history)
    pageEnds    \* the cursors the reader has used (history)

pageVars == <<created, gone, reading, cutoff, got, twice, stable, pageEnds>>

PageTypeOK ==
    /\ created \in [Requirements -> Instants \cup {None}]
    /\ gone \cup got \cup stable \subseteq Requirements
    /\ reading \in BOOLEAN /\ twice \in BOOLEAN
    /\ cutoff \in Instants \cup {None} /\ pageEnds \subseteq Instants

PageInit ==
    /\ created = [r \in Requirements |-> None] /\ gone = {}
    /\ reading = FALSE /\ cutoff = None /\ got = {} /\ twice = FALSE
    /\ stable = {} /\ pageEnds = {}

-----------------------------------------------------------------------------
(* Rows.  create_with_context saves one, bulk_create those of an import.   *)

SaveRequirements ==
    /\ \E rows \in SUBSET {r \in Requirements : created[r] = None} \ {{}}, t \in Instants :
        created' = [r \in Requirements |-> IF r \in rows THEN t ELSE created[r]]
    /\ UNCHANGED <<gone, reading, cutoff, got, twice, stable, pageEnds>>

Listed == {r \in Requirements : created[r] # None} \ gone

\* bulk_delete_requirements: soft_delete of each, in one transaction.
DeleteRequirements ==
    /\ \E rows \in (SUBSET Listed) \ {{}} : gone' = gone \cup rows /\ stable' = stable \ rows
    /\ UNCHANGED <<created, reading, cutoff, got, twice, pageEnds>>

-----------------------------------------------------------------------------
(* list_for_system_paginated, called with each next_cursor in turn.        *)

StartReading ==
    /\ ~reading
    /\ reading' = TRUE /\ cutoff' = None
    /\ got' = {} /\ twice' = FALSE /\ stable' = Listed /\ pageEnds' = {}
    /\ UNCHANGED <<created, gone>>

\* Mutant: rows created at the cursor's instant are on the next page too.
BeforeOrAt(r) == cutoff = None \/ created[r] <= cutoff
Before(r) == cutoff = None \/ created[r] < cutoff

\* The order of rows with the same created_at is up to the database.
ReadPage ==
    /\ reading
    /\ \E page \in SUBSET {r \in Listed : Before(r)} :
        LET rest == {r \in Listed : Before(r)} \ page IN
        /\ Cardinality(page) <= PageLimit /\ (rest # {} => Cardinality(page) = PageLimit)
        /\ \A r \in page, s \in rest : created[r] >= created[s]
        /\ got' = got \cup page
        /\ twice' = (twice \/ got \cap page # {})
        /\ IF Cardinality(page) = PageLimit
             THEN \E last \in page :
                    /\ \A r \in page : created[last] <= created[r]
                    /\ cutoff' = created[last]
                    /\ pageEnds' = pageEnds \cup {created[last]}
                    /\ UNCHANGED reading
             ELSE reading' = FALSE /\ UNCHANGED <<cutoff, pageEnds>>
    /\ UNCHANGED <<created, gone, stable>>

PageNext == SaveRequirements \/ DeleteRequirements \/ StartReading \/ ReadPage

PageSpec == PageInit /\ [][PageNext]_pageVars

-----------------------------------------------------------------------------
\* A reader who follows the cursors to the end is given every requirement that was listed
\* all the while, and none twice, whatever is saved and deleted between the pages; only
\* a row created at the same instant as the last row of a full page can be skipped, as
\* rows of one import are (the strict comparison of list_for_system_paginated).
WalkComplete ==
    /\ ~twice
    /\ ~reading => \A r \in stable \ got : created[r] \in pageEnds
=============================================================================
