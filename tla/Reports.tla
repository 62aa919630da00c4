------------------------------ MODULE Reports -------------------------------
(***************************************************************************)
(* The reports that count (services/report_service.py, _compute_stats of   *)
(* services/system_service.py).  A report is several SELECTs, each of      *)
(* which sees what has been committed by then (READ COMMITTED), put side   *)
(* by side; other requests create, approve and delete rows between them.   *)
(* A count is modelled by the set of rows counted.                         *)
(***************************************************************************)
EXTENDS Sessions, Integers, Sequences, FiniteSets

CONSTANTS
    CountedReqs, CountedScripts,    \* requirements and scripts of a system
    Domain,         \* Domain[x]: x's business_domain
    CoveredBy,      \* CoveredBy[r]: the scripts written for requirement r
    MaxMoves        \* bound on the transactions of others (TLC)

Counted == CountedReqs \cup CountedScripts

ASSUME ReportAssumption ==
    /\ IsFiniteSet(Counted) /\ CountedReqs \cap CountedScripts = {}
    /\ DOMAIN Domain = Counted /\ CoveredBy \in [CountedReqs -> SUBSET CountedScripts] /\ MaxMoves \in Nat

VARIABLES
    row,        \* row[x]: status and deleted_at; an ACTIVE requirement or APPROVED script is "ready"
    asking,     \* the report under way, None between two
    counts,     \* what its SELECTs have answered, in order
    moved,      \* the rows others have changed since it began (history)
    shown,      \* the last report
    moves       \* transactions of others so far

reportVars == <<row, asking, counts, moved, shown, moves>>

Row == [status : {"absent", "draft", "ready"}, deleted : BOOLEAN]

\* The SELECTs of each report, in the order of the code.
Selects == [project  |-> <<"requirements", "scripts">>,
            coverage |-> <<"requirements", "covered">>,
            domains  |-> <<"requirements", "scripts", "ready scripts">>,
            overview |-> <<"requirements", "scripts", "ready scripts">>,
            stats    |-> <<"requirements", "ready requirements", "scripts", "ready scripts">>]
ReportKinds == DOMAIN Selects

ReportTypeOK ==
    /\ row \in [Counted -> Row]
    /\ asking \in ReportKinds \cup {None}
    /\ counts \in Seq(SUBSET Counted)
    /\ asking # None => Len(counts) <= Len(Selects[asking])
    /\ moved \subseteq Counted
    /\ shown # None => shown.kind \in ReportKinds /\ shown.moved \subseteq Counted
    /\ moves \in 0 .. MaxMoves

ReportInit ==
    /\ row \in [Counted -> Row]
    /\ \A x \in Counted : row[x].deleted => x \in CountedScripts /\ row[x].status = "ready"
    /\ asking = None /\ counts = <<>> /\ moved = {} /\ shown = None /\ moves = 0

-----------------------------------------------------------------------------
Exists(x) == row[x].status # "absent"
Live(X) == {x \in X : Exists(x) /\ ~row[x].deleted}

\* Mutant: the filter on deleted_at is forgotten.
ReadyOrDeleted(X) == {x \in X : row[x].status = "ready"}
Ready(X) == {x \in Live(X) : row[x].status = "ready"}

\* script_coverage joins the scripts, whether or not they are deleted.
Covered == {r \in Live(CountedReqs) : \E s \in CoveredBy[r] : Exists(s)}

Selected(select) ==
    CASE select = "requirements" -> Live(CountedReqs)
      [] select = "scripts" -> Live(CountedScripts)
      [] select = "ready requirements" -> Ready(CountedReqs)
      [] select = "ready scripts" -> Ready(CountedScripts)
      [] select = "covered" -> Covered

AskReport ==
    /\ asking = None /\ shown = None
    /\ asking' \in ReportKinds
    /\ counts' = <<>> /\ moved' = {}
    /\ UNCHANGED <<row, shown, moves>>

Select ==
    /\ asking # None /\ Len(counts) < Len(Selects[asking])
    /\ counts' = Append(counts, Selected(Selects[asking][Len(counts) + 1]))
    /\ UNCHANGED <<row, asking, moved, shown, moves>>

\* The lines of coverage_by_domain: a domain that the first two SELECTs know, with its
\* requirements, scripts and approved scripts.
In(X, domain) == {x \in X : Domain[x] = domain}
Breakdown == [d \in {Domain[x] : x \in counts[1] \cup counts[2]} |->
                 [n \in 1 .. 3 |-> In(counts[n], d)]]

AnswerReport ==
    /\ asking # None /\ Len(counts) = Len(Selects[asking])
    /\ shown' = [kind |-> asking, moved |-> moved,
                 counted |-> [select \in {Selects[asking][n] : n \in DOMAIN counts} |->
                                 counts[CHOOSE n \in DOMAIN counts : Selects[asking][n] = select]],
                 lines |-> IF asking = "domains" THEN Breakdown ELSE <<>>]
    /\ asking' = None /\ counts' = <<>> /\ moved' = {}
    /\ UNCHANGED <<row, moves>>

\* A transaction of another request commits; bulk_delete_scripts deletes several rows.
Moves(X, value) ==
    /\ asking # None /\ moves < MaxMoves
    /\ row' = [x \in Counted |-> IF x \in X THEN value ELSE row[x]]
    /\ moved' = moved \cup X
    /\ moves' = moves + 1
    /\ UNCHANGED <<asking, counts, shown>>
CreateRow == \E x \in Counted : ~Exists(x) /\ Moves({x}, [status |-> "draft", deleted |-> FALSE])
ReadyRow == \E x \in Live(Counted) :
    Moves({x}, [row[x] EXCEPT !.status = IF @ = "ready" THEN "draft" ELSE "ready"])
DeleteRow == \E x \in Live(Counted) : Moves({x}, [row[x] EXCEPT !.deleted = TRUE])
BulkDelete ==
    /\ asking # None /\ moves < MaxMoves
    /\ \E X \in SUBSET Live(CountedScripts) :
        /\ Cardinality(X) > 1
        /\ row' = [x \in Counted |-> IF x \in X THEN [row[x] EXCEPT !.deleted = TRUE] ELSE row[x]]
        /\ moved' = moved \cup X
    /\ moves' = moves + 1
    /\ UNCHANGED <<asking, counts, shown>>

ReportNext ==
    AskReport \/ Select \/ AnswerReport \/ CreateRow \/ ReadyRow \/ DeleteRow \/ BulkDelete

ReportSpec == ReportInit /\ [][ReportNext]_reportVars

-----------------------------------------------------------------------------
\* Of the rows that nobody changed meanwhile, those of the part are in the whole.
PartOf(report, part, whole) ==
    part \in DOMAIN report.counted =>
        report.counted[part] \subseteq report.counted[whole] \cup report.moved

AddsUp(report) ==
    /\ PartOf(report, "ready requirements", "requirements")
    /\ PartOf(report, "ready scripts", "scripts")
    /\ PartOf(report, "covered", "requirements")
    /\ report.kind = "domains" =>
         \A n \in 1 .. 3 :
            LET counted == report.counted[Selects["domains"][n]]
                inLines == UNION {report.lines[d][n] : d \in DOMAIN report.lines}
            IN  inLines \subseteq counted /\ counted \subseteq inLines \cup report.moved

\* The figures of a report fit together, although its SELECTs see different states: what
\* is ready or covered is among what there is, and the lines by domain add up to the
\* totals, but for rows that others changed while the report was made.
ReportsAddUp == shown # None => AddsUp(shown)
=============================================================================
