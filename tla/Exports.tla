------------------------------ MODULE Exports -------------------------------
(***************************************************************************)
(* The exports of scripts (services/export_service.py): one script, a list *)
(* of scripts, or the approved scripts of a test cycle are read one by     *)
(* one, packed, stored in the blob container, and answered as a link.  The *)
(* scripts change meanwhile, and other exports store under the same names. *)
(***************************************************************************)
EXTENDS Sessions, Integers, Sequences

CONSTANTS
    ExportScripts,  \* scripts, all of them assigned to the cycle
    Exporters,      \* exports
    MaxChanges, MaxSecond   \* bounds on the changes to the scripts, and on the clock (TLC)

ASSUME ExportAssumption == None \notin ExportScripts /\ MaxChanges \in Nat /\ MaxSecond \in Nat

VARIABLES
    source,     \* source[s]: whether script s is approved, and deleted
    changes,    \* changes to the scripts so far
    second,     \* the clock, to the second
    export,     \* export[e]: where e stands, None before it begins
    container,  \* the blobs: the export that last stored at each path
    order,      \* the exports that have stored, oldest first (history)
    eligible    \* eligible[e]: the scripts that were approved at some time since e began (history)

exportVars == <<source, changes, second, export, container, order, eligible>>

Source == [approved : BOOLEAN, deleted : BOOLEAN]
\* What names a blob: the script, or the second of the ZIP.
BlobName == [script : ExportScripts \cup {None}, second : 0 .. MaxSecond]
Export == [kind : {"script", "bulk", "cycle"}, at : {"picking", "loading", "storing", "linked", "raised"},
           left : SUBSET ExportScripts, picked : SUBSET ExportScripts, files : SUBSET ExportScripts,
           name : BlobName \cup {None}, packed : 0 .. MaxSecond]

ASSUME NotAnExport == None \notin Export

ExportTypeOK ==
    /\ source \in [ExportScripts -> Source] /\ second \in 0 .. MaxSecond
    /\ changes \in 0 .. MaxChanges
    /\ export \in [Exporters -> Export \cup {None}]
    /\ container \in [BlobName -> Exporters \cup {None}]
    /\ order \in Seq(Exporters)
    /\ eligible \in [Exporters -> SUBSET ExportScripts]

ExportInit ==
    /\ source \in [ExportScripts -> {[approved |-> a, deleted |-> FALSE] : a \in BOOLEAN}]
    /\ changes = 0 /\ second = 0
    /\ export = [e \in Exporters |-> None]
    /\ container = [p \in BlobName |-> None] /\ order = <<>>
    /\ eligible = [e \in Exporters |-> {}]

-----------------------------------------------------------------------------
Raised(x) == [x EXCEPT !.at = "raised", !.left = {}, !.picked = {}, !.files = {}, !.name = None]
Stands(e, at) == export[e] # None /\ export[e].at = at
First(S) == CHOOSE s \in S : TRUE
Approved == {s \in ExportScripts : source[s].approved /\ ~source[s].deleted}

\* A script, a list of them, or the cycle's assignments.
ExportBegins(e) ==
    /\ export[e] = None
    /\ \E kind \in {"script", "bulk", "cycle"}, asked \in (SUBSET ExportScripts) \ {{}} :
        /\ kind = "script" => \E s \in ExportScripts : asked = {s}
        /\ kind = "cycle" => asked = ExportScripts
        /\ export' = [export EXCEPT ![e] =
               [kind |-> kind, at |-> IF kind = "cycle" THEN "picking" ELSE "loading", left |-> asked,
                picked |-> {}, files |-> {}, name |-> None, packed |-> 0]]
    /\ eligible' = [eligible EXCEPT ![e] = Approved]
    /\ UNCHANGED <<source, changes, second, container, order>>

Picked(s) == s \in Approved

\* Export e goes on as x.
GoesOn(e, x) ==
    /\ export' = [export EXCEPT ![e] = x]
    /\ UNCHANGED <<source, changes, second, container, order, eligible>>

\* export_cycle asks for each assignment whether its script is approved ...
PickScript(e) ==
    /\ Stands(e, "picking") /\ export[e].left # {}
    /\ LET s == First(export[e].left) IN
        GoesOn(e, [export[e] EXCEPT !.left = @ \ {s}, !.picked = IF Picked(s) THEN @ \cup {s} ELSE @])

\* ... and hands those to export_bulk, or answers 404.
HandOver(e) ==
    /\ Stands(e, "picking") /\ export[e].left = {}
    /\ GoesOn(e, IF export[e].picked = {} THEN Raised(export[e])
                 ELSE [export[e] EXCEPT !.at = "loading", !.left = export[e].picked, !.picked = {}])

\* _load_script, whatever the script's status: a deleted one is a 404, which ends the
\* export, one that cannot be converted is left out of a ZIP and ends any other export.
LoadScript(e) ==
    /\ Stands(e, "loading") /\ export[e].left # {}
    /\ LET s == First(export[e].left) IN
        \/ source[s].deleted /\ GoesOn(e, Raised(export[e]))
        \/ /\ ~source[s].deleted
           /\ GoesOn(e, [export[e] EXCEPT !.left = @ \ {s}, !.files = @ \cup {s}])
        \/ /\ ~source[s].deleted
           /\ GoesOn(e, IF export[e].kind = "script" THEN Raised(export[e])
                        ELSE [export[e] EXCEPT !.left = @ \ {s}])

\* A single file is named by its script (its title too, which stays here), a ZIP by the
\* second it is packed in; all have the same format.
BlobNamed(e) ==
    IF export[e].kind = "script"
    THEN [script |-> First(export[e].files), second |-> 0]
    ELSE [script |-> None, second |-> second]

Pack(e) ==
    /\ Stands(e, "loading") /\ export[e].left = {}
    /\ GoesOn(e, IF export[e].files = {} THEN Raised(export[e])
                 ELSE [export[e] EXCEPT !.at = "storing", !.name = BlobNamed(e), !.packed = second])

\* upload_bytes overwrites, or raises; then the link is answered.
Store(e) ==
    /\ Stands(e, "storing")
    /\ \/ /\ container' = [container EXCEPT ![export[e].name] = e]
          /\ order' = Append(order, e)
          /\ export' = [export EXCEPT ![e].at = "linked"]
       \/ /\ export' = [export EXCEPT ![e] = Raised(@)]
          /\ UNCHANGED <<container, order>>
    /\ UNCHANGED <<source, changes, second, eligible>>

\* Others approve, unapprove and delete scripts while some export reads them.
SourceChanges ==
    /\ changes < MaxChanges
    /\ \E e \in Exporters : Stands(e, "picking") \/ Stands(e, "loading")
    /\ changes' = changes + 1
    /\ \E s \in ExportScripts :
        /\ ~source[s].deleted
        /\ source' \in {[source EXCEPT ![s].approved = ~@], [source EXCEPT ![s].deleted = TRUE]}
    /\ eligible' = [e \in Exporters |-> IF export[e] = None THEN {} ELSE eligible[e] \cup Approved']
    /\ UNCHANGED <<second, export, container, order>>

SecondPasses ==
    /\ second < MaxSecond
    /\ second' = second + 1
    /\ UNCHANGED <<source, changes, export, container, order, eligible>>

ExportNext ==
    \/ \E e \in Exporters :
        ExportBegins(e) \/ PickScript(e) \/ HandOver(e) \/ LoadScript(e) \/ Pack(e) \/ Store(e)
    \/ SourceChanges \/ SecondPasses

ExportSpec == ExportInit /\ [][ExportNext]_exportVars

-----------------------------------------------------------------------------
StoredAfter(f, e) == \E i, j \in DOMAIN order : i < j /\ order[i] = e /\ order[j] = f

\* Whoever follows the link of an export finds its files, or those of a later export of
\* the same script, or of a later ZIP packed in the same second; and the files of a cycle
\* are scripts that were approved at some time while the export was made.
ExportsFaithful ==
    \A e \in Exporters : Stands(e, "linked") =>
        LET f == container[export[e].name] IN
        /\ f # e =>
             /\ StoredAfter(f, e)
             /\ {export[e].kind, export[f].kind} \subseteq {"bulk", "cycle"} => export[f].packed = export[e].packed
             /\ "script" \in {export[e].kind, export[f].kind} =>
                  export[f].files = export[e].files
        /\ export[e].kind = "cycle" => export[e].files \subseteq eligible[e]
=============================================================================
