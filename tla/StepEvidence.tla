---------------------------- MODULE StepEvidence ----------------------------
(***************************************************************************)
(* The pictures of an execution agent: what the browser shows, what        *)
(* take_step_screenshot stores in the blob container, the link that        *)
(* save_step_result keeps, and what a report, or a request for the picture *)
(* of a step, finds under it (agents/tool_registry.py, agents/             *)
(* execution_agent.py, services/evidence_service.py, blob.py).             *)
(*                                                                         *)
(* The language model is asked to act, take the picture and save the       *)
(* result, step by step; the calls it makes in one turn run side by side.  *)
(* It may redo a step.  A step is a record of its execution run, its test  *)
(* case and its number, and numbers begin again in every case.             *)
(***************************************************************************)
EXTENDS Sessions, Integers, Sequences, FiniteSets

CONSTANTS
    Steps,          \* the steps of the scripts, as records [run, case, number]
    MaxShots        \* bound on the pictures taken (TLC)

ASSUME EvidenceAssumption ==
    (\A s \in Steps : DOMAIN s = {"run", "case", "number"}) /\ MaxShots \in Nat

StepRuns == {s.run : s \in Steps}
Numbers == {s.number : s \in Steps}

VARIABLES
    known,      \* the runs created, of scripts that are loaded
    folder,     \* current_execution_run_id of the working memory, None if it is not set
    screen,     \* the step whose action the browser shows, None for the blank page
    acted,      \* the steps whose own last action the browser shows
    camera,     \* camera[s]: the picture being taken for step s, None between two
    link,       \* link[s]: the picture whose link the model has for step s, or 0
    shots,      \* the pictures taken, in the order uploaded
    blobs,      \* blobs[path]: the picture stored there, an index of shots, or 0
    linked,     \* the pictures of which a step result keeps the link
    page,       \* the last page of a report: <<picture of the result, picture on the page>>
    sealed,     \* the worker has committed: the API sees the step results
    answered    \* the last request for a picture: None, or its answer

evidenceVars == <<known, folder, screen, acted, camera, link, shots, blobs, linked, page, sealed, answered>>

Path == (StepRuns \cup {None}) \X Numbers
Picture == [path : Path, taken : BOOLEAN, acted : BOOLEAN, shows : Steps \cup {None}]
Shot == [of : Steps, acted : BOOLEAN, shows : Steps \cup {None}, path : Path, stored : BOOLEAN]

EvidenceTypeOK ==
    /\ known \subseteq StepRuns /\ folder \in StepRuns \cup {None}
    /\ screen \in Steps \cup {None} /\ acted \subseteq Steps
    /\ camera \in [Steps -> Picture \cup {None}] /\ link \in [Steps -> 0 .. Len(shots)]
    /\ shots \in Seq(Shot)
    /\ blobs \in [Path -> 0 .. Len(shots)]
    /\ linked \subseteq DOMAIN shots
    /\ page # None => page[1] \in DOMAIN shots /\ page[2] \in 0 .. Len(shots)
    /\ sealed \in BOOLEAN
    /\ answered # None => answered \in [run : StepRuns, number : Numbers,
                                        found : {"missing", "error", "link"}, path : Path \cup {None}]

EvidenceInit ==
    /\ known = {} /\ folder = None /\ screen = None /\ acted = {}
    /\ camera = [s \in Steps |-> None] /\ link = [s \in Steps |-> 0]
    /\ shots = <<>> /\ blobs = [p \in Path |-> 0]
    /\ linked = {} /\ page = None
    /\ sealed = FALSE /\ answered = None

-----------------------------------------------------------------------------
\* load_test_script and create_execution_run.
LoadTestScript(r) ==
    /\ ~sealed /\ r \notin known
    /\ known' = known \cup {r}
    /\ UNCHANGED <<folder, screen, acted, camera, link, shots, blobs, linked, page, sealed, answered>>

\* save_to_memory("current_execution_run_id", r), which only the model can do.
SaveToMemory(r) ==
    /\ ~sealed /\ r \in known
    /\ folder' = r
    /\ UNCHANGED <<known, screen, acted, camera, link, shots, blobs, linked, page, sealed, answered>>

\* browser_navigate, _click, _fill, _select: the page shows what the step did, and no longer
\* what another one did, unless the locator matches nothing or the wait is too long; the
\* checks and waits between leave it as it is.
BrowserAct(s) ==
    /\ ~sealed /\ s.run \in known
    /\ \/ screen' = s /\ acted' = {s}
       \/ acted' = acted \ {s} /\ UNCHANGED screen
    /\ UNCHANGED <<known, folder, camera, link, shots, blobs, linked, page, sealed, answered>>

\* Mutant: the number of the step is not in the name of the file.
OneFile(s) == <<folder, CHOOSE n \in Numbers : TRUE>>
\* build_evidence_path: the folder named in the memory, else that of the agent run.
EvidencePath(s) == <<folder, s.number>>

InCamera == {s \in Steps : camera[s] # None}

\* take_step_screenshot begins: the memory is read before the browser is waited for.
TakeStepScreenshot(s) ==
    /\ ~sealed /\ s.run \in known /\ camera[s] = None
    /\ Len(shots) + Cardinality(InCamera) < MaxShots
    /\ camera' = [camera EXCEPT ![s] = [path |-> EvidencePath(s), taken |-> FALSE, acted |-> FALSE, shows |-> None]]
    /\ UNCHANGED <<known, folder, screen, acted, link, shots, blobs, linked, page, sealed, answered>>

\* The capture; a grey picture takes the place of one that fails, as it does when the browser
\* is closed.
Capture(s) ==
    /\ camera[s] # None /\ ~camera[s].taken
    /\ \E shown \in {screen, None} :
        camera' = [camera EXCEPT ![s] = [path |-> @.path, taken |-> TRUE, acted |-> s \in acted, shows |-> shown]]
    /\ UNCHANGED <<known, folder, screen, acted, link, shots, blobs, linked, page, sealed, answered>>

\* upload_bytes, with overwrite=True; one that fails still answers with the path.  The
\* uploads of two calls may end in either order, and one after the agent has returned.
Upload(s) ==
    /\ camera[s] # None /\ camera[s].taken
    /\ \E stored \in BOOLEAN :
        /\ shots' = Append(shots, [of |-> s, acted |-> camera[s].acted, shows |-> camera[s].shows,
                                   path |-> camera[s].path, stored |-> stored])
        /\ blobs' = IF stored THEN [blobs EXCEPT ![camera[s].path] = Len(shots')] ELSE blobs
    /\ link' = [link EXCEPT ![s] = IF sealed THEN 0 ELSE Len(shots')]
    /\ camera' = [camera EXCEPT ![s] = None]
    /\ UNCHANGED <<known, folder, screen, acted, linked, page, sealed, answered>>

\* save_step_result, with the link take_step_screenshot answered.
SaveEvidence(s) ==
    /\ ~sealed /\ link[s] # 0
    /\ linked' = linked \cup {link[s]}
    /\ link' = [link EXCEPT ![s] = 0]
    /\ UNCHANGED <<known, folder, screen, acted, camera, shots, blobs, page, sealed, answered>>

\* generate_evidence_report: a page for a result it has listed, with what is stored under
\* its link by then, or with "[Screenshot unavailable]" where nothing is or the download
\* fails.
ReportPage(i) ==
    /\ ~sealed /\ i \in linked
    /\ \E found \in {0, blobs[shots[i].path]} : page' = <<i, found>>
    /\ UNCHANGED <<known, folder, screen, acted, camera, link, shots, blobs, linked, sealed, answered>>

\* The agent returns, raises or is timed out: its browser and its memory are gone, and the
\* worker commits, or the transaction was lost.  Calls of a turn in which one raised go on.
SealResults ==
    /\ ~sealed
    /\ sealed' = TRUE
    /\ known' = {} /\ folder' = None /\ screen' = None /\ acted' = {}
    /\ link' = [s \in Steps |-> 0]
    /\ linked' \in {linked, {}}
    /\ UNCHANGED <<camera, shots, blobs, page, answered>>

Mine(r) == {i \in linked : shots[i].of.run = r}

\* get_step_screenshot_sas_url: scalar_one_or_none raises on a second row.
GetStepScreenshot(r, n) ==
    /\ sealed
    /\ LET rows == {i \in Mine(r) : shots[i].of.number = n} IN
        answered' = [run |-> r, number |-> n,
                     found |-> CASE rows = {} -> "missing"
                                 [] Cardinality(rows) > 1 -> "error"
                                 [] OTHER -> "link",
                     path |-> IF Cardinality(rows) = 1 THEN shots[CHOOSE i \in rows : TRUE].path ELSE None]
    /\ UNCHANGED <<known, folder, screen, acted, camera, link, shots, blobs, linked, page, sealed>>

EvidenceNext ==
    \/ \E r \in StepRuns : LoadTestScript(r) \/ SaveToMemory(r)
    \/ \E s \in Steps :
        BrowserAct(s) \/ TakeStepScreenshot(s) \/ Capture(s) \/ Upload(s) \/ SaveEvidence(s)
    \/ \E i \in DOMAIN shots : ReportPage(i)
    \/ SealResults
    \/ \E r \in StepRuns, n \in Numbers : GetStepScreenshot(r, n)

EvidenceSpec == EvidenceInit /\ [][EvidenceNext]_evidenceVars

-----------------------------------------------------------------------------
\* Picture i may stand for the step of picture j: it is j, or another one of a step with
\* the same number, which is older only if j was never stored.
StandsFor(i, j) ==
    i # j =>
        /\ i # 0 => shots[i].of.number = shots[j].of.number
        /\ shots[j].stored => i > j

\* The link of a step result, a page of a report that has a picture and the answer to a
\* request lead to a picture of a step with that number, and not to one older than the
\* step's own, unless that was never stored; numbers that begin again, steps redone or taken
\* side by side, captures, uploads and downloads that fail and a folder renamed under way
\* change no more than that.  A picture shows what its step did, if that did anything and
\* no other step acted before the capture, or is grey.
EvidenceShown ==
    /\ \A j \in linked : StandsFor(blobs[shots[j].path], j)
    /\ page # None /\ page[2] # 0 => StandsFor(page[2], page[1])
    /\ answered # None /\ answered.found = "link" =>
         \E j \in Mine(answered.run) :
             shots[j].of.number = answered.number /\ StandsFor(blobs[answered.path], j)
    /\ \A j \in DOMAIN shots : shots[j].acted => shots[j].shows \in {shots[j].of, None}
=============================================================================
