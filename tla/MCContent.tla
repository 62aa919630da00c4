----------------------------- MODULE MCContent ------------------------------
(***************************************************************************)
(* What users and agents write, for TLC: test scripts, requirements, their *)
(* list and their import, test cycles, the output of agents, the pictures  *)
(* of their steps and their calls of the language model, and what reports  *)
(* and exports make of it all.                                             *)
(* No request of one component writes a row another one writes, so each is *)
(* explored alone: part, chosen at the start, is the component that moves. *)
(* Reports and exports read rows of the others, and have their own copy of *)
(* them that changes as the others change it.                              *)
(***************************************************************************)
EXTENDS Scripts, Requirements, RequirementPages, RequirementImport, Cycles, AgentOutputs,
        StepEvidence, Reports, Exports, ModelCalls

\* A vague text that scores 35 and a text that scores 95.
SomeTexts == {[title |-> "short", description |-> "brief", testable |-> FALSE, digit |-> FALSE],
              [title |-> "fit", description |-> "full", testable |-> TRUE, digit |-> FALSE]}

\* Two cases of one run with a step of the same number, and a step with another number.
SomeSteps == {[run |-> "e1", case |-> "first", number |-> 1], [run |-> "e1", case |-> "second", number |-> 1],
              [run |-> "e1", case |-> "first", number |-> 2]}

\* Two requirements, one of which has both scripts, and two domains.
SomeCounted == {"req1", "req2"}
SomeCountedScripts == {"scr1", "scr2"}
SomeDomain == [x \in SomeCounted \cup SomeCountedScripts |-> IF x \in {"req1", "scr1"} THEN "hr" ELSE "sales"]
SomeCoverage == [r \in SomeCounted |-> IF r = "req1" THEN SomeCountedScripts ELSE {}]

VARIABLE part

mcVars == <<part, scriptVars, reqVars, pageVars, importVars, cycleVars, outputVars, evidenceVars, reportVars, exportVars, askVars>>

ContentInit ==
    /\ part \in {"script", "requirement", "pages", "import", "cycle", "outputs", "evidence", "reports", "exports", "asks"}
    /\ IF part = "script" THEN ScriptInit ELSE ScriptInit /\ CreatedByUser
    /\ ReqInit /\ (part # "requirement" => req.text.title = "fit")
    /\ PageInit /\ ImportInit /\ (part # "import" => parser = "text" /\ ~crlf)
    /\ CycleInit /\ (part # "cycle" => approved = {})
    /\ OutputInit /\ (part # "outputs" => agent = "execution")
    /\ EvidenceInit
    /\ ReportInit /\ (part # "reports" => \A x \in Counted : row[x].status = "absent")
    /\ ExportInit /\ (part # "exports" => Approved = {})
    /\ AskInit

ContentNext ==
    /\ UNCHANGED part
    /\ \/ /\ part = "script" /\ ScriptNext
          /\ UNCHANGED <<reqVars, pageVars, importVars, cycleVars, outputVars, evidenceVars, reportVars, exportVars, askVars>>
       \/ /\ part = "requirement" /\ ReqNext
          /\ UNCHANGED <<scriptVars, pageVars, importVars, cycleVars, outputVars, evidenceVars, reportVars, exportVars, askVars>>
       \/ /\ part = "pages" /\ PageNext
          /\ UNCHANGED <<scriptVars, reqVars, importVars, cycleVars, outputVars, evidenceVars, reportVars, exportVars, askVars>>
       \/ /\ part = "import" /\ ImportNext
          /\ UNCHANGED <<scriptVars, reqVars, pageVars, cycleVars, outputVars, evidenceVars, reportVars, exportVars, askVars>>
       \/ /\ part = "cycle" /\ CycleNext
          /\ UNCHANGED <<scriptVars, reqVars, pageVars, importVars, outputVars, evidenceVars, reportVars, exportVars, askVars>>
       \/ /\ part = "outputs" /\ OutputNext
          /\ UNCHANGED <<scriptVars, reqVars, pageVars, importVars, cycleVars, evidenceVars, reportVars, exportVars, askVars>>
       \/ /\ part = "evidence" /\ EvidenceNext
          /\ UNCHANGED <<scriptVars, reqVars, pageVars, importVars, cycleVars, outputVars, reportVars, exportVars, askVars>>
       \/ /\ part = "reports" /\ ReportNext
          /\ UNCHANGED <<scriptVars, reqVars, pageVars, importVars, cycleVars, outputVars, evidenceVars, exportVars, askVars>>
       \/ /\ part = "exports" /\ ExportNext
          /\ UNCHANGED <<scriptVars, reqVars, pageVars, importVars, cycleVars, outputVars, evidenceVars, reportVars, askVars>>
       \/ /\ part = "asks" /\ AskNext
          /\ UNCHANGED <<scriptVars, reqVars, pageVars, importVars, cycleVars, outputVars, evidenceVars, reportVars, exportVars>>

ContentSpec == ContentInit /\ [][ContentNext]_mcVars

\* Every variable of the ten components has its type.
ContentTypeOK ==
    /\ ScriptTypeOK /\ ReqTypeOK /\ PageTypeOK
    /\ ImportTypeOK /\ CycleTypeOK /\ OutputTypeOK
    /\ EvidenceTypeOK /\ ReportTypeOK /\ ExportTypeOK /\ AskTypeOK

\* What agents tell of their work and the pictures they show for it agree with the rows
\* they leave.
EvidenceAgrees == OutputsAgree /\ EvidenceShown

\* What is counted and exported while the rows change is what was there.
ReadersFaithful == ReportsAddUp /\ ExportsFaithful
=============================================================================
