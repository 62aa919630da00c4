----------------------------- MODULE ModelCalls -----------------------------
(***************************************************************************)
(* How the tools of an agent ask the language model: the client with its   *)
(* budget check, its retries and its log (ai/client.py), and the tools     *)
(* that use it (agents/tool_registry.py), each of which makes an answer of *)
(* whatever comes back.  The tool calls of one turn run concurrently; the  *)
(* run's timeout cancels all that are under way.                           *)
(*                                                                         *)
(* A text is no more than its size, here what room it leaves in the        *)
(* context window.  The model's service is outside: it answers, refuses    *)
(* for its rate limit, or fails, and may fail after it has done the work;  *)
(* what its SDK repeats on its own is one request here.                    *)
(***************************************************************************)
EXTENDS Sessions, Integers, FiniteSets

CONSTANT Asks        \* tool calls of one run that ask the model

VARIABLES
    ask,        \* ask[k]: the tool call, None before it starts
    logged,     \* logged[k]: what has been scheduled for the log, by mode
    written,    \* <<k, mode>> of the entries that are in ai_generation_log
    sent,       \* sent[k]: requests made for k (history)
    worked,     \* <<k, mode>> of the requests the model has answered (history)
    timedOut    \* the run's timeout has cancelled its agent

askVars == <<ask, logged, written, sent, worked, timedOut>>

Modes == {"structured", "plain"}
\* call_ai and the five format_as_ tools want a text; the others a structure.
FormatTools == {"format"}
AskTools == {"call_ai", "analysis", "quality", "cases"} \cup FormatTools

\* max_tokens by tool and mode, and what a text may leave of the window.
MaxTokens(tool, mode) ==
    CASE tool = "call_ai" -> 2048
      [] tool = "analysis" /\ mode = "plain" -> 1024
      [] OTHER -> 4096
Rooms == {0, 1024, 2048, 4096}

Ask == [tool : AskTools, room : Rooms, mode : Modes, tries : 0 .. 2,
        phase : {"asking", "waiting", "model", "made_up", "error", "cancelled"}]

ASSUME AskAssumption == None \notin Ask \cup {"success", "failure"}

AskTypeOK ==
    /\ ask \in [Asks -> Ask \cup {None}]
    /\ logged \in [Asks -> [Modes -> {"success", "failure", None}]]
    /\ written \subseteq Asks \X Modes /\ worked \subseteq Asks \X Modes
    /\ sent \in [Asks -> Nat]
    /\ timedOut \in BOOLEAN

AskInit ==
    /\ ask = [k \in Asks |-> None]
    /\ logged = [k \in Asks |-> [m \in Modes |-> None]]
    /\ written = {} /\ worked = {}
    /\ sent = [k \in Asks |-> 0]
    /\ timedOut = FALSE

-----------------------------------------------------------------------------
\* _check_token_budget
Fits(tool, mode, room) == MaxTokens(tool, mode) <= room

Asking(tool, mode, room) ==
    [tool |-> tool, room |-> room, mode |-> mode, tries |-> 0, phase |-> "asking"]

\* What a tool answers when its client raised: analyze_page_with_ai asks again for plain
\* text, check_requirement_quality makes up a report so as not to block the pipeline.
OnError(tool, mode, room) ==
    CASE tool = "analysis" /\ mode = "structured" /\ Fits(tool, "plain", room) -> Asking(tool, "plain", room)
      [] tool = "quality" -> [Asking(tool, mode, room) EXCEPT !.phase = "made_up"]
      [] OTHER -> [Asking(tool, mode, room) EXCEPT !.phase = "error"]

FirstMode(tool) == IF tool \in FormatTools \cup {"call_ai"} THEN "plain" ELSE "structured"

\* A text over the budget raises before anything is sent or logged.
StartAsk(k) ==
    /\ ask[k] = None /\ ~timedOut
    /\ \E tool \in AskTools, room \in Rooms :
        LET mode == FirstMode(tool) IN
        ask' = [ask EXCEPT ![k] = IF Fits(tool, mode, room) THEN Asking(tool, mode, room)
                                  ELSE OnError(tool, mode, room)]
    /\ UNCHANGED <<logged, written, sent, worked, timedOut>>

AskPhase(k, phase) == ask[k] # None /\ ask[k].phase = phase

\* Mutant: only calls that succeed are logged.
EntryIfUseful(k, success) == [logged EXCEPT ![k][ask[k].mode] = IF success THEN "success" ELSE @]
\* The finally block.
Entry(k, success) == [logged EXCEPT ![k][ask[k].mode] = IF success THEN "success" ELSE "failure"]

\* The model has answered: with the text or structure asked for, or with nothing of that
\* structure, which raises after the call counted as a success.
Answer(k) ==
    /\ AskPhase(k, "asking")
    /\ sent' = [sent EXCEPT ![k] = @ + 1]
    /\ worked' = worked \cup {<<k, ask[k].mode>>}
    /\ logged' = Entry(k, TRUE)
    /\ \/ ask' = [ask EXCEPT ![k].phase = "model"]
       \/ /\ ask[k].mode = "structured"
          /\ ask' = [ask EXCEPT ![k] = OnError(ask[k].tool, ask[k].mode, ask[k].room)]
    /\ UNCHANGED <<written, timedOut>>

\* Mutant: stop_after_attempt counts retries.
LastRetry(a) == a.tries >= 3
\* Plain calls are made three times at most, structured ones once.
LastTry(a) == a.mode = "structured" \/ a.tries >= 2

\* The rate limit: wait_exponential ...
RateLimited(k) ==
    /\ AskPhase(k, "asking") /\ ~LastTry(ask[k])
    /\ sent' = [sent EXCEPT ![k] = @ + 1]
    /\ ask' = [ask EXCEPT ![k].phase = "waiting"]
    /\ UNCHANGED <<logged, written, worked, timedOut>>

\* ... and again.
AskAgain(k) ==
    /\ AskPhase(k, "waiting")
    /\ ask' = [ask EXCEPT ![k].phase = "asking", ![k].tries = @ + 1]
    /\ UNCHANGED <<logged, written, sent, worked, timedOut>>

\* The last rate limit, and any other error, some of which the SDK raises over an answer.
AskFails(k) ==
    /\ AskPhase(k, "asking")
    /\ sent' = [sent EXCEPT ![k] = @ + 1]
    /\ worked' \in {worked, worked \cup {<<k, ask[k].mode>>}}
    /\ logged' = Entry(k, FALSE)
    /\ ask' = [ask EXCEPT ![k] = OnError(ask[k].tool, ask[k].mode, ask[k].room)]
    /\ UNCHANGED <<written, timedOut>>

UnderWay(k) == AskPhase(k, "asking") \/ AskPhase(k, "waiting")

\* The run's timeout: CancelledError passes every handler, and the finally blocks.
\* A request that is under way may have been sent, and worked on.
TimeOut ==
    /\ ~timedOut /\ timedOut' = TRUE
    /\ ask' = [k \in Asks |-> IF UnderWay(k) THEN [ask[k] EXCEPT !.phase = "cancelled"] ELSE ask[k]]
    /\ logged' = [k \in Asks |-> IF UnderWay(k) THEN [logged[k] EXCEPT ![ask[k].mode] = "failure"] ELSE logged[k]]
    /\ \E reached \in SUBSET {k \in Asks : AskPhase(k, "asking")} :
        /\ sent' = [k \in Asks |-> IF k \in reached THEN sent[k] + 1 ELSE sent[k]]
        /\ worked' \in {worked, worked \cup {<<k, ask[k].mode>> : k \in reached}}
    /\ UNCHANGED written

\* _log_call is a task nobody waits for; Cosmos may fail, and the process may end first.
WriteLog(k, mode) ==
    /\ logged[k][mode] # None /\ <<k, mode>> \notin written
    /\ written' = written \cup {<<k, mode>>}
    /\ UNCHANGED <<ask, logged, sent, worked, timedOut>>

AskNext ==
    \/ \E k \in Asks :
        \/ StartAsk(k) \/ Answer(k) \/ RateLimited(k) \/ AskAgain(k) \/ AskFails(k)
        \/ \E mode \in Modes : WriteLog(k, mode)
    \/ TimeOut

AskSpec == AskInit /\ [][AskNext]_askVars

-----------------------------------------------------------------------------
\* The log tells what was spent: a success only of a call the model has answered, an entry
\* for every call that it worked on and that is over, and a failure where the tool has
\* nothing of the model's to show for it.
LogTellsSpending ==
    \A k \in Asks, m \in Modes :
        /\ logged[k][m] = "success" => <<k, m>> \in worked
        /\ <<k, m>> \in worked => logged[k][m] # None
        /\ AskPhase(k, "model") /\ ask[k].mode = m => logged[k][m] = "success"

\* A tool call makes at most four requests, three unless it fell back to plain text, and
\* falls back only after the structured call was logged or was over the budget; one that
\* never fitted has sent nothing.  Nothing is under way once the run is over.
AskingBounded ==
    \A k \in Asks : ask[k] # None =>
        /\ sent[k] <= (IF ask[k].tool = "analysis" THEN 4 ELSE 3)
        /\ ask[k].tool = "analysis" /\ ask[k].mode = "plain" =>
             (logged[k]["structured"] = None <=> ask[k].room < MaxTokens("analysis", "structured"))
        /\ sent[k] = 0 /\ AskPhase(k, "error") => \A m \in Modes : logged[k][m] = None
        /\ timedOut => ~UnderWay(k)

\* What the tools are answered, what they send and what is logged of it agree.
CallsAccounted == LogTellsSpending /\ AskingBounded
=============================================================================
