-------------------------- MODULE CronExpressions --------------------------
(***************************************************************************)
(* The minimum interval of cron expressions (scheduler/cron_parser.py).    *)
(* An expression is the set of ticks of a day at which it fires; croniter  *)
(* is the next such tick, in this day or the next.                         *)
(***************************************************************************)
EXTENDS Integers, FiniteSetsExt

CONSTANTS
    Day,          \* the ticks of a day
    FireTicks,    \* the ticks expressions may name
    MinInterval   \* _MIN_INTERVAL_MINUTES

ASSUME CronAssumption ==
    Day \in Nat \ {0} /\ FireTicks \subseteq 0 .. Day - 1 /\ MinInterval \in 1 .. Day

VARIABLES
    expression,   \* the ticks at which it fires
    clockTick,    \* the time of day
    accepted      \* the answers validate_min_interval has given for it

cronVars == <<expression, clockTick, accepted>>

CronTypeOK ==
    expression \subseteq FireTicks /\ clockTick \in 0 .. Day - 1 /\ accepted \subseteq BOOLEAN

CronInit ==
    expression \in (SUBSET FireTicks) \ {{}} /\ clockTick \in 0 .. Day - 1 /\ accepted = {}

\* cron.get_next: how long after tick t the expression fires next; never at once.
Wait(expr, t) == Min({IF f > t THEN f - t ELSE f + Day - t : f \in expr})
Gap(expr, t) == LET t1 == (t + Wait(expr, t)) % Day IN Wait(expr, t1)

\* Mutant: the first interval is measured from now.
LongFromNow(expr, t) == Wait(expr, t) >= MinInterval
\* validate_min_interval
Long(expr, t) == Gap(expr, t) >= MinInterval

Validate ==
    /\ accepted' = accepted \cup {Long(expression, clockTick)}
    /\ UNCHANGED <<expression, clockTick>>

Pass == clockTick' = (clockTick + 1) % Day /\ UNCHANGED <<expression, accepted>>

CronNext == Validate \/ Pass
CronSpec == CronInit /\ [][CronNext]_cronVars

-----------------------------------------------------------------------------
Gaps == {Wait(expression, f) : f \in expression}

\* An expression that never fires too often is accepted whenever it is validated, and one
\* that always does is refused; in between the answer depends on the time of day.
EvenSchedulesAccepted ==
    /\ Min(Gaps) >= MinInterval => FALSE \notin accepted
    /\ Max(Gaps) < MinInterval => TRUE \notin accepted

\* cron_parser.py:48-49: "Return True if the expression fires no more often than every
\* _MIN_INTERVAL_MINUTES minutes."  Only the next interval is measured.
AcceptedNeverTooOften == TRUE \in accepted => Min(Gaps) >= MinInterval
=============================================================================
