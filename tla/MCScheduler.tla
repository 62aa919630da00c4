---------------------------- MODULE MCScheduler ----------------------------
(* Instances of Scheduler for TLC: the constants are in the .cfg files.    *)
EXTENDS Scheduler

\* A run_at given in UTC, and in a zone one tick west of it.
Offsets == {-1, 0}

\* Jobs are created with the limit 2, which requests lower and raise again.
BoundedInit == Init /\ \A j \in Jobs : job[j].max = 2

BoundedSpec == BoundedInit /\ [][Next]_vars /\ \A e \in Evaluators : WF_vars(Pass(e))
=============================================================================
