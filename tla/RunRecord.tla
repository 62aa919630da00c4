----------------------------- MODULE RunRecord -----------------------------
(***************************************************************************)
(* What the agent-run subsystem promises about one column: the committed   *)
(* status of an agent_runs row.  A run is created pending.  Whoever wants  *)
(* to change it first takes a claim by reading an open status, and a claim *)
(* is good for one committed write, however stale the read has become.     *)
(* Queues, workers, transactions and row locks are all hidden.             *)
(***************************************************************************)
CONSTANTS
    Runs,        \* the agent runs
    Executors,   \* claimants that execute the run
    Cancellers   \* claimants that cancel the run

VARIABLES
    row,         \* row[r]: the committed status of run r
    claims       \* claims[r]: the claimants that have read an open status of r

vars == <<row, claims>>

Settled == {"completed", "failed", "timed_out", "cancelled"}

Init ==
    /\ row = [r \in Runs |-> "absent"]
    /\ claims = [r \in Runs |-> {}]

Create(r) ==
    /\ row[r] = "absent"
    /\ row' = [row EXCEPT ![r] = "pending"]
    /\ UNCHANGED claims

\* Only a pending run may be claimed for execution; a cancel request may also
\* claim a run whose committed status is running.
Claim(r, c) ==
    /\ c \notin claims[r]
    /\ \/ c \in Executors \cup Cancellers /\ row[r] = "pending"
       \/ c \in Cancellers /\ row[r] = "running"
    /\ claims' = [claims EXCEPT ![r] = @ \cup {c}]
    /\ UNCHANGED row

Write(r, c) ==
    /\ c \in claims[r]
    /\ claims' = [claims EXCEPT ![r] = @ \ {c}]
    /\ \/ c \in Cancellers /\ row' = [row EXCEPT ![r] = "cancelled"]
       \/ /\ c \in Executors
          /\ \E s \in {"running", "completed", "failed", "timed_out"} :
                row' = [row EXCEPT ![r] = s]

\* Claims can be given up at any time, many at once when a process dies.
Drop ==
    /\ claims' \in [Runs -> SUBSET (Executors \cup Cancellers)]
    /\ \A r \in Runs : claims'[r] \subseteq claims[r]
    /\ UNCHANGED row

Next ==
    \/ \E r \in Runs : Create(r)
    \/ \E r \in Runs, c \in Executors \cup Cancellers : Claim(r, c) \/ Write(r, c)
    \/ Drop

Spec == Init /\ [][Next]_vars
=============================================================================
