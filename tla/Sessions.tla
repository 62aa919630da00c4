------------------------------ MODULE Sessions ------------------------------
(***************************************************************************)
(* What the API handlers of the other modules have in common: each works   *)
(* in one database session (database.py, dependencies.py).  A SELECT       *)
(* returns the last committed rows and waits for nobody; the flush sends   *)
(* an UPDATE of the columns whose value differs from the one read; get_db  *)
(* commits when the handler has returned and rolls back when it raised.    *)
(*                                                                         *)
(* A handler that flushes an UPDATE and then builds its answer from the    *)
(* same object may raise there: updated_at is an SQL expression, which the *)
(* UPDATE leaves expired and an async session does not reload.  So every   *)
(* request may end with a rollback, whatever its guards said.              *)
(***************************************************************************)
CONSTANT None       \* no row, no value, NULL

\* The UPDATE of one row: the columns a session changed, over the row committed by then.
Merge(base, read, new) ==
    [column \in DOMAIN base |-> IF new[column] = read[column] THEN base[column] ELSE new[column]]
=============================================================================
