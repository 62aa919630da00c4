------------------------------ MODULE MCUsage ------------------------------
(* Instances of Usage for TLC: the constants are in the .cfg files.        *)
EXTENDS Usage, TLC

\* Runs are interchangeable, and so are requests; only safety is checked.
Symmetry == Permutations(Runs) \cup Permutations(Requests)
=============================================================================
