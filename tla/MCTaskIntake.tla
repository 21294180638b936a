---------------------------- MODULE MCTaskIntake ----------------------------
(* Symmetry for checking TaskIntake with TLC. *)
EXTENDS TaskIntake, TLC

\* Callback handlers are interchangeable; pages are ordered by the query.
Interchangeable == Permutations(Handlers)
=============================================================================
