--------------------------- MODULE MCTaskExecution ---------------------------
(* Model values, symmetry and bounds for checking TaskExecution with TLC. *)
EXTENDS TaskExecution, TLC

\* Slugs and callback handlers are interchangeable; jobs are numbered.
Interchangeable == Permutations(Slugs) \cup Permutations(Handlers)
=============================================================================
