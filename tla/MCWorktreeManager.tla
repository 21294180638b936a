-------------------------- MODULE MCWorktreeManager --------------------------
(* Model values, symmetry and bounds for checking WorktreeManager with TLC. *)
EXTENDS WorktreeManager, TLC

\* Slugs are interchangeable, as are callbacks; jobs are numbered.
Interchangeable == Permutations(Slugs) \cup Permutations(Callbacks)
=============================================================================
