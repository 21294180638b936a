----------------------------- MODULE MCProcesses -----------------------------
(* Processes for TLC: one probe and one slug, that of the demo task. *)
EXTENDS Processes

CONSTANTS p1, s1
=============================================================================
