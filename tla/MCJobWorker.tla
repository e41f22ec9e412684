---------------------------- MODULE MCJobWorker -----------------------------
(* Small instances of JobWorker for TLC. *)
EXTENDS JobWorker, TLC

\* Jobs are told apart only by their rows, workers only by their state.
Symmetry == Permutations(Jobs) \cup Permutations(Workers)

=============================================================================
