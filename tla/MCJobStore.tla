----------------------------- MODULE MCJobStore -----------------------------
(* Small instances of JobStore for TLC. *)
EXTENDS JobStore, TLC

\* Jobs are told apart only by their rows, workers only by their state.
Symmetry == Permutations(Jobs) \cup Permutations(Workers)

\* A run_after may lie in the past, at the call or ahead of it.
Delays == {-1, 0, 1}

=============================================================================
