---------------------------- MODULE MCLoginLimiter ----------------------------
(* Small instances of LoginLimiter for TLC. *)
EXTENDS LoginLimiter, TLC

\* Requests and addresses are told apart only by their state.
Symmetry == Permutations(Requests) \cup Permutations(Sources)

=============================================================================
