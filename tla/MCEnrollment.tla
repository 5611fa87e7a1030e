---------------------------- MODULE MCEnrollment ----------------------------
(* Symmetry for TLC: tokens, nodes and commands are interchangeable.       *)
EXTENDS Enrollment, TLC

Symmetric == Permutations(Tokens) \cup Permutations(Nodes) \cup Permutations(Attempts)

=============================================================================
