--------------------------- MODULE MCCommonsReview ---------------------------
(* TLC instance of CommonsReview: requests and consents are interchangeable. *)
EXTENDS CommonsReview, TLC

Symmetry == Permutations(Requests) \cup Permutations(Consents)

=============================================================================
