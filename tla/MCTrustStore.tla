----------------------------- MODULE MCTrustStore -----------------------------
(* Instances of TrustStore: two networks with a chain each. *)
EXTENDS TrustStore

TwoChains == [i \in {"i1", "i2"} |-> IF i = "i1" THEN "r1" ELSE "r2"]

=============================================================================
