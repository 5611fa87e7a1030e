-------------------------- MODULE MCTrustHandshake --------------------------
(* TLC instances of TrustHandshake: the order of peer_nodes. *)
EXTENDS TrustHandshake

CONSTANTS p1, p2

OnePeer == <<p1>>
TwoPeers == <<p1, p2>>

=============================================================================
