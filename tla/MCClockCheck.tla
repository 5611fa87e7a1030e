----------------------------- MODULE MCClockCheck -----------------------------
(* Instances of ClockCheck: two honest servers and a liar, one bootstrap. *)
EXTENDS ClockCheck

OneBootstrap == <<"b1">>

=============================================================================
