--------------------------- MODULE MCThreading ----------------------------
(* Two ticks to a millisecond and sleeps of up to three ticks: a wait of   *)
(* one fits, a wait of two wraps to no sleep at all.                       *)
EXTENDS Threading

MCWaits == {0, 1, 2}
=============================================================================
