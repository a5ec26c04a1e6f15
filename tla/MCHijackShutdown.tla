-------------------------- MODULE MCHijackShutdown --------------------------
(***************************************************************************)
(* Model values for HijackShutdown: three connections, and the uint64      *)
(* counter scaled to a modulus TLC can hold, so that a wrap below zero     *)
(* stays a wrap.                                                           *)
(***************************************************************************)
EXTENDS HijackShutdown

CONSTANTS c1, c2, c3

MCConns == {c1, c2, c3}
MCCounterModulus == 2^16

=============================================================================
