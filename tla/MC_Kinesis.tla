---------------------------- MODULE MC_Kinesis ----------------------------
(***************************************************************************)
(* Small instances of KinesisPoller for TLC: a hash space of two values.   *)
(***************************************************************************)
EXTENDS KinesisPoller, Sequences

\* A record of one key alone, and one of each key in a call.
OneOrTwo == {<<0>>, <<1, 0>>}
=============================================================================
