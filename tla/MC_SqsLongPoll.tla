--------------------------- MODULE MC_SqsLongPoll ---------------------------
(***************************************************************************)
(* Small instances of SqsLongPoll for TLC.                                 *)
(***************************************************************************)
EXTENDS SqsLongPoll, MC_SqsStore

CONSTANTS r1, r2

\* WaitTimeSeconds 0, or the queue's default.
MCDefaultWaits == {0, NoOverride}

PollSymmetry == Permutations(MsgId) \cup Permutations(Receiver)
=============================================================================
