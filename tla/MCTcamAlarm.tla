---------------------------- MODULE MCTcamAlarm ----------------------------
(* Small instances of TcamAlarm for TLC. *)
EXTENDS TcamAlarm

MCIntervals == {1, 2, 3}
MCLimits == {[max |-> 0, min |-> 2], [max |-> 1, min |-> 1]}
MCAgentCount == {0, 1, 2}
MCFreeCount == {0, 1, 2}
=============================================================================
