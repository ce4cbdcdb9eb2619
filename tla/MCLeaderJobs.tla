---------------------------- MODULE MCLeaderJobs ----------------------------
(* Small instances of LeaderJobs for TLC. *)
EXTENDS LeaderJobs, TLC

CONSTANTS p1, p2, i1, i2

MCProcs == {p1, p2}
MCLogs == {i1}
MCTwoLogs == {i1, i2}
=============================================================================
