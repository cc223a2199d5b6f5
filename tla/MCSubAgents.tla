---------------------------- MODULE MCSubAgents ----------------------------
(* Small instances of SubAgents for TLC. *)
EXTENDS SubAgents, TLC

CONSTANTS p1, p2, p3, p4, b1, b2

\* A batch of calls, and one call of another session.
MCBatchOf == [p \in Calls |-> IF p = p4 THEN b2 ELSE b1]
=============================================================================
