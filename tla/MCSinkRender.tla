---------------------------- MODULE MCSinkRender ----------------------------
(* Small conversations of the owner's pings.                                 *)
EXTENDS SinkRender

CONSTANTS p1, p2, s1, s2

\* One session of a channel per user, or one for everybody.
PerUser == [p \in Pings |-> IF p = p1 THEN s1 ELSE s2]
Shared  == [p \in Pings |-> s1]
=============================================================================
