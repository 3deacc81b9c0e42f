--------------------------- MODULE MCP2PDiscovery ---------------------------
(* Three hosts, so that two that wait may answer the same broadcast; one of *)
(* them may start again, and datagrams to it may be lost.  The queues of p1 *)
(* and p3 hold one connection, so that the second caller finds them full;   *)
(* that of p2 holds both.                                                   *)
EXTENDS P2PDiscovery

CONSTANTS p1, p2, p3

MCPeers  == {p1, p2, p3}
MCRemote == {p3}
MCStarts == [p \in Peers |-> IF p = p3 THEN 2 ELSE 1]
MCQueues == [p \in Peers |-> IF p = p2 THEN 2 ELSE 1]
=============================================================================
