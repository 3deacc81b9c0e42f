----------------------------- MODULE MCP2PChat -----------------------------
(* Two peers, of whom one takes nicknames and both talk.                    *)
EXTENDS P2PChat

MCTexts == [p \in Peers |-> IF p = "a" THEN <<"hello", "again">> ELSE <<"hey">>]
MCTyped == [p \in Peers |-> IF p = "a" THEN {"msg", "nick", "leave"} ELSE {"msg", "leave"}]
=============================================================================
