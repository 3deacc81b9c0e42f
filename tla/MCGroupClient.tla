--------------------------- MODULE MCGroupClient ---------------------------
(* A client in a group with one other member, two nicknames each may take.  *)
EXTENDS GroupClient

OneOther == {"u1"}
MCNicks  == {"x", "y"}
MCFirst  == [uid \in Uids |-> "x"]
=============================================================================
