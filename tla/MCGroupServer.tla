--------------------------- MODULE MCGroupServer ---------------------------
(* The group server with three clients and the one-letter-at-a-time words  *)
(* of a game that takes a few guesses.                                     *)
EXTENDS GroupServer

CONSTANTS c1, c2, c3

MCLetters == {"a", "b"}
MCChars   == {"a", "b"}
MCToLower == [c \in MCChars |-> c]
MCWords   == {<<"a">>, <<"b">>}

TwoConns   == {c1, c2}
ThreeConns == {c1, c2, c3}

\* The UIDs are model values of their own, so that the clients can be permuted.
MCMembers == [c \in Conns |-> [uid |-> c, nickname |-> "n"]]
MCUids    == Conns \cup {""}
MCNicks   == {"n", "new", ""}
Symmetry  == Permutations(Conns)

Nick     == [type |-> "LMP_NICK", text |-> "new"]
Load     == [type |-> "LMP_GRP_LOAD_MSG", text |-> ""]
Stickers == [type |-> "LMP_STICKERS", text |-> ""]
Msg(t)   == [type |-> "LMP_MSG", text |-> t]
Verb(v)  == [type |-> "LMP_GRP_HANGMAN", text |-> v]

MembershipCommands == {Nick}
ChatCommands == {Load, Stickers, Msg("hello")}
GameCommands == {Verb("start"), Verb("join"), Verb("exit"), Msg("a"), Msg("hello")}
=============================================================================
