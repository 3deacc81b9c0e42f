----------------------------- MODULE MCHangman -----------------------------
(* Hangman with words that repeat letters, share letters, and are short    *)
(* enough to be won before the attempts are used up.                       *)
EXTENDS Hangman

MCLetters == {"a", "b", "c", "d", "e", "f"}
MCChars   == MCLetters \cup {"A", "7"}
MCToLower == [c \in MCChars |-> IF c = "A" THEN "a" ELSE c]
MCWords   == {<<"a", "b", "a">>, <<"b", "c">>, <<"d">>}
=============================================================================
