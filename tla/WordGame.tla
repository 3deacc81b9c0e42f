------------------------------ MODULE WordGame ------------------------------
(***************************************************************************)
(* What the game of hangman.c promises its players, without masks, strings *)
(* or counters: a secret, the set of letters that were tried, and a        *)
(* verdict that depends on nothing else.  Hangman implements this module.  *)
(***************************************************************************)
EXTENDS Integers, FiniteSets, Sequences

CONSTANTS
  Alphabet,    \* the letters a player may try
  Secrets,     \* the words the game may be played with
  MaxMisses    \* how many wrong letters lose the game

VARIABLES
  phase,       \* "idle" before the first game, "open", then the verdict
  secret,      \* the word of the current or the last game
  tried        \* the letters tried in it

vars == <<phase, secret, tried>>

-----------------------------------------------------------------------------
LettersOf(word) == {word[i] : i \in DOMAIN word}

Init == phase = "idle" /\ secret = <<>> /\ tried = {}

\* A game is opened only when no other is.
Start ==
  /\ phase # "open"
  /\ phase' = "open"
  /\ secret' \in Secrets
  /\ tried' = {}

\* The verdict once the letters of "attempt" have been tried.
Verdict(attempt) ==
  IF LettersOf(secret) \subseteq attempt
  THEN "won"
  ELSE IF Cardinality(attempt \ LettersOf(secret)) >= MaxMisses
  THEN "lost"
  ELSE "open"

Try(letter) ==
  /\ phase = "open"
  /\ letter \notin tried
  /\ tried' = tried \cup {letter}
  /\ phase' = Verdict(tried')
  /\ UNCHANGED secret

Next == Start \/ \E letter \in Alphabet : Try(letter)

Spec == Init /\ [][Next]_vars
=============================================================================
