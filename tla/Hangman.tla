------------------------------ MODULE Hangman ------------------------------
(***************************************************************************)
(* The Hangman game kept by the group server (hangman.c, hangman.h).       *)
(*                                                                         *)
(* The game is one C structure, HANGMAN_FSM, changed by two entry points:  *)
(* process_hangman_state, called once per "/hangman start" and once per    *)
(* guess, and hangman_finish_broadcast, called when the answer to a guess  *)
(* has been sent to every player.  Both are operators on the structure     *)
(* here, so that GroupServer can call them from its handlers; the state    *)
(* machine below drives them in any order a caller may.                    *)
(*                                                                         *)
(* C strings are sequences of characters, without their terminator.  The   *)
(* text of the answers (ASCII art, wording) is left out: it is a function  *)
(* of the structure and decides nothing.                                   *)
(***************************************************************************)
EXTENDS Integers, Sequences, SequencesExt

CONSTANTS
  Letters,               \* the lower-case letters: what isalpha(tolower(c)) accepts
  Chars,                 \* the characters a guess may consist of
  ToLower,               \* tolower(), a function on Chars
  Words,                 \* the words of hangman_words.txt that fit hangman_word
  WordFileMayBeMissing,  \* whether fopen(HANGMAN_FILE) may fail
  HANGMAN_MAX_ATTEMPTS

HANGMAN_EMPTY_CHARACTER == "_"

ASSUME HangmanAssumption ==
  /\ HANGMAN_MAX_ATTEMPTS \in Nat \ {0}
  /\ Letters \subseteq Chars
  /\ ToLower \in [Chars -> Chars]
  /\ HANGMAN_EMPTY_CHARACTER \notin Letters
  /\ Words \subseteq Seq(Letters) \ {<<>>}
  /\ WordFileMayBeMissing \in BOOLEAN

VARIABLE hangman_fsm

-----------------------------------------------------------------------------
(* The structure and its initial value: a zeroed C global. *)

STATE_HANGMAN == {"HANGMAN_INITIAL", "HANGMAN_PLAYING", "HANGMAN_UPDATE"}

\* guessed_letters has room for HANGMAN_MAX_ATTEMPTS letters and a terminator.
GuessedLetters == {s \in Seq(Letters) : Len(s) <= HANGMAN_MAX_ATTEMPTS}

HANGMAN_FSM ==
  [state                     : STATE_HANGMAN,
   hangman_word              : Words \cup {<<>>},
   guessed_letters           : GuessedLetters,
   attempts_left             : 0 .. HANGMAN_MAX_ATTEMPTS,
   revealed_word             : Seq(Letters \cup {HANGMAN_EMPTY_CHARACTER}),
   hangman_round_initialized : BOOLEAN]

ZeroedFsm ==
  [state                     |-> "HANGMAN_INITIAL",
   hangman_word              |-> <<>>,
   guessed_letters           |-> <<>>,
   attempts_left             |-> 0,
   revealed_word             |-> <<>>,
   hangman_round_initialized |-> FALSE]

HangmanInit == hangman_fsm = ZeroedFsm

-----------------------------------------------------------------------------
(* update_hangman: one guess. *)

\* Mutant: the wrong letters of the last round are kept.
BeginRound_KeepsGuesses(fsm) ==
  IF fsm.hangman_round_initialized
  THEN fsm
  ELSE [fsm EXCEPT
          !.revealed_word = [i \in 1 .. Len(fsm.hangman_word) |-> HANGMAN_EMPTY_CHARACTER],
          !.attempts_left = HANGMAN_MAX_ATTEMPTS,
          !.hangman_round_initialized = TRUE]

\* Mutant: every guess starts the round over.
BeginRound_Always(fsm) ==
  [fsm EXCEPT
     !.revealed_word = [i \in 1 .. Len(fsm.hangman_word) |-> HANGMAN_EMPTY_CHARACTER],
     !.guessed_letters = <<>>,
     !.attempts_left = HANGMAN_MAX_ATTEMPTS,
     !.hangman_round_initialized = TRUE]

\* The first guess of a round masks the word and resets the counters.
BeginRound(fsm) ==
  IF fsm.hangman_round_initialized
  THEN fsm
  ELSE [fsm EXCEPT
          !.revealed_word = [i \in 1 .. Len(fsm.hangman_word) |-> HANGMAN_EMPTY_CHARACTER],
          !.guessed_letters = <<>>,
          !.attempts_left = HANGMAN_MAX_ATTEMPTS,
          !.hangman_round_initialized = TRUE]

\* The positions at which the word has the letter.
Occurrences(fsm, letter) ==
  {i \in DOMAIN fsm.hangman_word : fsm.hangman_word[i] = letter}

\* A letter of the word is revealed wherever it occurs, unless some
\* occurrence of it is shown already.
Hit(fsm, letter) ==
  IF \E i \in Occurrences(fsm, letter) : fsm.revealed_word[i] = letter
  THEN fsm
  ELSE [fsm EXCEPT !.revealed_word =
          [i \in DOMAIN @ |-> IF i \in Occurrences(fsm, letter) THEN letter ELSE @[i]]]

\* A wrong letter is remembered and costs an attempt, once.
Miss(fsm, letter) ==
  IF letter \in ToSet(fsm.guessed_letters)
  THEN fsm
  ELSE [fsm EXCEPT
          !.guessed_letters = IF Len(@) < HANGMAN_MAX_ATTEMPTS THEN Append(@, letter) ELSE @,
          !.attempts_left = IF @ > 0 THEN @ - 1 ELSE @]

\* Mutant: without the isalpha() test.
ApplyGuess_AnyCharacter(fsm, char) ==
  IF Occurrences(fsm, char) # {}
  THEN Hit(fsm, char)
  ELSE Miss(fsm, char)

ApplyGuess(fsm, char) ==
  IF char \notin Letters
  THEN fsm
  ELSE IF Occurrences(fsm, char) # {}
  THEN Hit(fsm, char)
  ELSE Miss(fsm, char)

\* Mutant: a lost round is noticed one wrong letter late.
Conclude_WinOnly(fsm) ==
  IF fsm.revealed_word = fsm.hangman_word
  THEN [fsm EXCEPT !.state = "HANGMAN_INITIAL", !.hangman_round_initialized = FALSE]
  ELSE fsm

\* A round ends when the word is revealed or no attempt is left.
Conclude(fsm) ==
  IF fsm.revealed_word = fsm.hangman_word \/ fsm.attempts_left <= 0
  THEN [fsm EXCEPT !.state = "HANGMAN_INITIAL", !.hangman_round_initialized = FALSE]
  ELSE fsm

UpdateHangman(fsm, input) ==
  IF fsm.hangman_word = <<>>
  THEN fsm
  ELSE Conclude(ApplyGuess(BeginRound(fsm), ToLower[input]))

-----------------------------------------------------------------------------
(* The two entry points.  process_hangman_state may draw a word, so it is  *)
(* the set of structures it can leave behind.                              *)

\* Any word of the file; the word is left alone when the file cannot be read.
SetRandomWord(fsm) ==
  {[fsm EXCEPT !.hangman_word = w] : w \in Words}
    \cup (IF WordFileMayBeMissing THEN {fsm} ELSE {})

ProcessHangmanState(fsm, input) ==
  CASE fsm.state = "HANGMAN_INITIAL" ->
         {[f EXCEPT !.state = "HANGMAN_PLAYING"] : f \in SetRandomWord(fsm)}
    [] fsm.state = "HANGMAN_PLAYING" ->
         {UpdateHangman([fsm EXCEPT !.state = "HANGMAN_UPDATE"], input)}
    [] fsm.state = "HANGMAN_UPDATE" ->
         {fsm}

\* The broadcast of an answer ends; a round that ended with it stays ended.
HangmanFinishBroadcast(fsm) ==
  IF fsm.state = "HANGMAN_UPDATE"
  THEN [fsm EXCEPT !.state = "HANGMAN_PLAYING"]
  ELSE fsm

-----------------------------------------------------------------------------
(* The game on its own, its entry points called in any order. *)

Process(input) == hangman_fsm' \in ProcessHangmanState(hangman_fsm, input)

Finish == hangman_fsm' = HangmanFinishBroadcast(hangman_fsm)

HangmanNext == (\E input \in Chars : Process(input)) \/ Finish

HangmanSpec == HangmanInit /\ [][HangmanNext]_hangman_fsm

-----------------------------------------------------------------------------
(* Properties. *)

\* The structure has its type: only letters are recorded as wrong guesses,
\* never more than the array of hangman.h holds, and the counter of attempts
\* stays within its range.
HangmanTypeOK == hangman_fsm \in HANGMAN_FSM

\* While a round is initialised, its parts tell one story: the mask has the
\* word's length and shows all occurrences of a letter or none, the wrong
\* letters are distinct and not in the word, and each has cost exactly one
\* attempt.
RoundConsistent(fsm) ==
  fsm.hangman_round_initialized =>
    /\ fsm.state # "HANGMAN_INITIAL"
    /\ fsm.hangman_word # <<>>
    /\ Len(fsm.revealed_word) = Len(fsm.hangman_word)
    /\ \A i \in DOMAIN fsm.hangman_word :
         fsm.revealed_word[i] \in {fsm.hangman_word[i], HANGMAN_EMPTY_CHARACTER}
    /\ \A i, j \in DOMAIN fsm.hangman_word :
         fsm.hangman_word[i] = fsm.hangman_word[j] =>
           fsm.revealed_word[i] = fsm.revealed_word[j]
    /\ \A i, j \in DOMAIN fsm.guessed_letters :
         fsm.guessed_letters[i] = fsm.guessed_letters[j] => i = j
    /\ ToSet(fsm.guessed_letters) \cap ToSet(fsm.hangman_word) = {}
    /\ Len(fsm.guessed_letters) + fsm.attempts_left = HANGMAN_MAX_ATTEMPTS

RoundsConsistent == RoundConsistent(hangman_fsm)

\* Between two calls no decided round is left open: an initialised round has
\* a hidden letter and an attempt left.
OpenRoundUndecided(fsm) ==
  fsm.hangman_round_initialized =>
    /\ fsm.revealed_word # fsm.hangman_word
    /\ fsm.attempts_left > 0

OpenRoundsUndecided == OpenRoundUndecided(hangman_fsm)

\* A call never undoes what the players achieved or suffered in a round that
\* is under way: the word stays, shown letters stay shown, wrong letters and
\* spent attempts are kept, and at most one attempt is spent.
RoundProgress(old, new) ==
  old.hangman_round_initialized =>
    /\ new.hangman_word = old.hangman_word
    /\ \A i \in DOMAIN old.revealed_word :
         old.revealed_word[i] # HANGMAN_EMPTY_CHARACTER =>
           new.revealed_word[i] = old.revealed_word[i]
    /\ ToSet(old.guessed_letters) \subseteq ToSet(new.guessed_letters)
    /\ new.attempts_left \in {old.attempts_left, old.attempts_left - 1}

GuessesNeverUndone == [][RoundProgress(hangman_fsm, hangman_fsm')]_hangman_fsm

\* A game that was started has a word to guess: "Sets a random word into
\* hangman_word", says the comment of set_random_word (hangman.c:269).  False
\* when the word file cannot be opened: the game is started all the same, no
\* guess changes anything, and no other game can be started.
OpenGameHasWord ==
  hangman_fsm.state # "HANGMAN_INITIAL" => hangman_fsm.hangman_word # <<>>

-----------------------------------------------------------------------------
(* Refinement: the structure read as the abstract game. *)

RevealedLetters(fsm) == ToSet(fsm.revealed_word) \ {HANGMAN_EMPTY_CHARACTER}

GamePhase(fsm) ==
  IF fsm.state # "HANGMAN_INITIAL"
  THEN "open"
  ELSE IF fsm.hangman_word = <<>>
  THEN "idle"
  ELSE IF fsm.revealed_word = fsm.hangman_word
  THEN "won"
  ELSE "lost"

\* Until the first guess the mask and the wrong letters of the last round
\* are still in the structure; they do not count.
TriedLetters(fsm) ==
  IF fsm.state # "HANGMAN_INITIAL" /\ ~fsm.hangman_round_initialized
  THEN {}
  ELSE RevealedLetters(fsm) \cup ToSet(fsm.guessed_letters)

Game == INSTANCE WordGame WITH
  Alphabet  <- Letters,
  Secrets   <- Words,
  MaxMisses <- HANGMAN_MAX_ATTEMPTS,
  phase     <- GamePhase(hangman_fsm),
  secret    <- hangman_fsm.hangman_word,
  tried     <- TriedLetters(hangman_fsm)

\* The game is won or lost by the set of letters tried and by nothing else:
\* order, repetition, case and characters that are not letters do not matter.
ImplementsWordGame == Game!Spec
=============================================================================
