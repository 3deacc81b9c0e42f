--------------------------- MODULE HangmanProofs ---------------------------
(***************************************************************************)
(* Proofs about the game of hangman.c, for every alphabet, word list and   *)
(* number of attempts, and whether or not the word file can be read.       *)
(*                                                                         *)
(* The lemmas follow the structure of update_hangman: what the round's     *)
(* initialisation, the guess and the verdict each preserve.  They are      *)
(* stated about the structure, not about the variable, so that the proofs  *)
(* of GroupServer can use them for the calls its handlers make.            *)
(***************************************************************************)
EXTENDS Hangman, FiniteSetTheorems, TLAPS

\* The structure is well-formed and no decided round is left open.
FsmOK(fsm) ==
  /\ fsm \in HANGMAN_FSM
  /\ RoundConsistent(fsm)
  /\ OpenRoundUndecided(fsm)

HangmanInv == FsmOK(hangman_fsm)

\* What holds of the structure between BeginRound and Conclude.
InRound(fsm) ==
  /\ fsm \in HANGMAN_FSM
  /\ RoundConsistent(fsm)
  /\ fsm.hangman_round_initialized
  /\ fsm.state = "HANGMAN_UPDATE"

-----------------------------------------------------------------------------
\* The zeroed global is well-formed.
LEMMA ZeroedFsmOK == FsmOK(ZeroedFsm)
<1>1. <<>> \in Seq(Letters) /\ <<>> \in Seq(Letters \cup {HANGMAN_EMPTY_CHARACTER})
  OBVIOUS
<1>2. ZeroedFsm \in HANGMAN_FSM
  BY <1>1, HangmanAssumption DEF ZeroedFsm, HANGMAN_FSM, STATE_HANGMAN, GuessedLetters
<1> QED
  BY <1>2 DEF FsmOK, ZeroedFsm, RoundConsistent, OpenRoundUndecided

\* A letter of a word is not the mask character.
LEMMA WordLetters ==
  ASSUME NEW fsm \in HANGMAN_FSM, NEW i \in DOMAIN fsm.hangman_word
  PROVE  /\ fsm.hangman_word[i] \in Letters
         /\ fsm.hangman_word[i] # HANGMAN_EMPTY_CHARACTER
<1>1. fsm.hangman_word \in Seq(Letters)
  BY HangmanAssumption DEF HANGMAN_FSM
<1> QED
  BY <1>1, HangmanAssumption

\* Starting a round, or finding it started, leaves a consistent, undecided
\* round of the same word.
LEMMA BeginRoundOK ==
  ASSUME NEW fsm \in HANGMAN_FSM, RoundConsistent(fsm), OpenRoundUndecided(fsm),
         fsm.state = "HANGMAN_UPDATE", fsm.hangman_word # <<>>
  PROVE  /\ InRound(BeginRound(fsm))
         /\ OpenRoundUndecided(BeginRound(fsm))
         /\ BeginRound(fsm).hangman_word = fsm.hangman_word
<1>1. CASE fsm.hangman_round_initialized
  BY <1>1 DEF BeginRound, InRound
<1>2. CASE ~fsm.hangman_round_initialized
  <2> DEFINE mask == [i \in 1 .. Len(fsm.hangman_word) |-> HANGMAN_EMPTY_CHARACTER]
             new  == [fsm EXCEPT !.revealed_word = mask,
                                 !.guessed_letters = <<>>,
                                 !.attempts_left = HANGMAN_MAX_ATTEMPTS,
                                 !.hangman_round_initialized = TRUE]
  <2>1. BeginRound(fsm) = new
    BY <1>2 DEF BeginRound
  <2>2. fsm.hangman_word \in Seq(Letters)
    BY HangmanAssumption DEF HANGMAN_FSM
  <2>3. /\ mask \in Seq(Letters \cup {HANGMAN_EMPTY_CHARACTER})
        /\ Len(mask) = Len(fsm.hangman_word)
    BY <2>2
  <2>4. /\ new.revealed_word = mask
        /\ new.guessed_letters = <<>>
        /\ new.attempts_left = HANGMAN_MAX_ATTEMPTS
        /\ new.hangman_round_initialized = TRUE
        /\ new.hangman_word = fsm.hangman_word
        /\ new.state = "HANGMAN_UPDATE"
    BY DEF HANGMAN_FSM
  <2>5. <<>> \in GuessedLetters /\ HANGMAN_MAX_ATTEMPTS \in 0 .. HANGMAN_MAX_ATTEMPTS
    BY HangmanAssumption DEF GuessedLetters
  <2>6. new \in HANGMAN_FSM
    <3> HIDE DEF mask
    <3> QED
      BY <2>3, <2>5 DEF HANGMAN_FSM
  <2>7. RoundConsistent(new)
    <3>1. \A i \in DOMAIN new.hangman_word : new.revealed_word[i] = HANGMAN_EMPTY_CHARACTER
      BY <2>2, <2>4
    <3>2. ToSet(new.guessed_letters) = {}
      BY <2>4 DEF ToSet
    <3>3. Len(new.guessed_letters) + new.attempts_left = HANGMAN_MAX_ATTEMPTS
      BY <2>4, HangmanAssumption
    <3> HIDE DEF new, mask
    <3> QED
      BY <2>3, <2>4, <3>1, <3>2, <3>3 DEF RoundConsistent
  <2>8. OpenRoundUndecided(new)
    <3>1. 1 \in DOMAIN fsm.hangman_word
      BY <2>2
    <3>2. new.revealed_word[1] # new.hangman_word[1]
      BY <2>2, <2>4, <3>1, WordLetters
    <3> QED
      BY <2>4, <3>2, HangmanAssumption DEF OpenRoundUndecided
  <2> HIDE DEF new
  <2> QED
    BY <2>1, <2>4, <2>6, <2>7, <2>8 DEF InRound
<1> QED
  BY <1>1, <1>2 DEF HANGMAN_FSM

\* A revealed letter leaves the round consistent.
LEMMA HitOK ==
  ASSUME NEW fsm, InRound(fsm), NEW letter \in Letters, Occurrences(fsm, letter) # {}
  PROVE  /\ InRound(Hit(fsm, letter))
         /\ Hit(fsm, letter).hangman_word = fsm.hangman_word
<1> DEFINE shown == \E i \in Occurrences(fsm, letter) : fsm.revealed_word[i] = letter
           mask  == [i \in DOMAIN fsm.revealed_word |->
                       IF i \in Occurrences(fsm, letter) THEN letter ELSE fsm.revealed_word[i]]
           new   == [fsm EXCEPT !.revealed_word = mask]
<1>1. fsm \in HANGMAN_FSM /\ RoundConsistent(fsm)
  BY DEF InRound
<1>2. CASE shown
  BY <1>2 DEF Hit
<1>3. CASE ~shown
  <2>1. Hit(fsm, letter) = new
    BY <1>3 DEF Hit
  <2>2. /\ fsm.hangman_word \in Seq(Letters)
        /\ fsm.revealed_word \in Seq(Letters \cup {HANGMAN_EMPTY_CHARACTER})
        /\ Len(fsm.revealed_word) = Len(fsm.hangman_word)
    BY <1>1, HangmanAssumption DEF HANGMAN_FSM, RoundConsistent, InRound
  <2>3. /\ mask \in Seq(Letters \cup {HANGMAN_EMPTY_CHARACTER})
        /\ Len(mask) = Len(fsm.hangman_word)
    BY <2>2
  <2>4. /\ new.revealed_word = mask
        /\ new.guessed_letters = fsm.guessed_letters
        /\ new.attempts_left = fsm.attempts_left
        /\ new.hangman_round_initialized = fsm.hangman_round_initialized
        /\ new.hangman_word = fsm.hangman_word
        /\ new.state = fsm.state
    BY <1>1 DEF HANGMAN_FSM
  <2>5. new \in HANGMAN_FSM
    <3> HIDE DEF mask
    <3> QED
      BY <1>1, <2>3 DEF HANGMAN_FSM
  <2>6. \A i \in DOMAIN fsm.hangman_word :
          mask[i] = IF fsm.hangman_word[i] = letter THEN letter ELSE fsm.revealed_word[i]
    BY <2>2 DEF Occurrences
  <2>7. RoundConsistent(new)
    <3> HIDE DEF mask, new
    <3>1. \A i \in DOMAIN fsm.hangman_word :
            mask[i] \in {fsm.hangman_word[i], HANGMAN_EMPTY_CHARACTER}
      BY <1>1, <2>6 DEF RoundConsistent, InRound
    <3>2. \A i, j \in DOMAIN fsm.hangman_word :
            fsm.hangman_word[i] = fsm.hangman_word[j] => mask[i] = mask[j]
      BY <1>1, <2>6 DEF RoundConsistent, InRound
    <3> QED
      BY <1>1, <2>3, <2>4, <3>1, <3>2 DEF RoundConsistent
  <2> HIDE DEF new
  <2> QED
    BY <2>1, <2>4, <2>5, <2>7 DEF InRound
<1> QED
  BY <1>2, <1>3

\* A wrong letter is paid for with exactly one attempt, once.
LEMMA MissOK ==
  ASSUME NEW fsm, InRound(fsm), OpenRoundUndecided(fsm),
         NEW letter \in Letters, Occurrences(fsm, letter) = {}
  PROVE  /\ InRound(Miss(fsm, letter))
         /\ Miss(fsm, letter).hangman_word = fsm.hangman_word
         /\ Miss(fsm, letter).revealed_word = fsm.revealed_word
         /\ letter \notin ToSet(fsm.guessed_letters) =>
              /\ Miss(fsm, letter).guessed_letters = Append(fsm.guessed_letters, letter)
              /\ Miss(fsm, letter).attempts_left = fsm.attempts_left - 1
<1> DEFINE old == letter \in ToSet(fsm.guessed_letters)
           guesses == Append(fsm.guessed_letters, letter)
           new == [fsm EXCEPT !.guessed_letters = guesses,
                              !.attempts_left = fsm.attempts_left - 1]
<1>1. fsm \in HANGMAN_FSM /\ RoundConsistent(fsm) /\ fsm.hangman_round_initialized
  BY DEF InRound
<1>2. CASE old
  BY <1>2 DEF Miss
<1>3. CASE ~old
  <2>1. /\ fsm.guessed_letters \in Seq(Letters)
        /\ Len(fsm.guessed_letters) \in Nat
        /\ fsm.attempts_left \in 1 .. HANGMAN_MAX_ATTEMPTS
        /\ Len(fsm.guessed_letters) + fsm.attempts_left = HANGMAN_MAX_ATTEMPTS
    BY <1>1, HangmanAssumption
    DEF HANGMAN_FSM, GuessedLetters, RoundConsistent, OpenRoundUndecided
  <2>2. Miss(fsm, letter) = new
    <3>1. Len(fsm.guessed_letters) < HANGMAN_MAX_ATTEMPTS /\ fsm.attempts_left > 0
      BY <2>1, HangmanAssumption
    <3> QED
      BY <1>1, <1>3, <3>1 DEF Miss, HANGMAN_FSM
  <2>3. /\ guesses \in GuessedLetters
        /\ Len(guesses) = Len(fsm.guessed_letters) + 1
        /\ \A i \in DOMAIN fsm.guessed_letters : guesses[i] = fsm.guessed_letters[i]
        /\ guesses[Len(guesses)] = letter
        /\ DOMAIN guesses = DOMAIN fsm.guessed_letters \cup {Len(guesses)}
        /\ Len(guesses) \notin DOMAIN fsm.guessed_letters
    BY <2>1, HangmanAssumption DEF GuessedLetters
  <2>4. /\ new.guessed_letters = guesses
        /\ new.attempts_left = fsm.attempts_left - 1
        /\ new.revealed_word = fsm.revealed_word
        /\ new.hangman_round_initialized = fsm.hangman_round_initialized
        /\ new.hangman_word = fsm.hangman_word
        /\ new.state = fsm.state
    BY <1>1 DEF HANGMAN_FSM
  <2> HIDE DEF guesses
  <2>5. new \in HANGMAN_FSM
    <3>1. fsm.attempts_left - 1 \in 0 .. HANGMAN_MAX_ATTEMPTS
      BY <2>1, HangmanAssumption
    <3> QED
      BY <1>1, <2>3, <3>1 DEF HANGMAN_FSM
  <2> HIDE DEF new
  <2>6. \A i, j \in DOMAIN guesses : guesses[i] = guesses[j] => i = j
    <3>1. \A i \in DOMAIN fsm.guessed_letters : fsm.guessed_letters[i] # letter
      BY <1>3 DEF ToSet
    <3>2. \A i, j \in DOMAIN fsm.guessed_letters :
            fsm.guessed_letters[i] = fsm.guessed_letters[j] => i = j
      BY <1>1 DEF RoundConsistent
    <3> QED
      BY <2>3, <3>1, <3>2
  <2>7. ToSet(guesses) \cap ToSet(fsm.hangman_word) = {}
    <3>1. ToSet(guesses) = ToSet(fsm.guessed_letters) \cup {letter}
      BY <2>3 DEF ToSet
    <3>2. letter \notin ToSet(fsm.hangman_word)
      BY DEF ToSet, Occurrences
    <3>3. ToSet(fsm.guessed_letters) \cap ToSet(fsm.hangman_word) = {}
      BY <1>1 DEF RoundConsistent
    <3> QED
      BY <3>1, <3>2, <3>3
  <2>8. Len(guesses) + new.attempts_left = HANGMAN_MAX_ATTEMPTS
    BY <2>1, <2>3, <2>4, HangmanAssumption
  <2>9. RoundConsistent(new)
    BY <1>1, <2>4, <2>6, <2>7, <2>8 DEF RoundConsistent
  <2> QED
    BY <2>2, <2>4, <2>5, <2>9 DEF InRound, guesses
<1> QED
  BY <1>2, <1>3

\* A guess leaves a consistent round of the same word.
LEMMA ApplyGuessOK ==
  ASSUME NEW fsm, InRound(fsm), OpenRoundUndecided(fsm), NEW char
  PROVE  /\ InRound(ApplyGuess(fsm, char))
         /\ ApplyGuess(fsm, char).hangman_word = fsm.hangman_word
<1>1. CASE char \notin Letters
  BY <1>1 DEF ApplyGuess
<1>2. CASE char \in Letters /\ Occurrences(fsm, char) # {}
  BY <1>2, HitOK DEF ApplyGuess
<1>3. CASE char \in Letters /\ Occurrences(fsm, char) = {}
  BY <1>3, MissOK DEF ApplyGuess
<1> QED
  BY <1>1, <1>2, <1>3

\* The verdict leaves no decided round open.
LEMMA ConcludeOK ==
  ASSUME NEW fsm, InRound(fsm)
  PROVE  /\ FsmOK(Conclude(fsm))
         /\ Conclude(fsm).hangman_word = fsm.hangman_word
<1> DEFINE over == fsm.revealed_word = fsm.hangman_word \/ fsm.attempts_left <= 0
           new  == [fsm EXCEPT !.state = "HANGMAN_INITIAL",
                               !.hangman_round_initialized = FALSE]
<1>1. fsm \in HANGMAN_FSM
  BY DEF InRound
<1>2. CASE over
  <2>1. Conclude(fsm) = new
    BY <1>2 DEF Conclude
  <2>2. new \in HANGMAN_FSM /\ ~new.hangman_round_initialized
    BY <1>1 DEF HANGMAN_FSM, STATE_HANGMAN
  <2>3. new.hangman_word = fsm.hangman_word
    BY <1>1 DEF HANGMAN_FSM
  <2> QED
    BY <2>1, <2>2, <2>3 DEF FsmOK, RoundConsistent, OpenRoundUndecided
<1>3. CASE ~over
  <2>1. fsm.attempts_left > 0
    BY <1>1, <1>3, HangmanAssumption DEF HANGMAN_FSM
  <2> QED
    BY <1>3, <2>1 DEF Conclude, InRound, FsmOK, OpenRoundUndecided
<1> QED
  BY <1>2, <1>3

\* One guess, from the mask to the verdict.
LEMMA UpdateHangmanOK ==
  ASSUME NEW fsm \in HANGMAN_FSM, RoundConsistent(fsm), OpenRoundUndecided(fsm),
         fsm.state = "HANGMAN_UPDATE", NEW input
  PROVE  /\ FsmOK(UpdateHangman(fsm, input))
         /\ UpdateHangman(fsm, input).hangman_word = fsm.hangman_word
<1>1. CASE fsm.hangman_word = <<>>
  BY <1>1 DEF UpdateHangman, FsmOK
<1>2. CASE fsm.hangman_word # <<>>
  <2> DEFINE begun == BeginRound(fsm)
             guess == ApplyGuess(begun, ToLower[input])
  <2>1. InRound(begun) /\ OpenRoundUndecided(begun) /\ begun.hangman_word = fsm.hangman_word
    BY <1>2, BeginRoundOK
  <2>2. InRound(guess) /\ guess.hangman_word = fsm.hangman_word
    BY <2>1, ApplyGuessOK
  <2>3. FsmOK(Conclude(guess)) /\ Conclude(guess).hangman_word = fsm.hangman_word
    BY <2>2, ConcludeOK
  <2> QED
    BY <1>2, <2>3 DEF UpdateHangman
<1> QED
  BY <1>1, <1>2

\* Entering the update state keeps a well-formed structure so.
LEMMA EnterUpdate ==
  ASSUME NEW fsm, FsmOK(fsm), fsm.state = "HANGMAN_PLAYING",
         NEW new, new = [fsm EXCEPT !.state = "HANGMAN_UPDATE"]
  PROVE  /\ FsmOK(new)
         /\ new.state = "HANGMAN_UPDATE"
         /\ new.hangman_word = fsm.hangman_word
         /\ new.guessed_letters = fsm.guessed_letters
         /\ new.attempts_left = fsm.attempts_left
         /\ new.revealed_word = fsm.revealed_word
         /\ new.hangman_round_initialized = fsm.hangman_round_initialized
<1>1. fsm \in HANGMAN_FSM
  BY DEF FsmOK
<1>2. new \in HANGMAN_FSM
  BY <1>1 DEF HANGMAN_FSM, STATE_HANGMAN
<1>3. /\ new.state = "HANGMAN_UPDATE"
      /\ new.hangman_word = fsm.hangman_word
      /\ new.guessed_letters = fsm.guessed_letters
      /\ new.attempts_left = fsm.attempts_left
      /\ new.revealed_word = fsm.revealed_word
      /\ new.hangman_round_initialized = fsm.hangman_round_initialized
  BY <1>1 DEF HANGMAN_FSM
<1> QED
  BY <1>2, <1>3 DEF FsmOK, RoundConsistent, OpenRoundUndecided

\* Every outcome of process_hangman_state is well-formed.
LEMMA ProcessOK ==
  ASSUME NEW fsm, FsmOK(fsm), NEW input,
         NEW new \in ProcessHangmanState(fsm, input)
  PROVE  FsmOK(new)
<1>1. fsm \in HANGMAN_FSM /\ RoundConsistent(fsm) /\ OpenRoundUndecided(fsm)
  BY DEF FsmOK
<1>2. fsm.state \in STATE_HANGMAN
  BY <1>1 DEF HANGMAN_FSM
<1>3. CASE fsm.state = "HANGMAN_INITIAL"
  <2>1. PICK drawn \in SetRandomWord(fsm) : new = [drawn EXCEPT !.state = "HANGMAN_PLAYING"]
    BY <1>3 DEF ProcessHangmanState
  <2>2. drawn \in HANGMAN_FSM /\ ~drawn.hangman_round_initialized
    BY <1>1, <1>3 DEF SetRandomWord, HANGMAN_FSM, RoundConsistent
  <2>3. new \in HANGMAN_FSM /\ ~new.hangman_round_initialized
    BY <2>1, <2>2 DEF HANGMAN_FSM, STATE_HANGMAN
  <2> QED
    BY <2>3 DEF FsmOK, RoundConsistent, OpenRoundUndecided
<1>4. CASE fsm.state = "HANGMAN_PLAYING"
  <2> DEFINE entered == [fsm EXCEPT !.state = "HANGMAN_UPDATE"]
  <2>1. FsmOK(entered) /\ entered.state = "HANGMAN_UPDATE"
    BY <1>4, EnterUpdate
  <2>2. new = UpdateHangman(entered, input)
    BY <1>4 DEF ProcessHangmanState
  <2> HIDE DEF entered
  <2> QED
    BY <2>1, <2>2, UpdateHangmanOK DEF FsmOK
<1>5. CASE fsm.state = "HANGMAN_UPDATE"
  BY <1>5 DEF ProcessHangmanState
<1> QED
  BY <1>2, <1>3, <1>4, <1>5 DEF STATE_HANGMAN

\* The end of a broadcast keeps the structure well-formed.
LEMMA FinishOK ==
  ASSUME NEW fsm, FsmOK(fsm)
  PROVE  FsmOK(HangmanFinishBroadcast(fsm))
<1> DEFINE new == [fsm EXCEPT !.state = "HANGMAN_PLAYING"]
<1>1. fsm \in HANGMAN_FSM
  BY DEF FsmOK
<1>2. CASE fsm.state = "HANGMAN_UPDATE"
  <2>1. HangmanFinishBroadcast(fsm) = new
    BY <1>2 DEF HangmanFinishBroadcast
  <2>2. new \in HANGMAN_FSM
    BY <1>1 DEF HANGMAN_FSM, STATE_HANGMAN
  <2>3. /\ new.state = "HANGMAN_PLAYING"
        /\ new.hangman_word = fsm.hangman_word
        /\ new.guessed_letters = fsm.guessed_letters
        /\ new.attempts_left = fsm.attempts_left
        /\ new.revealed_word = fsm.revealed_word
        /\ new.hangman_round_initialized = fsm.hangman_round_initialized
    BY <1>1 DEF HANGMAN_FSM
  <2> HIDE DEF new
  <2>4. RoundConsistent(new) /\ OpenRoundUndecided(new)
    BY <2>3 DEF FsmOK, RoundConsistent, OpenRoundUndecided
  <2> QED
    BY <2>1, <2>2, <2>4 DEF FsmOK
<1>3. CASE fsm.state # "HANGMAN_UPDATE"
  BY <1>3 DEF HangmanFinishBroadcast
<1> QED
  BY <1>2, <1>3

-----------------------------------------------------------------------------
\* The structure is well-formed in every reachable state: its type, the
\* consistency of a round and the absence of decided open rounds form one
\* inductive invariant.
THEOREM FsmInvariant == HangmanSpec => []HangmanInv
<1>1. HangmanInit => HangmanInv
  BY ZeroedFsmOK DEF HangmanInit, HangmanInv
<1>2. HangmanInv /\ [HangmanNext]_hangman_fsm => HangmanInv'
  <2> SUFFICES ASSUME FsmOK(hangman_fsm), [HangmanNext]_hangman_fsm
               PROVE  FsmOK(hangman_fsm')
    BY DEF HangmanInv
  <2>1. CASE \E input \in Chars : Process(input)
    BY <2>1, ProcessOK DEF Process
  <2>2. CASE Finish
    BY <2>2, FinishOK DEF Finish
  <2>3. CASE UNCHANGED hangman_fsm
    BY <2>3
  <2> QED
    BY <2>1, <2>2, <2>3 DEF HangmanNext
<1> QED
  BY <1>1, <1>2, PTL DEF HangmanSpec

\* Type correctness of the structure.
THEOREM HangmanTypeCorrect == HangmanSpec => []HangmanTypeOK
<1>1. HangmanInv => HangmanTypeOK
  BY DEF HangmanInv, FsmOK, HangmanTypeOK
<1> QED
  BY <1>1, FsmInvariant, PTL

\* Mask, wrong letters and attempts of a round always tell one story.
THEOREM RoundsAlwaysConsistent == HangmanSpec => []RoundsConsistent
<1>1. HangmanInv => RoundsConsistent
  BY DEF HangmanInv, FsmOK, RoundsConsistent
<1> QED
  BY <1>1, FsmInvariant, PTL

\* No call returns with a decided round left open.
THEOREM NoDecidedRoundOpen == HangmanSpec => []OpenRoundsUndecided
<1>1. HangmanInv => OpenRoundsUndecided
  BY DEF HangmanInv, FsmOK, OpenRoundsUndecided
<1> QED
  BY <1>1, FsmInvariant, PTL

-----------------------------------------------------------------------------
\* What a guess does to the open round "begun": nothing, or exactly one new
\* letter is revealed or missed.
LEMMA GuessEffect ==
  ASSUME NEW fsm, InRound(fsm), OpenRoundUndecided(fsm), NEW char,
         NEW new, new = ApplyGuess(fsm, char)
  PROVE  \/ new = fsm
         \/ /\ char \in Letters
            /\ char \notin RevealedLetters(fsm) \cup ToSet(fsm.guessed_letters)
            /\ \/ /\ RevealedLetters(new) = RevealedLetters(fsm) \cup {char}
                  /\ new.guessed_letters = fsm.guessed_letters
                  /\ new.attempts_left = fsm.attempts_left
                  /\ \A i \in DOMAIN fsm.revealed_word :
                       fsm.revealed_word[i] # HANGMAN_EMPTY_CHARACTER =>
                         new.revealed_word[i] = fsm.revealed_word[i]
               \/ /\ new.revealed_word = fsm.revealed_word
                  /\ new.attempts_left = fsm.attempts_left - 1
                  /\ ToSet(new.guessed_letters) = ToSet(fsm.guessed_letters) \cup {char}
<1>1. fsm \in HANGMAN_FSM /\ RoundConsistent(fsm) /\ fsm.hangman_round_initialized
  BY DEF InRound
<1>2. /\ fsm.hangman_word \in Seq(Letters)
      /\ fsm.revealed_word \in Seq(Letters \cup {HANGMAN_EMPTY_CHARACTER})
      /\ fsm.guessed_letters \in Seq(Letters)
      /\ DOMAIN fsm.revealed_word = DOMAIN fsm.hangman_word
  BY <1>1, HangmanAssumption DEF HANGMAN_FSM, GuessedLetters, RoundConsistent
<1>3. CASE char \notin Letters
  BY <1>3 DEF ApplyGuess
<1>4. CASE char \in Letters /\ Occurrences(fsm, char) # {}
  <2>1. new = Hit(fsm, char)
    BY <1>4 DEF ApplyGuess
  <2>2. CASE \E i \in Occurrences(fsm, char) : fsm.revealed_word[i] = char
    BY <2>1, <2>2 DEF Hit
  <2>3. CASE ~\E i \in Occurrences(fsm, char) : fsm.revealed_word[i] = char
    <3> DEFINE mask == [i \in DOMAIN fsm.revealed_word |->
                          IF i \in Occurrences(fsm, char) THEN char ELSE fsm.revealed_word[i]]
    <3>1. new = [fsm EXCEPT !.revealed_word = mask]
      BY <2>1, <2>3 DEF Hit
    <3>2. /\ new.revealed_word = mask
          /\ new.guessed_letters = fsm.guessed_letters
          /\ new.attempts_left = fsm.attempts_left
      BY <1>1, <3>1 DEF HANGMAN_FSM
    <3>3. PICK i \in DOMAIN fsm.hangman_word : fsm.hangman_word[i] = char
      BY <1>4 DEF Occurrences
    <3>4. \A k \in DOMAIN fsm.revealed_word :
            /\ fsm.revealed_word[k] \in {fsm.hangman_word[k], HANGMAN_EMPTY_CHARACTER}
            /\ k \in Occurrences(fsm, char) => fsm.revealed_word[k] = HANGMAN_EMPTY_CHARACTER
            /\ k \notin Occurrences(fsm, char) => fsm.hangman_word[k] # char
      BY <1>1, <1>2, <2>3 DEF RoundConsistent, Occurrences
    <3>5. char \notin RevealedLetters(fsm)
      BY <1>4, <3>4, HangmanAssumption DEF RevealedLetters, ToSet
    <3>6. char \notin ToSet(fsm.guessed_letters)
      <4>1. char \in ToSet(fsm.hangman_word)
        BY <3>3 DEF ToSet
      <4> QED
        BY <1>1, <4>1 DEF RoundConsistent
    <3>7. /\ DOMAIN mask = DOMAIN fsm.revealed_word
          /\ \A k \in DOMAIN mask : k \in Occurrences(fsm, char) => mask[k] = char
          /\ \A k \in DOMAIN mask : k \notin Occurrences(fsm, char) => mask[k] = fsm.revealed_word[k]
          /\ i \in DOMAIN mask /\ i \in Occurrences(fsm, char)
      BY <1>2, <3>3 DEF Occurrences
    <3> HIDE DEF mask
    <3>8. ToSet(mask) \ {HANGMAN_EMPTY_CHARACTER}
            = (ToSet(fsm.revealed_word) \ {HANGMAN_EMPTY_CHARACTER}) \cup {char}
      <4>1. char \in ToSet(mask) /\ char # HANGMAN_EMPTY_CHARACTER
        BY <1>4, <3>7, HangmanAssumption DEF ToSet
      <4>2. ASSUME NEW x \in ToSet(mask) \ {HANGMAN_EMPTY_CHARACTER}
            PROVE  x \in (ToSet(fsm.revealed_word) \ {HANGMAN_EMPTY_CHARACTER}) \cup {char}
        BY <3>7 DEF ToSet
      <4>3. ASSUME NEW x \in ToSet(fsm.revealed_word) \ {HANGMAN_EMPTY_CHARACTER}
            PROVE  x \in ToSet(mask)
        BY <3>4, <3>7 DEF ToSet
      <4> QED
        BY <4>1, <4>2, <4>3
    <3>9. \A k \in DOMAIN fsm.revealed_word :
            fsm.revealed_word[k] # HANGMAN_EMPTY_CHARACTER => mask[k] = fsm.revealed_word[k]
      BY <3>4, <3>7
    <3> QED
      BY <1>4, <3>2, <3>5, <3>6, <3>8, <3>9 DEF RevealedLetters
  <2> QED
    BY <2>2, <2>3
<1>5. CASE char \in Letters /\ Occurrences(fsm, char) = {}
  <2>1. new = Miss(fsm, char)
    BY <1>5 DEF ApplyGuess
  <2>2. CASE char \in ToSet(fsm.guessed_letters)
    BY <2>1, <2>2 DEF Miss
  <2>3. CASE char \notin ToSet(fsm.guessed_letters)
    <3>1. /\ new.revealed_word = fsm.revealed_word
          /\ new.guessed_letters = Append(fsm.guessed_letters, char)
          /\ new.attempts_left = fsm.attempts_left - 1
      BY <1>5, <2>1, <2>3, MissOK
    <3>2. ToSet(new.guessed_letters) = ToSet(fsm.guessed_letters) \cup {char}
      <4> DEFINE guesses == Append(fsm.guessed_letters, char)
      <4>1. /\ DOMAIN guesses = DOMAIN fsm.guessed_letters \cup {Len(guesses)}
            /\ \A k \in DOMAIN fsm.guessed_letters : guesses[k] = fsm.guessed_letters[k]
            /\ guesses[Len(guesses)] = char
        BY <1>2, <1>5
      <4> HIDE DEF guesses
      <4>2. ASSUME NEW x \in ToSet(guesses)
            PROVE  x \in ToSet(fsm.guessed_letters) \cup {char}
        BY <4>1 DEF ToSet
      <4>3. ASSUME NEW x \in ToSet(fsm.guessed_letters) \cup {char}
            PROVE  x \in ToSet(guesses)
        BY <4>1 DEF ToSet
      <4>4. ToSet(guesses) = ToSet(fsm.guessed_letters) \cup {char}
        BY <4>2, <4>3
      <4> QED
        BY <3>1, <4>4 DEF guesses
    <3>3. char \notin RevealedLetters(fsm)
      <4>1. \A k \in DOMAIN fsm.revealed_word :
              /\ fsm.revealed_word[k] \in {fsm.hangman_word[k], HANGMAN_EMPTY_CHARACTER}
              /\ fsm.hangman_word[k] # char
        BY <1>1, <1>2, <1>5 DEF RoundConsistent, Occurrences
      <4> QED
        BY <1>5, <4>1, HangmanAssumption DEF RevealedLetters, ToSet
    <3> QED
      BY <1>5, <2>3, <3>1, <3>2, <3>3
  <2> QED
    BY <2>2, <2>3
<1> QED
  BY <1>3, <1>4, <1>5

\* The verdict changes nothing but the two fields that end a round.
LEMMA ConcludeKeeps ==
  ASSUME NEW fsm \in HANGMAN_FSM
  PROVE  /\ Conclude(fsm).hangman_word = fsm.hangman_word
         /\ Conclude(fsm).revealed_word = fsm.revealed_word
         /\ Conclude(fsm).guessed_letters = fsm.guessed_letters
         /\ Conclude(fsm).attempts_left = fsm.attempts_left
         /\ fsm.revealed_word = fsm.hangman_word \/ fsm.attempts_left <= 0
              => Conclude(fsm).state = "HANGMAN_INITIAL"
         /\ ~(fsm.revealed_word = fsm.hangman_word \/ fsm.attempts_left <= 0)
              => Conclude(fsm) = fsm
  BY DEF Conclude, HANGMAN_FSM

\* A call makes progress in a round under way or leaves it as it was.
LEMMA ProcessProgress ==
  ASSUME NEW fsm, FsmOK(fsm), NEW input,
         NEW new \in ProcessHangmanState(fsm, input)
  PROVE  RoundProgress(fsm, new)
<1> SUFFICES ASSUME fsm.hangman_round_initialized PROVE RoundProgress(fsm, new)
  BY DEF RoundProgress
<1>1. /\ fsm \in HANGMAN_FSM /\ RoundConsistent(fsm) /\ OpenRoundUndecided(fsm)
      /\ fsm.state \in {"HANGMAN_PLAYING", "HANGMAN_UPDATE"}
      /\ fsm.hangman_word # <<>>
  BY DEF FsmOK, RoundConsistent, HANGMAN_FSM, STATE_HANGMAN
<1>2. CASE fsm.state = "HANGMAN_PLAYING"
  <2> DEFINE entered == [fsm EXCEPT !.state = "HANGMAN_UPDATE"]
             guess   == ApplyGuess(entered, ToLower[input])
  <2>1. /\ FsmOK(entered)
        /\ entered.state = "HANGMAN_UPDATE"
        /\ entered.hangman_word = fsm.hangman_word
        /\ entered.guessed_letters = fsm.guessed_letters
        /\ entered.attempts_left = fsm.attempts_left
        /\ entered.revealed_word = fsm.revealed_word
        /\ entered.hangman_round_initialized = fsm.hangman_round_initialized
    BY <1>2, EnterUpdate
  <2>2. new = Conclude(guess)
    <3>1. new = UpdateHangman(entered, input)
      BY <1>2 DEF ProcessHangmanState
    <3> QED
      BY <1>1, <2>1, <3>1 DEF UpdateHangman, BeginRound
  <2> HIDE DEF entered
  <2>3. InRound(entered) /\ OpenRoundUndecided(entered)
    BY <2>1 DEF InRound, FsmOK
  <2>4. guess \in HANGMAN_FSM /\ guess.hangman_word = entered.hangman_word
    BY <2>3, ApplyGuessOK DEF InRound
  <2>5. /\ new.hangman_word = guess.hangman_word
        /\ new.revealed_word = guess.revealed_word
        /\ new.guessed_letters = guess.guessed_letters
        /\ new.attempts_left = guess.attempts_left
    BY <2>2, <2>4, ConcludeKeeps
  <2>6. /\ \A i \in DOMAIN entered.revealed_word :
             entered.revealed_word[i] # HANGMAN_EMPTY_CHARACTER =>
               guess.revealed_word[i] = entered.revealed_word[i]
        /\ ToSet(entered.guessed_letters) \subseteq ToSet(guess.guessed_letters)
        /\ guess.attempts_left \in {entered.attempts_left, entered.attempts_left - 1}
    <3> HIDE DEF guess
    <3>1. guess = ApplyGuess(entered, ToLower[input])
      BY DEF guess
    <3> QED
      BY <2>3, <3>1, GuessEffect
  <2> QED
    BY <2>1, <2>4, <2>5, <2>6 DEF RoundProgress
<1>3. CASE fsm.state = "HANGMAN_UPDATE"
  BY <1>3 DEF ProcessHangmanState, RoundProgress
<1> QED
  BY <1>1, <1>2, <1>3

\* A round under way is never set back by a call.
THEOREM GuessesStay == HangmanSpec => GuessesNeverUndone
<1>1. HangmanInv /\ [HangmanNext]_hangman_fsm
        => [RoundProgress(hangman_fsm, hangman_fsm')]_hangman_fsm
  <2> SUFFICES ASSUME FsmOK(hangman_fsm), HangmanNext
               PROVE  RoundProgress(hangman_fsm, hangman_fsm')
    BY DEF HangmanInv
  <2>1. CASE \E input \in Chars : Process(input)
    BY <2>1, ProcessProgress DEF Process
  <2>2. CASE Finish
    BY <2>2 DEF Finish, HangmanFinishBroadcast, FsmOK, HANGMAN_FSM, RoundProgress
  <2> QED
    BY <2>1, <2>2 DEF HangmanNext
<1> QED
  BY <1>1, FsmInvariant, PTL DEF HangmanSpec, GuessesNeverUndone

-----------------------------------------------------------------------------
\* The array of wrong letters counts them: it holds no letter twice.
LEMMA MissesCounted ==
  ASSUME NEW fsm, InRound(fsm)
  PROVE  Cardinality(ToSet(fsm.guessed_letters)) = Len(fsm.guessed_letters)
<1> DEFINE s == fsm.guessed_letters
           n == Len(s)
<1>1. s \in Seq(Letters) /\ n \in Nat /\ DOMAIN s = 1 .. n
  BY DEF InRound, HANGMAN_FSM, GuessedLetters
<1>2. \A i, j \in DOMAIN s : s[i] = s[j] => i = j
  BY DEF InRound, RoundConsistent
<1>3. s \in [1 .. n -> ToSet(s)]
  BY <1>1 DEF ToSet
<1>4. s \in Bijection(1 .. n, ToSet(s))
  BY <1>1, <1>2, <1>3 DEF Bijection, Injection, IsInjective, Surjection, ToSet
<1> HIDE DEF n, s
<1>5. ExistsBijection(1 .. n, ToSet(s))
  BY <1>4 DEF ExistsBijection
<1>6. Cardinality(ToSet(s)) = n
  BY <1>1, <1>5, FS_CountingElements
<1> QED
  BY <1>6 DEF n, s

\* A round's fields say of the letters tried what the abstract game says:
\* the word is shown iff all its letters were tried, and the attempts are
\* used up iff enough letters outside it were.
LEMMA FieldsCountLetters ==
  ASSUME NEW fsm, InRound(fsm),
         NEW tried, tried = RevealedLetters(fsm) \cup ToSet(fsm.guessed_letters)
  PROVE  /\ fsm.revealed_word = fsm.hangman_word <=> ToSet(fsm.hangman_word) \subseteq tried
         /\ Cardinality(tried \ ToSet(fsm.hangman_word))
              = HANGMAN_MAX_ATTEMPTS - fsm.attempts_left
<1>1. fsm \in HANGMAN_FSM /\ RoundConsistent(fsm) /\ fsm.hangman_round_initialized
  BY DEF InRound
<1>2. /\ fsm.hangman_word \in Seq(Letters)
      /\ fsm.revealed_word \in Seq(Letters \cup {HANGMAN_EMPTY_CHARACTER})
      /\ fsm.guessed_letters \in Seq(Letters)
      /\ Len(fsm.revealed_word) = Len(fsm.hangman_word)
      /\ DOMAIN fsm.revealed_word = DOMAIN fsm.hangman_word
      /\ fsm.attempts_left \in 0 .. HANGMAN_MAX_ATTEMPTS
  BY <1>1, HangmanAssumption DEF HANGMAN_FSM, GuessedLetters, RoundConsistent
<1>3. /\ \A i \in DOMAIN fsm.hangman_word :
           fsm.revealed_word[i] \in {fsm.hangman_word[i], HANGMAN_EMPTY_CHARACTER}
      /\ \A i, j \in DOMAIN fsm.hangman_word :
           fsm.hangman_word[i] = fsm.hangman_word[j] =>
             fsm.revealed_word[i] = fsm.revealed_word[j]
      /\ ToSet(fsm.guessed_letters) \cap ToSet(fsm.hangman_word) = {}
      /\ Len(fsm.guessed_letters) + fsm.attempts_left = HANGMAN_MAX_ATTEMPTS
  BY <1>1 DEF RoundConsistent
<1>4. RevealedLetters(fsm) \subseteq ToSet(fsm.hangman_word)
  BY <1>2, <1>3 DEF RevealedLetters, ToSet
<1>5. ASSUME fsm.revealed_word = fsm.hangman_word
      PROVE  ToSet(fsm.hangman_word) \subseteq tried
  <2>1. HANGMAN_EMPTY_CHARACTER \notin ToSet(fsm.hangman_word)
    BY <1>1, WordLetters DEF ToSet
  <2> QED
    BY <1>5, <2>1 DEF RevealedLetters
<1>6. ASSUME ToSet(fsm.hangman_word) \subseteq tried
      PROVE  fsm.revealed_word = fsm.hangman_word
  <2>1. ASSUME NEW i \in DOMAIN fsm.hangman_word
        PROVE  fsm.revealed_word[i] = fsm.hangman_word[i]
    <3>1. fsm.hangman_word[i] \in RevealedLetters(fsm)
      BY <1>3, <1>6 DEF ToSet
    <3>2. PICK k \in DOMAIN fsm.revealed_word :
            /\ fsm.revealed_word[k] = fsm.hangman_word[i]
            /\ fsm.revealed_word[k] # HANGMAN_EMPTY_CHARACTER
      BY <3>1 DEF RevealedLetters, ToSet
    <3>3. fsm.hangman_word[k] = fsm.hangman_word[i]
      BY <1>2, <1>3, <3>2
    <3> QED
      BY <1>2, <1>3, <3>2, <3>3
  <2> QED
    BY <1>2, <2>1
<1>7. tried \ ToSet(fsm.hangman_word) = ToSet(fsm.guessed_letters)
  BY <1>3, <1>4
<1>8. Cardinality(ToSet(fsm.guessed_letters)) = HANGMAN_MAX_ATTEMPTS - fsm.attempts_left
  <2>1. Len(fsm.guessed_letters) \in Nat
    BY <1>2
  <2> QED
    BY <1>2, <1>3, <2>1, MissesCounted, HangmanAssumption
<1> QED
  BY <1>5, <1>6, <1>7, <1>8

\* The step of the abstract game that a guess in the running game maps to.
LEMMA GuessMapsToTry ==
  ASSUME NEW fsm, FsmOK(fsm), fsm.state = "HANGMAN_PLAYING", NEW input,
         NEW new \in ProcessHangmanState(fsm, input)
  PROVE  /\ new.hangman_word = fsm.hangman_word
         /\ \/ /\ GamePhase(new) = GamePhase(fsm)
               /\ TriedLetters(new) = TriedLetters(fsm)
            \/ \E letter \in Letters :
                 /\ letter \notin TriedLetters(fsm)
                 /\ TriedLetters(new) = TriedLetters(fsm) \cup {letter}
                 /\ GamePhase(new) =
                      IF ToSet(fsm.hangman_word) \subseteq TriedLetters(new)
                      THEN "won"
                      ELSE IF Cardinality(TriedLetters(new) \ ToSet(fsm.hangman_word))
                                >= HANGMAN_MAX_ATTEMPTS
                      THEN "lost"
                      ELSE "open"
<1> DEFINE entered == [fsm EXCEPT !.state = "HANGMAN_UPDATE"]
<1>1. /\ FsmOK(entered)
      /\ entered.state = "HANGMAN_UPDATE"
      /\ entered.hangman_word = fsm.hangman_word
      /\ entered.guessed_letters = fsm.guessed_letters
      /\ entered.revealed_word = fsm.revealed_word
      /\ entered.hangman_round_initialized = fsm.hangman_round_initialized
  BY EnterUpdate
<1>2. new = UpdateHangman(entered, input)
  BY DEF ProcessHangmanState
<1> HIDE DEF entered
<1>3. GamePhase(fsm) = "open" /\ GamePhase(entered) = "open"
  BY <1>1 DEF GamePhase
<1>4. TriedLetters(entered) = TriedLetters(fsm)
  BY <1>1 DEF TriedLetters, RevealedLetters
<1>5. CASE entered.hangman_word = <<>>
  BY <1>1, <1>2, <1>3, <1>4, <1>5 DEF UpdateHangman
<1>6. CASE entered.hangman_word # <<>>
  <2> DEFINE begun == BeginRound(entered)
             guess == ApplyGuess(begun, ToLower[input])
             All(f) == RevealedLetters(f) \cup ToSet(f.guessed_letters)
  <2>1. new = Conclude(guess)
    BY <1>2, <1>6 DEF UpdateHangman
  <2>2. InRound(begun) /\ OpenRoundUndecided(begun) /\ begun.hangman_word = fsm.hangman_word
    BY <1>1, <1>6, BeginRoundOK DEF FsmOK
  <2>3. All(begun) = TriedLetters(fsm)
    <3>1. CASE entered.hangman_round_initialized
      BY <1>1, <1>4, <3>1 DEF BeginRound, TriedLetters
    <3>2. CASE ~entered.hangman_round_initialized
      <4> DEFINE mask == [i \in 1 .. Len(entered.hangman_word) |-> HANGMAN_EMPTY_CHARACTER]
      <4>1. begun.revealed_word = mask /\ begun.guessed_letters = <<>>
        BY <1>1, <3>2 DEF BeginRound, FsmOK, HANGMAN_FSM
      <4>2. ToSet(mask) \subseteq {HANGMAN_EMPTY_CHARACTER} /\ ToSet(<<>>) = {}
        BY DEF ToSet
      <4> HIDE DEF mask
      <4>3. All(begun) = {}
        BY <4>1, <4>2 DEF RevealedLetters
      <4>4. TriedLetters(entered) = {}
        BY <1>1, <3>2 DEF TriedLetters
      <4> QED
        BY <1>4, <4>3, <4>4
    <3> QED
      BY <3>1, <3>2 DEF FsmOK, HANGMAN_FSM
  <2> HIDE DEF begun
  <2>4. InRound(guess) /\ guess.hangman_word = fsm.hangman_word
    BY <2>2, ApplyGuessOK
  <2>5. \/ guess = begun
        \/ \E letter \in Letters :
             letter \notin All(begun) /\ All(guess) = All(begun) \cup {letter}
    <3> HIDE DEF guess
    <3>1. guess = ApplyGuess(begun, ToLower[input])
      BY DEF guess
    <3>2. CASE guess = begun
      BY <3>2
    <3>3. CASE guess # begun
      <4> DEFINE letter == ToLower[input]
      <4>1. /\ letter \in Letters
            /\ letter \notin All(begun)
            /\ \/ /\ RevealedLetters(guess) = RevealedLetters(begun) \cup {letter}
                  /\ guess.guessed_letters = begun.guessed_letters
               \/ /\ guess.revealed_word = begun.revealed_word
                  /\ ToSet(guess.guessed_letters) = ToSet(begun.guessed_letters) \cup {letter}
        BY <2>2, <3>1, <3>3, GuessEffect
      <4>2. All(guess) = All(begun) \cup {letter}
        <5>1. CASE /\ RevealedLetters(guess) = RevealedLetters(begun) \cup {letter}
                   /\ guess.guessed_letters = begun.guessed_letters
          BY <5>1
        <5>2. CASE /\ guess.revealed_word = begun.revealed_word
                   /\ ToSet(guess.guessed_letters) = ToSet(begun.guessed_letters) \cup {letter}
          BY <5>2 DEF RevealedLetters
        <5> QED
          BY <4>1, <5>1, <5>2
      <4> HIDE DEF letter
      <4> QED
        BY <4>1, <4>2
    <3> QED
      BY <3>2, <3>3
  <2> HIDE DEF guess
  <2>6. /\ new.hangman_word = fsm.hangman_word
        /\ new.revealed_word = guess.revealed_word
        /\ new.guessed_letters = guess.guessed_letters
    BY <2>1, <2>4, ConcludeKeeps DEF InRound
  <2>7. /\ TriedLetters(new) = All(guess)
        /\ GamePhase(new) = IF guess.revealed_word = guess.hangman_word
                            THEN "won"
                            ELSE IF guess.attempts_left <= 0 THEN "lost" ELSE "open"
    <3> DEFINE over == guess.revealed_word = guess.hangman_word \/ guess.attempts_left <= 0
    <3>1. CASE over
      <4>1. new.state = "HANGMAN_INITIAL"
        BY <2>1, <2>4, <3>1, ConcludeKeeps DEF InRound
      <4> QED
        BY <1>1, <1>6, <2>4, <2>6, <3>1, <4>1 DEF TriedLetters, GamePhase, RevealedLetters
    <3>2. CASE ~over
      <4>1. new = guess
        BY <2>1, <2>4, <3>2, ConcludeKeeps DEF InRound
      <4> QED
        BY <2>4, <3>2, <4>1 DEF TriedLetters, GamePhase, InRound
    <3> QED
      BY <3>1, <3>2
  <2>8. CASE guess = begun
    <3>1. ~(guess.revealed_word = guess.hangman_word \/ guess.attempts_left <= 0)
      BY <2>2, <2>8, HangmanAssumption DEF InRound, OpenRoundUndecided, HANGMAN_FSM
    <3> QED
      BY <1>3, <2>3, <2>6, <2>7, <2>8, <3>1
  <2>9. ASSUME NEW letter \in Letters,
               letter \notin All(begun), All(guess) = All(begun) \cup {letter}
        PROVE  /\ letter \notin TriedLetters(fsm)
               /\ TriedLetters(new) = TriedLetters(fsm) \cup {letter}
               /\ GamePhase(new) =
                    IF ToSet(fsm.hangman_word) \subseteq TriedLetters(new)
                    THEN "won"
                    ELSE IF Cardinality(TriedLetters(new) \ ToSet(fsm.hangman_word))
                              >= HANGMAN_MAX_ATTEMPTS
                    THEN "lost"
                    ELSE "open"
    <3> DEFINE misses == Cardinality(TriedLetters(new) \ ToSet(fsm.hangman_word))
    <3>1. /\ guess.revealed_word = guess.hangman_word
               <=> ToSet(fsm.hangman_word) \subseteq TriedLetters(new)
          /\ misses = HANGMAN_MAX_ATTEMPTS - guess.attempts_left
      BY <2>4, <2>7, FieldsCountLetters
    <3>2. guess.attempts_left \in 0 .. HANGMAN_MAX_ATTEMPTS
      BY <2>4 DEF InRound, HANGMAN_FSM
    <3> HIDE DEF misses
    <3>3. guess.attempts_left <= 0 <=> misses >= HANGMAN_MAX_ATTEMPTS
      BY <3>1, <3>2, HangmanAssumption
    <3> QED
      BY <2>3, <2>7, <2>9, <3>1, <3>3 DEF misses
  <2> QED
    BY <2>5, <2>6, <2>8, <2>9
<1> QED
  BY <1>5, <1>6

\* What a step of the structure may be in terms of the abstract game.
SameGame(old, new) ==
  /\ new.hangman_word = old.hangman_word
  /\ GamePhase(new) = GamePhase(old)
  /\ TriedLetters(new) = TriedLetters(old)

GameStarted(old, new) ==
  /\ GamePhase(old) # "open"
  /\ GamePhase(new) = "open"
  /\ new.hangman_word \in Words
  /\ TriedLetters(new) = {}

LetterTried(old, new, letter) ==
  /\ GamePhase(old) = "open"
  /\ new.hangman_word = old.hangman_word
  /\ letter \notin TriedLetters(old)
  /\ TriedLetters(new) = TriedLetters(old) \cup {letter}
  /\ GamePhase(new) =
       IF ToSet(old.hangman_word) \subseteq TriedLetters(new)
       THEN "won"
       ELSE IF Cardinality(TriedLetters(new) \ ToSet(old.hangman_word)) >= HANGMAN_MAX_ATTEMPTS
       THEN "lost"
       ELSE "open"

GameMoved(old, new) ==
  \/ SameGame(old, new)
  \/ GameStarted(old, new)
  \/ \E letter \in Letters : LetterTried(old, new, letter)

\* The structure is not that of a game without a word.
HasWord(fsm) == fsm.state # "HANGMAN_INITIAL" => fsm.hangman_word # <<>>

\* A call of process_hangman_state that leaves the game with a word is one move
\* of the abstract game or none.
LEMMA ProcessMoves ==
  ASSUME NEW fsm, FsmOK(fsm), NEW input,
         NEW new \in ProcessHangmanState(fsm, input), HasWord(new)
  PROVE  GameMoved(fsm, new)
<1>1. fsm.state \in STATE_HANGMAN
  BY DEF FsmOK, HANGMAN_FSM
<1>2. CASE fsm.state = "HANGMAN_INITIAL"
  <2>1. PICK w \in Words \cup {fsm.hangman_word} :
          new = [[fsm EXCEPT !.hangman_word = w] EXCEPT !.state = "HANGMAN_PLAYING"]
    <3>1. PICK f \in SetRandomWord(fsm) : new = [f EXCEPT !.state = "HANGMAN_PLAYING"]
      BY <1>2 DEF ProcessHangmanState
    <3>2. PICK w \in Words \cup {fsm.hangman_word} : f = [fsm EXCEPT !.hangman_word = w]
      <4>1. fsm = [fsm EXCEPT !.hangman_word = fsm.hangman_word]
        BY DEF FsmOK, HANGMAN_FSM
      <4> QED
        BY <4>1 DEF SetRandomWord
    <3> QED
      BY <3>1, <3>2
  <2>2. /\ new.hangman_word \in Words
        /\ new.state = "HANGMAN_PLAYING"
        /\ ~new.hangman_round_initialized
    <3>1. new.hangman_word = w /\ new.state = "HANGMAN_PLAYING"
      BY <2>1 DEF FsmOK, HANGMAN_FSM
    <3>2. new.hangman_round_initialized = fsm.hangman_round_initialized
      BY <2>1 DEF FsmOK, HANGMAN_FSM
    <3>3. fsm.hangman_word \in Words \cup {<<>>} /\ ~fsm.hangman_round_initialized
      BY <1>2 DEF FsmOK, HANGMAN_FSM, RoundConsistent
    <3> QED
      BY <3>1, <3>2, <3>3 DEF HasWord
  <2>3. GameStarted(fsm, new)
    BY <1>2, <2>2 DEF GameStarted, GamePhase, TriedLetters
  <2> QED
    BY <2>3 DEF GameMoved
<1>3. CASE fsm.state = "HANGMAN_PLAYING"
  <2>1. GamePhase(fsm) = "open"
    BY <1>3 DEF GamePhase
  <2> QED
    BY <1>3, <2>1, GuessMapsToTry DEF GameMoved, SameGame, LetterTried
<1>4. CASE fsm.state = "HANGMAN_UPDATE"
  BY <1>4 DEF ProcessHangmanState, GameMoved, SameGame
<1> QED
  BY <1>1, <1>2, <1>3, <1>4 DEF STATE_HANGMAN

\* The end of a broadcast is none.
LEMMA FinishKeepsGame ==
  ASSUME NEW fsm, FsmOK(fsm)
  PROVE  SameGame(fsm, HangmanFinishBroadcast(fsm))
<1> DEFINE new == HangmanFinishBroadcast(fsm)
<1>1. /\ new.hangman_word = fsm.hangman_word
      /\ new.revealed_word = fsm.revealed_word
      /\ new.guessed_letters = fsm.guessed_letters
      /\ new.hangman_round_initialized = fsm.hangman_round_initialized
      /\ new.state = "HANGMAN_INITIAL" <=> fsm.state = "HANGMAN_INITIAL"
  BY DEF HangmanFinishBroadcast, FsmOK, HANGMAN_FSM
<1> QED
  BY <1>1 DEF SameGame, GamePhase, TriedLetters, RevealedLetters

\* Such a step of the variable is a step of the module WordGame.
LEMMA MoveIsGameStep ==
  ASSUME GameMoved(hangman_fsm, hangman_fsm')
  PROVE  [Game!Next]_Game!vars
<1>1. CASE SameGame(hangman_fsm, hangman_fsm')
  BY <1>1 DEF SameGame, Game!vars
<1>2. CASE GameStarted(hangman_fsm, hangman_fsm')
  BY <1>2 DEF GameStarted, Game!Next, Game!Start
<1>3. ASSUME NEW letter \in Letters, LetterTried(hangman_fsm, hangman_fsm', letter)
      PROVE  Game!Next
  <2>1. Game!LettersOf(hangman_fsm.hangman_word) = ToSet(hangman_fsm.hangman_word)
    BY DEF Game!LettersOf, ToSet
  <2>2. \A S : Game!Cardinality(S) = Cardinality(S)
    BY DEF Game!Cardinality, Cardinality
  <2>3. Game!Try(letter)
    BY <1>3, <2>1, <2>2 DEF LetterTried, Game!Try, Game!Verdict
  <2> QED
    BY <2>3 DEF Game!Next
<1> QED
  BY <1>1, <1>2, <1>3 DEF GameMoved

\* hangman.c implements the abstract game as long as no game is started
\* without a word: every call is one move of WordGame or none, so that a game
\* is won or lost by the set of letters tried and by nothing else.  The words
\* may also be those of earlier games, left in place when the word file cannot
\* be opened any more.
THEOREM HangmanImplementsWordGame ==
  HangmanSpec => ([]OpenGameHasWord => ImplementsWordGame)
<1>1. HangmanInit => Game!Init
  BY DEF HangmanInit, ZeroedFsm, Game!Init, GamePhase, TriedLetters, RevealedLetters, ToSet
<1>2. HangmanInv /\ OpenGameHasWord' /\ [HangmanNext]_hangman_fsm => [Game!Next]_Game!vars
  <2> SUFFICES ASSUME FsmOK(hangman_fsm), HasWord(hangman_fsm'), [HangmanNext]_hangman_fsm
               PROVE  GameMoved(hangman_fsm, hangman_fsm')
    BY MoveIsGameStep DEF HangmanInv, OpenGameHasWord, HasWord
  <2>1. CASE \E input \in Chars : Process(input)
    BY <2>1, ProcessMoves DEF Process
  <2>2. CASE Finish
    BY <2>2, FinishKeepsGame DEF Finish, GameMoved
  <2>3. CASE UNCHANGED hangman_fsm
    BY <2>3 DEF GameMoved, SameGame
  <2> QED
    BY <2>1, <2>2, <2>3 DEF HangmanNext
<1> QED
  BY <1>1, <1>2, FsmInvariant, PTL DEF HangmanSpec, ImplementsWordGame, Game!Spec
=============================================================================
