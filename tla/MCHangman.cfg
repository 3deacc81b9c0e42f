SPECIFICATION HangmanSpec
CONSTANTS
  Letters <- MCLetters
  Chars <- MCChars
  ToLower <- MCToLower
  Words <- MCWords
  WordFileMayBeMissing = FALSE
  HANGMAN_MAX_ATTEMPTS = 3
INVARIANTS
  HangmanTypeOK
  RoundsConsistent
  OpenRoundsUndecided
PROPERTIES
  GuessesNeverUndone
  ImplementsWordGame
