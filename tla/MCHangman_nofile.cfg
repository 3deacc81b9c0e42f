SPECIFICATION HangmanSpec
CONSTANTS
  Letters <- MCLetters
  Chars <- MCChars
  ToLower <- MCToLower
  Words <- MCWords
  WordFileMayBeMissing = TRUE
  HANGMAN_MAX_ATTEMPTS = 3
INVARIANTS
  OpenGameHasWord
