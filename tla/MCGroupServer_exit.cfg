SPECIFICATION Spec
CONSTANTS
  c1 = c1
  c2 = c2
  c3 = c3
  Letters <- MCLetters
  Chars <- MCChars
  ToLower <- MCToLower
  Words <- MCWords
  WordFileMayBeMissing = FALSE
  HANGMAN_MAX_ATTEMPTS = 2
  Conns <- TwoConns
  Uids <- MCUids
  Nicks <- MCNicks
  MemberOf <- MCMembers
  Commands <- GameCommands
  MAX_GROUP_MEMBERS = 3
  MAX_GROUP_CONNECTIONS = 2
  OrderlyMembership = TRUE
  ClientsMayDie = FALSE
  MaxUnread = 1
  MaxPlayers = 2
  HistoryFileMayFail = FALSE
SYMMETRY Symmetry
CHECK_DEADLOCK FALSE
PROPERTIES
  ExitLeavesGame
