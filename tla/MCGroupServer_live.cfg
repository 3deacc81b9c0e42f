SPECIFICATION FairSpec
CONSTANTS
  c1 = c1
  c2 = c2
  c3 = c3
  Letters <- MCLetters
  Chars <- MCChars
  ToLower <- MCToLower
  Words <- MCWords
  WordFileMayBeMissing = FALSE
  HANGMAN_MAX_ATTEMPTS = 1
  Conns <- TwoConns
  Uids <- MCUids
  Nicks <- MCNicks
  MemberOf <- MCMembers
  Commands <- MembershipCommands
  MAX_GROUP_MEMBERS = 3
  MAX_GROUP_CONNECTIONS = 2
  OrderlyMembership = FALSE
  ClientsMayDie = TRUE
  MaxUnread = 1
  MaxPlayers = 0
  HistoryFileMayFail = FALSE
CHECK_DEADLOCK FALSE
PROPERTIES
  GoneAreRemoved
  JoinsAreServed
