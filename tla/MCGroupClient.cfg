SPECIFICATION FairSpec
CONSTANTS
  Me = "me"
  Others <- OneOther
  Nicks <- MCNicks
  FirstNick <- MCFirst
  MAX_GROUP_MEMBERS = 2
  Typed = {"load", "msg", "gi", "nick"}
  ServerMayEnd = TRUE
  MaxWire = 3
  MaxUnread = 1
  MaxHistory = 2
  MaxChanges = 2
CHECK_DEADLOCK FALSE
INVARIANTS
  ClientTypeOK
  LoadMatchesState
  NoLineIgnored
  ShownAsWritten
PROPERTIES
  LoadShowsAll
  LoadEnds
  LeavingEnds
