SPECIFICATION Spec
CONSTANTS
  Programs = {p1}
  Nicks <- MCNicks
  Names <- MCNames
  TextOf <- Reopening
  LastSecond = 2
  MaxSessions = 2
CHECK_DEADLOCK FALSE
INVARIANT
  StickersReadable
