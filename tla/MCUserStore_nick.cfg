SPECIFICATION Spec
CONSTANTS
  Programs = {p1}
  Nicks <- MCNicks
  Names <- MCNames
  TextOf <- MCTextOf
  LastSecond = 2
  MaxSessions = 2
CHECK_DEADLOCK FALSE
INVARIANT
  NickPersisted
