SPECIFICATION Spec
CONSTANTS
  Programs = {p1, p2}
  Nicks <- MCNicks
  Names <- MCNames
  TextOf <- MCTextOf
  LastSecond = 2
  MaxSessions = 2
SYMMETRY Symmetry
CHECK_DEADLOCK FALSE
INVARIANTS
  StoreTypeOK
  UidForLife
  StickersRemembered
