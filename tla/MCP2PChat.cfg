SPECIFICATION FairSpec
CONSTANTS
  Peers = {"a", "b"}
  Texts <- MCTexts
  Nicks = {"x"}
  Typed <- MCTyped
  MaxNicks = 1
  MayDie = {"b"}
CHECK_DEADLOCK FALSE
INVARIANTS
  ChatTypeOK
  HistoriesAgree
PROPERTIES
  HandshakeEnds
  MessagesArrive
  BothLeaveEnds
