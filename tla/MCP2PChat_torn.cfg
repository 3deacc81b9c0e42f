SPECIFICATION Spec
CONSTANTS
  Peers = {"a", "b"}
  Texts <- MCTexts
  Nicks = {"x"}
  Typed <- MCTyped
  MaxNicks = 1
  MayDie = {}
CHECK_DEADLOCK FALSE
INVARIANT
  FramesWhole
