SPECIFICATION FairSpec
CONSTANTS
  p1 = p1
  p2 = p2
  p3 = p3
  Peers <- MCPeers
  NoPeer = NoPeer
  LISTEN_TIMEOUT_SEC = 3
  QueueSize <- MCQueues
  Remote <- MCRemote
  MaxStarts <- MCStarts
  LastStart = 4
CHECK_DEADLOCK FALSE
INVARIANTS
  DiscoveryTypeOK
  PartnersAgree
  MissedMeansTogether
PROPERTIES
  HeardMeet
