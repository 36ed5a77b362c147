CONSTANTS
  Modulus = 3
  DefaultK = 1
  MaxK = 2
  DefaultN401 = 1
  MaxN401 = 1
  N400 = 1
  Data = {d1}
  PeerFrames <- MCPeerFrames
  Offers <- MCOffers
  MaxQueue = 1
  MaxUrgent = 1
SPECIFICATION Spec
INVARIANTS
  IndexInBounds
  RecoveryPolls
  NothingStranded
PROPERTIES
  ReleasedIsFinal
