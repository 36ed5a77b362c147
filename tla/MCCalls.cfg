CONSTANTS
  Dials = {d1, d2}
  Callers = {c1, c2}
  Nobody = Nobody
  MaxLetGo = 1
  home = home
  office = office
  club = club
  Ends = {home, office, club}
  None = None
  Peer <- MCPeer
  ByeRepeats = 2
  LineLength = 2
  Plans <- MCPlans
  Sides = {left, right}
  MaxOffers = 4
  Window = 2
  Numbers = 32
  Stamps = 64
  ResyncDistance = 4
  MaxGap = 11
  Samples = 2
  SequenceOf <- Jumping
  StampOf <- Stamp
  Jumps = {6}
  Reach = 3
  MaxPackets = 8
  MaxTurns = 1
SPECIFICATION CallsSpec
INVARIANTS
  NobodyLeft
  CallsJoined
  PlayedInOrder
PROPERTIES
  ClockKept
  OnlyTheFarEndEnds
  CallsEnd
CHECK_DEADLOCK FALSE
