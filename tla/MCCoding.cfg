CONSTANTS
  OctetBits = 3
  EscapeStep = 3
  TestWindow = 4
  StartWidth = 4
  Initiators <- MCInitiators
  Responders <- MCResponders
  Proposals <- MCProposals
  Inputs = {0, 3}
  MaxSent = 11
  MaxFlushes = 1
  MaxResets = 1
  LockupOnes = 6
  MaxFrameBits = 64
  MinContent = 2
  Lines <- MCLines
  Contents <- MCContents
  MaxItems = 4
  Typed = {203}
  Joins = {0, 3}
  MaxSounds = 4
  LastSpoilt = 2
  Tellings <- MCTellings
  Gaps <- MCGaps
  PieceBits = 34
  HitStep = 5
  MaxMessages = 2
  FramesSaid <- MCFrames
  OctetsSaid <- MCOctets
  XidsSaid <- MCXids
  Strange <- MCStrange
SPECIFICATION CodingSpec
INVARIANTS
  Compressed
  HitsContained
  WordsRead
CHECK_DEADLOCK FALSE
