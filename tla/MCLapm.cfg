CONSTANTS
  Modulus = 3
  DefaultK = 2
  MaxK = 2
  DefaultN401 = 1
  MaxN401 = 1
  N400 = 2
  Data = {1, 2, 3, 4}
  Offer <- MCOffer
  ToSend <- SendsOne
  LineLength = 2
  MaxUpsets = 3
SPECIFICATION FairSpec
INVARIANTS
  NumbersAgree
  NothingLost
  CompressionAgrees
PROPERTIES
  OnlySilenceReleases
  ImplementsStream
  Settles
CHECK_DEADLOCK FALSE
