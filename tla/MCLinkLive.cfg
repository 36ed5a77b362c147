CONSTANTS
  Modulus = 2
  DefaultK = 1
  MaxK = 1
  DefaultN401 = 1
  MaxN401 = 1
  N400 = 2
  Text = {"a", "b"}
  AdpRepeats = 2
  OpeningFlags = 2
  FlagsHeard = 2
  Calls <- LiveCalls
  LineLength = 1
SPECIFICATION FairSpec
PROPERTIES
  Decides
  DataArrives
CHECK_DEADLOCK FALSE
