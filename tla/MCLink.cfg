CONSTANTS
  Modulus = 2
  DefaultK = 1
  MaxK = 1
  DefaultN401 = 1
  MaxN401 = 1
  N400 = 2
  Text = {"a", "b"}
  AdpRepeats = 2
  OpeningFlags = 2
  FlagsHeard = 2
  Calls <- SafetyCalls
  LineLength = 2
SPECIFICATION Spec
INVARIANTS
  NeverSplit
  TextKept
  DataIntact
CHECK_DEADLOCK FALSE
