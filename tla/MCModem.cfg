CONSTANTS
  Callers = {c1, c2}
  NoCaller = NoCaller
  Lines <- LinesOfTwo
  AutoAnswer = 2
  ProfileFollows = TRUE
  MaxRings = 2
SPECIFICATION Spec
INVARIANTS
  CallersKept
  MeansTheSame
  DcdWhileConnected
