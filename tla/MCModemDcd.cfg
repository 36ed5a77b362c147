CONSTANTS
  Callers = {c1, c2}
  NoCaller = NoCaller
  Lines <- LinesOfOne
  AutoAnswer = 2
  ProfileFollows = TRUE
  MaxRings = 2
SPECIFICATION Spec
INVARIANT DcdFollows
