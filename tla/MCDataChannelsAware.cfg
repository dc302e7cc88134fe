SPECIFICATION Spec
CHECK_DEADLOCK FALSE
CONSTANTS
  Own = 1
  Theirs = {2}
  MaxChannels = 2
  MaxWrites = 1
  MaxAsks = 2
  MaxCloses = 1
  InFlight = 1
  RtoMin = 1
  RtoMax = 2
INVARIANT BothAware
