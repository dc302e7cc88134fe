SPECIFICATION FairSpec
CHECK_DEADLOCK FALSE
CONSTANTS
  MaxSessions = 2
  Freshness = 2
  Probe = 1
  Beat = 2
  GiveUp = 2
  Retry = 1
  MaxCloses = 2
  Turns = {TRUE, FALSE}
INVARIANTS TypeOK CorruptOnlyByLeftover ConsentLost
PROPERTIES EndIsTold CloseCompletes
