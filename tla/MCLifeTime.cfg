CONSTANTS
  Data = {d1, d2}
  Delays = {0, 2}
  MinWait = 1
  MaxWait = 4
  OtherThreads = TRUE
  MaxAdds = 3
  MaxTime = 1
SPECIFICATION FairSpec
INVARIANTS TypeOK EndsOnce TriggerCovers
PROPERTIES SleepsInTime EveryTimerEnds
CHECK_DEADLOCK FALSE
