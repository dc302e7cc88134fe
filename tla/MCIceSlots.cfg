SPECIFICATION Spec
CHECK_DEADLOCK FALSE
CONSTANTS
  c1 = c1
  c2 = c2
  a1 = a1
  a2 = a2
  Conns = {c1, c2}
  Candidates <- SamePeer
  Relayed = {c1}
  MaxSlots = 2
  MaxAge = 1
  FinalDelay = 1
  MaxOffers = 2
INVARIANTS TypeOK LinkKept AnswerAwaited ChecksEnd
PROPERTY NoSteal
