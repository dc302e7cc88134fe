CONSTANTS
  Messages <- SmallMessages
  GapLists <- SmallGapLists
  MaxPayload = 2
  StartMTU = 3
  Overhead = 1
  InitialMTUs = 1
  PeerWindow = 4
  MaxWindow = 4
  FastRetryGap = 2
  MaxTicks = 2
  HeartbeatTimer = TRUE
  TransportBlocks = FALSE
  MaxTsn = 4
  MaxCredits = 4
SPECIFICATION Spec
INVARIANT TypeOK
INVARIANT WindowConserved
INVARIANT ConsecutiveTsns
INVARIANT NoStall
INVARIANT WindowFloors
INVARIANT SendOKComes
CHECK_DEADLOCK FALSE
