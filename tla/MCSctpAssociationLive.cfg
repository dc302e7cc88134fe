CONSTANTS
  Messages <- OneByteMessages
  GapLists <- NoGapLists
  MaxPayload = 1
  StartMTU = 2
  Overhead = 1
  InitialMTUs = 1
  PeerWindow = 3
  MaxWindow = 4
  FastRetryGap = 2
  MaxTicks = 3
  HeartbeatTimer = TRUE
  TransportBlocks = TRUE
  MaxTsn = 4
  MaxCredits = 9
  Capacity = 3
  MaxLosses = 1
  SlowTimer = TRUE
SPECIFICATION FairAssociation
PROPERTY EverythingAcknowledged
CHECK_DEADLOCK FALSE
