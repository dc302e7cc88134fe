--------------------------- MODULE SctpAssociation ---------------------------
(***************************************************************************)
(* An SCTP association of two peers, data in one direction: the sender of  *)
(* SctpSender and the receiver of SctpReceiver, with DTLS datagrams        *)
(* between them that may be lost and overtake each other.  The sender's    *)
(* 'wire' holds the TSNs of the packets under way, the receiver's 'sacked' *)
(* the SACKs under way.  The peer's application neither pauses nor resumes.*)
(***************************************************************************)
EXTENDS SctpSender, FiniteSets

CONSTANTS
  Capacity,    \* the receiver's hold buffer
  MaxLosses,   \* bound on the datagrams lost
  SlowTimer    \* TRUE if a heartbeat tick finds nothing under way, T3 expired

VARIABLES
  intsn, userTSN, receiveHoldBuffer, used, paused,
  pAt, chunks, payload, pulled, sentsack, answer,
  rAt, rPayload, rPulled, heap, arrived, delivered, sacked,
  losses

ASSUME LossAssumption ==
  /\ MaxTsn < 65536 /\ Capacity \in Nat
  /\ MaxLosses \in Nat /\ SlowTimer \in BOOLEAN

Peer == INSTANCE SctpReceiver WITH
          at <- pAt,
          Packets <- {<<t>> : t \in 1..MaxTsn},
          Length <- [t \in 1..MaxTsn |-> 1], Charge <- [t \in 1..MaxTsn |-> 1],
          UserResume <- FALSE, MayPause <- FALSE, MaxCalls <- MaxTsn + 1

peerVars == <<intsn, userTSN, receiveHoldBuffer, used, paused, pAt, chunks, payload,
              pulled, sentsack, answer, rAt, rPayload, rPulled, heap, arrived,
              delivered, sacked>>
everything == <<vars, peerVars, losses>>

InitAssociation == Init /\ Peer!Init /\ losses = 0

-----------------------------------------------------------------------------
Quiet == wire = {} /\ sacked = {} /\ pAt = "idle"

Send ==
  /\ Application \/ UserStep \/ SackStep \/ CallbackStep
     \/ ResendOne \/ EndResend
  /\ UNCHANGED <<peerVars, losses>>

(* From the tick on that is half of MaxTicks the sender asks for a sign of *)
(* life (a HEARTBEAT); a slow timer gives the peer the time to answer it.  *)
Answered == 2 * timervalue < MaxTicks

HeartbeatAnswered == ReceiveHeartbeat /\ UNCHANGED <<peerVars, losses>>

HeartbeatTick ==
  /\ SlowTimer => Quiet /\ Answered /\ (T3running => pendingQueue = <<>>)
  /\ OnTimeout \/ OnTimeoutGiveUp
  /\ UNCHANGED <<peerVars, losses>>

T3Expires ==
  /\ SlowTimer => Quiet /\ Answered
  /\ OnTimeoutExpired
  /\ UNCHANGED <<peerVars, losses>>

PacketArrives(t) ==
  /\ t \in wire
  /\ wire' = wire \ {t}
  /\ Peer!ReceivePacket(<<t>>)
  /\ UNCHANGED <<outtsn, queues, credits, congestion, timers, control, callback,
                 rpacket, toldToWait, losses>>

PeerRuns == Peer!ChunkStep /\ UNCHANGED <<vars, losses>>

(* The gap blocks of a SACK in the order ILibStun_SctpAddSackChunk writes   *)
(* them, that of the TSNs: an offset may have wrapped below zero.           *)
Signed(offset) == IF offset < 32768 THEN offset ELSE offset - 65536
InOrderOf(blocks) ==
  LET n == Cardinality(blocks) IN
  {list \in [1..n -> blocks] :
     \A i, j \in 1..n : i < j => Signed(list[i].first) < Signed(list[j].first)}

SackArrives(sack) ==
  /\ sack \in sacked
  /\ \E gaps \in InOrderOf(sack.blocks) : ReceiveSack(sack.cum, gaps)
  /\ sacked' = sacked \ {sack}
  /\ UNCHANGED <<intsn, userTSN, receiveHoldBuffer, used, paused, pAt, chunks,
                 payload, pulled, sentsack, answer, rAt, rPayload, rPulled, heap,
                 arrived, delivered, losses>>

Lose ==
  /\ losses < MaxLosses
  /\ losses' = losses + 1
  /\ \/ /\ \E t \in wire : wire' = wire \ {t}
        /\ UNCHANGED sacked
     \/ /\ \E sack \in sacked : sacked' = sacked \ {sack}
        /\ UNCHANGED wire
  /\ UNCHANGED <<outtsn, queues, credits, congestion, timers, control, callback,
                 rpacket, toldToWait, intsn, userTSN, receiveHoldBuffer, used,
                 paused, pAt, chunks, payload, pulled, sentsack, answer, rAt,
                 rPayload, rPulled, heap, arrived, delivered>>

SomeSackArrives == \E sack \in sacked : SackArrives(sack)

NextAssociation ==
  \/ Send \/ HeartbeatAnswered \/ HeartbeatTick \/ T3Expires
  \/ \E t \in 1..MaxTsn : PacketArrives(t)
  \/ PeerRuns \/ SomeSackArrives \/ Lose

SpecAssociation == InitAssociation /\ [][NextAssociation]_everything

(* Handlers under way end, what is not lost arrives, and a T3 timer that   *)
(* runs for long enough is found expired by a heartbeat tick.              *)
FairAssociation ==
  /\ SpecAssociation
  /\ WF_everything((UserStep \/ SackStep \/ CallbackStep \/ ResendOne \/ EndResend)
                   /\ UNCHANGED <<peerVars, losses>>)
  /\ \A t \in 1..MaxTsn : SF_everything(PacketArrives(t))
  /\ WF_everything(PeerRuns) /\ SF_everything(SomeSackArrives)
  /\ SF_everything(T3Expires) /\ WF_everything(HeartbeatAnswered)

-----------------------------------------------------------------------------
InQueue(queue) == {queue[i].tsn : i \in 1..Len(queue)}
Kept == InQueue(pendingQueue) \union InQueue(holdingQueue)

(* No chunk is lost between the two: what the sender has let go was given  *)
(* to the peer's application or is in the peer's hold buffer, "for later". *)
KeptByOne == \A t \in 1..(outtsn - 1) :
               t \in Kept \/ t <= userTSN \/ t \in receiveHoldBuffer

(* A packet counted as received out of order did arrive, so that the T3    *)
(* timer is right to pass it over.                                         *)
GapAckedArrived ==
  \A i \in 1..Len(pendingQueue) :
    pendingQueue[i].gap = GapAcked => pendingQueue[i].tsn \in arrived

(* REFINEMENT: the association is a reliable ordered stream. *)
Stream == INSTANCE OrderedStream WITH written <- [t \in 1..(outtsn - 1) |-> t],
                                      read <- delivered
StreamSpec == Stream!Spec

(* LIVENESS: every chunk sent leaves the sender's queues, acknowledged.    *)
(* "SCTP will take care of retrying this later".                           *)
EverythingAcknowledged == \A t \in 1..MaxTsn : outtsn > t ~> t \notin Kept
=============================================================================
