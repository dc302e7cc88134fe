----------------------------- MODULE SctpSender -----------------------------
(***************************************************************************)
(* The sending half of an SCTP association over DTLS, as ILibWebRTC.c      *)
(* keeps it in struct ILibStun_dTlsSession: the pending queue (sent, not   *)
(* acknowledged), the holding queue (not sent for lack of credits), the    *)
(* peer's window (receiverCredits), the congestion window (senderCredits,  *)
(* congestionWindowSize, SSTHRESH, PARTIAL_BYTES_ACKED), fast recovery and *)
(* the T3 retransmission timer.                                            *)
(*                                                                         *)
(* Two threads meet at the session's Lock.  A user thread runs             *)
(* ILibSCTP_SendEx; the chain thread runs the SACK chunk of                *)
(* ILibStun_ProcessSctpPacket, ILibStun_SctpOnTimeout and the OnSendOK     *)
(* callback, for which it gives up the Lock in the middle of a packet.     *)
(* 'at' is the control point of whoever holds the Lock ("free": nobody):   *)
(* each loop of the code advances one queue entry per step, and no other   *)
(* handler can start before the Lock is given back.                        *)
(*                                                                         *)
(* Time is not modelled: a running T3 timer may be found expired at any    *)
(* heartbeat tick, so round trip estimation and the retransmission         *)
(* timeout, which only choose the moment, are left out.  A packet is its   *)
(* TSN and its payload size.  TSNs start at 1 and do not wrap.             *)
(***************************************************************************)
EXTENDS Integers, Sequences

CONSTANTS
  Messages,       \* the messages an application sends: fragment sizes each
  MaxPayload,     \* the largest fragment (1232 in the code)
  StartMTU,       \* ILibRUDP_StartMTU
  Overhead,       \* chunk and common header, 12 + 16 bytes
  InitialMTUs,    \* the windows start at, and SSTHRESH never falls below, 4 MTU
  PeerWindow,     \* the receiver credits the association starts with
  MaxWindow,      \* ILibSCTP_MaxReceiverCredits, the ceiling of slow start
  FastRetryGap,   \* ILibSCTP_FastRetry_GAP
  MaxTicks,       \* unanswered heartbeat ticks before the session is closed
  HeartbeatTimer, \* TRUE where ILibStun_SctpOnTimeout was scheduled
  TransportBlocks,\* TRUE if the socket below may answer INCOMPLETE
  GapLists,       \* the lists of gap ack blocks a peer may report
  MaxTsn,         \* bound on the TSNs used
  MaxCredits      \* bound on the credits a peer that takes back gap acks drives up

ASSUME SizesAssumption ==
  /\ StartMTU \in Nat /\ Overhead \in Nat /\ MaxPayload \in Nat \ {0}
  /\ MaxPayload + Overhead <= StartMTU
  /\ InitialMTUs \in Nat \ {0}
  /\ PeerWindow \in Nat /\ PeerWindow >= MaxPayload
  /\ MaxWindow \in Nat
  /\ Messages \subseteq Seq(1..MaxPayload) \ {<<>>}

ASSUME CountsAssumption ==
  /\ FastRetryGap \in 2..253
  /\ MaxTicks \in Nat /\ MaxTsn \in Nat /\ MaxCredits \in Nat
  /\ HeartbeatTimer \in BOOLEAN /\ TransportBlocks \in BOOLEAN

(* A gap ack block: two 16 bit offsets from the cumulative TSN. *)
Block == [first: 0..65535, last: 0..65535]

ASSUME GapListsAssumption == GapLists \subseteq Seq(Block)

VARIABLES
  outtsn,                 \* the TSN the next DATA chunk takes
  pendingQueue,           \* packets sent and not cumulatively acknowledged
  pendingByteCount,
  holdingQueue,           \* packets waiting for credits, never sent
  holdingByteCount,
  receiverCredits,        \* what is left of the peer's window
  senderCredits,          \* what is left of the congestion window
  congestionWindowSize,
  SSTHRESH,
  PARTIAL_BYTES_ACKED,
  FastRetransmitExitPoint,\* the TSN that ends fast recovery, 0 outside it
  T3running,              \* T3RTXTIME # 0
  timervalue,             \* heartbeat ticks since the peer was last heard
  state,                  \* "connected" (2) or "closed"
  at,                     \* control point of the holder of the Lock
  frame,                  \* local variables of the handler under the Lock
  fragments,              \* what ILibStun_SctpSendData has still to send
  callback,               \* the chain thread's OnSendOK: "none", "due", "running"
  rpacket,                \* TSNs merged in the answer to the inbound packet
  wire,                   \* TSNs given to ILibStun_SendSctpPacket
  toldToWait              \* the application was last told INCOMPLETE

queues     == <<pendingQueue, pendingByteCount, holdingQueue, holdingByteCount>>
credits    == <<receiverCredits, senderCredits>>
congestion == <<congestionWindowSize, SSTHRESH, PARTIAL_BYTES_ACKED,
                FastRetransmitExitPoint>>
timers     == <<T3running, timervalue, state>>
control    == <<at, frame, fragments>>
output     == <<callback, rpacket, wire, toldToWait>>
vars == <<outtsn, queues, credits, congestion, timers, control, output>>

-----------------------------------------------------------------------------
(* The gap counter of a packet has two values with a meaning of their own. *)
GapAcked   == 254                 \* 0xFE: received by the peer out of order
Retransmit == 255                 \* 0xFF: to be sent again
GapCap     == 253

Packet == [tsn: Nat \ {0}, size: 1..MaxPayload, gap: 0..255]

(* A packet with its headers. *)
FullSize(p) == p.size + Overhead
Marked(p, gap) == [tsn |-> p.tsn, size |-> p.size, gap |-> gap]
Mark(queue, i, gap) == [queue EXCEPT ![i] = Marked(queue[i], gap)]
MinimumOf(a, b) == IF a <= b THEN a ELSE b
(* (Fault: no floor.) *)
FirstOf(a, b) == a
MaximumOf(a, b) == IF a >= b THEN a ELSE b
SmallestWindow == InitialMTUs * StartMTU

(* The first TSN that was never sent. *)
NextUnsent == IF holdingQueue = <<>> THEN outtsn ELSE Head(holdingQueue).tsn

(* Locals of the SACK chunk and of ILibStun_SctpResent: the cumulative TSN *)
(* and gap blocks of the chunk, cumulativeTSNAdvanced, pbc, GapAckPtr, the *)
(* queue entry under examination, FastRetryDisabled, lastTSNX and whether  *)
(* oldHoldCount > 0.                                                       *)
Frame == [cum: Nat, gaps: Seq(Block), advanced: Nat, pbc: Int,
          block: Nat \ {0}, entry: Nat \ {0}, resent: BOOLEAN, last: Nat,
          held: BOOLEAN]

NoFrame == [cum |-> 0, gaps |-> <<>>, advanced |-> 0, pbc |-> 0,
            block |-> 1, entry |-> 1, resent |-> FALSE, last |-> 0,
            held |-> FALSE]

Init ==
  /\ outtsn = 1
  /\ pendingQueue = <<>> /\ pendingByteCount = 0
  /\ holdingQueue = <<>> /\ holdingByteCount = 0
  /\ receiverCredits = PeerWindow
  /\ senderCredits = SmallestWindow
  /\ congestionWindowSize = SmallestWindow
  /\ SSTHRESH = SmallestWindow
  /\ PARTIAL_BYTES_ACKED = 0
  /\ FastRetransmitExitPoint = 0
  /\ T3running = FALSE /\ timervalue = 0 /\ state = "connected"
  /\ at = "free" /\ frame = NoFrame /\ fragments = <<>>
  /\ callback = "none" /\ rpacket = {} /\ wire = {} /\ toldToWait = FALSE

-----------------------------------------------------------------------------
(* ILibSCTP_SendEx takes the Lock: a message becomes one or more fragments. *)
SendEx(message) ==
  /\ at = "free" /\ state = "connected"
  /\ outtsn + Len(message) - 1 <= MaxTsn
  /\ at' = IF Len(message) = 1 THEN "whole" ELSE "part"
  /\ fragments' = message
  /\ UNCHANGED <<outtsn, queues, credits, congestion, timers, frame, output>>

(* The end of one turn of the loop of ILibStun_SctpSendData: after the last *)
(* fragment the Lock is free and the application learns how that one went.  *)
(* (Fault: the Lock is kept.)                                               *)
FragmentDoneLocked(incomplete) ==
  /\ fragments' = Tail(fragments)
  /\ at' = at
  /\ toldToWait' = IF Tail(fragments) = <<>> THEN incomplete ELSE toldToWait
FragmentDone(incomplete) ==
  /\ fragments' = Tail(fragments)
  /\ at' = IF Tail(fragments) = <<>> THEN "free" ELSE at
  /\ toldToWait' = IF Tail(fragments) = <<>> THEN incomplete ELSE toldToWait

Sending == at \in {"whole", "part"}

(* Whether a fragment has to wait.  (Faults: the peer's window is not       *)
(* looked at; a packet may overtake those that wait.)                       *)
NoSenderCredits(size) == senderCredits < size \/ holdingQueue # <<>>
NoCredits(size) == receiverCredits < size \/ senderCredits < size
OutOfCredits(size) ==
  \/ receiverCredits < size
  \/ senderCredits < size
  \/ holdingQueue # <<>>

(* ILibStun_SctpSendDataEx without credits, or behind a packet that waits. *)
HoldFragment ==
  /\ Sending
  /\ OutOfCredits(Head(fragments))
  /\ holdingQueue' = Append(holdingQueue,
                            [tsn |-> outtsn, size |-> Head(fragments), gap |-> 0])
  /\ holdingByteCount' = holdingByteCount + Head(fragments)
  /\ outtsn' = outtsn + 1
  /\ FragmentDone(TRUE)
  /\ UNCHANGED <<pendingQueue, pendingByteCount, credits, congestion, timers,
                 frame, callback, rpacket, wire>>

(* A message of one fragment sent while the chain thread is in a callback  *)
(* of an inbound packet joins the answer to that packet if it fits in it.  *)
MayMerge == callback # "none" /\ at = "whole"

(* ILibStun_SctpSendDataEx with credits.  'blocked': ILibStun_SendDtls     *)
(* finds bytes pending on the TURN connection, drops the packet and says   *)
(* INCOMPLETE.                                                             *)
SendFragment(merged, blocked) ==
  /\ Sending
  /\ ~OutOfCredits(Head(fragments))
  /\ merged => MayMerge
  /\ blocked => TransportBlocks /\ ~merged
  /\ pendingQueue' = Append(pendingQueue,
                            [tsn |-> outtsn, size |-> Head(fragments), gap |-> 0])
  /\ pendingByteCount' = pendingByteCount + Head(fragments)
  /\ receiverCredits' = receiverCredits - Head(fragments)
  /\ senderCredits' = senderCredits - Head(fragments)
  /\ outtsn' = outtsn + 1
  /\ T3running' = TRUE
  /\ rpacket' = IF merged THEN rpacket \union {outtsn} ELSE rpacket
  /\ wire' = IF merged \/ blocked THEN wire ELSE wire \union {outtsn}
  /\ FragmentDone(blocked)
  /\ UNCHANGED <<holdingQueue, holdingByteCount, congestion, timervalue, state,
                 frame, callback>>

-----------------------------------------------------------------------------
(* The SACK chunk, first part: leave fast recovery once its exit point is  *)
(* acknowledged.  The chain thread is not inside a callback.               *)
ReceiveSack(cum, gaps) ==
  /\ at = "free" /\ callback = "none" /\ state = "connected"
  /\ at' = "cumulative"
  /\ frame' = [NoFrame EXCEPT !.cum = cum, !.gaps = gaps,
                              !.pbc = pendingByteCount]
  /\ FastRetransmitExitPoint' =
       IF cum >= FastRetransmitExitPoint THEN 0 ELSE FastRetransmitExitPoint
  /\ UNCHANGED <<outtsn, queues, credits, congestionWindowSize, SSTHRESH,
                 PARTIAL_BYTES_ACKED, timers, fragments, output>>

Acknowledged == pendingQueue # <<>> /\ Head(pendingQueue).tsn <= frame.cum

(* One packet is acknowledged cumulatively and leaves the pending queue. *)
ClearAcknowledged ==
  /\ at = "cumulative" /\ Acknowledged
  /\ pendingQueue' = Tail(pendingQueue)
  /\ pendingByteCount' = pendingByteCount - Head(pendingQueue).size
  /\ frame' = [frame EXCEPT !.advanced = @ + Head(pendingQueue).size]
  /\ timervalue' = 0
  /\ UNCHANGED <<outtsn, holdingQueue, holdingByteCount, credits, congestion,
                 T3running, state, at, fragments, output>>

(* The acknowledged bytes go back to both windows, the T3 timer restarts or *)
(* stops, and the congestion window grows: slow start by what was           *)
(* acknowledged, up to one MTU; congestion avoidance by one MTU each time a *)
(* whole window was acknowledged while the window was full.                 *)
BytesAcked == IF pendingQueue = <<>> THEN 0 ELSE PARTIAL_BYTES_ACKED + frame.advanced

SlowStart ==
  /\ congestionWindowSize <= SSTHRESH
  /\ FastRetransmitExitPoint = 0
  /\ frame.advanced # 0
  /\ congestionWindowSize < MaxWindow

CongestionAvoidance ==
  /\ ~SlowStart
  /\ congestionWindowSize > SSTHRESH
  /\ BytesAcked >= congestionWindowSize
  /\ frame.pbc >= congestionWindowSize

CreditAcknowledged ==
  /\ at = "cumulative" /\ ~Acknowledged
  /\ receiverCredits' = receiverCredits + frame.advanced
  /\ senderCredits' =
       IF pendingQueue = <<>> THEN congestionWindowSize
       ELSE IF frame.advanced = 0 THEN senderCredits
       ELSE MinimumOf(senderCredits + frame.advanced, congestionWindowSize)
  /\ T3running' = (pendingQueue # <<>> /\ (T3running \/ frame.advanced > 0))
  /\ congestionWindowSize' =
       IF SlowStart THEN congestionWindowSize + MinimumOf(frame.advanced, StartMTU)
       ELSE IF CongestionAvoidance THEN congestionWindowSize + StartMTU
       ELSE congestionWindowSize
  /\ PARTIAL_BYTES_ACKED' =
       IF CongestionAvoidance THEN BytesAcked - congestionWindowSize'
       ELSE BytesAcked
  /\ at' = "gaps"
  /\ UNCHANGED <<outtsn, queues, SSTHRESH, FastRetransmitExitPoint, timervalue,
                 state, frame, fragments, output>>

-----------------------------------------------------------------------------
(* The walk over the pending queue with the gap ack blocks: two cursors,   *)
(* both only move forward.                                                 *)
Walking == /\ at = "gaps"
           /\ frame.entry <= Len(pendingQueue)
           /\ frame.block <= Len(frame.gaps)

Current    == pendingQueue[frame.entry]
BlockFirst == frame.cum + frame.gaps[frame.block].first
BlockLast  == frame.cum + frame.gaps[frame.block].last
Covered    == Walking /\ Current.tsn <= BlockLast
(* (Fault: the packet before a block counts as in it.) *)
MissingButOne == Covered /\ Current.tsn < BlockFirst - 1
Missing    == Covered /\ Current.tsn < BlockFirst

(* The gap counter of a packet that the peer reports missing once more.    *)
(* A packet reported received before starts again: the peer dropped it.    *)
Counter == IF Current.gap < GapAcked THEN MinimumOf(Current.gap + 1, GapCap)
           ELSE IF Current.gap = GapAcked THEN 1
           ELSE Retransmit

Lost == FastRetryGap <= Counter /\ Counter < GapAcked

NextEntry(gap, extra) ==
  /\ pendingQueue' = Mark(pendingQueue, frame.entry, gap)
  /\ frame' = [extra EXCEPT !.entry = frame.entry + 1]
  /\ UNCHANGED <<outtsn, pendingByteCount, holdingQueue, holdingByteCount,
                 receiverCredits, timervalue, state, at, fragments, callback,
                 rpacket, toldToWait>>

(* Received out of order, reported for the first time or once more. *)
GapAcknowledge ==
  /\ Covered /\ ~Missing
  /\ LET credit == IF Current.gap = GapAcked THEN 0 ELSE Current.size IN
       /\ senderCredits' = senderCredits + credit
       /\ PARTIAL_BYTES_ACKED' = PARTIAL_BYTES_ACKED + credit
  /\ NextEntry(GapAcked, frame)
  /\ UNCHANGED <<congestionWindowSize, SSTHRESH, FastRetransmitExitPoint,
                 T3running, wire>>

CountMissing ==
  /\ Missing /\ Counter < FastRetryGap
  /\ NextEntry(Counter, frame)
  /\ UNCHANGED <<senderCredits, congestion, T3running, wire>>

(* The first packet found lost is sent at once, whatever the credits; the  *)
(* window is halved unless fast recovery is under way.                     *)
FastRetransmit ==
  /\ Missing /\ Lost /\ ~frame.resent
  /\ IF FastRetransmitExitPoint = 0
     THEN /\ SSTHRESH' = MaximumOf(congestionWindowSize \div 2, SmallestWindow)
          /\ congestionWindowSize' = SSTHRESH'
          /\ senderCredits' = MinimumOf(senderCredits, SSTHRESH')
          /\ PARTIAL_BYTES_ACKED' = 0
     ELSE UNCHANGED <<SSTHRESH, congestionWindowSize, senderCredits,
                      PARTIAL_BYTES_ACKED>>
  /\ T3running' = TRUE
  /\ wire' = wire \union {Current.tsn}
  /\ NextEntry(Retransmit, [frame EXCEPT !.resent = TRUE, !.last = Current.tsn])
  /\ UNCHANGED FastRetransmitExitPoint

(* The others found lost are sent if the window has room for them. *)
MarkLost ==
  /\ Missing /\ Lost /\ frame.resent
  /\ IF senderCredits >= FullSize(Current)
     THEN /\ senderCredits' = senderCredits - Current.size
          /\ T3running' = TRUE
          /\ wire' = wire \union {Current.tsn}
     ELSE UNCHANGED <<senderCredits, T3running, wire>>
  /\ NextEntry(Retransmit, [frame EXCEPT !.last = Current.tsn])
  /\ UNCHANGED congestion

(* A packet marked earlier is sent again, each time there is room for it. *)
RetransmitMarked ==
  /\ Missing /\ Counter = Retransmit
  /\ IF senderCredits >= FullSize(Current)
     THEN /\ senderCredits' = senderCredits - FullSize(Current)
          /\ wire' = wire \union {Current.tsn}
     ELSE UNCHANGED <<senderCredits, wire>>
  /\ NextEntry(Retransmit, frame)
  /\ UNCHANGED <<congestion, T3running>>

NextBlock ==
  /\ Walking /\ ~Covered
  /\ frame' = [frame EXCEPT !.block = @ + 1]
  /\ UNCHANGED <<outtsn, queues, credits, congestion, timers, at, fragments, output>>

(* (Fault: that packets were held before the flush is not remembered.)     *)
EndGapsForgets ==
  /\ at = "gaps" /\ ~Walking
  /\ FastRetransmitExitPoint' =
       IF FastRetransmitExitPoint = 0 THEN frame.last ELSE FastRetransmitExitPoint
  /\ at' = "flush"
  /\ UNCHANGED <<outtsn, queues, credits, congestionWindowSize, SSTHRESH,
                 PARTIAL_BYTES_ACKED, timers, frame, fragments, output>>

(* The last packet found lost ends fast recovery once it is acknowledged.  *)
EndGaps ==
  /\ at = "gaps" /\ ~Walking
  /\ FastRetransmitExitPoint' =
       IF FastRetransmitExitPoint = 0 THEN frame.last ELSE FastRetransmitExitPoint
  /\ frame' = [frame EXCEPT !.held = (holdingQueue # <<>>)]
  /\ at' = "flush"
  /\ UNCHANGED <<outtsn, queues, credits, congestionWindowSize, SSTHRESH,
                 PARTIAL_BYTES_ACKED, timers, fragments, output>>

-----------------------------------------------------------------------------
(* The credits just gained let packets move from the holding queue.        *)
(* (Fault: only while the T3 timer runs.)                                  *)
CanFlushInFlight == /\ holdingQueue # <<>> /\ T3running
                    /\ receiverCredits >= Head(holdingQueue).size
                    /\ senderCredits >= Head(holdingQueue).size
CanFlush == /\ holdingQueue # <<>>
            /\ receiverCredits > 0
            /\ receiverCredits >= Head(holdingQueue).size
            /\ senderCredits >= Head(holdingQueue).size

FlushOne ==
  /\ at = "flush" /\ CanFlush
  /\ LET p == Head(holdingQueue) IN
       /\ holdingQueue' = Tail(holdingQueue)
       /\ holdingByteCount' = holdingByteCount - p.size
       /\ pendingQueue' = Append(pendingQueue, p)
       /\ pendingByteCount' = pendingByteCount + p.size
       /\ senderCredits' = senderCredits - p.size
       /\ receiverCredits' = receiverCredits - p.size
       /\ wire' = wire \union {p.tsn}
  /\ T3running' = TRUE
  /\ UNCHANGED <<outtsn, congestion, timervalue, state, control, callback,
                 rpacket, toldToWait>>

(* The Lock is given back for the OnSendOK callback if the holding queue   *)
(* drained in this call, otherwise the packet is finished.                 *)
EndSack ==
  /\ at = "flush" /\ ~CanFlush
  /\ callback' = IF frame.held /\ holdingQueue = <<>> THEN "due" ELSE "none"
  /\ at' = "free" /\ frame' = NoFrame
  /\ UNCHANGED <<outtsn, queues, credits, congestion, timers, fragments,
                 rpacket, wire, toldToWait>>

CallOnSendOK ==
  /\ callback = "due"
  /\ callback' = "running" /\ toldToWait' = FALSE
  /\ UNCHANGED <<outtsn, queues, credits, congestion, timers, control, rpacket, wire>>

(* The callback returned: the chain thread takes the Lock again and sends  *)
(* the answer with whatever was merged in it meanwhile.                    *)
ReturnOnSendOK ==
  /\ callback = "running" /\ at = "free"
  /\ callback' = "none"
  /\ wire' = wire \union rpacket /\ rpacket' = {}
  /\ UNCHANGED <<outtsn, queues, credits, congestion, timers, control, toldToWait>>

-----------------------------------------------------------------------------
(* ILibStun_SctpOnTimeout on the chain thread: the session is closed after *)
(* MaxTicks ticks without an answer; before that, a tick that finds T3     *)
(* expired starts to resend (ILibStun_SctpResent).                         *)
Tick ==
  /\ at = "free" /\ callback = "none" /\ state = "connected"
  /\ HeartbeatTimer
  /\ timervalue' = timervalue + 1

OnTimeout ==
  /\ Tick /\ timervalue' < MaxTicks
  /\ UNCHANGED <<outtsn, queues, credits, congestion, T3running, state, control, output>>

OnTimeoutExpired ==
  /\ Tick /\ timervalue' < MaxTicks
  /\ T3running /\ pendingQueue # <<>>
  /\ at' = "resend" /\ T3running' = FALSE
  /\ senderCredits' = StartMTU
  /\ SSTHRESH' = MaximumOf(congestionWindowSize \div 2, SmallestWindow)
  /\ congestionWindowSize' = StartMTU
  /\ UNCHANGED <<outtsn, queues, receiverCredits, PARTIAL_BYTES_ACKED,
                 FastRetransmitExitPoint, state, frame, fragments, output>>

OnTimeoutGiveUp ==
  /\ Tick /\ timervalue' >= MaxTicks
  /\ state' = "closed"
  /\ UNCHANGED <<outtsn, queues, credits, congestion, T3running, control, output>>

(* Each pending packet that was not gap acknowledged is sent again while   *)
(* the reset window has room, or marked for later.                         *)
ResendOne ==
  /\ at = "resend" /\ frame.entry <= Len(pendingQueue)
  /\ frame' = [frame EXCEPT !.entry = @ + 1]
  /\ \/ /\ Current.gap = GapAcked
        /\ UNCHANGED <<pendingQueue, senderCredits, T3running, wire>>
     \/ /\ Current.gap # GapAcked /\ senderCredits >= FullSize(Current)
        /\ pendingQueue' = Mark(pendingQueue, frame.entry, 0)
        /\ senderCredits' = senderCredits - FullSize(Current)
        /\ T3running' = TRUE
        /\ wire' = wire \union {Current.tsn}
     \/ /\ Current.gap # GapAcked /\ senderCredits < FullSize(Current)
        /\ pendingQueue' = Mark(pendingQueue, frame.entry, Retransmit)
        /\ UNCHANGED <<senderCredits, T3running, wire>>
  /\ UNCHANGED <<outtsn, pendingByteCount, holdingQueue, holdingByteCount,
                 receiverCredits, congestion, timervalue, state, at, fragments,
                 callback, rpacket, toldToWait>>

EndResend ==
  /\ at = "resend" /\ frame.entry > Len(pendingQueue)
  /\ at' = "free" /\ frame' = NoFrame
  /\ UNCHANGED <<outtsn, queues, credits, congestion, timers, fragments, output>>

(* A HEARTBEAT or its acknowledgement shows that the peer is alive. *)
ReceiveHeartbeat ==
  /\ at = "free" /\ callback = "none" /\ state = "connected"
  /\ timervalue > 0
  /\ timervalue' = 0
  /\ UNCHANGED <<outtsn, queues, credits, congestion, T3running, state, control, output>>

-----------------------------------------------------------------------------
Application == \E message \in Messages : SendEx(message)

UserStep ==
  \/ HoldFragment
  \/ \E merged, blocked \in BOOLEAN : SendFragment(merged, blocked)

SackStep ==
  \/ ClearAcknowledged \/ CreditAcknowledged
  \/ GapAcknowledge \/ CountMissing \/ FastRetransmit \/ MarkLost
  \/ RetransmitMarked \/ NextBlock \/ EndGaps
  \/ FlushOne \/ EndSack

CallbackStep == CallOnSendOK \/ ReturnOnSendOK

TimerStep == OnTimeout \/ OnTimeoutExpired \/ OnTimeoutGiveUp \/ ResendOne \/ EndResend

(* Any peer: a SACK names a cumulative TSN that was sent, and gap blocks.  *)
(* It may be late, and it may take back what an earlier one reported.      *)
PeerStep ==
  \/ \E cum \in 0..(NextUnsent - 1), gaps \in GapLists :
       /\ senderCredits <= MaxCredits /\ PARTIAL_BYTES_ACKED <= MaxCredits
       /\ ReceiveSack(cum, gaps)
  \/ ReceiveHeartbeat

Next == Application \/ UserStep \/ SackStep \/ CallbackStep \/ TimerStep \/ PeerStep

Spec == Init /\ [][Next]_vars

-----------------------------------------------------------------------------
QueuesType ==
  /\ outtsn \in Nat \ {0}
  /\ pendingQueue \in Seq(Packet) /\ holdingQueue \in Seq(Packet)
  /\ pendingByteCount \in Int /\ holdingByteCount \in Int

WindowsType ==
  /\ receiverCredits \in Int /\ senderCredits \in Int
  /\ congestionWindowSize \in Nat /\ SSTHRESH \in Nat
  /\ PARTIAL_BYTES_ACKED \in Int
  /\ FastRetransmitExitPoint \in Nat

TimersType ==
  /\ T3running \in BOOLEAN /\ timervalue \in Nat
  /\ state \in {"connected", "closed"}

ControlType ==
  /\ at \in {"free", "whole", "part", "cumulative", "gaps", "flush", "resend"}
  /\ frame \in Frame
  /\ fragments \in Seq(1..MaxPayload)
  /\ Sending <=> fragments # <<>>

OutputType ==
  /\ callback \in {"none", "due", "running"}
  /\ rpacket \subseteq Nat /\ wire \subseteq Nat
  /\ toldToWait \in BOOLEAN

(* TYPE: the variables keep the shape the session structure gives them.    *)
TypeOK == QueuesType /\ WindowsType /\ TimersType /\ ControlType /\ OutputType

(* The peer's window is never overrun, and never shrinks: every byte taken *)
(* from receiverCredits when a packet is sent is either still pending or   *)
(* given back by the SACK that cleared it, through retransmission, fast    *)
(* recovery and both queues.                                               *)
WindowConserved ==
  /\ receiverCredits >= 0
  /\ receiverCredits + pendingByteCount
       + (IF at = "cumulative" THEN frame.advanced ELSE 0) = PeerWindow

(* The packets of a queue have consecutive TSNs from first on. *)
TsnRun(queue, first) == \A i \in 1..Len(queue) : queue[i].tsn = first + i - 1

(* No packet is lost, duplicated or overtaken on its way through the two   *)
(* queues: pending then holding are consecutive TSNs that end just below   *)
(* outtsn.                                                                 *)
ConsecutiveTsns ==
  /\ TsnRun(holdingQueue, outtsn - Len(holdingQueue))
  /\ TsnRun(pendingQueue, outtsn - Len(holdingQueue) - Len(pendingQueue))

(* The sender never waits for a peer that has nothing to acknowledge: with *)
(* the Lock free, packets are held back only while others are pending,     *)
(* since only a SACK empties the holding queue.                            *)
NoStall == at = "free" /\ holdingQueue # <<>> => pendingQueue # <<>>

(* The windows keep their floors: a full packet always fits in the         *)
(* congestion window after a timeout, and credits never go negative.       *)
WindowFloors ==
  /\ senderCredits >= 0
  /\ congestionWindowSize >= StartMTU
  /\ SSTHRESH >= SmallestWindow

(* An application told INCOMPLETE has an OnSendOK call coming: something   *)
(* is still held, or the call is on its way.                               *)
SendOKComes ==
  toldToWait => \/ holdingQueue # <<>>
                \/ at = "flush" /\ frame.held
                \/ callback = "due"
=============================================================================
