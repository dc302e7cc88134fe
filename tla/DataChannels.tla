------------------------------ MODULE DataChannels ------------------------------
(***************************************************************************)
(* The data channels of one connected session: the attributes ILibWebRTC.c *)
(* keeps of each stream (DataChannelMetaDeta), the table of channel        *)
(* objects of ILibWrapperWebRTC.c, the DCEP messages that open channels    *)
(* and the RECONFIG chunks (RFC 6525) that close them.                     *)
(*                                                                         *)
(* User data travels through SCTP, which delivers it in order and once;    *)
(* RECONFIG chunks travel in packets that overtake each other and the data *)
(* and get lost, that is, are never handled.  The peer keeps to RFC 6525   *)
(* and RFC 8831: it resets its outgoing stream once for each channel,      *)
(* repeats the request until it is answered, and uses a stream again when  *)
(* both directions are reset.                                              *)
(*                                                                         *)
(* The attributes are under the session's Lock, the objects under the lock *)
(* of their table, and no code holds both: the chain thread releases the   *)
(* Lock around each callback, and the thread that creates a channel        *)
(* enters the object, the attributes and the DCEP message one by one.  The *)
(* application creates one channel at a time, and uses no object that was  *)
(* taken from the table.                                                   *)
(*                                                                         *)
(* Channels are numbered in the order they are opened.  The program has    *)
(* only stream ids; the numbers that travel along with them are the        *)
(* model's, to tell a channel from the next one on its stream.             *)
(***************************************************************************)
EXTENDS Integers, Sequences, FiniteSets

CONSTANTS
  Own,          \* the stream id ILibWrapper_GetNextStreamId returns
  Theirs,       \* streams the peer opens channels on
  MaxChannels,  \* bound on the channels opened
  MaxWrites,    \* bound on the messages the peer writes to channels
  MaxAsks,      \* bound on the reset requests the peer sends
  MaxCloses,    \* bound on the closes the application asks for
  InFlight,     \* bound on the RECONFIG chunks under way in each direction
  RtoMin, RtoMax

Streams == {Own} \union Theirs

ASSUME ChannelAssumption ==
  /\ MaxChannels \in Nat \ {0} /\ MaxWrites \in Nat /\ MaxAsks \in Nat
  /\ MaxCloses \in Nat /\ InFlight \in Nat \ {0}
  /\ RtoMin \in Nat \ {0} /\ RtoMax \in Nat
  /\ Own \notin Theirs

VARIABLES
  supported,   \* ILibSCTP_DoesPeerSupportFeature(RECONFIG): its INIT said so
  attributes,  \* DataChannelMetaDeta: status and channel of each stream
  DataChannels, \* the channel object of each stream, 0 if none
  opened,      \* channels opened so far
  closes,      \* closes the application asked for so far
  creating,    \* the call that creates a channel: what it has entered, and which channel
  chain,       \* the chain thread: the callback it is at, and for which stream and channel
  rpacket,     \* the answer it sends when the callback has returned
  RREQSEQ,     \* the next request sequence number
  pending,     \* pendingReconfigPacket: none, a close of our own (of a peer that
               \* cannot do it: nothing is written there), or a deferred one
  reconfigFailures,
  timer,       \* ILibWebRTC_CloseDataChannel_Timeout is in the list
  arriving,    \* user data sent by the peer, before userTSN moves past it
  userTSN,     \* user data delivered
  sending,     \* user data the peer has not had yet
  toPeer, toUs, \* RECONFIG chunks under way
  peer,        \* what the peer knows of each stream
  early,       \* channels it heard closed before the message that opens them
  writes, asks, \* messages and reset requests of the peer so far
  performed,   \* channels whose reset was answered with Success_Performed
  unaware,     \* channels closed by a response before the peer knew
  taken,       \* channels whose object the close of another channel removed
  heap         \* "crashed" once NULL was used, "undefined" once what was freed
               \* or never written was

local   == <<attributes, DataChannels, opened, closes, creating>>
thread  == <<chain, rpacket>>
closing == <<RREQSEQ, pending, reconfigFailures, timer>>
data    == <<arriving, userTSN, sending>>
theirs  == <<peer, early, writes, asks>>
history == <<performed, unaware, taken>>
vars == <<supported, local, thread, closing, data, toPeer, toUs, theirs, history, heap>>

Channels == 1..MaxChannels
Free == [status |-> "none", channel |-> 0]
NoPeer == [channel |-> 0, in |-> "up", out |-> "up", tsn |-> 0]
Nothing == [kind |-> "none"]
NoCreate == [at |-> "none", channel |-> 0]
At(where, s, n) == [at |-> where, stream |-> s, channel |-> n]
Idle == At("idle", Own, 0)

Init ==
  /\ supported \in BOOLEAN
  /\ attributes = [s \in Streams |-> Free]
  /\ DataChannels = [s \in Streams |-> 0]
  /\ opened = 0 /\ closes = 0 /\ RREQSEQ = 1
  /\ creating = NoCreate /\ chain = Idle /\ rpacket = {}
  /\ pending = Nothing /\ reconfigFailures = 0 /\ timer = FALSE
  /\ arriving = <<>> /\ userTSN = 0 /\ sending = <<>>
  /\ toPeer = {} /\ toUs = {}
  /\ peer = [s \in Streams |-> NoPeer]
  /\ early = {} /\ writes = 0 /\ asks = 0
  /\ performed = {} /\ unaware = {} /\ taken = {} /\ heap = "ok"

-----------------------------------------------------------------------------
(* RECONFIG chunks.  A close asks for both directions, with two sequence   *)
(* numbers; an answer to the peer's request carries our own outgoing       *)
(* request with it.  An answer that the peer's data is still missing       *)
(* changes nothing for the peer, and is left out.                          *)
Requests(seq, s, n) == [type |-> "close", seq |-> seq, stream |-> s, channel |-> n]
Answer(n, result, seq, s) ==
  [type |-> "answer", to |-> n, result |-> result, seq |-> seq, stream |-> s]
Response(seq) == [type |-> "response", seq |-> seq]
Outgoing(s, n, tsn) == [type |-> "outgoing", stream |-> s, channel |-> n, tsn |-> tsn]
Incoming(s, n) == [type |-> "incoming", stream |-> s, channel |-> n]

(* A chunk more; one gets lost when there are too many. *)
Sent(flight, c) ==
  LET all == flight \union {c} IN
  IF Cardinality(all) <= InFlight THEN {all} ELSE {all \ {lost} : lost \in all}

Message(type, s, n) == [type |-> type, stream |-> s, channel |-> n]

(* What a close has to send: nothing, and nothing is written either, when  *)
(* the peer does not support it.                                           *)
Chunk(s, n) ==
  IF supported THEN [kind |-> "own", stream |-> s, channel |-> n, seq |-> RREQSEQ + 1]
               ELSE [kind |-> "unwritten", stream |-> s, channel |-> n]

(* (Fault: the first retry is not scheduled.) *)
CloseUnarmed(s, n) ==
  /\ pending' = Chunk(s, n) /\ reconfigFailures' = 0
  /\ RREQSEQ' = IF supported THEN RREQSEQ + 2 ELSE RREQSEQ
  /\ toPeer' \in IF supported THEN Sent(toPeer, Requests(RREQSEQ, s, n)) ELSE {toPeer}
  /\ UNCHANGED timer

(* (Fault: both requests get the same number.) *)
CloseOneNumber(s, n) ==
  /\ pending' = Chunk(s, n) /\ reconfigFailures' = 0 /\ timer' = supported
  /\ RREQSEQ' = IF supported THEN RREQSEQ + 1 ELSE RREQSEQ
  /\ toPeer' \in IF supported THEN Sent(toPeer, Requests(RREQSEQ, s, n)) ELSE {toPeer}

(* ILibWebRTC_CloseDataChannelEx2, the caller holding the Lock.            *)
CloseDataChannelEx2(s, n) ==
  /\ pending' = Chunk(s, n) /\ reconfigFailures' = 0
  /\ timer' = supported
  /\ RREQSEQ' = IF supported THEN RREQSEQ + 2 ELSE RREQSEQ
  /\ toPeer' \in IF supported THEN Sent(toPeer, Requests(RREQSEQ, s, n)) ELSE {toPeer}

(* The attributes of a stream are removed under the Lock; if the channel   *)
(* was open, the chain thread goes on to tell the wrapper without it.      *)
Forget(s) ==
  /\ attributes' = [attributes EXCEPT ![s] = Free]
  /\ chain' = IF attributes[s].status = "assigned"
              THEN At("closing", s, attributes[s].channel) ELSE Idle
  /\ UNCHANGED <<DataChannels, opened, closes, creating>>

(* ILibWebRTC_PropagateChannelClose takes the packet for a deferred reset  *)
(* when the second byte of its address, which is malloc's choice, is 0xFF, *)
(* and returns NULL, which is used.                                        *)
PropagateChannelClose(s) ==
  \E Flags \in {"0xFF", "other"} :
    IF Flags = "0xFF" THEN heap' = "crashed" /\ UNCHANGED <<local, chain>>
    ELSE Forget(s) /\ UNCHANGED heap

(* (Fault: the channel object stays in the table.) *)
ClosedOnly ==
  /\ chain.at = "closing"
  /\ chain' = IF rpacket = {} THEN Idle ELSE [chain EXCEPT !.at = "closed"]
  /\ UNCHANGED <<local, rpacket, closing, data, toPeer, toUs, theirs, history, heap>>

(* ILibWrapper_WebRTC_OnDataChannelClosed: whatever object the table has   *)
(* for the stream is removed, and its application told.                    *)
OnDataChannelClosed ==
  /\ chain.at = "closing"
  /\ DataChannels' = [DataChannels EXCEPT ![chain.stream] = 0]
  /\ taken' = taken \union ({DataChannels[chain.stream]} \ {0, chain.channel})
  /\ chain' = IF rpacket = {} THEN Idle ELSE [chain EXCEPT !.at = "closed"]
  /\ UNCHANGED <<attributes, opened, closes, creating, rpacket, closing, data, toPeer, toUs,
                 theirs, performed, unaware, heap>>

(* The callback returned, and the handler of the peer's reset sends its    *)
(* answer.                                                                 *)
SendAnswer ==
  /\ chain.at = "closed"
  /\ \E c \in rpacket : toPeer' \in Sent(toPeer, c)
  /\ rpacket' = {} /\ chain' = Idle
  /\ UNCHANGED <<local, closing, data, toUs, theirs, history, heap>>

-----------------------------------------------------------------------------
(* The application. *)

(* ILibWrapper_WebRTC_DataChannel_Create: the object, under the lock of    *)
(* the table.  ILibWrapper_GetNextStreamId stops at the first id, whether  *)
(* it is free or not.                                                      *)
Create ==
  /\ creating = NoCreate /\ opened < MaxChannels
  /\ opened' = opened + 1
  /\ DataChannels' = [DataChannels EXCEPT ![Own] = opened']
  /\ creating' = [at |-> "object", channel |-> opened']
  /\ UNCHANGED <<attributes, closes, thread, closing, data, toPeer, toUs, theirs, history,
                 heap>>

(* ILibWebRTC_OpenDataChannel: the attributes, without the Lock.  The      *)
(* object was used before that, which is undefined if it is gone.          *)
OpenDataChannel ==
  /\ creating.at = "object"
  /\ attributes' = [attributes EXCEPT ![Own] =
                      [status |-> "waiting", channel |-> creating.channel]]
  /\ creating' = [creating EXCEPT !.at = "attributes"]
  /\ heap' \in IF creating.channel \in taken THEN {"ok", "undefined"} ELSE {"ok"}
  /\ UNCHANGED <<DataChannels, opened, closes, thread, closing, data, toPeer, toUs, theirs,
                 history>>

(* ... and the DCEP message, by ILibSCTP_SendEx. *)
SendOpen ==
  /\ creating.at = "attributes"
  /\ sending' = Append(sending, Message("open", Own, creating.channel))
  /\ creating' = NoCreate
  /\ UNCHANGED <<attributes, DataChannels, opened, closes, thread, closing, arriving, userTSN,
                 toPeer, toUs, theirs, history, heap>>

(* ILibWrapper_WebRTC_DataChannel_Close: does nothing while another close  *)
(* or a deferred reset is pending, and does not say so.                    *)
Close(s) ==
  /\ DataChannels[s] \notin {0, creating.channel} /\ pending = Nothing /\ closes < MaxCloses
  /\ closes' = closes + 1
  /\ CloseDataChannelEx2(s, DataChannels[s])
  /\ UNCHANGED <<attributes, DataChannels, opened, creating, thread, data, toUs, theirs,
                 history, heap>>

(* ILibWebRTC_CloseDataChannel_Timeout. *)
GivesUp(failures) == RtoMin * 2^failures > RtoMax

CloseDataChannel_Timeout ==
  /\ timer /\ chain = Idle
  /\ IF GivesUp(reconfigFailures + 1)
     THEN /\ PropagateChannelClose(pending.stream)
          /\ pending' = Nothing /\ reconfigFailures' = 0 /\ timer' = FALSE
          /\ UNCHANGED toPeer
     ELSE /\ reconfigFailures' = reconfigFailures + 1
          /\ toPeer' \in Sent(toPeer, Requests(pending.seq - 1, pending.stream,
                                               pending.channel))
          /\ UNCHANGED <<local, chain, pending, timer, heap>>
  /\ UNCHANGED <<rpacket, RREQSEQ, data, toUs, theirs, history>>

-----------------------------------------------------------------------------
(* User data: ILibStun_SctpProcessStreamData. *)

(* (Fault: one message too late.) *)
DueLate(tsn) == pending.kind = "deferred" /\ pending.tsn < tsn

(* Whether a deferred reset is due, once userTSN has come to tsn. *)
Due(tsn) == pending.kind = "deferred" /\ pending.tsn <= tsn

(* The end of a message: a reset that waited for it is taken up.  The code *)
(* closes the stream itself, and the response to that tells the wrapper.   *)
TakeUp(tsn) ==
  IF Due(tsn) THEN CloseDataChannelEx2(pending.stream, pending.channel)
              ELSE UNCHANGED <<closing, toPeer>>

(* What a message does to the attributes; DATA_CHANNEL_OPEN and the first  *)
(* DATA_CHANNEL_ACK, and user data, go on to a callback without the Lock.  *)
Handle(m) ==
  LET s == m.stream IN
  CASE m.type = "ack" /\ attributes[s].status = "waiting" ->
         /\ attributes' = [attributes EXCEPT ![s].status = "assigned"]
         /\ chain' = At("told", s, m.channel)
    [] m.type = "open" /\ attributes[s].status # "assigned" ->
         /\ attributes' = [attributes EXCEPT ![s] =
                             [status |-> "assigned", channel |-> m.channel]]
         /\ chain' = At("opening", s, m.channel)
    [] m.type = "data" -> chain' = At("told", s, m.channel) /\ UNCHANGED attributes
    [] OTHER -> UNCHANGED <<attributes, chain>>

ProcessStreamData ==
  /\ chain = Idle /\ arriving # <<>>
  /\ arriving' = Tail(arriving) /\ userTSN' = userTSN + 1
  /\ Handle(Head(arriving))
  /\ IF chain' = Idle THEN TakeUp(userTSN + 1) ELSE UNCHANGED <<closing, toPeer>>
  /\ UNCHANGED <<DataChannels, opened, closes, creating, rpacket, sending, toUs, theirs,
                 history, heap>>

(* ILibWrapper_WebRTC_OnDataChannel: the object, under the lock of the     *)
(* table; then the application's callback.                                 *)
OnDataChannel ==
  /\ chain.at = "opening"
  /\ DataChannels' = [DataChannels EXCEPT ![chain.stream] =
                        IF @ = 0 THEN chain.channel ELSE @]
  /\ chain' = [chain EXCEPT !.at = "opened"]
  /\ UNCHANGED <<attributes, opened, closes, creating, rpacket, closing, data, toPeer, toUs,
                 theirs, history, heap>>

(* The callback returned: the DATA_CHANNEL_ACK, and the end of the message. *)
EndMessage ==
  /\ chain.at \in {"opened", "told"}
  /\ chain' = Idle
  /\ sending' = IF chain.at = "opened"
                THEN Append(sending, Message("ack", chain.stream, chain.channel)) ELSE sending
  /\ TakeUp(userTSN)
  /\ UNCHANGED <<local, rpacket, arriving, userTSN, toUs, theirs, history, heap>>

-----------------------------------------------------------------------------
(* RECONFIG chunks of the peer: ILibStun_ProcessSctpPacket. *)

(* (Fault: one message early.) *)
PassedSoon(tsn) == tsn <= userTSN + 1

Passed(tsn) == tsn <= userTSN

(* The peer resets its outgoing stream, and all of its data has arrived:   *)
(* the channel is closed here, and reset in the other direction.  The      *)
(* answer is made at once; it is sent when the wrapper was told, or now if *)
(* the channel was not open.                                               *)
ResetNow(c) ==
  /\ chain = Idle
  /\ c \in toUs /\ c.type = "outgoing" /\ Passed(c.tsn)
  /\ Forget(c.stream)
  /\ RREQSEQ' = RREQSEQ + 1
  /\ IF attributes[c.stream].status = "assigned"
     THEN /\ rpacket' = {Answer(c.channel, "performed", RREQSEQ, c.stream)}
          /\ UNCHANGED toPeer
     ELSE /\ toPeer' \in Sent(toPeer, Answer(c.channel, "nop", RREQSEQ, c.stream))
          /\ UNCHANGED rpacket
  /\ toUs' = toUs \ {c}
  /\ performed' = performed \union {c.channel}
  /\ UNCHANGED <<pending, reconfigFailures, timer, data, theirs, unaware, taken, heap>>

(* Data is missing: the reset is deferred if there is place for it, and    *)
(* else denied, or forgotten when another one is deferred.                 *)
Defer(c) ==
  /\ chain = Idle
  /\ c \in toUs /\ c.type = "outgoing" /\ ~Passed(c.tsn)
  /\ toUs' = toUs \ {c}
  /\ pending' = IF pending = Nothing
                THEN [kind |-> "deferred", stream |-> c.stream,
                      channel |-> c.channel, tsn |-> c.tsn]
                ELSE pending
  /\ UNCHANGED <<local, thread, RREQSEQ, reconfigFailures, timer, data, toPeer, theirs,
                 history, heap>>

(* A lone request for our outgoing stream: it is reset, and nothing else   *)
(* happens here.                                                           *)
ResetOutgoing(c) ==
  /\ chain = Idle
  /\ c \in toUs /\ c.type = "incoming"
  /\ toUs' = toUs \ {c}
  /\ RREQSEQ' = RREQSEQ + 1
  /\ toPeer' \in Sent(toPeer, Answer(c.channel, "none", RREQSEQ, c.stream))
  /\ UNCHANGED <<local, thread, pending, reconfigFailures, timer, data, theirs, history,
                 heap>>

Unheard(n) == \E i \in 1..Len(sending) : sending[i].channel = n /\ sending[i].type = "open"

(* The peer knows that we close the channel, or is done with it. *)
Aware(s, n) == IF peer[s].channel = n THEN peer[s].in = "reset"
               ELSE n \in early \/ ~Unheard(n)

(* A response ends the pending close if it answers the last request sent,  *)
(* whatever that was for and whatever its result.                          *)
Matches(seq) == pending.kind \in {"own", "unwritten"} /\ RREQSEQ - 1 = seq

(* (Fault: the retry timer is left running.) *)
RespondOnly(c) ==
  /\ chain = Idle
  /\ c \in toUs /\ c.type = "response"
  /\ toUs' = toUs \ {c}
  /\ IF Matches(c.seq) /\ pending.kind = "own"
     THEN /\ PropagateChannelClose(pending.stream) /\ pending' = Nothing
          /\ UNCHANGED unaware
     ELSE UNCHANGED <<local, chain, pending, unaware, heap>>
  /\ UNCHANGED <<rpacket, RREQSEQ, reconfigFailures, timer, data, toPeer, theirs, performed,
                 taken>>

(* What the pending chunk says is read from it, written or not.            *)
Respond(c) ==
  /\ chain = Idle
  /\ c \in toUs /\ c.type = "response"
  /\ toUs' = toUs \ {c}
  /\ CASE ~Matches(c.seq) -> UNCHANGED <<local, chain, pending, timer, unaware, heap>>
       [] Matches(c.seq) /\ pending.kind = "unwritten" ->
            heap' = "undefined" /\ UNCHANGED <<local, chain, pending, timer, unaware>>
       [] Matches(c.seq) /\ pending.kind = "own" ->
            /\ PropagateChannelClose(pending.stream)
            /\ pending' = Nothing /\ timer' = FALSE
            /\ unaware' = IF Aware(pending.stream, pending.channel) THEN unaware
                          ELSE unaware \union {pending.channel}
  /\ UNCHANGED <<rpacket, RREQSEQ, reconfigFailures, data, toPeer, theirs, performed, taken>>

-----------------------------------------------------------------------------
(* The peer. *)

Settled(p) == IF p.in = "reset" /\ p.out = "reset" THEN NoPeer ELSE p

PeerOpens(s) ==
  /\ s \in Theirs /\ peer[s].channel = 0 /\ opened < MaxChannels
  /\ opened' = opened + 1
  /\ peer' = [peer EXCEPT ![s].channel = opened']
  /\ arriving' = Append(arriving, Message("open", s, opened'))
  /\ UNCHANGED <<attributes, DataChannels, closes, creating, thread, closing, userTSN,
                 sending, toPeer, toUs, early, writes, asks, history, heap>>

PeerWrites(s) ==
  /\ peer[s].channel # 0 /\ peer[s].out = "up" /\ writes < MaxWrites
  /\ writes' = writes + 1
  /\ arriving' = Append(arriving, Message("data", s, peer[s].channel))
  /\ UNCHANGED <<local, thread, closing, userTSN, sending, toPeer, toUs, peer, early, asks,
                 history, heap>>

(* An open for a stream that is still in use is dropped. *)
PeerHears ==
  LET m == Head(sending) IN
  /\ sending # <<>>
  /\ sending' = Tail(sending)
  /\ IF m.type = "open" /\ peer[m.stream].channel = 0
     THEN /\ peer' = [peer EXCEPT ![m.stream].channel = m.channel,
                         ![m.stream].in = IF m.channel \in early THEN "reset" ELSE "up"]
          /\ arriving' = Append(arriving, Message("ack", m.stream, m.channel))
     ELSE UNCHANGED <<peer, arriving>>
  /\ UNCHANGED <<local, thread, closing, userTSN, toPeer, toUs, early, writes, asks, history, heap>>

(* It resets its outgoing stream, or asks for that again. *)
PeerAsks(s) ==
  /\ peer[s].channel # 0 /\ peer[s].out # "reset" /\ asks < MaxAsks
  /\ asks' = asks + 1
  /\ peer' = [peer EXCEPT ![s].out = "asked",
                ![s].tsn = IF peer[s].out = "up" THEN userTSN + Len(arriving) ELSE @]
  /\ toUs' \in Sent(toUs, Outgoing(s, peer[s].channel, peer'[s].tsn))
  /\ UNCHANGED <<local, thread, closing, data, toPeer, early, writes, history, heap>>

(* It asks us to reset ours. *)
PeerAsksUs(s) ==
  /\ peer[s].channel # 0 /\ peer[s].in = "up" /\ asks < MaxAsks
  /\ asks' = asks + 1
  /\ toUs' \in Sent(toUs, Incoming(s, peer[s].channel))
  /\ UNCHANGED <<local, thread, closing, data, toPeer, peer, early, writes, history, heap>>

(* Our outgoing stream is reset, at once or when the data before it came.  *)
HearReset(p, s, n) ==
  /\ peer' = IF p[s].channel = n
             THEN [p EXCEPT ![s] = Settled([@ EXCEPT !.in = "reset"])] ELSE p
  /\ early' = IF Unheard(n) THEN early \union {n} ELSE early

HearAnswer(p, c) ==
  IF p[c.stream].channel = c.to /\ c.result \in {"performed", "nop"}
  THEN [p EXCEPT ![c.stream].out = "reset"] ELSE p

PeerReceives(c) ==
  /\ c \in toPeer
  /\ toPeer' = toPeer \ {c}
  /\ IF c.type = "close"
     THEN /\ HearReset(peer, c.stream, c.channel)
          /\ toUs' \in Sent(toUs, Response(c.seq + 1))
     ELSE /\ HearReset(HearAnswer(peer, c), c.stream, c.to)
          /\ toUs' \in Sent(toUs, Response(c.seq))
  /\ UNCHANGED <<local, thread, closing, data, writes, asks, history, heap>>

-----------------------------------------------------------------------------
Runs(A) == heap = "ok" /\ A /\ UNCHANGED supported

Next ==
  \/ Runs(Create)
  \/ Runs(OpenDataChannel)
  \/ Runs(SendOpen)
  \/ \E s \in Streams : Runs(Close(s))
  \/ Runs(CloseDataChannel_Timeout)
  \/ Runs(ProcessStreamData)
  \/ Runs(OnDataChannel)
  \/ Runs(EndMessage)
  \/ Runs(OnDataChannelClosed)
  \/ Runs(SendAnswer)
  \/ \E c \in toUs : Runs(ResetNow(c))
  \/ \E c \in toUs : Runs(Defer(c))
  \/ \E c \in toUs : Runs(ResetOutgoing(c))
  \/ \E c \in toUs : Runs(Respond(c))
  \/ \E s \in Streams : Runs(PeerOpens(s))
  \/ \E s \in Streams : Runs(PeerWrites(s))
  \/ Runs(PeerHears)
  \/ \E s \in Streams : Runs(PeerAsks(s))
  \/ \E s \in Streams : Runs(PeerAsksUs(s))
  \/ \E c \in toPeer : Runs(PeerReceives(c))

Spec == Init /\ [][Next]_vars

(* The chain thread runs its timers, and goes on when a callback returns. *)
FairSpec ==
  /\ Spec
  /\ WF_vars(Runs(CloseDataChannel_Timeout))
  /\ WF_vars(Runs(OnDataChannel)) /\ WF_vars(Runs(EndMessage))
  /\ WF_vars(Runs(OnDataChannelClosed)) /\ WF_vars(Runs(SendAnswer))

-----------------------------------------------------------------------------
(* The type invariant, and what pendingReconfigPacket may be. *)
TypeOK ==
  /\ supported \in BOOLEAN /\ timer \in BOOLEAN
  /\ attributes \in [Streams -> [status : {"none", "waiting", "assigned"},
                                 channel : 0..MaxChannels]]
  /\ DataChannels \in [Streams -> 0..opened]
  /\ opened \in 0..MaxChannels /\ closes \in 0..MaxCloses
  /\ RREQSEQ \in Nat \ {0} /\ reconfigFailures \in Nat
  /\ reconfigFailures # 0 => ~GivesUp(reconfigFailures)
  /\ \/ pending = Nothing
     \/ /\ pending.kind = "own" /\ pending.stream \in Streams
        /\ pending.seq \in 2..RREQSEQ - 1
     \/ /\ pending.kind = "unwritten" /\ pending.stream \in Streams /\ ~supported
     \/ /\ pending.kind = "deferred" /\ pending.stream \in Streams
        /\ pending.tsn \in 0..userTSN + Len(arriving)
  /\ creating \in [at : {"none", "object", "attributes"}, channel : 0..opened]
  /\ chain \in [at : {"idle", "opening", "opened", "told", "closing", "closed"},
                stream : Streams, channel : 0..opened]
  /\ IF chain.at = "closed" THEN rpacket # {} ELSE chain.at # "closing" => rpacket = {}
  /\ peer \in [Streams -> [channel : 0..opened, in : {"up", "reset"},
                           out : {"up", "asked", "reset"}, tsn : Nat]]
  /\ early \subseteq Channels /\ performed \subseteq Channels /\ unaware \subseteq Channels
  /\ taken \subseteq Channels
  /\ heap \in {"ok", "crashed", "undefined"}

(* The retry timer runs exactly while a close of our own waits for its     *)
(* response: none is left without a timer, or fires for a close that a     *)
(* response or the last retry ended (ILibWebRTC.c:1427-1457, 3685-3704).   *)
RetryArmed == timer <=> pending.kind = "own"

(* A channel that the application can send on has its own channel object,  *)
(* not an earlier one's of the stream.  It is still to get it in the       *)
(* callback that makes it, the stream is being taken by the next channel,  *)
(* or it lost it to the close of another channel: there is no other way    *)
(* (ILibWebRTC.c:2901-2905, 2970-2977; ILibWrapperWebRTC.c:649-683).       *)
OpenHasObject ==
  \A s \in Streams : attributes[s].status = "assigned" =>
    \/ DataChannels[s] = attributes[s].channel
    \/ attributes[s].channel \in taken
    \/ chain = At("opening", s, attributes[s].channel)
    \/ creating.at = "object" /\ s = Own

(* The close of one channel takes no other channel's object, as a stream   *)
(* id that is available has none (ILibWrapperWebRTC.c:655).                *)
TakesOwnObject == taken = {}

(* The peer is told that a reset is done only when all it wrote to the     *)
(* channel has been delivered, and from then on nothing opens the channel  *)
(* again (ILibWebRTC.c:3536).                                              *)
ResetAfterData ==
  \A n \in performed :
    /\ \A i \in 1..Len(arriving) : arriving[i].channel # n
    /\ \A s \in Streams : attributes[s].channel # n

(* A close that was sent ends, by its response or by the last retry,       *)
(* whatever gets lost: the one place for a pending close is free again     *)
(* (ILibWebRTC.c:4519-4567).                                               *)
CloseEnds == (pending.kind = "own") ~> (pending.kind # "own" \/ heap # "ok")

(* A reset that waits for the peer's data is taken up by the very message  *)
(* that it waits for: whenever the chain thread is done with a message,    *)
(* something is still missing, whatever closes and resets came while the   *)
(* Lock was released (ILibWebRTC.c:3045-3068).                             *)
DeferredServed ==
  pending.kind = "deferred" /\ chain.at \notin {"opening", "opened", "told"} =>
    userTSN < pending.tsn

(* When a response ends the close of a channel, the peer knows that the    *)
(* channel is closed (ILibWebRTC.c:3689).                                  *)
BothAware == unaware = {}
=============================================================================
