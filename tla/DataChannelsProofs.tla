-------------------------- MODULE DataChannelsProofs --------------------------
(***************************************************************************)
(* Proofs about DataChannels for every set of streams of the peer and      *)
(* every bound on what the application and the peer do.                    *)
(***************************************************************************)
EXTENDS DataChannels, TLAPS, SequenceTheorems

Messages == [type : {"open", "ack", "data"}, stream : Streams, channel : 0..MaxChannels]
Statuses == [status : {"none", "waiting", "assigned"}, channel : 0..MaxChannels]
Peers    == [channel : 0..MaxChannels, in : {"up", "reset"},
             out : {"up", "asked", "reset"}, tsn : Int]

Callings == [at : {"idle", "opening", "opened", "told", "closing", "closed"},
             stream : Streams, channel : 0..MaxChannels]
Creatings == [at : {"none", "object", "attributes"}, channel : 0..MaxChannels]

(* What the proofs need of the types.                                      *)
ShapeInv ==
  /\ supported \in BOOLEAN /\ timer \in BOOLEAN
  /\ attributes \in [Streams -> Statuses]
  /\ DataChannels \in [Streams -> 0..MaxChannels]
  /\ opened \in 0..MaxChannels
  /\ creating \in Creatings
  /\ chain \in Callings
  /\ arriving \in Seq(Messages) /\ sending \in Seq(Messages)
  /\ peer \in [Streams -> Peers]
  /\ userTSN \in Int

(* The peer opens channels on its own streams only.                        *)
OpensTheirs ==
  \A i \in 1..Len(arriving) : arriving[i].type = "open" => arriving[i].stream \in Theirs

ObjectInv == ShapeInv /\ OpensTheirs /\ RetryArmed

(* What is pending, and what the peer resets, are streams there are.       *)
Outgoings == {c \in toUs : c.type = "outgoing"}

Aims ==
  /\ pending.kind # "none" => pending.stream \in Streams
  /\ \A c \in Outgoings : c.stream \in Streams

(* The parts of the inductive invariant of ResetAfterData.  Every channel  *)
(* that anything still speaks of has been opened.                          *)
Done(c) == c.result \in {"performed", "nop"}
Told(c) == c.to # 0 /\ (Done(c) => c.to \in performed)

(* The calls that are under way name channels too.                         *)
Calls ==
  /\ creating.channel \in 0..opened
  /\ creating.at # "none" => creating.channel \in 1..opened
  /\ chain.channel \in 0..opened
  /\ chain.at \in {"opening", "opened"} => chain.channel \in 1..opened

Fresh ==
  /\ \A i \in 1..Len(arriving) : arriving[i].channel \in 1..opened
  /\ \A i \in 1..Len(sending) : sending[i].channel \in 1..opened
  /\ \A s \in Streams : attributes[s].channel \in 0..opened
  /\ \A s \in Streams : peer[s].channel \in 0..opened
                        /\ (peer[s].channel = 0 => peer[s].out = "up")
  /\ \A c \in toUs : c.type \in {"outgoing", "incoming"} => c.channel \in 1..opened
  /\ \A c \in toPeer \union rpacket : c.type # "close" => Told(c)
  /\ performed \subseteq 1..opened
  /\ Calls

(* A channel the peer has not heard of yet is known on our side only.      *)
Unknown(n) ==
  /\ n \notin performed
  /\ \A s \in Streams : peer[s].channel # n /\ (attributes[s].channel = n => s = Own)
  /\ \A c \in Outgoings : c.channel # n
  /\ \A i \in 1..Len(arriving) : arriving[i].channel # n

OpensOnce ==
  \A i \in 1..Len(sending) : sending[i].type = "open" =>
    /\ sending[i].stream = Own /\ Unknown(sending[i].channel)
    /\ \A j \in 1..Len(sending) :
         j # i /\ sending[j].type = "open" => sending[j].channel # sending[i].channel

(* Nor has it of one that is being created.                                *)
CreatedOnce ==
  creating.at # "none" =>
    /\ Unknown(creating.channel)
    /\ \A i \in 1..Len(sending) :
         sending[i].type = "open" => sending[i].channel # creating.channel

(* The channel n is one of stream s, and the last of its data is at tsn.   *)
Home(n, s) ==
  /\ \A t \in Streams : attributes[t].channel = n => t = s
  /\ \A i \in 1..Len(arriving) :
       arriving[i].type = "open" /\ arriving[i].channel = n => arriving[i].stream = s

Before(n, tsn) ==
  \A i \in 1..Len(arriving) : arriving[i].channel = n => userTSN + i <= tsn

PeerSide ==
  \A s \in Streams : peer[s].channel # 0 =>
    /\ Home(peer[s].channel, s)
    /\ \A t \in Streams : peer[t].channel = peer[s].channel => t = s
    /\ peer[s].channel \in performed => peer[s].out # "up"
    /\ peer[s].out # "up" => Before(peer[s].channel, peer[s].tsn)

(* A request to reset the peer's outgoing stream says where its data ends. *)
Asked ==
  \A c \in Outgoings :
    /\ c.tsn \in Int /\ Home(c.channel, c.stream) /\ Before(c.channel, c.tsn)
    /\ \A s \in Streams : peer[s].channel = c.channel => peer[s].out # "up"

(* The parts that the types need on top of these.  No TSN that the peer    *)
(* names is beyond what it has written.                                    *)
EndTSN == userTSN + Len(arriving)

Ends ==
  /\ userTSN \in Nat
  /\ \A s \in Streams : peer[s].tsn \in 0..EndTSN
  /\ \A c \in Outgoings : c.tsn \in 0..EndTSN

(* What is pending is about a channel that was opened.                     *)
Waits ==
  \/ pending = Nothing
  \/ pending.kind = "own" /\ pending.channel \in Channels /\ pending.seq \in 2..RREQSEQ - 1
  \/ pending.kind = "unwritten" /\ pending.channel \in Channels /\ ~supported
  \/ pending.kind = "deferred" /\ pending.channel \in Channels /\ pending.tsn \in 0..EndTSN

(* Chunks and histories name channels.                                     *)
Named(c) == IF c.type = "close" THEN c.channel \in Channels ELSE c.to \in Channels

Names ==
  /\ early \subseteq Channels /\ unaware \subseteq Channels /\ taken \subseteq Channels
  /\ \A c \in toPeer \union rpacket : Named(c)

(* An answer waits for the callback to return.                             *)
Held == IF chain.at = "closed" THEN rpacket # {} ELSE chain.at # "closing" => rpacket = {}

Counts ==
  /\ DataChannels \in [Streams -> 0..opened]
  /\ closes \in 0..MaxCloses /\ RREQSEQ \in Nat \ {0} /\ reconfigFailures \in Nat
  /\ reconfigFailures # 0 => ~GivesUp(reconfigFailures)
  /\ heap \in {"ok", "crashed", "undefined"}

TypeInv == Ends /\ Waits /\ Names /\ Held /\ Counts

ResetInv == Fresh /\ OpensOnce /\ CreatedOnce /\ PeerSide /\ Asked /\ ResetAfterData

-----------------------------------------------------------------------------
LEMMA InitObjects == Init => ObjectInv
<1> SUFFICES ASSUME Init PROVE ObjectInv
    OBVIOUS
<1>1. ShapeInv
    <2>1. /\ Free \in Statuses /\ NoPeer \in Peers /\ 0 \in 0..MaxChannels
          /\ NoCreate \in Creatings /\ Idle \in Callings
        BY ChannelAssumption DEF Free, NoPeer, NoCreate, Idle, At, Statuses, Peers, Creatings,
                                 Callings, Streams
    <2>2. arriving \in Seq(Messages) /\ sending \in Seq(Messages)
        BY DEF Init
    <2>3. attributes \in [Streams -> Statuses]
        BY <2>1 DEF Init
    <2>4. peer \in [Streams -> Peers]
        BY <2>1 DEF Init
    <2>5. DataChannels \in [Streams -> 0..MaxChannels]
        BY <2>1 DEF Init
    <2>6. supported \in BOOLEAN /\ timer \in BOOLEAN
        BY DEF Init
    <2>7. opened \in 0..MaxChannels /\ userTSN \in Int /\ creating \in Creatings /\ chain \in Callings
        BY <2>1 DEF Init
    <2> QED BY <2>2, <2>3, <2>4, <2>5, <2>6, <2>7 DEF ShapeInv
<1>2. OpensTheirs
    BY DEF Init, OpensTheirs
<1>3. RetryArmed
    BY DEF Init, RetryArmed, Nothing
<1> QED BY <1>1, <1>2, <1>3 DEF ObjectInv

(* What is left of a sequence, and what is added to it. *)
LEMMA Shorter ==
  ASSUME NEW S, NEW s \in Seq(S), s # <<>>
  PROVE  /\ Head(s) \in S /\ Head(s) = s[1] /\ 1 \in 1..Len(s)
         /\ Tail(s) \in Seq(S)
         /\ \A i \in 1..Len(Tail(s)) : i + 1 \in 1..Len(s) /\ Tail(s)[i] = s[i + 1]
<1> QED BY HeadTailProperties, LenProperties

LEMMA Longer ==
  ASSUME NEW S, NEW s \in Seq(S), NEW e \in S
  PROVE  /\ Append(s, e) \in Seq(S) /\ Len(Append(s, e)) = Len(s) + 1
         /\ \A i \in 1..Len(s) : Append(s, e)[i] = s[i]
         /\ Append(s, e)[Len(s) + 1] = e
<1>1. Append(s, e) \in Seq(S)
    BY AppendProperties
<1>2. Len(Append(s, e)) = Len(s) + 1
    BY AppendProperties
<1>3. \A i \in 1..Len(s) : Append(s, e)[i] = s[i]
    BY AppendProperties
<1>4. Append(s, e)[Len(s) + 1] = e
    BY AppendProperties
<1> QED BY <1>1, <1>2, <1>3, <1>4

LEMMA ArrivesOpen ==
  ASSUME ShapeInv, OpensTheirs, NEW m \in Messages,
         m.type = "open" => m.stream \in Theirs, arriving' = Append(arriving, m)
  PROVE  arriving' \in Seq(Messages) /\ OpensTheirs'
<1>1. arriving' \in Seq(Messages) /\ Len(arriving') = Len(arriving) + 1 /\ Len(arriving) \in Nat
      /\ (\A i \in 1..Len(arriving) : arriving'[i] = arriving[i])
      /\ arriving'[Len(arriving) + 1] = m
    BY Longer, LenProperties DEF ShapeInv
<1>2. ASSUME NEW i \in 1..Len(arriving'), arriving'[i].type = "open"
      PROVE  arriving'[i].stream \in Theirs
    <2>1. CASE i \in 1..Len(arriving)
        BY <1>1, <1>2, <2>1 DEF OpensTheirs
    <2>2. CASE i = Len(arriving) + 1
        BY <1>1, <1>2, <2>2
    <2> QED BY <1>1, <2>1, <2>2
<1> QED BY <1>1, <1>2 DEF OpensTheirs

(* A stream is forgotten: the wrapper is to hear of it if it was open.     *)
LEMMA ForgetKeeps ==
  ASSUME ShapeInv, NEW s \in Streams, Forget(s)
  PROVE  /\ attributes' \in [Streams -> Statuses] /\ chain' \in Callings
         /\ UNCHANGED <<DataChannels, opened, creating>>
<1>1. Free \in Statuses
    BY ChannelAssumption DEF Free, Statuses
<1>2. attributes' \in [Streams -> Statuses] /\ UNCHANGED <<DataChannels, opened, creating>>
    BY <1>1 DEF Forget, ShapeInv
<1>3. chain' \in {Idle, At("closing", s, attributes[s].channel)}
    BY DEF Forget
<1>4. Idle \in Callings /\ At("closing", s, attributes[s].channel) \in Callings
    BY ChannelAssumption DEF Idle, At, Callings, ShapeInv, Statuses, Streams
<1> QED BY <1>2, <1>3, <1>4

LEMMA PropagateKeeps ==
  ASSUME ShapeInv, NEW s \in Streams, PropagateChannelClose(s)
  PROVE  /\ attributes' \in [Streams -> Statuses] /\ chain' \in Callings
         /\ UNCHANGED <<DataChannels, opened, creating>>
<1>1. CASE UNCHANGED <<local, chain>>
    BY <1>1 DEF local, ShapeInv
<1>2. CASE Forget(s)
    BY <1>2, ForgetKeeps
<1> QED BY <1>1, <1>2 DEF PropagateChannelClose

(* A message of the peer, on the attributes.                               *)
LEMMA HandleKeeps ==
  ASSUME ShapeInv, NEW m \in Messages, Handle(m)
  PROVE  attributes' \in [Streams -> Statuses] /\ chain' \in Callings
<1> DEFINE s == m.stream
           a == [status |-> "assigned", channel |-> m.channel]
<1>1. s \in Streams /\ m.channel \in 0..MaxChannels
    BY DEF Messages
<1>2. a \in Statuses
    BY <1>1 DEF Statuses
<1>3. /\ chain' \in {chain, At("told", s, m.channel), At("opening", s, m.channel)}
      /\ \/ attributes' = attributes
         \/ attributes' = [attributes EXCEPT ![s].status = "assigned"]
         \/ attributes' = [attributes EXCEPT ![s] = a]
    BY DEF Handle
<1>4. At("told", s, m.channel) \in Callings /\ At("opening", s, m.channel) \in Callings
    BY <1>1 DEF At, Callings
<1> HIDE DEF a
<1>5. CASE attributes' = [attributes EXCEPT ![s].status = "assigned"]
    <2>1. attributes' \in [Streams -> Statuses]
        BY <1>1, <1>5 DEF ShapeInv, Statuses
    <2> QED BY <1>3, <1>4, <2>1 DEF ShapeInv
<1>6. CASE attributes' = [attributes EXCEPT ![s] = a] \/ attributes' = attributes
    BY <1>2, <1>3, <1>4, <1>6 DEF ShapeInv
<1> QED BY <1>3, <1>5, <1>6

-----------------------------------------------------------------------------
LEMMA PeerPut ==
  ASSUME NEW p \in [Streams -> Peers], NEW s, NEW q \in Peers
  PROVE  [p EXCEPT ![s] = q] \in [Streams -> Peers]
<1> QED OBVIOUS

(* A step that only moves chunks and what the peer knows. *)
LEMMA PeerOnly ==
  ASSUME ObjectInv, UNCHANGED <<supported, local, thread, closing, data>>,
         peer' \in [Streams -> Peers]
  PROVE  ObjectInv'
<1> QED BY DEF ObjectInv, ShapeInv, OpensTheirs, RetryArmed, local, thread, closing, data

LEMMA CloseArms ==
  ASSUME NEW s, NEW n, CloseDataChannelEx2(s, n), supported' = supported, supported \in BOOLEAN
  PROVE  RetryArmed' /\ timer' \in BOOLEAN
<1>1. pending' = Chunk(s, n) /\ timer' = supported
    BY DEF CloseDataChannelEx2
<1>2. Chunk(s, n).kind = IF supported THEN "own" ELSE "unwritten"
    BY DEF Chunk
<1> QED BY <1>1, <1>2 DEF RetryArmed

LEMMA TakeUpArms ==
  ASSUME NEW n, TakeUp(n), supported' = supported, supported \in BOOLEAN, timer \in BOOLEAN,
         RetryArmed
  PROVE  RetryArmed' /\ timer' \in BOOLEAN
<1>1. CASE CloseDataChannelEx2(pending.stream, pending.channel)
    BY <1>1, CloseArms
<1>2. CASE UNCHANGED closing
    BY <1>2 DEF closing, RetryArmed
<1> QED BY <1>1, <1>2 DEF TakeUp

(* What a response does to the pending close. *)
LEMMA RespondOutcomes ==
  ASSUME NEW c, Respond(c)
  PROVE  \/ UNCHANGED <<local, chain, pending, timer, unaware>> /\ heap' \in {heap, "undefined"}
         \/ /\ pending.kind = "own" /\ PropagateChannelClose(pending.stream)
            /\ pending' = Nothing /\ timer' = FALSE
            /\ unaware' \in {unaware, unaware \union {pending.channel}}
<1>1. CASE ~Matches(c.seq)
    BY <1>1 DEF Respond
<1>2. CASE Matches(c.seq) /\ pending.kind = "unwritten"
    BY <1>2 DEF Respond
<1>3. CASE Matches(c.seq) /\ pending.kind = "own"
    BY <1>3 DEF Respond
<1> QED BY <1>1, <1>2, <1>3 DEF Matches

LEMMA StepObjects == ObjectInv /\ Aims /\ [Next]_vars => ObjectInv'
<1> SUFFICES ASSUME ObjectInv, Aims, [Next]_vars PROVE ObjectInv'
    OBVIOUS
<1> USE DEF ObjectInv
<1>1. CASE Runs(Create)
    <2>1. opened' \in 0..MaxChannels /\ opened' = opened + 1
        <3>1. opened < MaxChannels /\ opened' = opened + 1
            BY <1>1 DEF Runs, Create
        <3> QED BY <3>1, ChannelAssumption DEF ShapeInv
    <2>2. creating' \in Creatings /\ DataChannels' \in [Streams -> 0..MaxChannels]
        BY <1>1, <2>1 DEF Runs, Create, ShapeInv, Creatings
    <2> QED BY <1>1, <2>1, <2>2 DEF Runs, Create, ShapeInv, OpensTheirs, RetryArmed, closing, data,
                                    thread, theirs
<1>2. ASSUME NEW s \in Streams, Runs(Close(s)) PROVE ObjectInv'
    <2>1. RetryArmed' /\ timer' \in BOOLEAN
        BY <1>2, CloseArms DEF Runs, Close, ShapeInv
    <2> QED BY <1>2, <2>1 DEF Runs, Close, ShapeInv, OpensTheirs, thread, data, theirs
<1>3. CASE Runs(CloseDataChannel_Timeout)
    <2>1. CASE GivesUp(reconfigFailures + 1)
        <3>1. PropagateChannelClose(pending.stream) /\ pending' = Nothing /\ timer' = FALSE
              /\ pending.kind = "own"
            BY <1>3, <2>1 DEF Runs, CloseDataChannel_Timeout, RetryArmed
        <3>2. RetryArmed'
            BY <3>1 DEF RetryArmed, Nothing
        <3>3. pending.stream \in Streams
            BY <3>1 DEF Aims
        <3> QED BY <1>3, <3>1, <3>2, <3>3, PropagateKeeps
                DEF Runs, CloseDataChannel_Timeout, ShapeInv, OpensTheirs, data, theirs
    <2>2. CASE ~GivesUp(reconfigFailures + 1)
        BY <1>3, <2>2 DEF Runs, CloseDataChannel_Timeout, ShapeInv, OpensTheirs, RetryArmed,
                          local, data, theirs
    <2> QED BY <2>1, <2>2
<1>4. CASE Runs(ProcessStreamData)
    <2> DEFINE m == Head(arriving)
    <2>1. m \in Messages /\ arriving' \in Seq(Messages) /\ OpensTheirs'
        <3>1. arriving \in Seq(Messages) /\ arriving # <<>> /\ arriving' = Tail(arriving)
            BY <1>4 DEF Runs, ProcessStreamData, ShapeInv
        <3>2. /\ m \in Messages /\ arriving' \in Seq(Messages)
              /\ \A i \in 1..Len(arriving') : i + 1 \in 1..Len(arriving) /\ arriving'[i] = arriving[i + 1]
            BY <3>1, Shorter
        <3> QED BY <3>2 DEF OpensTheirs
    <2> HIDE DEF m
    <2>2. Handle(m)
        BY <1>4 DEF Runs, ProcessStreamData, m
    <2>3. RetryArmed' /\ timer' \in BOOLEAN
        <3>1. TakeUp(userTSN + 1) \/ UNCHANGED closing
            BY <1>4 DEF Runs, ProcessStreamData
        <3>2. CASE TakeUp(userTSN + 1)
            BY <1>4, <3>2, TakeUpArms DEF Runs, ShapeInv
        <3>3. CASE UNCHANGED closing
            BY <3>3 DEF ShapeInv, RetryArmed, closing
        <3> QED BY <3>1, <3>2, <3>3
    <2>4. /\ UNCHANGED <<supported, opened, peer, DataChannels, creating, sending>>
          /\ userTSN' = userTSN + 1
        BY <1>4 DEF Runs, ProcessStreamData, theirs
    <2> QED BY <2>1, <2>2, <2>3, <2>4, HandleKeeps DEF ShapeInv
<1>5. ASSUME NEW c \in toUs, Runs(ResetNow(c)) PROVE ObjectInv'
    <2>1. c.stream \in Streams /\ Forget(c.stream)
        BY <1>5 DEF Runs, ResetNow, Aims, Outgoings
    <2> QED BY <1>5, <2>1, ForgetKeeps DEF Runs, ResetNow, ShapeInv, OpensTheirs, RetryArmed, data, theirs
<1>6. ASSUME NEW c \in toUs, Runs(Defer(c)) PROVE ObjectInv'
    <2>1. RetryArmed'
        BY <1>6 DEF Runs, Defer, RetryArmed, Nothing
    <2> QED BY <1>6, <2>1 DEF Runs, Defer, ShapeInv, OpensTheirs, local, thread, data, theirs
<1>7. ASSUME NEW c \in toUs, Runs(ResetOutgoing(c)) PROVE ObjectInv'
    BY <1>7 DEF Runs, ResetOutgoing, ShapeInv, OpensTheirs, RetryArmed, local, thread, data, theirs
<1>8. ASSUME NEW c \in toUs, Runs(Respond(c)) PROVE ObjectInv'
    <2>1. CASE /\ pending.kind = "own" /\ PropagateChannelClose(pending.stream)
               /\ pending' = Nothing /\ timer' = FALSE
        <3>1. RetryArmed'
            BY <2>1 DEF RetryArmed, Nothing
        <3>2. pending.stream \in Streams
            BY <2>1 DEF Aims
        <3> QED BY <1>8, <2>1, <3>1, <3>2, PropagateKeeps
                DEF Runs, Respond, ShapeInv, OpensTheirs, data, theirs
    <2>2. CASE UNCHANGED <<local, chain, pending, timer>>
        BY <1>8, <2>2 DEF Runs, Respond, ShapeInv, OpensTheirs, RetryArmed, local, data, theirs
    <2> QED BY <1>8, <2>1, <2>2, RespondOutcomes DEF Runs
<1>9. ASSUME NEW s \in Streams, Runs(PeerOpens(s)) PROVE ObjectInv'
    <2>1. s \in Theirs /\ opened' \in 0..MaxChannels
        <3>1. s \in Theirs /\ opened < MaxChannels /\ opened' = opened + 1
            BY <1>9 DEF Runs, PeerOpens
        <3> QED BY <3>1, ChannelAssumption DEF ShapeInv
    <2>2. Message("open", s, opened') \in Messages /\ Message("open", s, opened').stream = s
        BY <2>1, <1>9 DEF Message, Messages
    <2>3. arriving' \in Seq(Messages) /\ OpensTheirs'
        BY <1>9, <2>1, <2>2, ArrivesOpen DEF Runs, PeerOpens
    <2>4. peer' \in [Streams -> Peers]
        <3> DEFINE q == [peer[s] EXCEPT !.channel = opened']
        <3>1. q \in Peers
            BY <2>1 DEF ShapeInv, Peers
        <3>2. peer' = [peer EXCEPT ![s] = q]
            BY <1>9 DEF Runs, PeerOpens, ShapeInv, Peers
        <3> QED BY <3>1, <3>2, PeerPut DEF ShapeInv
    <2> QED BY <1>9, <2>1, <2>3, <2>4 DEF Runs, PeerOpens, ShapeInv, RetryArmed, closing, thread
<1>10. ASSUME NEW s \in Streams, Runs(PeerWrites(s)) PROVE ObjectInv'
    <2>1. Message("data", s, peer[s].channel) \in Messages
          /\ Message("data", s, peer[s].channel).type = "data"
        BY <1>10 DEF Message, Messages, ShapeInv, Peers
    <2>2. arriving' \in Seq(Messages) /\ OpensTheirs'
        BY <1>10, <2>1, ArrivesOpen DEF Runs, PeerWrites
    <2> QED BY <1>10, <2>2 DEF Runs, PeerWrites, ShapeInv, RetryArmed, local, closing, thread
<1>11. CASE Runs(PeerHears)
    <2> DEFINE m == Head(sending)
    <2>1. sending \in Seq(Messages) /\ sending # <<>> /\ sending' = Tail(sending)
        BY <1>11 DEF Runs, PeerHears, ShapeInv
    <2>2. m \in Messages /\ sending' \in Seq(Messages)
        BY <2>1, Shorter
    <2> HIDE DEF m
    <2>3. CASE UNCHANGED <<peer, arriving>>
        BY <1>11, <2>2, <2>3 DEF Runs, PeerHears, ShapeInv, OpensTheirs, RetryArmed, local, closing,
                                           thread
    <2>4. CASE /\ peer' = [peer EXCEPT ![m.stream].channel = m.channel,
                         ![m.stream].in = IF m.channel \in early THEN "reset" ELSE "up"]
               /\ arriving' = Append(arriving, Message("ack", m.stream, m.channel))
        <3>1. m.stream \in Streams /\ m.channel \in 0..MaxChannels
            BY <2>2 DEF Messages
        <3>2. Message("ack", m.stream, m.channel) \in Messages
              /\ Message("ack", m.stream, m.channel).type = "ack"
            BY <3>1 DEF Message, Messages
        <3>3. arriving' \in Seq(Messages) /\ OpensTheirs'
            BY <2>4, <3>2, ArrivesOpen
        <3>4. peer' \in [Streams -> Peers]
            <4> DEFINE q == [peer[m.stream] EXCEPT !.channel = m.channel,
                               !.in = IF m.channel \in early THEN "reset" ELSE "up"]
            <4>1. q \in Peers
                BY <3>1 DEF ShapeInv, Peers
            <4>2. peer' = [peer EXCEPT ![m.stream] = q]
                BY <2>4, <3>1 DEF ShapeInv, Peers
            <4> QED BY <4>1, <4>2, PeerPut DEF ShapeInv
        <3> QED BY <1>11, <2>2, <3>3, <3>4 DEF Runs, PeerHears, ShapeInv, RetryArmed, local, closing,
                                                   thread
    <2> QED BY <1>11, <2>3, <2>4 DEF Runs, PeerHears, m
<1>12. ASSUME NEW s \in Streams, Runs(PeerAsks(s)) PROVE ObjectInv'
    <2>1. Len(arriving) \in Int
        BY LenProperties DEF ShapeInv
    <2>2. peer' \in [Streams -> Peers]
        <3> DEFINE tsn == IF peer[s].out = "up" THEN userTSN + Len(arriving) ELSE peer[s].tsn
                   q == [peer[s] EXCEPT !.out = "asked", !.tsn = tsn]
        <3>1. tsn \in Int
            BY <2>1 DEF ShapeInv, Peers
        <3> HIDE DEF tsn
        <3>2. q \in Peers
            BY <3>1 DEF ShapeInv, Peers
        <3>3. peer' = [peer EXCEPT ![s] = q]
            BY <1>12 DEF Runs, PeerAsks, ShapeInv, Peers, tsn
        <3> QED BY <3>2, <3>3, PeerPut DEF ShapeInv
    <2> QED BY <1>12, <2>2, PeerOnly DEF Runs, PeerAsks
<1>13. ASSUME NEW s \in Streams, Runs(PeerAsksUs(s)) PROVE ObjectInv'
    <2>1. peer' = peer
        BY <1>13 DEF Runs, PeerAsksUs
    <2> QED BY <1>13, <2>1, PeerOnly DEF Runs, PeerAsksUs, ShapeInv
<1>14. ASSUME NEW c \in toPeer, Runs(PeerReceives(c)) PROVE ObjectInv'
    <2>1. peer \in [Streams -> Peers]
        BY DEF ShapeInv
    <2>2. HearAnswer(peer, c) \in [Streams -> Peers]
        <3> DEFINE q == [peer[c.stream] EXCEPT !.out = "reset"]
        <3>1. CASE c.stream \in Streams
            <4>1. q \in Peers
                BY <2>1, <3>1 DEF Peers
            <4>2. HearAnswer(peer, c) \in {peer, [peer EXCEPT ![c.stream] = q]}
                BY <2>1, <3>1 DEF HearAnswer, Peers
            <4> QED BY <2>1, <4>1, <4>2, PeerPut
        <3>2. CASE c.stream \notin Streams
            BY <2>1, <3>2 DEF HearAnswer
        <3> QED BY <3>1, <3>2
    <2>3. ASSUME NEW p \in [Streams -> Peers], NEW s, NEW n, HearReset(p, s, n)
          PROVE  peer' \in [Streams -> Peers]
        <3> DEFINE q == Settled([p[s] EXCEPT !.in = "reset"])
        <3>1. peer' \in {p, [p EXCEPT ![s] = q]}
            BY <2>3 DEF HearReset
        <3>2. CASE s \in Streams
            <4>1. [p[s] EXCEPT !.in = "reset"] \in Peers /\ NoPeer \in Peers
                BY <3>2, ChannelAssumption DEF Peers, NoPeer
            <4>2. q \in Peers
                BY <4>1 DEF Settled
            <4> HIDE DEF q
            <4> QED BY <3>1, <4>2, PeerPut
        <3>3. CASE s \notin Streams
            BY <3>1, <3>3
        <3> QED BY <3>2, <3>3
    <2>4. peer' \in [Streams -> Peers]
        BY <1>14, <2>1, <2>2, <2>3 DEF Runs, PeerReceives
    <2> QED BY <1>14, <2>4, PeerOnly DEF Runs, PeerReceives
<1>15. CASE UNCHANGED vars
    BY <1>15, PeerOnly DEF vars, theirs, ShapeInv
<1>16. CASE Runs(OpenDataChannel)
    <2>1. [status |-> "waiting", channel |-> creating.channel] \in Statuses
          /\ [creating EXCEPT !.at = "attributes"] \in Creatings
        BY DEF ShapeInv, Statuses, Creatings
    <2> QED BY <1>16, <2>1 DEF Runs, OpenDataChannel, ShapeInv, OpensTheirs, RetryArmed, closing, data,
                               thread, theirs
<1>17. CASE Runs(SendOpen)
    <2>1. Message("open", Own, creating.channel) \in Messages /\ NoCreate \in Creatings
        BY ChannelAssumption DEF Message, Messages, Streams, ShapeInv, Creatings, NoCreate
    <2>2. sending' \in Seq(Messages)
        BY <1>17, <2>1, Longer DEF Runs, SendOpen, ShapeInv
    <2> QED BY <1>17, <2>1, <2>2 DEF Runs, SendOpen, ShapeInv, OpensTheirs, RetryArmed, closing,
                                     thread, theirs
<1>18. CASE Runs(OnDataChannel)
    <2>1. [chain EXCEPT !.at = "opened"] \in Callings /\ chain.channel \in 0..MaxChannels
        BY DEF ShapeInv, Callings
    <2>2. DataChannels' \in [Streams -> 0..MaxChannels]
        BY <1>18, <2>1 DEF Runs, OnDataChannel, ShapeInv
    <2> QED BY <1>18, <2>1, <2>2 DEF Runs, OnDataChannel, ShapeInv, OpensTheirs, RetryArmed, closing,
                                     data, theirs
<1>19. CASE Runs(EndMessage)
    <2>1. Message("ack", chain.stream, chain.channel) \in Messages /\ Idle \in Callings
        BY ChannelAssumption DEF Message, Messages, Streams, ShapeInv, Callings, Idle, At
    <2>2. sending' \in Seq(Messages)
        BY <1>19, <2>1, Longer DEF Runs, EndMessage, ShapeInv
    <2>3. RetryArmed' /\ timer' \in BOOLEAN
        BY <1>19, TakeUpArms DEF Runs, EndMessage, ShapeInv
    <2> QED BY <1>19, <2>1, <2>2, <2>3 DEF Runs, EndMessage, ShapeInv, OpensTheirs, local, theirs
<1>20. CASE Runs(OnDataChannelClosed)
    <2>0. [chain EXCEPT !.at = "closed"] \in Callings
        BY DEF ShapeInv, Callings
    <2>1. Idle \in Callings /\ 0 \in 0..MaxChannels
        BY ChannelAssumption DEF Callings, Idle, At, Streams
    <2>2. DataChannels' \in [Streams -> 0..MaxChannels]
        BY <1>20, <2>1 DEF Runs, OnDataChannelClosed, ShapeInv
    <2> QED BY <1>20, <2>0, <2>1, <2>2 DEF Runs, OnDataChannelClosed, ShapeInv, OpensTheirs, RetryArmed,
                                     closing, data, theirs
<1>21. CASE Runs(SendAnswer)
    <2>1. Idle \in Callings
        BY ChannelAssumption DEF Callings, Idle, At, Streams
    <2> QED BY <1>21, <2>1 DEF Runs, SendAnswer, ShapeInv, OpensTheirs, RetryArmed, local, closing,
                               data, theirs
<1> QED BY <1>1, <1>2, <1>3, <1>4, <1>5, <1>6, <1>7, <1>8, <1>9, <1>10, <1>11, <1>12,
           <1>13, <1>14, <1>15, <1>16, <1>17, <1>18, <1>19, <1>20, <1>21 DEF Next

LEMMA SentOne ==
  ASSUME NEW flight, NEW c, NEW after \in Sent(flight, c)
  PROVE  after \subseteq flight \union {c}
<1> QED BY DEF Sent

(* A new request of the peer's names the end of its data. *)
LEMMA NewOutgoing ==
  ASSUME ShapeInv, [Next]_vars
  PROVE  \A c \in Outgoings' : c \in Outgoings \/ \E s \in Streams : c.stream = s /\ c.tsn = peer'[s].tsn
<1>1. CASE toUs' \subseteq toUs
    BY <1>1 DEF Outgoings
<1>2. ASSUME NEW s \in Streams, Runs(PeerAsks(s)) PROVE
        \A c \in Outgoings' : c \in Outgoings \/ (c.stream = s /\ c.tsn = peer'[s].tsn)
    <2> DEFINE d == Outgoing(s, peer[s].channel, peer'[s].tsn)
    <2>1. toUs' \in Sent(toUs, d)
        BY <1>2 DEF Runs, PeerAsks
    <2>2. d.stream = s /\ d.tsn = peer'[s].tsn
        BY DEF Outgoing
    <2> HIDE DEF d
    <2>3. toUs' \subseteq toUs \union {d}
        BY <2>1, SentOne
    <2> QED BY <2>2, <2>3 DEF Outgoings
<1>3. ASSUME NEW s \in Streams, Runs(PeerAsksUs(s)) PROVE Outgoings' \subseteq Outgoings
    BY <1>3, SentOne DEF Runs, PeerAsksUs, Incoming, Outgoings
<1>4. ASSUME NEW c \in toPeer, Runs(PeerReceives(c)) PROVE Outgoings' \subseteq Outgoings
    BY <1>4, SentOne DEF Runs, PeerReceives, Response, Outgoings
<1>5. \/ toUs' \subseteq toUs \/ (\E c \in toPeer : Runs(PeerReceives(c)))
      \/ \E s \in Streams : Runs(PeerAsksUs(s)) \/ Runs(PeerAsks(s))
    BY DEF Next, vars, Runs, Create, OpenDataChannel, SendOpen, Close, CloseDataChannel_Timeout,
           ProcessStreamData, OnDataChannel, EndMessage, OnDataChannelClosed, SendAnswer, ResetNow,
           Defer, ResetOutgoing, Respond, PeerOpens, PeerWrites, PeerHears
<1> QED BY <1>1, <1>2, <1>3, <1>4, <1>5

LEMMA StepAims == ObjectInv /\ Aims /\ [Next]_vars => Aims'
<1> SUFFICES ASSUME ObjectInv, Aims, [Next]_vars PROVE Aims'
    OBVIOUS
<1>1. ASSUME NEW s \in Streams, NEW n, CloseDataChannelEx2(s, n)
      PROVE  pending'.stream \in Streams
    BY <1>1 DEF CloseDataChannelEx2, Chunk
<1>2. ASSUME NEW n, TakeUp(n) PROVE pending'.kind # "none" => pending'.stream \in Streams
    <2>1. CASE Due(n)
        BY <1>1, <1>2, <2>1 DEF TakeUp, Due, Aims
    <2>2. CASE ~Due(n)
        BY <1>2, <2>2 DEF TakeUp, closing, Aims
    <2> QED BY <2>1, <2>2
<1>3. ASSUME NEW c \in toUs, Runs(Defer(c))
      PROVE  pending'.kind # "none" => pending'.stream \in Streams
    BY <1>3 DEF Runs, Defer, Aims, Outgoings
<1>4. \/ pending' = pending \/ pending' = Nothing
      \/ (\E s \in Streams, n \in 0..MaxChannels : CloseDataChannelEx2(s, n))
      \/ (\E n \in Int : TakeUp(n))
      \/ \E c \in toUs : Runs(Defer(c))
    <2>1. ASSUME NEW s \in Streams, Runs(Close(s))
          PROVE  \E n \in 0..MaxChannels : CloseDataChannelEx2(s, n)
        BY <2>1 DEF Runs, Close, ObjectInv, ShapeInv
    <2>2. ASSUME Runs(ProcessStreamData) PROVE pending' = pending \/ \E n \in Int : TakeUp(n)
        <3>1. userTSN + 1 \in Int
            BY DEF ObjectInv, ShapeInv
        <3> QED BY <2>2, <3>1 DEF Runs, ProcessStreamData, closing
    <2>3. ASSUME Runs(EndMessage) PROVE \E n \in Int : TakeUp(n)
        BY <2>3 DEF Runs, EndMessage, ObjectInv, ShapeInv
    <2>4. \/ pending' = pending \/ pending' = Nothing \/ Runs(ProcessStreamData) \/ Runs(EndMessage)
          \/ (\E s \in Streams : Runs(Close(s))) \/ \E c \in toUs : Runs(Defer(c)) \/ Respond(c)
        BY DEF Next, vars, Runs, Create, OpenDataChannel, SendOpen, CloseDataChannel_Timeout,
               OnDataChannel, OnDataChannelClosed, SendAnswer, ResetNow, ResetOutgoing,
               PeerOpens, PeerWrites, PeerHears, PeerAsks, PeerAsksUs, PeerReceives, closing
    <2> QED BY <2>1, <2>2, <2>3, <2>4, RespondOutcomes
<1>5. pending'.kind # "none" => pending'.stream \in Streams
    <2>1. CASE pending' = pending \/ pending' = Nothing
        BY <2>1 DEF Nothing, Aims
    <2> QED BY <1>1, <1>2, <1>3, <1>4, <2>1
<1>6. \A c \in Outgoings' : c.stream \in Streams
    BY NewOutgoing DEF ObjectInv, Aims
<1> QED BY <1>5, <1>6 DEF Aims

LEMMA ObjectsKept == Spec => [](ObjectInv /\ Aims)
<1>1. Init => Aims
    BY DEF Init, Aims, Nothing, Outgoings
<1> QED BY <1>1, InitObjects, StepObjects, StepAims, PTL DEF Spec

(* The retry timer of a close runs exactly while it waits                  *)
(* (ILibWebRTC.c:1427-1457, 3685-3704).                                    *)
THEOREM RetryArmedTheorem == Spec => []RetryArmed
<1>1. ObjectInv => RetryArmed
    BY DEF ObjectInv
<1> QED BY <1>1, ObjectsKept, PTL

-----------------------------------------------------------------------------
(* The reset of a channel. *)

LEMMA InitReset == Init => ResetInv
<1> SUFFICES ASSUME Init PROVE ResetInv
    OBVIOUS
<1>1. /\ Len(arriving) = 0 /\ Len(sending) = 0 /\ toUs = {} /\ toPeer = {} /\ performed = {}
      /\ opened = 0
    BY DEF Init
<1>2. \A s \in Streams : attributes[s].channel = 0 /\ peer[s].channel = 0 /\ peer[s].out = "up"
    BY DEF Init, Free, NoPeer
<1>3. Outgoings = {}
    BY <1>1 DEF Outgoings
<1>4. Fresh
    BY <1>1, <1>2 DEF Fresh, Calls, Init, NoCreate, Idle, At
<1>5. OpensOnce /\ CreatedOnce /\ Asked
    BY <1>1, <1>3 DEF OpensOnce, CreatedOnce, Asked, Init, NoCreate
<1>6. PeerSide
    BY <1>2 DEF PeerSide
<1>7. ResetAfterData
    BY <1>1 DEF ResetAfterData
<1> QED BY <1>4, <1>5, <1>6, <1>7 DEF ResetInv

(* A sequence with an element more. *)
LEMMA Added ==
  ASSUME NEW s \in Seq(Messages), NEW m \in Messages
  PROVE  \A i \in 1..Len(Append(s, m)) : i \in Int /\
           \/ i \in 1..Len(s) /\ Append(s, m)[i] = s[i]
           \/ i = Len(s) + 1 /\ Append(s, m)[i] = m
<1> DEFINE t == Append(s, m)
<1>1. /\ Len(s) \in Nat /\ Len(t) = Len(s) + 1
      /\ \A i \in 1..Len(s) : t[i] = s[i]
      /\ t[Len(s) + 1] = m
    BY Longer, LenProperties
<1> HIDE DEF t
<1>2. \A i \in 1..Len(t) : i \in Int /\
        \/ i \in 1..Len(s) /\ t[i] = s[i]
        \/ i = Len(s) + 1 /\ t[i] = m
    BY <1>1
<1> QED BY <1>2 DEF t

(* A step that brings up no channel but what arrived, and asks for no      *)
(* reset of the peer's.                                                    *)
OpensArrived ==
  \A s \in Streams :
    \/ attributes'[s].channel \in {0, attributes[s].channel}
    \/ \E i \in 1..Len(arriving) : /\ arriving[i].type = "open" /\ arriving[i].stream = s
                                   /\ attributes'[s].channel = arriving[i].channel

Delivers(d) ==
  /\ userTSN' = userTSN + d
  /\ \A i \in 1..Len(arriving') : i + d \in 1..Len(arriving) /\ arriving'[i] = arriving[i + d]

SendsOn(e) ==
  \A i \in 1..Len(sending') :
    \/ i + e \in 1..Len(sending) /\ sending'[i] = sending[i + e]
    \/ sending'[i].type # "open" /\ sending'[i].channel \in 1..opened

PeerForgets ==
  \A s \in Streams :
    \/ peer'[s].channel = 0 /\ peer'[s].out = "up"
    \/ /\ peer'[s].channel = peer[s].channel /\ peer'[s].tsn = peer[s].tsn
       /\ \/ peer'[s].out = peer[s].out
          \/ peer[s].channel \in performed /\ peer'[s].out = "reset"

AsksNothing ==
  /\ \A c \in toUs' : c \in toUs \/ c.type = "response"
                      \/ (c.type = "incoming" /\ c.channel \in 1..opened)
  /\ \A c \in toPeer' \union rpacket' : c \in toPeer \union rpacket \/ c.type = "close"
                                         \/ (c.to # 0 /\ ~Done(c))

(* Home, Before and Unknown after a step.                                  *)
HomeNext(n, s) ==
  /\ \A t \in Streams : attributes'[t].channel = n => t = s
  /\ \A i \in 1..Len(arriving') :
       arriving'[i].type = "open" /\ arriving'[i].channel = n => arriving'[i].stream = s

BeforeNext(n, tsn) ==
  \A i \in 1..Len(arriving') : arriving'[i].channel = n => userTSN' + i <= tsn

UnknownNext(n) ==
  /\ n \notin performed'
  /\ \A s \in Streams : peer'[s].channel # n /\ (attributes'[s].channel = n => s = Own)
  /\ \A c \in Outgoings' : c.channel # n
  /\ \A i \in 1..Len(arriving') : arriving'[i].channel # n

(* How the parts of the invariant are shown to hold after a step.          *)
LEMMA PeerSideNext ==
  ASSUME \A s \in Streams : peer'[s].channel # 0 =>
           /\ HomeNext(peer'[s].channel, s)
           /\ \A t \in Streams : peer'[t].channel = peer'[s].channel => t = s
           /\ peer'[s].channel \in performed' => peer'[s].out # "up"
           /\ peer'[s].out # "up" => BeforeNext(peer'[s].channel, peer'[s].tsn)
  PROVE  PeerSide'
<1> QED BY DEF PeerSide, Home, Before, HomeNext, BeforeNext

LEMMA AskedNext ==
  ASSUME \A c \in Outgoings' :
           /\ c.tsn \in Int /\ HomeNext(c.channel, c.stream) /\ BeforeNext(c.channel, c.tsn)
           /\ \A s \in Streams : peer'[s].channel = c.channel => peer'[s].out # "up"
  PROVE  Asked'
<1> QED BY DEF Asked, Home, Before, HomeNext, BeforeNext

LEMMA OpensOnceNext ==
  ASSUME \A i \in 1..Len(sending') : sending'[i].type = "open" =>
           /\ sending'[i].stream = Own /\ UnknownNext(sending'[i].channel)
           /\ \A j \in 1..Len(sending') :
                j # i /\ sending'[j].type = "open" => sending'[j].channel # sending'[i].channel
  PROVE  OpensOnce'
<1> QED BY DEF OpensOnce, Unknown, UnknownNext

LEMMA CreatedOnceNext ==
  ASSUME creating'.at # "none" =>
           /\ UnknownNext(creating'.channel)
           /\ \A i \in 1..Len(sending') :
                sending'[i].type = "open" => sending'[i].channel # creating'.channel
  PROVE  CreatedOnce'
<1> QED BY DEF CreatedOnce, Unknown, UnknownNext

LEMMA Quiet ==
  ASSUME ShapeInv, ResetInv, UNCHANGED <<opened, creating, performed>>, Calls', OpensArrived,
         NEW d \in {0, 1}, Delivers(d), NEW e \in {0, 1}, SendsOn(e), PeerForgets, AsksNothing
  PROVE  ResetInv'
<1> USE DEF ResetInv
<1>1. \A c \in Outgoings' : c \in Outgoings
    BY DEF AsksNothing, Outgoings
<1>2. \A i \in 1..Len(arriving') : i + d \in 1..Len(arriving) /\ arriving'[i] = arriving[i + d]
                                   /\ i \in Int /\ i >= 1
    BY DEF Delivers
<1>3. ASSUME NEW s \in Streams, attributes'[s].channel # 0,
             attributes'[s].channel # attributes[s].channel
      PROVE  \E i \in 1..Len(arriving) : /\ arriving[i].type = "open" /\ arriving[i].stream = s
                                          /\ arriving[i].channel = attributes'[s].channel
    BY <1>3 DEF OpensArrived
<1>4. ASSUME NEW n, NEW tsn, Before(n, tsn) PROVE BeforeNext(n, tsn)
    <2> SUFFICES ASSUME NEW i \in 1..Len(arriving'), arriving'[i].channel = n
                 PROVE  userTSN' + i <= tsn
        BY DEF BeforeNext
    <2>1. userTSN + (i + d) <= tsn
        BY <1>2, <1>4 DEF Before
    <2>2. userTSN' + i = userTSN + (i + d)
        BY <1>2 DEF Delivers, ShapeInv
    <2> QED BY <2>1, <2>2
<1>5. ASSUME NEW n, NEW s, n # 0, Home(n, s) PROVE HomeNext(n, s)
    <2>1. ASSUME NEW t \in Streams, attributes'[t].channel = n PROVE t = s
        BY <1>3, <1>5, <2>1 DEF Home
    <2> QED BY <1>2, <1>5, <2>1 DEF Home, HomeNext
<1>6. \A s \in Streams : peer'[s].channel # 0 =>
        /\ peer'[s].channel = peer[s].channel /\ peer'[s].tsn = peer[s].tsn
        /\ peer'[s].out # "up" => peer[s].out # "up" \/ peer[s].channel \in performed
        /\ peer[s].out # "up" => peer'[s].out # "up"
    BY DEF PeerForgets
<1>7. ASSUME NEW n, n # 0, Unknown(n) PROVE UnknownNext(n)
    <2>1. ASSUME NEW s \in Streams, attributes'[s].channel = n PROVE s = Own
        BY <1>3, <1>7, <2>1 DEF Unknown
    <2>2. ASSUME NEW s \in Streams PROVE peer'[s].channel # n
        BY <1>6, <1>7 DEF Unknown
    <2> QED BY <1>1, <1>2, <1>7, <2>1, <2>2 DEF Unknown, UnknownNext
<1>8. Fresh'
    <2>1. \A i \in 1..Len(arriving') : arriving'[i].channel \in 1..opened
        BY <1>2 DEF Fresh
    <2>2. \A i \in 1..Len(sending') : sending'[i].channel \in 1..opened
        BY DEF SendsOn, Fresh
    <2>3. \A s \in Streams : attributes'[s].channel \in 0..opened
        <3>1. 0 \in 0..opened /\ 1..opened \subseteq 0..opened
            BY DEF ShapeInv
        <3> QED BY <3>1 DEF OpensArrived, Fresh
    <2>4. \A s \in Streams : peer'[s].channel \in 0..opened
                             /\ (peer'[s].channel = 0 => peer'[s].out = "up")
        <3>1. 0 \in 0..opened /\ 0 \notin performed
            BY DEF ShapeInv, Fresh
        <3> QED BY <3>1 DEF PeerForgets, Fresh
    <2>5. \A c \in toUs' : c.type \in {"outgoing", "incoming"} => c.channel \in 1..opened
        BY DEF AsksNothing, Fresh
    <2>6. \A c \in toPeer' \union rpacket' : c.type # "close" => Told(c)
        BY DEF AsksNothing, Fresh, Told
    <2>7. \A c : Told(c)' <=> Told(c)
        BY DEF Told
    <2> QED BY <2>1, <2>2, <2>3, <2>4, <2>5, <2>6, <2>7 DEF Fresh
<1>9. OpensOnce'
    <2>1. ASSUME NEW i \in 1..Len(sending'), sending'[i].type = "open"
          PROVE  i + e \in 1..Len(sending) /\ sending'[i] = sending[i + e] /\ i \in Int
        BY <2>1 DEF SendsOn
    <2>2. ASSUME NEW i \in 1..Len(sending'), sending'[i].type = "open"
          PROVE  sending'[i].stream = Own /\ UnknownNext(sending'[i].channel)
        <3>1. sending'[i].stream = Own /\ Unknown(sending'[i].channel)
              /\ sending'[i].channel # 0
            BY <2>1, <2>2 DEF OpensOnce, Fresh
        <3> QED BY <3>1, <1>7
    <2>3. ASSUME NEW i \in 1..Len(sending'), sending'[i].type = "open",
                 NEW j \in 1..Len(sending'), j # i, sending'[j].type = "open"
          PROVE  sending'[j].channel # sending'[i].channel
        <3>1. /\ i + e \in 1..Len(sending) /\ sending'[i] = sending[i + e]
              /\ j + e \in 1..Len(sending) /\ sending'[j] = sending[j + e]
              /\ j + e # i + e
            BY <2>1, <2>3
        <3> QED BY <2>3, <3>1 DEF OpensOnce
    <2> QED BY <2>2, <2>3, OpensOnceNext
<1>10. PeerSide'
    <2> SUFFICES ASSUME NEW s \in Streams, peer'[s].channel # 0
                 PROVE  /\ HomeNext(peer'[s].channel, s)
                        /\ \A t \in Streams : peer'[t].channel = peer'[s].channel => t = s
                        /\ peer'[s].channel \in performed => peer'[s].out # "up"
                        /\ peer'[s].out # "up" => BeforeNext(peer'[s].channel, peer'[s].tsn)
        BY PeerSideNext
    <2>1. /\ peer'[s].channel = peer[s].channel /\ peer'[s].tsn = peer[s].tsn
          /\ peer'[s].out # "up" => peer[s].out # "up" \/ peer[s].channel \in performed
          /\ peer[s].out # "up" => peer'[s].out # "up"
        BY <1>6
    <2>2. HomeNext(peer'[s].channel, s)
        BY <1>5, <2>1 DEF PeerSide
    <2>3. \A t \in Streams : peer'[t].channel = peer'[s].channel => t = s
        BY <1>6, <2>1 DEF PeerSide
    <2>4. peer'[s].channel \in performed => peer'[s].out # "up"
        BY <2>1 DEF PeerSide
    <2>5. ASSUME peer'[s].out # "up" PROVE BeforeNext(peer'[s].channel, peer'[s].tsn)
        <3>1. peer[s].channel \in performed => Before(peer[s].channel, peer[s].tsn)
            BY DEF ResetAfterData, Before
        <3> QED BY <1>4, <2>1, <2>5, <3>1 DEF PeerSide
    <2> QED BY <2>2, <2>3, <2>4, <2>5
<1>11. Asked'
    <2> SUFFICES ASSUME NEW c \in Outgoings'
                 PROVE  /\ c.tsn \in Int /\ HomeNext(c.channel, c.stream) /\ BeforeNext(c.channel, c.tsn)
                        /\ \A s \in Streams : peer'[s].channel = c.channel => peer'[s].out # "up"
        BY AskedNext
    <2>1. c \in Outgoings /\ c.channel # 0
        BY <1>1 DEF Outgoings, Fresh
    <2>2. c.tsn \in Int /\ HomeNext(c.channel, c.stream) /\ BeforeNext(c.channel, c.tsn)
        BY <1>4, <1>5, <2>1 DEF Asked
    <2> QED BY <1>6, <2>1, <2>2 DEF Asked
<1>12. ResetAfterData'
    <2> SUFFICES ASSUME NEW n \in performed
                 PROVE  /\ \A i \in 1..Len(arriving') : arriving'[i].channel # n
                        /\ \A s \in Streams : attributes'[s].channel # n
        BY DEF ResetAfterData
    <2>1. n # 0
        BY DEF Fresh, ShapeInv
    <2>2. ASSUME NEW s \in Streams, attributes'[s].channel = n PROVE FALSE
        BY <1>3, <2>1, <2>2 DEF ResetAfterData
    <2> QED BY <1>2, <2>2 DEF ResetAfterData
<1>13. CreatedOnce'
    <2>1. creating'.at # "none" => UnknownNext(creating'.channel)
        BY <1>7 DEF CreatedOnce, Fresh, Calls, ShapeInv
    <2> QED BY <2>1, CreatedOnceNext DEF CreatedOnce, SendsOn
<1> QED BY <1>8, <1>9, <1>10, <1>11, <1>12, <1>13

-----------------------------------------------------------------------------
(* Whatever the calls go on to, they name channels that were opened.       *)
LEMMA StepCalls ==
  ASSUME ObjectInv, Aims, Fresh, [Next]_vars
  PROVE  Calls'
<1> USE DEF ObjectInv
<1>1. opened \in Nat /\ opened' \in {opened, opened + 1}
    <2>1. ASSUME NEW s, Forget(s) \/ PropagateChannelClose(s) PROVE opened' = opened
        BY <2>1 DEF Forget, PropagateChannelClose, local
    <2>2. ASSUME NEW c, Respond(c) PROVE opened' = opened
        BY <2>1, <2>2, RespondOutcomes DEF local
    <2>3. opened' = opened \/ opened' = opened + 1
        BY <2>1, <2>2
           DEF Next, vars, Runs, Create, OpenDataChannel, SendOpen, Close, CloseDataChannel_Timeout,
               ProcessStreamData, OnDataChannel, EndMessage, OnDataChannelClosed, SendAnswer,
               ResetNow, Defer, ResetOutgoing, PeerOpens, PeerWrites, PeerHears, PeerAsks,
               PeerAsksUs, PeerReceives, local
    <2> QED BY <2>3 DEF ShapeInv
<1>2. 1..opened \subseteq 1..opened' /\ 0..opened \subseteq 0..opened' /\ 0 \in 0..opened
    BY <1>1
<1>3. creating'.channel \in 0..opened' /\ (creating'.at # "none" => creating'.channel \in 1..opened')
    <2>1. CASE creating' = creating
        BY <1>2, <2>1 DEF Fresh, Calls
    <2>2. CASE Runs(Create)
        <3>1. creating'.channel = opened' /\ opened' = opened + 1
            BY <2>2 DEF Runs, Create
        <3> QED BY <1>1, <3>1
    <2>3. CASE Runs(OpenDataChannel)
        BY <1>2, <2>3 DEF Runs, OpenDataChannel, Fresh, Calls, ShapeInv, Creatings
    <2>4. CASE Runs(SendOpen)
        BY <1>2, <2>4 DEF Runs, SendOpen, NoCreate
    <2>5. ASSUME NEW s, Forget(s) \/ PropagateChannelClose(s) PROVE creating' = creating
        BY <2>5 DEF Forget, PropagateChannelClose, local
    <2>6. ASSUME NEW c, Respond(c) PROVE creating' = creating
        BY <2>5, <2>6, RespondOutcomes DEF local
    <2>7. creating' = creating \/ Runs(Create) \/ Runs(OpenDataChannel) \/ Runs(SendOpen)
        BY <2>5, <2>6
           DEF Next, vars, Runs, Close, CloseDataChannel_Timeout, ProcessStreamData, OnDataChannel,
               EndMessage, OnDataChannelClosed, SendAnswer, ResetNow, Defer, ResetOutgoing,
               PeerOpens, PeerWrites, PeerHears, PeerAsks, PeerAsksUs, PeerReceives, local
    <2> QED BY <2>1, <2>2, <2>3, <2>4, <2>7
<1>4. /\ chain'.channel \in 0..opened'
      /\ chain'.at \in {"opening", "opened"} => chain'.channel \in 1..opened'
    <2>1. CASE chain' = chain
        BY <1>2, <2>1 DEF Fresh, Calls
    <2>2. CASE chain' = Idle
        BY <1>2, <2>2 DEF Idle, At
    <2>3. ASSUME NEW s \in Streams, Forget(s) PROVE chain' = Idle \/
                   (chain'.at = "closing" /\ chain'.channel \in 0..opened)
        BY <2>3 DEF Forget, At, Fresh
    <2>4. ASSUME NEW s \in Streams, Forget(s) \/ PropagateChannelClose(s)
          PROVE  chain' \in {chain, Idle} \/ (chain'.at = "closing" /\ chain'.channel \in 0..opened)
        BY <2>3, <2>4 DEF PropagateChannelClose
    <2>5. CASE Runs(ProcessStreamData)
        <3> DEFINE m == Head(arriving)
        <3>1. m = arriving[1] /\ 1 \in 1..Len(arriving) /\ Handle(m)
            BY <2>5, Shorter DEF Runs, ProcessStreamData, ShapeInv
        <3>2. m.channel \in 1..opened
            BY <3>1 DEF Fresh
        <3> HIDE DEF m
        <3>3. chain' = chain \/ chain'.channel = m.channel
            BY <3>1 DEF Handle, At
        <3>4. m.channel \in 1..opened' /\ m.channel \in 0..opened'
            BY <1>1, <3>2
        <3> QED BY <2>1, <3>3, <3>4
    <2>6. CASE Runs(OnDataChannel)
        <3>1. chain'.channel = chain.channel /\ chain.channel \in 1..opened /\ chain.channel \in 0..opened
            BY <2>6 DEF Runs, OnDataChannel, Fresh, Calls, ShapeInv, Callings
        <3> QED BY <1>2, <3>1
    <2>7. CASE Runs(OnDataChannelClosed)
        <3>1. chain' = Idle \/ (chain'.channel = chain.channel /\ chain'.at = "closed")
            BY <2>7 DEF Runs, OnDataChannelClosed, ShapeInv, Callings
        <3>2. chain.channel \in 0..opened'
            BY <1>2 DEF Fresh, Calls
        <3> QED BY <2>2, <3>1, <3>2
    <2>8. ASSUME NEW c \in toUs, Runs(ResetNow(c))
          PROVE  \E s \in Streams : Forget(s)
        BY <2>8 DEF Runs, ResetNow, Aims, Outgoings
    <2>9. ASSUME Runs(CloseDataChannel_Timeout)
          PROVE  chain' = chain \/ \E s \in Streams : PropagateChannelClose(s)
        <3>1. pending.stream \in Streams
            BY <2>9 DEF Runs, CloseDataChannel_Timeout, RetryArmed, Aims
        <3> QED BY <2>9, <3>1 DEF Runs, CloseDataChannel_Timeout
    <2>10. ASSUME NEW c, Respond(c) PROVE chain' = chain \/ \E s \in Streams : PropagateChannelClose(s)
        BY <2>10, RespondOutcomes DEF Aims
    <2>11. \/ chain' \in {chain, Idle} \/ Runs(ProcessStreamData) \/ Runs(OnDataChannel)
           \/ Runs(OnDataChannelClosed) \/ Runs(CloseDataChannel_Timeout)
           \/ \E c \in toUs : Runs(ResetNow(c)) \/ Respond(c)
        BY DEF Next, vars, Runs, Create, OpenDataChannel, SendOpen, Close, EndMessage, SendAnswer,
               Defer, ResetOutgoing, PeerOpens, PeerWrites, PeerHears, PeerAsks, PeerAsksUs,
               PeerReceives, thread
    <2>12. ASSUME chain'.at = "closing", chain'.channel \in 0..opened
           PROVE  /\ chain'.channel \in 0..opened'
                  /\ chain'.at \in {"opening", "opened"} => chain'.channel \in 1..opened'
        BY <1>2, <2>12
    <2> QED BY <2>1, <2>2, <2>4, <2>5, <2>6, <2>7, <2>8, <2>9, <2>10, <2>11, <2>12
<1> QED BY <1>3, <1>4 DEF Calls

-----------------------------------------------------------------------------
(* The steps that are not quiet.  The number of a new channel is not one   *)
(* that anything speaks of.                                                *)
LEMMA CreateReset ==
  ASSUME ShapeInv, ResetInv, Calls', Runs(Create)
  PROVE  ResetInv'
<1> USE DEF ResetInv
<1> DEFINE n == opened + 1
<1>1. /\ opened' = n /\ opened \in Nat /\ n \in Int /\ creating'.channel = n
      /\ UNCHANGED <<attributes, arriving, sending, userTSN, peer, toUs, toPeer, rpacket, performed>>
    BY DEF Runs, Create, ShapeInv, theirs, history, data, thread
<1>2. Outgoings' = Outgoings
    BY <1>1 DEF Outgoings
<1> HIDE DEF n
<1>3. (\A m \in 0..opened : m # n) /\ \A m \in 1..opened : m # n
    BY <1>1 DEF n
<1>4. Fresh'
    <2>1. 1..opened \subseteq 1..n /\ 0..opened \subseteq 0..n
        BY <1>1 DEF n
    <2>2. \A i \in 1..Len(sending') : sending'[i].channel \in 1..n
        BY <1>1, <2>1 DEF Fresh
    <2>3. \A s \in Streams : attributes'[s].channel \in 0..n
        BY <1>1, <2>1 DEF Fresh
    <2>4. \A s \in Streams : peer'[s].channel \in 0..n
                             /\ (peer'[s].channel = 0 => peer'[s].out = "up")
        BY <1>1, <2>1 DEF Fresh
    <2>5. \A i \in 1..Len(arriving') : arriving'[i].channel \in 1..n
        BY <1>1, <2>1 DEF Fresh
    <2>6. \A c \in toUs' : c.type \in {"outgoing", "incoming"} => c.channel \in 1..n
        BY <1>1, <2>1 DEF Fresh
    <2>7. performed' \subseteq 1..n
        BY <1>1, <2>1 DEF Fresh
    <2>8. \A c \in toPeer' \union rpacket' : c.type # "close" => Told(c)'
        BY <1>1 DEF Fresh, Told
    <2> QED BY <1>1, <2>2, <2>3, <2>4, <2>5, <2>6, <2>7, <2>8 DEF Fresh
<1>5. UnknownNext(n)
    <2>1. n \notin performed'
        BY <1>1, <1>3 DEF Fresh
    <2>2. \A s \in Streams : peer'[s].channel # n /\ attributes'[s].channel # n
        BY <1>1, <1>3 DEF Fresh
    <2>3. \A c \in Outgoings' : c.channel # n
        BY <1>2, <1>3 DEF Fresh, Outgoings
    <2>4. \A i \in 1..Len(arriving') : arriving'[i].channel # n
        BY <1>1, <1>3 DEF Fresh
    <2> QED BY <2>1, <2>2, <2>3, <2>4 DEF UnknownNext
<1>6. ASSUME NEW m, Unknown(m) PROVE UnknownNext(m)
    BY <1>1, <1>2, <1>6 DEF Unknown, UnknownNext
<1>7. OpensOnce'
    BY <1>1, <1>6, OpensOnceNext DEF OpensOnce
<1>8. CreatedOnce'
    BY <1>1, <1>3, <1>5, CreatedOnceNext DEF Fresh
<1>9. ASSUME NEW m, NEW s, Home(m, s) PROVE HomeNext(m, s)
    BY <1>1, <1>9 DEF Home, HomeNext
<1>10. ASSUME NEW m, NEW tsn, Before(m, tsn) PROVE BeforeNext(m, tsn)
    BY <1>1, <1>10 DEF Before, BeforeNext
<1>11. PeerSide'
    BY <1>1, <1>9, <1>10, PeerSideNext DEF PeerSide
<1>12. Asked'
    BY <1>1, <1>2, <1>9, <1>10, AskedNext DEF Asked
<1>13. ResetAfterData'
    BY <1>1 DEF ResetAfterData
<1> QED BY <1>4, <1>7, <1>8, <1>11, <1>12, <1>13

(* The attributes get a channel the peer has not heard of.                 *)
LEMMA OpenDataChannelReset ==
  ASSUME ShapeInv, ResetInv, Calls', Runs(OpenDataChannel)
  PROVE  ResetInv'
<1> USE DEF ResetInv
<1> DEFINE n == creating.channel
<1>1. /\ creating.at = "object" /\ creating'.channel = n
      /\ UNCHANGED <<opened, arriving, sending, userTSN, peer, toUs, toPeer, rpacket, performed>>
    BY DEF Runs, OpenDataChannel, ShapeInv, Creatings, theirs, history, data, thread
<1>2. /\ n \in 1..opened /\ n \in 0..opened /\ Unknown(n)
      /\ \A i \in 1..Len(sending) : sending[i].type = "open" => sending[i].channel # n
    BY <1>1 DEF Fresh, Calls, CreatedOnce
<1>3. /\ attributes'[Own].channel = n
      /\ \A s \in Streams : s # Own => attributes'[s].channel = attributes[s].channel
    BY DEF Runs, OpenDataChannel, ShapeInv, Streams
<1>4. Outgoings' = Outgoings
    BY <1>1 DEF Outgoings
<1> HIDE DEF n
<1>5. Fresh'
    <2>1. \A s \in Streams : attributes'[s].channel \in 0..opened
        BY <1>2, <1>3 DEF Fresh
    <2>2. \A c \in toPeer' \union rpacket' : c.type # "close" => Told(c)'
        BY <1>1 DEF Fresh, Told
    <2> QED BY <1>1, <2>1, <2>2 DEF Fresh
<1>6. ASSUME NEW m, Unknown(m) PROVE UnknownNext(m)
    <2>1. \A s \in Streams : attributes'[s].channel = m => s = Own
        BY <1>3, <1>6 DEF Unknown
    <2> QED BY <1>1, <1>4, <1>6, <2>1 DEF Unknown, UnknownNext
<1>7. OpensOnce'
    BY <1>1, <1>6, OpensOnceNext DEF OpensOnce
<1>8. CreatedOnce'
    BY <1>1, <1>2, <1>6, CreatedOnceNext
<1>9. ASSUME NEW m, m # n, NEW s, Home(m, s) PROVE HomeNext(m, s)
    <2>1. \A t \in Streams : attributes'[t].channel = m => t = s
        BY <1>3, <1>9 DEF Home
    <2> QED BY <1>1, <1>9, <2>1 DEF Home, HomeNext
<1>10. ASSUME NEW m, NEW tsn, Before(m, tsn) PROVE BeforeNext(m, tsn)
    BY <1>1, <1>10 DEF Before, BeforeNext
<1>11. PeerSide'
    BY <1>1, <1>2, <1>9, <1>10, PeerSideNext DEF PeerSide, Unknown
<1>12. Asked'
    BY <1>1, <1>2, <1>4, <1>9, <1>10, AskedNext DEF Asked, Unknown
<1>13. ResetAfterData'
    BY <1>1, <1>2, <1>3 DEF ResetAfterData, Unknown
<1> QED BY <1>5, <1>7, <1>8, <1>11, <1>12, <1>13

(* The message that opens it is the only one that does.                    *)
LEMMA SendOpenReset ==
  ASSUME ShapeInv, ResetInv, Calls', Runs(SendOpen)
  PROVE  ResetInv'
<1> USE DEF ResetInv
<1> DEFINE n == creating.channel
           m == Message("open", Own, n)
<1>1. /\ creating.at = "attributes" /\ creating'.at = "none" /\ sending' = Append(sending, m)
      /\ UNCHANGED <<attributes, opened, arriving, userTSN, peer, toUs, toPeer, rpacket, performed>>
    BY DEF Runs, SendOpen, theirs, history, thread, NoCreate
<1>2. /\ n \in 1..opened /\ Unknown(n)
      /\ \A i \in 1..Len(sending) : sending[i].type = "open" => sending[i].channel # n
    BY <1>1 DEF Fresh, Calls, CreatedOnce
<1>3. m \in Messages /\ m.type = "open" /\ m.stream = Own /\ m.channel = n
    BY DEF Message, Messages, Streams, ShapeInv, Creatings
<1> HIDE DEF m, n
<1>4. \A i \in 1..Len(sending') : i \in Int /\
        \/ i \in 1..Len(sending) /\ sending'[i] = sending[i]
        \/ i = Len(sending) + 1 /\ sending'[i] = m
    BY <1>1, <1>3, Added DEF ShapeInv
<1>5. Outgoings' = Outgoings
    BY <1>1 DEF Outgoings
<1>6. Fresh'
    <2>1. \A i \in 1..Len(sending') : sending'[i].channel \in 1..opened
        BY <1>2, <1>3, <1>4 DEF Fresh
    <2>2. \A c \in toPeer' \union rpacket' : c.type # "close" => Told(c)'
        BY <1>1 DEF Fresh, Told
    <2> QED BY <1>1, <2>1, <2>2 DEF Fresh
<1>7. ASSUME NEW k, Unknown(k) PROVE UnknownNext(k)
    BY <1>1, <1>5, <1>7 DEF Unknown, UnknownNext
<1>8. OpensOnce'
    <2>1. ASSUME NEW i \in 1..Len(sending'), sending'[i].type = "open"
          PROVE  sending'[i].stream = Own /\ UnknownNext(sending'[i].channel)
        BY <1>2, <1>3, <1>4, <1>7, <2>1 DEF OpensOnce
    <2>2. ASSUME NEW i \in 1..Len(sending'), sending'[i].type = "open",
                 NEW j \in 1..Len(sending'), j # i, sending'[j].type = "open"
          PROVE  sending'[j].channel # sending'[i].channel
        <3>1. CASE i \in 1..Len(sending) /\ sending'[i] = sending[i]
            BY <1>2, <1>3, <1>4, <2>2, <3>1 DEF OpensOnce
        <3>2. CASE i = Len(sending) + 1 /\ sending'[i] = m
            BY <1>2, <1>3, <1>4, <2>2, <3>2
        <3> QED BY <1>4, <3>1, <3>2
    <2> QED BY <2>1, <2>2, OpensOnceNext
<1>9. CreatedOnce'
    BY <1>1 DEF CreatedOnce
<1>10. ASSUME NEW k, NEW s, Home(k, s) PROVE HomeNext(k, s)
    BY <1>1, <1>10 DEF Home, HomeNext
<1>11. ASSUME NEW k, NEW tsn, Before(k, tsn) PROVE BeforeNext(k, tsn)
    BY <1>1, <1>11 DEF Before, BeforeNext
<1>12. PeerSide'
    BY <1>1, <1>10, <1>11, PeerSideNext DEF PeerSide
<1>13. Asked'
    BY <1>1, <1>5, <1>10, <1>11, AskedNext DEF Asked
<1>14. ResetAfterData'
    BY <1>1 DEF ResetAfterData
<1> QED BY <1>6, <1>8, <1>9, <1>12, <1>13, <1>14

(* The peer opens one on a stream that is free on its side.                *)
LEMMA PeerOpensReset ==
  ASSUME ShapeInv, ResetInv, Calls', NEW s \in Streams, Runs(PeerOpens(s))
  PROVE  ResetInv'
<1> USE DEF ResetInv
<1> DEFINE n == opened + 1
           m == Message("open", s, n)
<1>1. /\ opened' = n /\ opened \in Nat /\ n \in Int
      /\ UNCHANGED <<attributes, sending, userTSN, toUs, toPeer, rpacket, creating, performed>>
    BY DEF Runs, PeerOpens, ShapeInv, history, thread
<1>2. /\ arriving' = Append(arriving, m)
      /\ peer' = [peer EXCEPT ![s].channel = n] /\ peer[s].channel = 0
    BY DEF Runs, PeerOpens
<1>3. m \in Messages /\ m.type = "open" /\ m.channel = n /\ m.stream = s
    <2>1. n \in 0..MaxChannels
        BY <1>1, ChannelAssumption DEF Runs, PeerOpens, ShapeInv
    <2> QED BY <2>1 DEF Message, Messages
<1>4. /\ peer'[s].channel = n /\ peer'[s].out = "up" /\ peer'[s].tsn = peer[s].tsn
      /\ \A t \in Streams : t # s => peer'[t] = peer[t]
    BY <1>2 DEF ShapeInv, Peers, Fresh
<1> HIDE DEF m
<1>5. \A i \in 1..Len(arriving') : i \in Int /\
        \/ i \in 1..Len(arriving) /\ arriving'[i] = arriving[i]
        \/ i = Len(arriving) + 1 /\ arriving'[i] = m
    BY <1>2, <1>3, Added DEF ShapeInv
<1>6. Outgoings' = Outgoings
    BY <1>1 DEF Outgoings
<1> HIDE DEF n
<1>7. n # 0 /\ (\A k \in 0..opened : k # n) /\ \A k \in 1..opened : k # n /\ k # 0
    BY <1>1 DEF n
<1>8. Fresh'
    <2>1. 1..opened \subseteq 1..n /\ 0..opened \subseteq 0..n /\ n \in 1..n /\ n \in 0..n
        BY <1>1 DEF n
    <2>2. \A i \in 1..Len(arriving') : arriving'[i].channel \in 1..n
        BY <1>3, <1>5, <2>1 DEF Fresh
    <2>3. \A t \in Streams : peer'[t].channel \in 0..n
                             /\ (peer'[t].channel = 0 => peer'[t].out = "up")
        BY <1>4, <2>1 DEF Fresh
    <2>4. \A t \in Streams : attributes'[t].channel \in 0..n
        BY <1>1, <2>1 DEF Fresh
    <2>5. \A i \in 1..Len(sending') : sending'[i].channel \in 1..n
        BY <1>1, <2>1 DEF Fresh
    <2>6. \A c \in toUs' : c.type \in {"outgoing", "incoming"} => c.channel \in 1..n
        BY <1>1, <2>1 DEF Fresh
    <2>7. performed' \subseteq 1..n
        BY <1>1, <2>1 DEF Fresh
    <2>8. \A c \in toPeer' \union rpacket' : c.type # "close" => Told(c)'
        BY <1>1 DEF Fresh, Told
    <2> QED BY <1>1, <2>2, <2>3, <2>4, <2>5, <2>6, <2>7, <2>8 DEF Fresh
<1>9. ASSUME NEW k \in 1..opened, Unknown(k) PROVE UnknownNext(k)
    <2>1. \A t \in Streams : peer'[t].channel # k
        BY <1>4, <1>7, <1>9 DEF Unknown
    <2>2. \A i \in 1..Len(arriving') : arriving'[i].channel # k
        BY <1>3, <1>5, <1>7, <1>9 DEF Unknown
    <2> QED BY <1>1, <1>6, <1>9, <2>1, <2>2 DEF Unknown, UnknownNext
<1>10. OpensOnce'
    BY <1>1, <1>9, OpensOnceNext DEF OpensOnce, Fresh
<1>11. ASSUME NEW k \in 1..opened, NEW t, Home(k, t) PROVE HomeNext(k, t)
    BY <1>1, <1>3, <1>5, <1>7, <1>11 DEF Home, HomeNext
<1>12. ASSUME NEW k \in 1..opened, NEW tsn, Before(k, tsn) PROVE BeforeNext(k, tsn)
    BY <1>1, <1>3, <1>5, <1>7, <1>12 DEF Before, BeforeNext
<1>13. HomeNext(n, s)
    <2>1. ASSUME NEW t \in Streams, attributes'[t].channel = n PROVE t = s
        BY <1>1, <1>7, <2>1 DEF Fresh
    <2>2. ASSUME NEW i \in 1..Len(arriving'), arriving'[i].channel = n PROVE arriving'[i].stream = s
        BY <1>3, <1>5, <1>7, <2>2 DEF Fresh
    <2> QED BY <2>1, <2>2 DEF HomeNext
<1>14. PeerSide'
    <2>1. \A t \in Streams : peer[t].channel # 0 => peer[t].channel \in 1..opened
        BY <1>1 DEF Fresh
    <2>2. ASSUME NEW t \in Streams, t # s, peer'[t].channel # 0
          PROVE  /\ HomeNext(peer'[t].channel, t)
                 /\ \A u \in Streams : peer'[u].channel = peer'[t].channel => u = t
                 /\ peer'[t].channel \in performed' => peer'[t].out # "up"
                 /\ peer'[t].out # "up" => BeforeNext(peer'[t].channel, peer'[t].tsn)
        <3>1. peer'[t] = peer[t] /\ peer[t].channel \in 1..opened
            BY <1>4, <2>1, <2>2
        <3>2. \A u \in Streams : peer'[u].channel = peer'[t].channel => u = t
            BY <1>4, <1>7, <2>2, <3>1 DEF PeerSide
        <3> QED BY <1>1, <1>11, <1>12, <2>2, <3>1, <3>2 DEF PeerSide
    <2>3. /\ HomeNext(peer'[s].channel, s)
          /\ \A u \in Streams : peer'[u].channel = peer'[s].channel => u = s
          /\ peer'[s].channel \in performed' => peer'[s].out # "up"
          /\ peer'[s].out # "up" => BeforeNext(peer'[s].channel, peer'[s].tsn)
        <3>1. \A u \in Streams : peer'[u].channel = n => u = s
            BY <1>4, <1>7 DEF Fresh
        <3>2. n \notin performed'
            BY <1>1, <1>7 DEF Fresh
        <3> QED BY <1>4, <1>13, <3>1, <3>2
    <2> QED BY <2>2, <2>3, PeerSideNext
<1>15. Asked'
    <2>1. \A c \in Outgoings : c.channel \in 1..opened
        BY DEF Outgoings, Fresh
    <2>2. \A c \in Outgoings : \A t \in Streams : peer'[t].channel = c.channel => peer'[t].out # "up"
        BY <1>4, <1>7, <2>1 DEF Asked
    <2> QED BY <1>6, <1>11, <1>12, <2>1, <2>2, AskedNext DEF Asked
<1>16. ResetAfterData'
    <2>1. \A k \in performed : \A i \in 1..Len(arriving') : arriving'[i].channel # k
        BY <1>3, <1>5, <1>7 DEF ResetAfterData, Fresh
    <2> QED BY <1>1, <2>1 DEF ResetAfterData
<1>17. CreatedOnce'
    BY <1>1, <1>9, CreatedOnceNext DEF CreatedOnce, Fresh, Calls
<1> QED BY <1>8, <1>10, <1>14, <1>15, <1>16, <1>17

(* It writes to a channel it has not reset.                                *)
LEMMA PeerWritesReset ==
  ASSUME ShapeInv, ResetInv, Calls', NEW s \in Streams, Runs(PeerWrites(s))
  PROVE  ResetInv'
<1> USE DEF ResetInv
<1> DEFINE n == peer[s].channel
           m == Message("data", s, n)
<1>1. UNCHANGED <<attributes, opened, creating, sending, userTSN, toUs, toPeer, rpacket, performed,
                  peer>>
    BY DEF Runs, PeerWrites, local, thread, history
<1>2. arriving' = Append(arriving, m) /\ n # 0 /\ peer[s].out = "up"
    BY DEF Runs, PeerWrites
<1>3. m \in Messages /\ m.type = "data" /\ m.channel = n
    BY DEF Message, Messages, ShapeInv, Peers
<1>4. n \in 1..opened
    BY <1>2 DEF Fresh, ShapeInv
<1> HIDE DEF m
<1>5. \A i \in 1..Len(arriving') : i \in Int /\
        \/ i \in 1..Len(arriving) /\ arriving'[i] = arriving[i]
        \/ i = Len(arriving) + 1 /\ arriving'[i] = m
    BY <1>2, <1>3, Added DEF ShapeInv
<1>6. Outgoings' = Outgoings
    BY <1>1 DEF Outgoings
<1>7. Fresh'
    <2>1. \A i \in 1..Len(arriving') : arriving'[i].channel \in 1..opened
        BY <1>3, <1>4, <1>5 DEF Fresh
    <2>2. \A c \in toPeer' \union rpacket' : c.type # "close" => Told(c)'
        BY <1>1 DEF Fresh, Told
    <2> QED BY <1>1, <2>1, <2>2 DEF Fresh
<1>8. ASSUME NEW k, Unknown(k) PROVE UnknownNext(k)
    BY <1>1, <1>3, <1>5, <1>6, <1>8 DEF Unknown, UnknownNext
<1>9. OpensOnce'
    BY <1>1, <1>8, OpensOnceNext DEF OpensOnce
<1>10. ASSUME NEW k, NEW t, Home(k, t) PROVE HomeNext(k, t)
    BY <1>1, <1>3, <1>5, <1>10 DEF Home, HomeNext
<1>11. ASSUME NEW k, NEW tsn, Before(k, tsn), k # n PROVE BeforeNext(k, tsn)
    BY <1>1, <1>3, <1>5, <1>11 DEF Before, BeforeNext
<1>12. PeerSide'
    <2>1. ASSUME NEW t \in Streams, peer[t].channel # 0, peer[t].out # "up"
          PROVE  BeforeNext(peer[t].channel, peer[t].tsn)
        <3>1. peer[t].channel # n
            BY <1>2, <2>1 DEF PeerSide
        <3> QED BY <1>11, <2>1, <3>1 DEF PeerSide
    <2> QED BY <1>1, <1>10, <2>1, PeerSideNext DEF PeerSide
<1>13. Asked'
    <2>1. \A c \in Outgoings : c.channel # n
        BY <1>2 DEF Asked
    <2> QED BY <1>1, <1>6, <1>10, <1>11, <2>1, AskedNext DEF Asked
<1>14. ResetAfterData'
    <2>1. n \notin performed
        BY <1>2 DEF PeerSide
    <2> QED BY <1>1, <1>3, <1>5, <2>1 DEF ResetAfterData
<1>15. CreatedOnce'
    BY <1>1, <1>8, CreatedOnceNext DEF CreatedOnce
<1> QED BY <1>7, <1>9, <1>12, <1>13, <1>14, <1>15

(* It hears of a channel of ours.                                          *)
LEMMA PeerHearsReset ==
  ASSUME ShapeInv, ResetInv, Calls', Runs(PeerHears),
         Head(sending).type = "open", peer[Head(sending).stream].channel = 0
  PROVE  ResetInv'
<1> USE DEF ResetInv
<1> DEFINE h == Head(sending)
           n == h.channel
           m == Message("ack", h.stream, n)
<1>1. UNCHANGED <<attributes, opened, creating, userTSN, toUs, toPeer, rpacket, performed>>
    BY DEF Runs, PeerHears, local, thread, history
<1>2. /\ h \in Messages /\ h = sending[1] /\ 1 \in 1..Len(sending)
      /\ \A i \in 1..Len(sending') : i + 1 \in 1..Len(sending) /\ sending'[i] = sending[i + 1]
    <2>1. sending \in Seq(Messages) /\ sending # <<>> /\ sending' = Tail(sending)
        BY DEF Runs, PeerHears, ShapeInv
    <2> QED BY <2>1, Shorter
<1>3. h.stream = Own /\ n \in 1..opened /\ Own \in Streams /\ Unknown(n)
    BY <1>2 DEF OpensOnce, Fresh, Streams
<1>4. n # 0
    BY <1>3 DEF ShapeInv
<1>5. m \in Messages /\ m.type = "ack" /\ m.channel = n
    BY <1>2 DEF Message, Messages
<1>6. /\ arriving' = Append(arriving, m)
      /\ peer' = [peer EXCEPT ![Own].channel = n,
                    ![Own].in = IF n \in early THEN "reset" ELSE "up"]
    BY <1>3 DEF Runs, PeerHears
<1>7. /\ peer'[Own].channel = n /\ peer'[Own].out = "up"
      /\ \A t \in Streams : t # Own => peer'[t] = peer[t]
    BY <1>3, <1>6 DEF ShapeInv, Peers, Fresh
<1>8. \A t \in Streams : peer[t].channel # n
    BY <1>3 DEF Unknown
<1> HIDE DEF m, n, h
<1>9. \A i \in 1..Len(arriving') : i \in Int /\
        \/ i \in 1..Len(arriving) /\ arriving'[i] = arriving[i]
        \/ i = Len(arriving) + 1 /\ arriving'[i] = m
    BY <1>5, <1>6, Added DEF ShapeInv
<1>10. Outgoings' = Outgoings
    BY <1>1 DEF Outgoings
<1>11. Fresh'
    <2>1. \A i \in 1..Len(arriving') : arriving'[i].channel \in 1..opened
        BY <1>3, <1>5, <1>9 DEF Fresh
    <2>2. \A i \in 1..Len(sending') : sending'[i].channel \in 1..opened
        BY <1>2 DEF Fresh
    <2>3. n \in 0..opened
        BY <1>3 DEF ShapeInv
    <2>4. \A t \in Streams : peer'[t].channel \in 0..opened
                             /\ (peer'[t].channel = 0 => peer'[t].out = "up")
        BY <1>7, <2>3 DEF Fresh
    <2>5. \A c \in toPeer' \union rpacket' : c.type # "close" => Told(c)'
        BY <1>1 DEF Fresh, Told
    <2> QED BY <1>1, <2>1, <2>2, <2>4, <2>5 DEF Fresh
<1>12. ASSUME NEW k, Unknown(k), k # n PROVE UnknownNext(k)
    <2>1. \A t \in Streams : peer'[t].channel # k
        BY <1>7, <1>12 DEF Unknown
    <2> QED BY <1>1, <1>5, <1>9, <1>10, <1>12, <2>1 DEF Unknown, UnknownNext
<1>13. OpensOnce'
    <2>1. ASSUME NEW i \in 1..Len(sending'), sending'[i].type = "open"
          PROVE  sending'[i].stream = Own /\ UnknownNext(sending'[i].channel)
        <3>1. i + 1 \in 1..Len(sending) /\ sending'[i] = sending[i + 1] /\ i + 1 # 1
            BY <1>2
        <3>2. sending[1].type = "open" /\ sending[1].channel = n
            BY <1>2 DEF h, n
        <3>3. sending'[i].channel # n
            BY <1>2, <2>1, <3>1, <3>2 DEF OpensOnce
        <3> QED BY <1>12, <2>1, <3>1, <3>3 DEF OpensOnce
    <2>2. ASSUME NEW i \in 1..Len(sending'), sending'[i].type = "open",
                 NEW j \in 1..Len(sending'), j # i, sending'[j].type = "open"
          PROVE  sending'[j].channel # sending'[i].channel
        <3>1. /\ i + 1 \in 1..Len(sending) /\ sending'[i] = sending[i + 1]
              /\ j + 1 \in 1..Len(sending) /\ sending'[j] = sending[j + 1]
              /\ j + 1 # i + 1
            BY <1>2, <2>2
        <3> QED BY <2>2, <3>1 DEF OpensOnce
    <2> QED BY <2>1, <2>2, OpensOnceNext
<1>14. ASSUME NEW k, NEW t, Home(k, t) PROVE HomeNext(k, t)
    BY <1>1, <1>5, <1>9, <1>14 DEF Home, HomeNext
<1>15. ASSUME NEW k, NEW tsn, Before(k, tsn), k # n PROVE BeforeNext(k, tsn)
    BY <1>1, <1>5, <1>9, <1>15 DEF Before, BeforeNext
<1>16. HomeNext(n, Own)
    <2>1. Home(n, Own)
        BY <1>3 DEF Home, Unknown
    <2> QED BY <1>14, <2>1
<1>17. PeerSide'
    <2>1. ASSUME NEW t \in Streams, t # Own, peer'[t].channel # 0
          PROVE  /\ HomeNext(peer'[t].channel, t)
                 /\ \A u \in Streams : peer'[u].channel = peer'[t].channel => u = t
                 /\ peer'[t].channel \in performed' => peer'[t].out # "up"
                 /\ peer'[t].out # "up" => BeforeNext(peer'[t].channel, peer'[t].tsn)
        <3>1. peer'[t] = peer[t] /\ peer[t].channel # n
            BY <1>7, <1>8, <2>1
        <3>2. \A u \in Streams : peer'[u].channel = peer'[t].channel => u = t
            BY <1>7, <2>1, <3>1 DEF PeerSide
        <3> QED BY <1>1, <1>14, <1>15, <2>1, <3>1, <3>2 DEF PeerSide
    <2>2. /\ HomeNext(peer'[Own].channel, Own)
          /\ \A u \in Streams : peer'[u].channel = peer'[Own].channel => u = Own
          /\ peer'[Own].channel \in performed' => peer'[Own].out # "up"
          /\ peer'[Own].out # "up" => BeforeNext(peer'[Own].channel, peer'[Own].tsn)
        <3>1. \A u \in Streams : peer'[u].channel = n => u = Own
            BY <1>7, <1>8
        <3>2. n \notin performed'
            BY <1>1, <1>3 DEF Unknown
        <3> QED BY <1>7, <1>16, <3>1, <3>2
    <2> QED BY <2>1, <2>2, PeerSideNext
<1>18. Asked'
    <2>1. \A c \in Outgoings : c.channel # n
        BY <1>3 DEF Unknown
    <2>2. \A c \in Outgoings : \A t \in Streams : peer'[t].channel = c.channel => peer'[t].out # "up"
        BY <1>7, <2>1 DEF Asked
    <2> QED BY <1>10, <1>14, <1>15, <2>1, <2>2, AskedNext DEF Asked
<1>19. ResetAfterData'
    <2>1. n \notin performed
        BY <1>3 DEF Unknown
    <2> QED BY <1>1, <1>5, <1>9, <2>1 DEF ResetAfterData
<1>20. CreatedOnce'
    <2>1. sending[1].type = "open" /\ sending[1].channel = n
        BY <1>2 DEF h, n
    <2>2. creating.at # "none" => creating.channel # n
        BY <1>2, <2>1 DEF CreatedOnce
    <2> QED BY <1>1, <1>2, <1>12, <2>2, CreatedOnceNext DEF CreatedOnce
<1> QED BY <1>11, <1>13, <1>17, <1>18, <1>19, <1>20

(* It asks, the first time or again, for its outgoing stream to be reset:  *)
(* the request names the end of the data it sent.                          *)
LEMMA PeerAsksReset ==
  ASSUME ShapeInv, ResetInv, Calls', NEW s \in Streams, Runs(PeerAsks(s))
  PROVE  ResetInv'
<1> USE DEF ResetInv
<1> DEFINE n == peer[s].channel
           tsn == IF peer[s].out = "up" THEN userTSN + Len(arriving) ELSE peer[s].tsn
           c == Outgoing(s, n, peer'[s].tsn)
<1>1. UNCHANGED <<attributes, opened, creating, arriving, sending, userTSN, toPeer, rpacket,
                  performed>>
    BY DEF Runs, PeerAsks, local, thread, history, data
<1>2. n # 0 /\ toUs' \in Sent(toUs, c)
      /\ peer' = [peer EXCEPT ![s].out = "asked", ![s].tsn = tsn]
    BY DEF Runs, PeerAsks, ShapeInv, Peers
<1>3. n \in 1..opened /\ userTSN + Len(arriving) \in Int
    BY <1>2, LenProperties DEF Fresh, ShapeInv
<1>4. tsn \in Int
    BY <1>3 DEF ShapeInv, Peers
<1>5. Before(n, tsn)
    <2>1. CASE peer[s].out = "up"
        <3>1. \A i \in 1..Len(arriving) : userTSN + i <= userTSN + Len(arriving)
            BY LenProperties DEF ShapeInv
        <3> QED BY <2>1, <3>1 DEF Before
    <2>2. CASE peer[s].out # "up"
        BY <1>2, <2>2 DEF PeerSide
    <2> QED BY <2>1, <2>2
<1> HIDE DEF tsn
<1>6. /\ peer'[s].channel = n /\ peer'[s].out = "asked" /\ peer'[s].tsn = tsn
      /\ \A t \in Streams : t # s => peer'[t] = peer[t]
    BY <1>2 DEF ShapeInv, Peers
<1>7. c.type = "outgoing" /\ c.channel = n /\ c.stream = s /\ c.tsn = tsn
    BY <1>6 DEF Outgoing
<1> HIDE DEF c
<1>8. toUs' \subseteq toUs \union {c} /\ Outgoings' \subseteq Outgoings \union {c}
    BY <1>2, SentOne DEF Outgoings
<1>9. Fresh'
    <2>1. \A t \in Streams : peer'[t].channel \in 0..opened
                             /\ (peer'[t].channel = 0 => peer'[t].out = "up")
        BY <1>2, <1>6 DEF Fresh
    <2>2. \A d \in toUs' : d.type \in {"outgoing", "incoming"} => d.channel \in 1..opened
        BY <1>3, <1>7, <1>8 DEF Fresh
    <2>3. \A d \in toPeer' \union rpacket' : d.type # "close" => Told(d)'
        BY <1>1 DEF Fresh, Told
    <2> QED BY <1>1, <2>1, <2>2, <2>3 DEF Fresh
<1>10. ASSUME NEW k, Unknown(k) PROVE UnknownNext(k)
    <2>1. k # n
        BY <1>10 DEF Unknown
    <2>2. \A t \in Streams : peer'[t].channel # k
        BY <1>6, <1>10 DEF Unknown
    <2>3. \A d \in Outgoings' : d.channel # k
        BY <1>7, <1>8, <1>10, <2>1 DEF Unknown
    <2> QED BY <1>1, <1>10, <2>2, <2>3 DEF Unknown, UnknownNext
<1>11. OpensOnce'
    BY <1>1, <1>10, OpensOnceNext DEF OpensOnce
<1>12. ASSUME NEW k, NEW t, Home(k, t) PROVE HomeNext(k, t)
    BY <1>1, <1>12 DEF Home, HomeNext
<1>13. ASSUME NEW k, NEW u, Before(k, u) PROVE BeforeNext(k, u)
    BY <1>1, <1>13 DEF Before, BeforeNext
<1>14. PeerSide'
    <2>1. ASSUME NEW t \in Streams, t # s, peer'[t].channel # 0
          PROVE  /\ HomeNext(peer'[t].channel, t)
                 /\ \A u \in Streams : peer'[u].channel = peer'[t].channel => u = t
                 /\ peer'[t].channel \in performed' => peer'[t].out # "up"
                 /\ peer'[t].out # "up" => BeforeNext(peer'[t].channel, peer'[t].tsn)
        <3>1. peer'[t] = peer[t]
            BY <1>6, <2>1
        <3>2. \A u \in Streams : peer'[u].channel = peer'[t].channel => u = t
            BY <1>6, <2>1, <3>1 DEF PeerSide
        <3> QED BY <1>1, <1>12, <1>13, <2>1, <3>1, <3>2 DEF PeerSide
    <2>2. /\ HomeNext(peer'[s].channel, s)
          /\ \A u \in Streams : peer'[u].channel = peer'[s].channel => u = s
          /\ peer'[s].channel \in performed' => peer'[s].out # "up"
          /\ peer'[s].out # "up" => BeforeNext(peer'[s].channel, peer'[s].tsn)
        <3>1. \A u \in Streams : peer'[u].channel = n => u = s
            BY <1>2, <1>6 DEF PeerSide
        <3>2. HomeNext(n, s)
            BY <1>2, <1>12 DEF PeerSide
        <3> QED BY <1>5, <1>6, <1>13, <3>1, <3>2
    <2> QED BY <2>1, <2>2, PeerSideNext
<1>15. Asked'
    <2>1. /\ c.tsn \in Int /\ HomeNext(c.channel, c.stream) /\ BeforeNext(c.channel, c.tsn)
          /\ \A t \in Streams : peer'[t].channel = c.channel => peer'[t].out # "up"
        <3>1. HomeNext(n, s) /\ BeforeNext(n, tsn)
            BY <1>2, <1>5, <1>12, <1>13 DEF PeerSide
        <3>2. \A t \in Streams : peer'[t].channel = n => peer'[t].out # "up"
            BY <1>2, <1>6 DEF PeerSide
        <3> QED BY <1>4, <1>7, <3>1, <3>2
    <2>2. ASSUME NEW d \in Outgoings
          PROVE  /\ d.tsn \in Int /\ HomeNext(d.channel, d.stream) /\ BeforeNext(d.channel, d.tsn)
                 /\ \A t \in Streams : peer'[t].channel = d.channel => peer'[t].out # "up"
        BY <1>6, <1>12, <1>13 DEF Asked
    <2> QED BY <1>8, <2>1, <2>2, AskedNext
<1>16. ResetAfterData'
    BY <1>1 DEF ResetAfterData
<1>17. CreatedOnce'
    BY <1>1, <1>10, CreatedOnceNext DEF CreatedOnce
<1> QED BY <1>9, <1>11, <1>14, <1>15, <1>16, <1>17

(* We are told that the peer's outgoing stream is reset, and all of its    *)
(* data has come: the one step that answers that it is done.               *)
LEMMA ResetNowReset ==
  ASSUME ShapeInv, ResetInv, Calls', NEW c \in toUs, Runs(ResetNow(c))
  PROVE  ResetInv'
<1> USE DEF ResetInv
<1> DEFINE n == c.channel
           a == Answer(n, IF attributes[c.stream].status = "assigned" THEN "performed" ELSE "nop",
                       RREQSEQ, c.stream)
<1>1. UNCHANGED <<opened, creating, arriving, sending, userTSN, peer>>
    BY DEF Runs, ResetNow, Forget, data, theirs
<1>2. /\ c \in Outgoings /\ c.type = "outgoing" /\ c.tsn <= userTSN
      /\ toUs' = toUs \ {c}
      /\ (rpacket' = {a} /\ toPeer' = toPeer) \/ (rpacket' = rpacket /\ toPeer' \in Sent(toPeer, a))
      /\ performed' = performed \union {n}
    BY DEF Runs, ResetNow, Passed, Outgoings
<1>3. n \in 1..opened /\ n # 0
    BY <1>2 DEF Fresh, ShapeInv
<1>4. /\ \A t \in Streams : t # c.stream => attributes'[t] = attributes[t]
      /\ c.stream \in Streams => attributes'[c.stream].channel = 0
    BY DEF Runs, ResetNow, Forget, ShapeInv, Free
<1>5. a.type = "answer" /\ a.to = n
    BY DEF Answer
<1> HIDE DEF a
<1>6. toPeer' \union rpacket' \subseteq toPeer \union rpacket \union {a} /\ Outgoings' \subseteq Outgoings
    BY <1>2, SentOne DEF Outgoings
<1>7. \A i \in 1..Len(arriving) : arriving[i].channel # n
    <2> SUFFICES ASSUME NEW i \in 1..Len(arriving), arriving[i].channel = n PROVE FALSE
        OBVIOUS
    <2>1. userTSN + i <= c.tsn /\ c.tsn \in Int
        BY <1>2 DEF Asked, Before
    <2> QED BY <1>2, <2>1 DEF ShapeInv
<1>8. \A t \in Streams : peer[t].channel = n => peer[t].out # "up"
    BY <1>2 DEF Asked
<1>9. Fresh'
    <2>1. \A t \in Streams : attributes'[t].channel \in 0..opened
        <3>1. 0 \in 0..opened
            BY DEF ShapeInv
        <3> QED BY <1>4, <3>1 DEF Fresh
    <2>2. \A d \in toUs' : d.type \in {"outgoing", "incoming"} => d.channel \in 1..opened
        BY <1>2 DEF Fresh
    <2>3. \A d \in toPeer' \union rpacket' : d.type # "close" => Told(d)'
        BY <1>2, <1>3, <1>5, <1>6 DEF Fresh, Told
    <2>4. performed' \subseteq 1..opened
        BY <1>2, <1>3 DEF Fresh
    <2> QED BY <1>1, <2>1, <2>2, <2>3, <2>4 DEF Fresh
<1>10. ASSUME NEW k, k # 0, Unknown(k) PROVE UnknownNext(k)
    <2>1. k # n
        BY <1>2, <1>10 DEF Unknown
    <2>2. \A t \in Streams : attributes'[t].channel = k => t = Own
        BY <1>4, <1>10 DEF Unknown
    <2> QED BY <1>1, <1>2, <1>6, <1>10, <2>1, <2>2 DEF Unknown, UnknownNext
<1>11. OpensOnce'
    <2>1. \A i \in 1..Len(sending) : sending[i].channel # 0
        BY DEF Fresh, ShapeInv
    <2> QED BY <1>1, <1>10, <2>1, OpensOnceNext DEF OpensOnce
<1>12. ASSUME NEW k, k # 0, NEW t, Home(k, t) PROVE HomeNext(k, t)
    <2>1. \A u \in Streams : attributes'[u].channel = k => u = t
        BY <1>4, <1>12 DEF Home
    <2> QED BY <1>1, <1>12, <2>1 DEF Home, HomeNext
<1>13. ASSUME NEW k, NEW u, Before(k, u) PROVE BeforeNext(k, u)
    BY <1>1, <1>13 DEF Before, BeforeNext
<1>14. PeerSide'
    BY <1>1, <1>2, <1>8, <1>12, <1>13, PeerSideNext DEF PeerSide
<1>15. Asked'
    <2>1. \A d \in Outgoings : d.channel # 0
        BY DEF Outgoings, Fresh, ShapeInv
    <2> QED BY <1>1, <1>6, <1>12, <1>13, <2>1, AskedNext DEF Asked
<1>16. ResetAfterData'
    <2>1. \A t \in Streams : attributes'[t].channel # n
        <3>1. \A t \in Streams : attributes[t].channel = n => t = c.stream
            BY <1>2 DEF Asked, Home
        <3> QED BY <1>3, <1>4, <3>1
    <2>2. \A k \in performed : \A t \in Streams : attributes'[t].channel # k
        <3>1. \A k \in performed : k # 0
            BY DEF Fresh, ShapeInv
        <3> QED BY <1>4, <3>1 DEF ResetAfterData
    <2> QED BY <1>1, <1>2, <1>7, <2>1, <2>2 DEF ResetAfterData
<1>17. CreatedOnce'
    BY <1>1, <1>10, CreatedOnceNext DEF CreatedOnce, Fresh, Calls, ShapeInv
<1> QED BY <1>9, <1>11, <1>14, <1>15, <1>16, <1>17

-----------------------------------------------------------------------------
(* The quiet steps. *)
(* What does not change keeps each of the conditions of Quiet. *)
LEMMA Still ==
  ASSUME ShapeInv
  PROVE  /\ UNCHANGED attributes => OpensArrived
         /\ UNCHANGED <<arriving, userTSN>> => Delivers(0)
         /\ UNCHANGED sending => SendsOn(0)
         /\ UNCHANGED peer => PeerForgets
<1>1. UNCHANGED attributes => OpensArrived
    BY DEF OpensArrived
<1>2. UNCHANGED <<arriving, userTSN>> => Delivers(0)
    BY DEF Delivers, ShapeInv
<1>3. UNCHANGED sending => SendsOn(0)
    BY DEF SendsOn
<1>4. UNCHANGED peer => PeerForgets
    BY DEF PeerForgets
<1> QED BY <1>1, <1>2, <1>3, <1>4

LEMMA ForgetQuiet ==
  ASSUME ShapeInv, NEW s, Forget(s) \/ PropagateChannelClose(s)
  PROVE  OpensArrived /\ UNCHANGED <<opened, creating>>
<1>1. CASE UNCHANGED <<local, chain>>
    BY <1>1 DEF local, OpensArrived
<1>2. CASE Forget(s)
    <2>1. \A t \in Streams : attributes'[t] \in {Free, attributes[t]}
        BY <1>2 DEF Forget, ShapeInv
    <2> QED BY <1>2, <2>1 DEF Forget, Free, OpensArrived
<1> QED BY <1>1, <1>2 DEF PropagateChannelClose

LEMMA CloseQuiet ==
  ASSUME NEW s, NEW n, CloseDataChannelEx2(s, n), toUs' \subseteq toUs, rpacket' \subseteq rpacket
  PROVE  AsksNothing
<1>1. \A c \in toPeer' : c \in toPeer \/ c.type = "close"
    BY SentOne DEF CloseDataChannelEx2, Requests
<1> QED BY <1>1 DEF AsksNothing

LEMMA TakeUpQuiet ==
  ASSUME NEW n, TakeUp(n), toUs' \subseteq toUs, rpacket' \subseteq rpacket
  PROVE  AsksNothing
<1>1. CASE CloseDataChannelEx2(pending.stream, pending.channel)
    BY <1>1, CloseQuiet
<1>2. CASE UNCHANGED toPeer
    BY <1>2 DEF AsksNothing
<1> QED BY <1>1, <1>2 DEF TakeUp

LEMMA HandleQuiet ==
  ASSUME ShapeInv, Fresh, arriving # <<>>, Handle(Head(arriving))
  PROVE  OpensArrived
<1> DEFINE m == Head(arriving)
           s == m.stream
<1>1. m \in Messages /\ m = arriving[1] /\ 1 \in 1..Len(arriving)
    BY Shorter DEF ShapeInv
<1>2. m.type \in {"open", "ack", "data"} /\ s \in Streams
    BY <1>1 DEF Messages
<1>4. CASE m.type = "ack"
    <2>1. \A t \in Streams : attributes'[t].channel = attributes[t].channel
        <3>1. attributes' \in {attributes, [attributes EXCEPT ![s].status = "assigned"]}
            BY <1>4 DEF Handle
        <3>2. CASE attributes' = [attributes EXCEPT ![s].status = "assigned"]
            BY <1>2, <3>2 DEF ShapeInv, Statuses
        <3> QED BY <3>1, <3>2
    <2> QED BY <2>1 DEF OpensArrived
<1>5. CASE m.type = "open" /\ attributes[s].status # "assigned"
    <2>1. attributes' = [attributes EXCEPT ![s] = [status |-> "assigned", channel |-> m.channel]]
        BY <1>5 DEF Handle
    <2>2. attributes'[s].channel = m.channel
          /\ \A t \in Streams : t # s => attributes'[t] = attributes[t]
        BY <1>2, <2>1 DEF ShapeInv
    <2> QED BY <1>1, <1>5, <2>2 DEF OpensArrived
<1>6. CASE m.type = "data" \/ (m.type = "open" /\ attributes[s].status = "assigned")
    <2>1. UNCHANGED attributes
        BY <1>6 DEF Handle
    <2> QED BY <2>1, Still
<1> QED BY <1>2, <1>4, <1>5, <1>6

(* What the peer makes of a chunk of ours.                                 *)
LEMMA AnswerForgets ==
  ASSUME ShapeInv, NEW c, Told(c)
  PROVE  /\ HearAnswer(peer, c) \in [Streams -> Peers]
         /\ \A s \in Streams :
              LET q == HearAnswer(peer, c)[s] IN
              /\ q.channel = peer[s].channel /\ q.tsn = peer[s].tsn
              /\ \/ q.out = peer[s].out
                 \/ peer[s].channel \in performed /\ q.out = "reset"
<1> DEFINE r == [peer[c.stream] EXCEPT !.out = "reset"]
           p == HearAnswer(peer, c)
<1>1. CASE p = peer
    BY <1>1 DEF ShapeInv
<1>2. CASE c.stream \notin Streams
    BY <1>1, <1>2 DEF HearAnswer, ShapeInv
<1>3. CASE /\ c.stream \in Streams /\ p = [peer EXCEPT ![c.stream].out = "reset"]
           /\ peer[c.stream].channel = c.to /\ Done(c)
    <2>0. peer[c.stream] \in Peers
        BY <1>3 DEF ShapeInv
    <2>1. r \in Peers /\ r.channel = peer[c.stream].channel /\ r.tsn = peer[c.stream].tsn
          /\ r.out = "reset"
        BY <2>0 DEF Peers
    <2>2. p = [peer EXCEPT ![c.stream] = r]
        BY <1>3 DEF ShapeInv, Peers
    <2> HIDE DEF r, p
    <2>3. p \in [Streams -> Peers] /\ p[c.stream] = r
          /\ \A s \in Streams : s # c.stream => p[s] = peer[s]
        BY <1>3, <2>1, <2>2 DEF ShapeInv
    <2>4. \A s \in Streams : /\ p[s].channel = peer[s].channel /\ p[s].tsn = peer[s].tsn
                             /\ \/ p[s].out = peer[s].out
                                \/ peer[s].channel \in performed /\ p[s].out = "reset"
        BY <1>3, <2>1, <2>3 DEF Told
    <2> QED BY <2>3, <2>4 DEF p
<1>4. p = peer \/ (p = [peer EXCEPT ![c.stream].out = "reset"]
                   /\ peer[c.stream].channel = c.to /\ Done(c))
    BY DEF HearAnswer, Done
<1> QED BY <1>1, <1>2, <1>3, <1>4

LEMMA ResetForgets ==
  ASSUME ShapeInv, NEW p \in [Streams -> Peers], NEW s, NEW n, HearReset(p, s, n),
         \A t \in Streams :
           /\ p[t].channel = peer[t].channel /\ p[t].tsn = peer[t].tsn
           /\ \/ p[t].out = peer[t].out
              \/ peer[t].channel \in performed /\ p[t].out = "reset"
  PROVE  PeerForgets
<1> DEFINE i == [p[s] EXCEPT !.in = "reset"]
           q == Settled(i)
<1>1. peer' \in {p, [p EXCEPT ![s] = q]}
    BY DEF HearReset
<1>2. CASE peer' = p \/ s \notin Streams
    <2>1. peer' = p
        BY <1>1, <1>2
    <2> QED BY <2>1 DEF PeerForgets
<1>3. CASE s \in Streams /\ peer' = [p EXCEPT ![s] = q]
    <2>1. i.channel = p[s].channel /\ i.out = p[s].out /\ i.tsn = p[s].tsn
        BY <1>3 DEF Peers
    <2>2. q \in {i, NoPeer} /\ NoPeer.channel = 0 /\ NoPeer.out = "up"
        BY DEF Settled, NoPeer
    <2> HIDE DEF i, q
    <2>3. peer'[s] = q /\ \A t \in Streams : t # s => peer'[t] = p[t]
        BY <1>3
    <2> QED BY <1>3, <2>1, <2>2, <2>3 DEF PeerForgets
<1> QED BY <1>1, <1>2, <1>3

LEMMA ReceivesQuiet ==
  ASSUME ShapeInv, Fresh, NEW c \in toPeer, Runs(PeerReceives(c))
  PROVE  PeerForgets
<1>1. CASE c.type = "close"
    <2>1. HearReset(peer, c.stream, c.channel) /\ peer \in [Streams -> Peers]
        BY <1>1 DEF Runs, PeerReceives, ShapeInv
    <2> QED BY <2>1, ResetForgets
<1>2. CASE c.type # "close"
    <2>1. HearReset(HearAnswer(peer, c), c.stream, c.to)
        BY <1>2 DEF Runs, PeerReceives
    <2>2. Told(c)
        BY <1>2 DEF Fresh
    <2> DEFINE p == HearAnswer(peer, c)
    <2>3. p \in [Streams -> Peers]
          /\ \A t \in Streams :
               /\ p[t].channel = peer[t].channel /\ p[t].tsn = peer[t].tsn
               /\ \/ p[t].out = peer[t].out
                  \/ peer[t].channel \in performed /\ p[t].out = "reset"
        BY <2>2, AnswerForgets
    <2> HIDE DEF p
    <2>4. HearReset(p, c.stream, c.to)
        BY <2>1 DEF p
    <2> QED BY <2>3, <2>4, ResetForgets
<1> QED BY <1>1, <1>2

LEMMA StepReset ==
  ASSUME ObjectInv, Aims, ResetInv, [Next]_vars
  PROVE  ResetInv'
<1> USE DEF ObjectInv, ResetInv
<1>0. Calls'
    BY StepCalls
<1>1. CASE Runs(Create)
    BY <1>0, <1>1, CreateReset
<1>2. ASSUME NEW s \in Streams, Runs(Close(s)) PROVE ResetInv'
    <2>1. CloseDataChannelEx2(s, DataChannels[s]) /\ toUs' = toUs
          /\ UNCHANGED <<attributes, opened, creating, arriving, userTSN, sending, peer, rpacket, performed>>
        BY <1>2 DEF Runs, Close, data, theirs, thread, history
    <2>2. AsksNothing
        BY <2>1, CloseQuiet
    <2> QED BY <1>0, <2>1, <2>2, Still, Quiet
<1>3. CASE Runs(CloseDataChannel_Timeout)
    <2>1. UNCHANGED <<toUs, arriving, userTSN, sending, peer, rpacket, performed>>
        BY <1>3 DEF Runs, CloseDataChannel_Timeout, data, theirs, history
    <2>2. CASE GivesUp(reconfigFailures + 1)
        <3>1. PropagateChannelClose(pending.stream) /\ toPeer' = toPeer
            BY <1>3, <2>2 DEF Runs, CloseDataChannel_Timeout
        <3>2. AsksNothing
            BY <2>1, <3>1 DEF AsksNothing
        <3>3. OpensArrived /\ UNCHANGED <<opened, creating>>
            BY <3>1, ForgetQuiet
        <3> QED BY <1>0, <2>1, <3>2, <3>3, Still, Quiet
    <2>3. CASE ~GivesUp(reconfigFailures + 1)
        <3>1. UNCHANGED <<attributes, opened, creating>>
              /\ toPeer' \in Sent(toPeer, Requests(pending.seq - 1, pending.stream,
                                                   pending.channel))
            BY <1>3, <2>3 DEF Runs, CloseDataChannel_Timeout, local
        <3>2. \A c \in toPeer' : c \in toPeer \/ c.type = "close"
            BY <3>1, SentOne DEF Requests
        <3>3. AsksNothing
            BY <2>1, <3>2 DEF AsksNothing
        <3> QED BY <1>0, <2>1, <3>1, <3>3, Still, Quiet
    <2> QED BY <2>2, <2>3
<1>4. CASE Runs(ProcessStreamData)
    <2>1. /\ arriving # <<>> /\ arriving' = Tail(arriving) /\ userTSN' = userTSN + 1
          /\ Handle(Head(arriving)) /\ UNCHANGED <<opened, creating, toUs, peer, rpacket, sending, performed>>
        BY <1>4 DEF Runs, ProcessStreamData, theirs, history
    <2>2. OpensArrived
        BY <2>1, HandleQuiet
    <2>3. Delivers(1)
        BY <2>1, Shorter DEF Delivers, ShapeInv
    <2>4. AsksNothing
        <3>1. TakeUp(userTSN + 1) \/ UNCHANGED toPeer
            BY <1>4 DEF Runs, ProcessStreamData
        <3>2. CASE TakeUp(userTSN + 1)
            BY <2>1, <3>2, TakeUpQuiet
        <3>3. CASE UNCHANGED toPeer
            BY <2>1, <3>3 DEF AsksNothing
        <3> QED BY <3>1, <3>2, <3>3
    <2> QED BY <1>0, <2>1, <2>2, <2>3, <2>4, Still, Quiet
<1>5. ASSUME NEW c \in toUs, Runs(ResetNow(c)) PROVE ResetInv'
    BY <1>0, <1>5, ResetNowReset
<1>6. ASSUME NEW c \in toUs, Runs(Defer(c)) PROVE ResetInv'
    <2>1. toUs' \subseteq toUs
          /\ UNCHANGED <<attributes, opened, creating, arriving, userTSN, sending, peer, performed, toPeer,
                         rpacket>>
        BY <1>6 DEF Runs, Defer, local, thread, data, theirs, history
    <2>2. AsksNothing
        BY <2>1 DEF AsksNothing
    <2> QED BY <1>0, <2>1, <2>2, Still, Quiet
<1>7. ASSUME NEW c \in toUs, Runs(ResetOutgoing(c)) PROVE ResetInv'
    <2>1. /\ toUs' \subseteq toUs /\ c.type = "incoming"
          /\ toPeer' \in Sent(toPeer, Answer(c.channel, "none", RREQSEQ, c.stream))
          /\ UNCHANGED <<attributes, opened, creating, arriving, userTSN, sending, peer, rpacket, performed>>
        BY <1>7 DEF Runs, ResetOutgoing, local, thread, data, theirs, history
    <2>2. c.channel # 0
        BY <2>1 DEF Fresh, ShapeInv
    <2>3. \A d \in toPeer' : d \in toPeer \/ (d.to # 0 /\ ~Done(d))
        BY <2>1, <2>2, SentOne DEF Answer, Done
    <2>4. AsksNothing
        BY <2>1, <2>3 DEF AsksNothing
    <2> QED BY <1>0, <2>1, <2>4, Still, Quiet
<1>8. ASSUME NEW c \in toUs, Runs(Respond(c)) PROVE ResetInv'
    <2>1. toUs' \subseteq toUs
          /\ UNCHANGED <<arriving, userTSN, sending, peer, rpacket, performed, toPeer>>
        BY <1>8 DEF Runs, Respond, data, theirs
    <2>2. OpensArrived /\ UNCHANGED <<opened, creating>>
        <3>1. PropagateChannelClose(pending.stream) \/ UNCHANGED local
            BY <1>8, RespondOutcomes DEF Runs
        <3>2. CASE UNCHANGED local
            BY <3>2, Still DEF local
        <3> QED BY <3>1, <3>2, ForgetQuiet
    <2>3. AsksNothing
        BY <2>1 DEF AsksNothing
    <2> QED BY <1>0, <2>1, <2>2, <2>3, Still, Quiet
<1>9. ASSUME NEW s \in Streams, Runs(PeerOpens(s)) PROVE ResetInv'
    BY <1>0, <1>9, PeerOpensReset
<1>10. ASSUME NEW s \in Streams, Runs(PeerWrites(s)) PROVE ResetInv'
    BY <1>0, <1>10, PeerWritesReset
<1>11. CASE Runs(PeerHears)
    <2>1. CASE Head(sending).type = "open" /\ peer[Head(sending).stream].channel = 0
        BY <1>0, <1>11, <2>1, PeerHearsReset
    <2>2. CASE ~(Head(sending).type = "open" /\ peer[Head(sending).stream].channel = 0)
        <3>1. sending # <<>> /\ sending' = Tail(sending)
              /\ UNCHANGED <<attributes, opened, creating, arriving, userTSN, toUs, toPeer, rpacket, performed, peer>>
            BY <1>11, <2>2 DEF Runs, PeerHears, local, thread, history
        <3>2. SendsOn(1)
            BY <3>1, Shorter DEF SendsOn, ShapeInv
        <3>3. AsksNothing
            BY <3>1 DEF AsksNothing
        <3> QED BY <1>0, <3>1, <3>2, <3>3, Still, Quiet
    <2> QED BY <2>1, <2>2
<1>12. ASSUME NEW s \in Streams, Runs(PeerAsks(s)) PROVE ResetInv'
    BY <1>0, <1>12, PeerAsksReset
<1>13. ASSUME NEW s \in Streams, Runs(PeerAsksUs(s)) PROVE ResetInv'
    <2>1. /\ toUs' \in Sent(toUs, Incoming(s, peer[s].channel)) /\ peer[s].channel # 0
          /\ UNCHANGED <<attributes, opened, creating, arriving, userTSN, sending, peer, performed, toPeer,
                         rpacket>>
        BY <1>13 DEF Runs, PeerAsksUs, local, thread, data, history
    <2>2. peer[s].channel \in 1..opened
        BY <2>1 DEF Fresh, ShapeInv
    <2>3. \A d \in toUs' : d \in toUs \/ (d.type = "incoming" /\ d.channel \in 1..opened)
        BY <2>1, <2>2, SentOne DEF Incoming
    <2>4. AsksNothing
        BY <2>1, <2>3 DEF AsksNothing
    <2> QED BY <1>0, <2>1, <2>4, Still, Quiet
<1>14. ASSUME NEW c \in toPeer, Runs(PeerReceives(c)) PROVE ResetInv'
    <2>1. toPeer' \subseteq toPeer
          /\ UNCHANGED <<attributes, opened, creating, arriving, userTSN, sending, rpacket, performed>>
        BY <1>14 DEF Runs, PeerReceives, local, thread, data, history
    <2>2. \A d \in toUs' : d \in toUs \/ d.type = "response"
        BY <1>14, SentOne DEF Runs, PeerReceives, Response
    <2>3. AsksNothing
        BY <2>1, <2>2 DEF AsksNothing
    <2>4. PeerForgets
        BY <1>14, ReceivesQuiet
    <2> QED BY <1>0, <2>1, <2>3, <2>4, Still, Quiet
<1>15. CASE UNCHANGED vars
    <2>1. UNCHANGED <<attributes, opened, creating, arriving, userTSN, sending, peer, performed, toUs, toPeer,
                      rpacket>>
        BY <1>15 DEF vars, local, thread, data, theirs, history
    <2>2. AsksNothing
        BY <2>1 DEF AsksNothing
    <2> QED BY <1>0, <2>1, <2>2, Still, Quiet
<1>16. CASE Runs(OpenDataChannel)
    BY <1>0, <1>16, OpenDataChannelReset
<1>17. CASE Runs(SendOpen)
    BY <1>0, <1>17, SendOpenReset
<1>18. CASE Runs(OnDataChannel)
    <2>1. UNCHANGED <<attributes, opened, creating, arriving, userTSN, sending, peer, performed, toUs, toPeer,
                      rpacket>>
        BY <1>18 DEF Runs, OnDataChannel, data, theirs, history
    <2>2. AsksNothing
        BY <2>1 DEF AsksNothing
    <2> QED BY <1>0, <2>1, <2>2, Still, Quiet
<1>19. CASE Runs(EndMessage)
    <2>1. UNCHANGED <<attributes, opened, creating, arriving, userTSN, peer, performed, toUs, rpacket>>
        BY <1>19 DEF Runs, EndMessage, local, theirs, history
    <2>2. AsksNothing
        BY <1>19, <2>1, TakeUpQuiet DEF Runs, EndMessage
    <2>3. SendsOn(0)
        <3> DEFINE a == Message("ack", chain.stream, chain.channel)
        <3>1. CASE chain.at = "opened"
            <4>1. a \in Messages /\ a.type # "open" /\ a.channel \in 1..opened
                BY <3>1 DEF Message, Messages, ShapeInv, Callings, Fresh, Calls
            <4>2. sending' = Append(sending, a)
                BY <1>19, <3>1 DEF Runs, EndMessage
            <4> HIDE DEF a
            <4>3. \A i \in 1..Len(sending') : i + 0 = i /\
                    \/ i \in 1..Len(sending) /\ sending'[i] = sending[i]
                    \/ i = Len(sending) + 1 /\ sending'[i] = a
                BY <4>1, <4>2, Added DEF ShapeInv
            <4> QED BY <4>1, <4>3 DEF SendsOn
        <3>2. CASE chain.at # "opened"
            BY <1>19, <3>2, Still DEF Runs, EndMessage
        <3> QED BY <3>1, <3>2
    <2> QED BY <1>0, <2>1, <2>2, <2>3, Still, Quiet
<1>20. CASE Runs(OnDataChannelClosed)
    <2>1. UNCHANGED <<attributes, opened, creating, arriving, userTSN, sending, peer, performed, toUs, toPeer,
                      rpacket>>
        BY <1>20 DEF Runs, OnDataChannelClosed, data, theirs
    <2>2. AsksNothing
        BY <2>1 DEF AsksNothing
    <2> QED BY <1>0, <2>1, <2>2, Still, Quiet
<1>21. CASE Runs(SendAnswer)
    <2>1. UNCHANGED <<attributes, opened, creating, arriving, userTSN, sending, peer, performed, toUs>>
        BY <1>21 DEF Runs, SendAnswer, local, data, theirs, history
    <2>2. toPeer' \union rpacket' \subseteq toPeer \union rpacket
        BY <1>21, SentOne DEF Runs, SendAnswer
    <2>3. AsksNothing
        BY <2>1, <2>2 DEF AsksNothing
    <2> QED BY <1>0, <2>1, <2>3, Still, Quiet
<1> QED BY <1>1, <1>2, <1>3, <1>4, <1>5, <1>6, <1>7, <1>8, <1>9, <1>10, <1>11, <1>12,
           <1>13, <1>14, <1>15, <1>16, <1>17, <1>18, <1>19, <1>20, <1>21 DEF Next

(* The peer hears that a reset is done only when all it wrote to the       *)
(* channel has been delivered, whatever was lost, deferred, repeated or    *)
(* overtaken, and nothing opens the channel again (ILibWebRTC.c:3536).     *)
THEOREM ResetAfterDataTheorem == Spec => []ResetAfterData
<1>1. Init => ResetInv
    BY InitReset
<1>2. ObjectInv /\ Aims /\ ResetInv /\ [Next]_vars => ResetInv'
    BY StepReset
<1>3. ResetInv => ResetAfterData
    BY DEF ResetInv
<1> QED BY <1>1, <1>2, <1>3, ObjectsKept, PTL DEF Spec
-----------------------------------------------------------------------------
(* The types. *)

LEMMA InitTypes == Init => TypeInv
<1> SUFFICES ASSUME Init PROVE TypeInv
    OBVIOUS
<1>1. Len(arriving) = 0 /\ userTSN = 0 /\ toUs = {} /\ toPeer = {} /\ early = {} /\ unaware = {} /\ taken = {}
      /\ rpacket = {} /\ chain.at = "idle"
    BY DEF Init, Idle, At
<1>2. Ends
    BY <1>1 DEF Init, Ends, EndTSN, Outgoings, NoPeer
<1>3. Waits /\ Names /\ Held
    BY <1>1 DEF Init, Waits, Names, Held
<1>4. Counts
    BY ChannelAssumption DEF Init, Counts
<1> QED BY <1>2, <1>3, <1>4 DEF TypeInv

(* A step that delivers no more than arrived, with the messages after it.  *)
LEMMA EndKept ==
  ASSUME ShapeInv, Ends
  PROVE  /\ UNCHANGED <<arriving, userTSN>> => EndTSN' = EndTSN /\ Len(arriving) \in Nat
         /\ \A m \in Messages : arriving' = Append(arriving, m) /\ userTSN' = userTSN
                                => EndTSN' = EndTSN + 1
         /\ arriving # <<>> /\ arriving' = Tail(arriving) /\ userTSN' = userTSN + 1
                                => EndTSN' = EndTSN
<1>1. Len(arriving) \in Nat /\ userTSN \in Nat /\ arriving \in Seq(Messages)
    BY LenProperties DEF ShapeInv, Ends
<1>2. ASSUME NEW m \in Messages, arriving' = Append(arriving, m), userTSN' = userTSN
      PROVE  EndTSN' = EndTSN + 1
    <2>1. Len(arriving') = Len(arriving) + 1
        BY <1>1, <1>2, Longer
    <2> QED BY <1>1, <1>2, <2>1 DEF EndTSN
<1>3. ASSUME arriving # <<>>, arriving' = Tail(arriving), userTSN' = userTSN + 1
      PROVE  EndTSN' = EndTSN
    <2>1. Len(arriving') = Len(arriving) - 1
        BY <1>1, <1>3, HeadTailProperties
    <2> QED BY <1>1, <1>3, <2>1 DEF EndTSN
<1> QED BY <1>1, <1>2, <1>3 DEF EndTSN

(* The end of what the peer wrote never moves back.                        *)
LEMMA EndMoves ==
  ASSUME ObjectInv, ObjectInv', Ends, [Next]_vars
  PROVE  EndTSN \in Nat /\ EndTSN' \in Nat /\ EndTSN <= EndTSN' /\ userTSN' \in Nat
<1> USE DEF ObjectInv
<1>1. Len(arriving) \in Nat /\ Len(arriving') \in Nat /\ EndTSN \in Nat
    BY LenProperties DEF ShapeInv, Ends, EndTSN
<1>2. CASE UNCHANGED <<arriving, userTSN>>
    BY <1>1, <1>2 DEF EndTSN, Ends
<1>3. CASE Runs(ProcessStreamData)
    <2>1. arriving # <<>> /\ arriving' = Tail(arriving) /\ userTSN' = userTSN + 1
        BY <1>3 DEF Runs, ProcessStreamData
    <2> QED BY <1>1, <2>1, EndKept DEF Ends
<1>4. ASSUME NEW m \in Messages, arriving' = Append(arriving, m), userTSN' = userTSN
      PROVE  EndTSN' = EndTSN + 1 /\ userTSN' \in Nat
    BY <1>4, EndKept DEF Ends
<1>5. ASSUME NEW s \in Streams, Runs(PeerOpens(s))
      PROVE  \E m \in Messages : arriving' = Append(arriving, m) /\ userTSN' = userTSN
    <2>1. arriving' = Append(arriving, Message("open", s, opened')) /\ userTSN' = userTSN
        BY <1>5 DEF Runs, PeerOpens
    <2>2. Message("open", s, opened') \in Messages
        BY DEF Message, Messages, ShapeInv
    <2> QED BY <2>1, <2>2
<1>6. ASSUME NEW s \in Streams, Runs(PeerWrites(s))
      PROVE  \E m \in Messages : arriving' = Append(arriving, m) /\ userTSN' = userTSN
    <2>1. arriving' = Append(arriving, Message("data", s, peer[s].channel)) /\ userTSN' = userTSN
        BY <1>6 DEF Runs, PeerWrites
    <2>2. Message("data", s, peer[s].channel) \in Messages
        BY DEF Message, Messages, ShapeInv, Peers
    <2> QED BY <2>1, <2>2
<1>7. ASSUME Runs(PeerHears)
      PROVE  \/ UNCHANGED <<arriving, userTSN>>
             \/ \E m \in Messages : arriving' = Append(arriving, m) /\ userTSN' = userTSN
    <2> DEFINE h == Head(sending)
    <2>1. sending # <<>> /\ userTSN' = userTSN
          /\ arriving' \in {arriving, Append(arriving, Message("ack", h.stream, h.channel))}
        BY <1>7 DEF Runs, PeerHears
    <2>2. h \in Messages
        BY <2>1, Shorter DEF ShapeInv
    <2>3. Message("ack", h.stream, h.channel) \in Messages
        BY <2>2 DEF Message, Messages
    <2> QED BY <2>1, <2>3
<1>8. \/ UNCHANGED <<arriving, userTSN>> \/ Runs(ProcessStreamData) \/ Runs(PeerHears)
      \/ \E s \in Streams : Runs(PeerOpens(s)) \/ Runs(PeerWrites(s))
    BY DEF Next, vars, Runs, Create, Close, CloseDataChannel_Timeout, OpenDataChannel, SendOpen, OnDataChannel, EndMessage,
           OnDataChannelClosed, SendAnswer, ResetNow, Defer,
           ResetOutgoing, Respond, PeerAsks, PeerAsksUs, PeerReceives, data
<1> QED BY <1>1, <1>2, <1>3, <1>4, <1>5, <1>6, <1>7, <1>8
(* What the peer knows of the end of its data, once a chunk of ours came.  *)
LEMMA ResetTsn ==
  ASSUME NEW p \in [Streams -> Peers], NEW s, NEW n, HearReset(p, s, n)
  PROVE  \A t \in Streams : peer'[t].tsn \in {0, p[t].tsn}
<1> DEFINE i == [p[s] EXCEPT !.in = "reset"]
           q == Settled(i)
<1>1. peer' \in {p, [p EXCEPT ![s] = q]}
    BY DEF HearReset
<1>2. CASE peer' = p \/ s \notin Streams
    BY <1>1, <1>2
<1>3. CASE s \in Streams /\ peer' = [p EXCEPT ![s] = q]
    <2>1. i.tsn = p[s].tsn /\ q \in {i, NoPeer} /\ NoPeer.tsn = 0
        BY <1>3 DEF Peers, Settled, NoPeer
    <2> HIDE DEF i, q
    <2> QED BY <1>3, <2>1
<1> QED BY <1>1, <1>2, <1>3

LEMMA ReceivesTsn ==
  ASSUME ShapeInv, Fresh, NEW c \in toPeer, Runs(PeerReceives(c))
  PROVE  \A t \in Streams : peer'[t].tsn \in {0, peer[t].tsn}
<1>1. CASE c.type = "close"
    BY <1>1, ResetTsn DEF Runs, PeerReceives, ShapeInv
<1>2. CASE c.type # "close"
    <2> DEFINE p == HearAnswer(peer, c)
    <2>1. p \in [Streams -> Peers] /\ \A t \in Streams : p[t].tsn = peer[t].tsn
        BY <1>2, AnswerForgets DEF Fresh
    <2>2. HearReset(p, c.stream, c.to)
        BY <1>2 DEF Runs, PeerReceives
    <2> HIDE DEF p
    <2> QED BY <2>1, <2>2, ResetTsn
<1> QED BY <1>1, <1>2

LEMMA PeerTsn ==
  ASSUME ObjectInv, Fresh, Ends, [Next]_vars
  PROVE  \A t \in Streams : peer'[t].tsn \in {0, peer[t].tsn, EndTSN}
<1> USE DEF ObjectInv
<1>1. CASE UNCHANGED peer
    BY <1>1
<1>2. ASSUME NEW s \in Streams, Runs(PeerOpens(s))
      PROVE  \A t \in Streams : peer'[t].tsn = peer[t].tsn
    BY <1>2 DEF Runs, PeerOpens, ShapeInv, Peers
<1>3. ASSUME Runs(PeerHears)
      PROVE  \A t \in Streams : peer'[t].tsn = peer[t].tsn
    <2> DEFINE m == Head(sending)
               b == IF m.channel \in early THEN "reset" ELSE "up"
    <2>1. sending # <<>> /\ (peer' = peer \/
            peer' = [peer EXCEPT ![m.stream].channel = m.channel, ![m.stream].in = b])
        BY <1>3 DEF Runs, PeerHears
    <2>2. m \in Messages
        BY <2>1, Shorter DEF ShapeInv
    <2> HIDE DEF m, b
    <2>3. CASE peer' = [peer EXCEPT ![m.stream].channel = m.channel, ![m.stream].in = b]
        BY <2>2, <2>3 DEF ShapeInv, Messages, Peers
    <2> QED BY <2>1, <2>3
<1>4. ASSUME NEW s \in Streams, Runs(PeerAsks(s))
      PROVE  \A t \in Streams : peer'[t].tsn \in {peer[t].tsn, EndTSN}
    <2> DEFINE tsn == IF peer[s].out = "up" THEN EndTSN ELSE peer[s].tsn
               q == [peer[s] EXCEPT !.out = "asked", !.tsn = tsn]
    <2>1. peer' = [peer EXCEPT ![s] = q]
        BY <1>4 DEF Runs, PeerAsks, ShapeInv, Peers, EndTSN
    <2>2. q.tsn = tsn /\ tsn \in {peer[s].tsn, EndTSN}
        BY <1>4 DEF ShapeInv, Peers
    <2> HIDE DEF q, tsn
    <2> QED BY <1>4, <2>1, <2>2 DEF ShapeInv
<1>5. ASSUME NEW c \in toPeer, Runs(PeerReceives(c))
      PROVE  \A t \in Streams : peer'[t].tsn \in {0, peer[t].tsn}
    BY <1>5, ReceivesTsn
<1>6. \/ UNCHANGED peer \/ Runs(PeerHears) \/ (\E c \in toPeer : Runs(PeerReceives(c)))
      \/ \E s \in Streams : Runs(PeerOpens(s)) \/ Runs(PeerAsks(s))
    BY DEF Next, vars, Runs, Create, Close, CloseDataChannel_Timeout, ProcessStreamData, OpenDataChannel, SendOpen, OnDataChannel, EndMessage,
           OnDataChannelClosed, SendAnswer, ResetNow,
           Defer, ResetOutgoing, Respond, PeerWrites, PeerAsksUs, theirs
<1> QED BY <1>1, <1>2, <1>3, <1>4, <1>5, <1>6

LEMMA StepEnds ==
  ASSUME ObjectInv, ObjectInv', Fresh, Ends, [Next]_vars
  PROVE  Ends'
<1>1. EndTSN \in Nat /\ EndTSN' \in Nat /\ EndTSN <= EndTSN' /\ userTSN' \in Nat
    BY EndMoves
<1>2. \A t \in Streams : peer'[t].tsn \in 0..EndTSN'
    BY <1>1, PeerTsn DEF Ends
<1>3. \A c \in Outgoings' : c.tsn \in 0..EndTSN'
    BY <1>1, <1>2, NewOutgoing DEF ObjectInv, Ends
<1> QED BY <1>1, <1>2, <1>3 DEF Ends

LEMMA RequestsNamed ==
  ASSUME NEW seq, NEW s, NEW n \in Channels,
         NEW after \in Sent(toPeer, Requests(seq, s, n)), NEW c \in after
  PROVE  c \in toPeer \/ Named(c)
<1> DEFINE d == Requests(seq, s, n)
<1>1. Named(d)
    BY DEF Requests, Named
<1> HIDE DEF d
<1>2. after \in Sent(toPeer, d)
    BY DEF d
<1>3. after \subseteq toPeer \union {d}
    BY <1>2, SentOne
<1> QED BY <1>1, <1>3

LEMMA AnswerNamed ==
  ASSUME NEW n \in Channels, NEW result, NEW seq, NEW s,
         NEW after \in Sent(toPeer, Answer(n, result, seq, s)), NEW c \in after
  PROVE  c \in toPeer \/ Named(c)
<1> DEFINE d == Answer(n, result, seq, s)
<1>1. Named(d)
    BY DEF Answer, Named
<1> HIDE DEF d
<1>2. after \in Sent(toPeer, d)
    BY DEF d
<1>3. after \subseteq toPeer \union {d}
    BY <1>2, SentOne
<1> QED BY <1>1, <1>3

LEMMA CloseWaits ==
  ASSUME NEW s, NEW n \in Channels, CloseDataChannelEx2(s, n),
         RREQSEQ \in Nat \ {0}, supported \in BOOLEAN, supported' = supported
  PROVE  /\ Waits' /\ RREQSEQ' \in Nat \ {0} /\ reconfigFailures' = 0
         /\ \A c \in toPeer' : c \in toPeer \/ Named(c)
<1>1. /\ pending' = Chunk(s, n) /\ reconfigFailures' = 0
      /\ RREQSEQ' = IF supported THEN RREQSEQ + 2 ELSE RREQSEQ
      /\ toPeer' = toPeer \/ toPeer' \in Sent(toPeer, Requests(RREQSEQ, s, n))
    BY DEF CloseDataChannelEx2
<1>2. Waits'
    <2>1. CASE supported
        <3>1. pending'.kind = "own" /\ pending'.channel = n /\ pending'.seq = RREQSEQ + 1
            BY <1>1, <2>1 DEF Chunk
        <3>2. RREQSEQ + 1 \in 2..RREQSEQ' - 1
            BY <1>1, <2>1
        <3> QED BY <3>1, <3>2 DEF Waits
    <2>2. CASE ~supported
        <3>1. pending'.kind = "unwritten" /\ pending'.channel = n
            BY <1>1, <2>2 DEF Chunk
        <3> QED BY <2>2, <3>1 DEF Waits
    <2> QED BY <2>1, <2>2
<1>3. \A c \in toPeer' : c \in toPeer \/ Named(c)
    BY <1>1, RequestsNamed
<1>4. RREQSEQ' \in Nat \ {0}
    BY <1>1
<1> QED BY <1>1, <1>2, <1>3, <1>4

(* A deferred reset that comes due, and a close that the timer or a        *)
(* response ends, are about a channel.                                     *)
LEMMA WaitsNamed ==
  ASSUME Waits, pending.kind # "none"
  PROVE  pending.channel \in Channels
<1> QED BY DEF Waits, Nothing

LEMMA TakeUpWaits ==
  ASSUME NEW n, TakeUp(n), Waits, RREQSEQ \in Nat \ {0}, supported \in BOOLEAN, supported' = supported
  PROVE  \/ pending' = pending /\ RREQSEQ' = RREQSEQ /\ reconfigFailures' = reconfigFailures
            /\ toPeer' = toPeer
         \/ /\ Waits' /\ RREQSEQ' \in Nat \ {0} /\ reconfigFailures' = 0
            /\ \A c \in toPeer' : c \in toPeer \/ Named(c)
<1>1. CASE Due(n)
    <2>1. CloseDataChannelEx2(pending.stream, pending.channel) /\ pending.channel \in Channels
        BY <1>1, WaitsNamed DEF TakeUp, Due
    <2> QED BY <2>1, CloseWaits
<1>2. CASE ~Due(n)
    BY <1>2 DEF TakeUp, closing
<1> QED BY <1>1, <1>2

LEMMA OpenedChannels ==
  ASSUME ShapeInv
  PROVE  1..opened \subseteq Channels /\ 0..opened \subseteq 0..MaxChannels
<1> QED BY ChannelAssumption DEF ShapeInv, Channels

LEMMA StepChunksNamed ==
  ASSUME ObjectInv, Aims, Fresh, TypeInv, [Next]_vars
  PROVE  \A c \in toPeer' \union rpacket' : c \in toPeer \union rpacket \/ Named(c)
<1> USE DEF ObjectInv, TypeInv
<1>1. CASE toPeer' \union rpacket' \subseteq toPeer \union rpacket
    BY <1>1
<1>2. ASSUME NEW s \in Streams, Runs(Close(s))
      PROVE  rpacket' = rpacket /\ \A c \in toPeer' : c \in toPeer \/ Named(c)
    <2>1. CloseDataChannelEx2(s, DataChannels[s]) /\ DataChannels[s] \in Channels /\ rpacket' = rpacket
        BY <1>2, OpenedChannels DEF Runs, Close, ShapeInv, Channels, thread
    <2> QED BY <1>2, <2>1, CloseWaits DEF ShapeInv, Counts, Runs
<1>3. ASSUME Runs(CloseDataChannel_Timeout)
      PROVE  rpacket' = rpacket /\ \A c \in toPeer' : c \in toPeer \/ Named(c)
    <2>1. timer /\ rpacket' = rpacket /\ (toPeer' = toPeer \/
             toPeer' \in Sent(toPeer, Requests(pending.seq - 1, pending.stream, pending.channel)))
        BY <1>3 DEF Runs, CloseDataChannel_Timeout
    <2>2. pending.channel \in Channels
        BY <2>1, WaitsNamed DEF RetryArmed
    <2> QED BY <2>1, <2>2, RequestsNamed
<1>4. ASSUME Runs(ProcessStreamData) \/ Runs(EndMessage)
      PROVE  rpacket' = rpacket /\ \A c \in toPeer' : c \in toPeer \/ Named(c)
    <2>1. rpacket' = rpacket /\ supported' = supported
          /\ (toPeer' = toPeer \/ \E n \in Int : TakeUp(n))
        <3>1. userTSN \in Int /\ userTSN + 1 \in Int
            BY DEF ShapeInv
        <3> QED BY <1>4, <3>1 DEF Runs, ProcessStreamData, EndMessage
    <2> QED BY <2>1, TakeUpWaits DEF ShapeInv, Counts
<1>5. ASSUME NEW c \in toUs, Runs(ResetNow(c)) \/ Runs(ResetOutgoing(c))
      PROVE  \A d \in toPeer' \union rpacket' : d \in toPeer \union rpacket \/ Named(d)
    <2>1. c.type \in {"outgoing", "incoming"}
        BY <1>5 DEF Runs, ResetNow, ResetOutgoing
    <2>2. c.channel \in Channels
        BY <2>1, OpenedChannels DEF Fresh
    <2>3. \A result : Named(Answer(c.channel, result, RREQSEQ, c.stream))
        BY <2>2 DEF Named, Answer
    <2>4. \/ rpacket' = rpacket /\ \E result : toPeer' \in Sent(toPeer, Answer(c.channel, result, RREQSEQ, c.stream))
          \/ toPeer' = toPeer /\ \E result : rpacket' = {Answer(c.channel, result, RREQSEQ, c.stream)}
        BY <1>5 DEF Runs, ResetNow, ResetOutgoing, thread
    <2>5. CASE toPeer' = toPeer /\ \E result : rpacket' = {Answer(c.channel, result, RREQSEQ, c.stream)}
        BY <2>3, <2>5
    <2>6. CASE rpacket' = rpacket /\ \E result : toPeer' \in Sent(toPeer, Answer(c.channel, result, RREQSEQ, c.stream))
        BY <2>2, <2>6, AnswerNamed
    <2> QED BY <2>4, <2>5, <2>6
<1>6. ASSUME Runs(SendAnswer) PROVE toPeer' \union rpacket' \subseteq toPeer \union rpacket
    BY <1>6, SentOne DEF Runs, SendAnswer
<1>7. \/ toPeer' \union rpacket' \subseteq toPeer \union rpacket
      \/ Runs(CloseDataChannel_Timeout) \/ Runs(ProcessStreamData) \/ Runs(EndMessage)
      \/ (\E s \in Streams : Runs(Close(s))) \/ Runs(SendAnswer)
      \/ \E c \in toUs : Runs(ResetNow(c)) \/ Runs(ResetOutgoing(c))
    BY DEF Next, vars, Runs, Create, OpenDataChannel, SendOpen, OnDataChannel, OnDataChannelClosed,
           Defer, Respond, PeerOpens, PeerWrites, PeerHears, PeerAsks, PeerAsksUs, PeerReceives, thread
<1> QED BY <1>1, <1>2, <1>3, <1>4, <1>5, <1>6, <1>7

LEMMA StepNames ==
  ASSUME ObjectInv, Aims, Fresh, TypeInv, [Next]_vars
  PROVE  Names'
<1> USE DEF ObjectInv, TypeInv
<1>1. \A c \in toPeer' \union rpacket' : Named(c)
    BY StepChunksNamed DEF Names
<1>2. early' \subseteq Channels
    <2>1. ASSUME NEW c \in toPeer, Runs(PeerReceives(c)) PROVE early' \subseteq Channels
        <3>1. early' \subseteq early \union {IF c.type = "close" THEN c.channel ELSE c.to}
            BY <2>1 DEF Runs, PeerReceives, HearReset
        <3> QED BY <3>1 DEF Names, Named
    <2>2. UNCHANGED early \/ \E c \in toPeer : Runs(PeerReceives(c))
        BY DEF Next, vars, Runs, Create, Close, CloseDataChannel_Timeout, ProcessStreamData, OpenDataChannel,
               SendOpen, OnDataChannel, EndMessage, OnDataChannelClosed, SendAnswer, ResetNow,
               Defer, ResetOutgoing, Respond, PeerOpens, PeerWrites, PeerHears, PeerAsks,
               PeerAsksUs, theirs
    <2> QED BY <2>1, <2>2 DEF Names
<1>3. unaware' \subseteq Channels
    <2>1. ASSUME NEW c, Respond(c) PROVE unaware' \subseteq Channels
        <3>1. unaware' = unaware \/
              (unaware' \subseteq unaware \union {pending.channel} /\ pending.channel \in Channels)
            BY <2>1, RespondOutcomes, WaitsNamed
        <3> QED BY <3>1 DEF Names
    <2>2. UNCHANGED unaware \/ \E c \in toUs : Respond(c)
        BY DEF Next, vars, Runs, Create, Close, CloseDataChannel_Timeout, ProcessStreamData, OpenDataChannel,
               SendOpen, OnDataChannel, EndMessage, OnDataChannelClosed, SendAnswer, ResetNow,
               Defer, ResetOutgoing, PeerOpens, PeerWrites, PeerHears, PeerAsks, PeerAsksUs,
               PeerReceives, history
    <2> QED BY <2>1, <2>2 DEF Names
<1>4. taken' \subseteq Channels
    <2>1. ASSUME Runs(OnDataChannelClosed) PROVE taken' \subseteq Channels
        <3>1. DataChannels[chain.stream] \in 0..MaxChannels
            BY DEF ShapeInv, Callings
        <3>2. DataChannels[chain.stream] = 0 \/ DataChannels[chain.stream] \in Channels
            BY <3>1, ChannelAssumption DEF Channels
        <3>3. taken' = taken \union ({DataChannels[chain.stream]} \ {0, chain.channel})
            BY <2>1 DEF Runs, OnDataChannelClosed
        <3> QED BY <3>2, <3>3 DEF Names
    <2>2. UNCHANGED taken \/ Runs(OnDataChannelClosed)
        BY DEF Next, vars, Runs, Create, Close, CloseDataChannel_Timeout, ProcessStreamData, OpenDataChannel,
               SendOpen, OnDataChannel, EndMessage, SendAnswer, ResetNow, Defer, ResetOutgoing, Respond,
               PeerOpens, PeerWrites, PeerHears, PeerAsks, PeerAsksUs, PeerReceives, history
    <2> QED BY <2>1, <2>2 DEF Names
<1> QED BY <1>1, <1>2, <1>3, <1>4 DEF Names

(* The answer that is held back goes with the callback it waits for.       *)
LEMMA StepHeld ==
  ASSUME ObjectInv, Held, [Next]_vars
  PROVE  Held'
<1> USE DEF ObjectInv
<1>1. Idle.at = "idle" /\ \A w, s, n : At(w, s, n).at = w
    BY DEF Idle, At
<1>2. CASE UNCHANGED thread
    BY <1>2 DEF thread, Held
<1>3. ASSUME rpacket' = rpacket, chain.at \notin {"closing", "closed"}, chain'.at # "closed"
      PROVE  Held'
    BY <1>3 DEF Held
<1>4. ASSUME NEW s, Forget(s) \/ PropagateChannelClose(s)
      PROVE  chain' = chain \/ chain' = Idle \/ chain'.at = "closing"
    BY <1>1, <1>4 DEF Forget, PropagateChannelClose
<1>5. CASE Runs(CloseDataChannel_Timeout)
    BY <1>1, <1>2, <1>3, <1>4, <1>5 DEF Runs, CloseDataChannel_Timeout, thread
<1>6. CASE Runs(ProcessStreamData)
    <2>1. chain = Idle /\ rpacket' = rpacket /\ Handle(Head(arriving))
        BY <1>6 DEF Runs, ProcessStreamData
    <2>2. chain' = chain \/ chain'.at \in {"told", "opening"}
        BY <1>1, <2>1 DEF Handle
    <2> QED BY <1>1, <1>3, <2>1, <2>2
<1>7. CASE Runs(OnDataChannel)
    <2>1. chain.at = "opening" /\ chain'.at = "opened" /\ rpacket' = rpacket
        BY <1>7 DEF Runs, OnDataChannel, ShapeInv, Callings
    <2> QED BY <1>3, <2>1
<1>8. CASE Runs(EndMessage)
    BY <1>1, <1>3, <1>8 DEF Runs, EndMessage
<1>9. CASE Runs(OnDataChannelClosed)
    <2>1. /\ rpacket' = rpacket /\ chain' = IF rpacket = {} THEN Idle ELSE [chain EXCEPT !.at = "closed"]
        BY <1>9 DEF Runs, OnDataChannelClosed
    <2>2. [chain EXCEPT !.at = "closed"].at = "closed"
        BY DEF ShapeInv, Callings
    <2> QED BY <1>1, <2>1, <2>2 DEF Held
<1>10. CASE Runs(SendAnswer)
    BY <1>1, <1>10 DEF Runs, SendAnswer, Held
<1>11. ASSUME NEW c \in toUs, Runs(ResetNow(c)) PROVE Held'
    <2>1. chain = Idle /\ rpacket = {}
        BY <1>1, <1>11 DEF Runs, ResetNow, Held
    <2>2. CASE attributes[c.stream].status = "assigned"
        BY <1>1, <1>11, <2>2 DEF Runs, ResetNow, Forget, Held
    <2>3. CASE attributes[c.stream].status # "assigned"
        BY <1>1, <1>11, <2>1, <2>3 DEF Runs, ResetNow, Forget, Held
    <2> QED BY <2>2, <2>3
<1>12. ASSUME NEW c \in toUs, Runs(Respond(c)) PROVE Held'
    <2>1. chain = Idle /\ rpacket' = rpacket /\ Respond(c)
        BY <1>12 DEF Runs, Respond
    <2>2. chain' = chain \/ chain' = Idle \/ chain'.at = "closing"
        BY <1>4, <2>1, RespondOutcomes
    <2> QED BY <1>1, <1>3, <2>1, <2>2
<1>13. \/ UNCHANGED thread \/ Runs(CloseDataChannel_Timeout) \/ Runs(ProcessStreamData)
       \/ Runs(OnDataChannel) \/ Runs(EndMessage) \/ Runs(OnDataChannelClosed) \/ Runs(SendAnswer)
       \/ \E c \in toUs : Runs(ResetNow(c)) \/ Runs(Respond(c))
    BY DEF Next, vars, Runs, Create, OpenDataChannel, SendOpen, Close, Defer, ResetOutgoing, PeerOpens,
           PeerWrites, PeerHears, PeerAsks, PeerAsksUs, PeerReceives
<1> QED BY <1>2, <1>5, <1>6, <1>7, <1>8, <1>9, <1>10, <1>11, <1>12, <1>13

LEMMA PropagateCounts ==
  ASSUME Counts, NEW s, (Forget(s) /\ heap' = heap) \/ PropagateChannelClose(s)
  PROVE  UNCHANGED <<DataChannels, opened, closes>> /\ heap' \in {"ok", "crashed", "undefined"}
<1> QED BY DEF PropagateChannelClose, local, Counts, Forget

LEMMA StepCounts ==
  ASSUME ObjectInv, ObjectInv', Aims, Fresh, TypeInv, [Next]_vars
  PROVE  Counts'
<1> USE DEF ObjectInv, TypeInv
<1>1. CASE Runs(Create)
    <2>1. opened \in Nat /\ opened' = opened + 1 /\ DataChannels' = [DataChannels EXCEPT ![Own] = opened']
        BY <1>1 DEF Runs, Create, ShapeInv
    <2>2. opened' \in 0..opened' /\ 0..opened \subseteq 0..opened'
        BY <2>1
    <2>3. DataChannels' \in [Streams -> 0..opened']
        BY <2>1, <2>2 DEF Counts
    <2> QED BY <1>1, <2>3 DEF Runs, Create, Counts, closing, GivesUp
<1>2. ASSUME NEW s \in Streams, Runs(Close(s)) PROVE Counts'
    <2>1. CloseDataChannelEx2(s, DataChannels[s]) /\ DataChannels[s] \in Channels
        BY <1>2, OpenedChannels DEF Runs, Close, ShapeInv, Channels
    <2>2. RREQSEQ' \in Nat \ {0} /\ reconfigFailures' = 0
        BY <1>2, <2>1, CloseWaits DEF Runs, ShapeInv, Counts
    <2>3. closes' \in 0..MaxCloses
        BY <1>2, ChannelAssumption DEF Runs, Close, Counts
    <2> QED BY <1>2, <2>2, <2>3 DEF Runs, Close, Counts
<1>3. CASE Runs(CloseDataChannel_Timeout)
    <2>1. RREQSEQ' = RREQSEQ
        BY <1>3 DEF Runs, CloseDataChannel_Timeout
    <2>2. CASE GivesUp(reconfigFailures + 1)
        <3>1. PropagateChannelClose(pending.stream) /\ reconfigFailures' = 0
            BY <1>3, <2>2 DEF Runs, CloseDataChannel_Timeout
        <3> QED BY <2>1, <3>1, PropagateCounts DEF Counts
    <2>3. CASE ~GivesUp(reconfigFailures + 1)
        <3>1. reconfigFailures' = reconfigFailures + 1 /\ UNCHANGED <<local, heap>>
            BY <1>3, <2>3 DEF Runs, CloseDataChannel_Timeout
        <3>2. reconfigFailures' \in Nat /\ ~GivesUp(reconfigFailures')
            BY <2>3, <3>1 DEF Counts
        <3>3. ~GivesUp(reconfigFailures)'
            BY <3>2 DEF GivesUp
        <3> QED BY <2>1, <3>1, <3>2, <3>3 DEF Counts, local
    <2> QED BY <2>2, <2>3
<1>4. ASSUME Runs(ProcessStreamData) \/ Runs(EndMessage) PROVE Counts'
    <2>1. RREQSEQ' \in Nat \ {0} /\ (reconfigFailures' = 0 \/ reconfigFailures' = reconfigFailures)
        <3>1. supported' = supported /\ (UNCHANGED closing \/ \E n \in Int : TakeUp(n))
            <4>1. userTSN \in Int /\ userTSN + 1 \in Int
                BY DEF ShapeInv
            <4> QED BY <1>4, <4>1 DEF Runs, ProcessStreamData, EndMessage
        <3>2. CASE UNCHANGED closing
            BY <3>2 DEF Counts, closing
        <3>3. CASE \E n \in Int : TakeUp(n)
            BY <3>1, <3>3, TakeUpWaits DEF ShapeInv, Counts
        <3> QED BY <3>1, <3>2, <3>3
    <2>2. UNCHANGED <<DataChannels, opened, closes, heap>>
        BY <1>4 DEF Runs, ProcessStreamData, EndMessage, local
    <2>3. reconfigFailures' # 0 => ~GivesUp(reconfigFailures)'
        BY <2>1 DEF Counts, GivesUp
    <2> QED BY <2>1, <2>2, <2>3 DEF Counts
<1>5. ASSUME NEW c \in toUs, Runs(ResetNow(c)) PROVE Counts'
    <2>1. /\ Forget(c.stream) /\ heap' = heap /\ RREQSEQ' = RREQSEQ + 1
          /\ reconfigFailures' = reconfigFailures
        BY <1>5 DEF Runs, ResetNow
    <2> QED BY <2>1, PropagateCounts DEF Counts, GivesUp
<1>6. ASSUME NEW c \in toUs, Runs(Respond(c)) PROVE Counts'
    <2>1. RREQSEQ' = RREQSEQ /\ reconfigFailures' = reconfigFailures /\ Respond(c)
        BY <1>6 DEF Runs, Respond
    <2>2. CASE PropagateChannelClose(pending.stream)
        BY <2>1, <2>2, PropagateCounts DEF Counts, GivesUp
    <2>3. CASE UNCHANGED local /\ heap' \in {heap, "undefined"}
        BY <2>1, <2>3 DEF local, Counts, GivesUp
    <2> QED BY <2>1, <2>2, <2>3, RespondOutcomes
<1>7. ASSUME NEW s \in Streams, Runs(PeerOpens(s)) PROVE Counts'
    <2>1. UNCHANGED <<DataChannels, closes, RREQSEQ, reconfigFailures, heap>> /\ opened' = opened + 1
        BY <1>7 DEF Runs, PeerOpens, closing
    <2>2. 0..opened \subseteq 0..opened'
        BY <2>1 DEF ShapeInv
    <2>3. DataChannels' \in [Streams -> 0..opened']
        BY <2>1, <2>2 DEF Counts
    <2> QED BY <2>1, <2>3 DEF Counts, GivesUp
<1>8. ASSUME NEW c \in toUs, Runs(Defer(c)) \/ Runs(ResetOutgoing(c)) PROVE Counts'
    <2>1. UNCHANGED <<local, reconfigFailures, heap>> /\ RREQSEQ' \in {RREQSEQ, RREQSEQ + 1}
        BY <1>8 DEF Runs, Defer, ResetOutgoing
    <2> QED BY <2>1 DEF Counts, local, GivesUp
<1>9. CASE UNCHANGED <<DataChannels, opened, closes, closing>> /\ heap' \in {"ok", "crashed", "undefined"}
    BY <1>9 DEF Counts, closing, GivesUp
<1>10. ASSUME Runs(OnDataChannel) PROVE Counts'
    <2>1. DataChannels' = [DataChannels EXCEPT ![chain.stream] = IF @ = 0 THEN chain.channel ELSE @]
          /\ UNCHANGED <<opened, closes, closing, heap>>
        BY <1>10 DEF Runs, OnDataChannel
    <2>2. DataChannels' \in [Streams -> 0..opened]
        BY <2>1 DEF Counts, Fresh, Calls
    <2> QED BY <2>1, <2>2 DEF Counts, closing, GivesUp
<1>11. ASSUME Runs(OnDataChannelClosed) PROVE Counts'
    <2>1. DataChannels' = [DataChannels EXCEPT ![chain.stream] = 0]
          /\ UNCHANGED <<opened, closes, closing, heap>>
        BY <1>11 DEF Runs, OnDataChannelClosed
    <2>2. 0 \in 0..opened
        BY DEF ShapeInv
    <2>3. DataChannels' \in [Streams -> 0..opened]
        BY <2>1, <2>2 DEF Counts
    <2> QED BY <2>1, <2>3 DEF Counts, closing, GivesUp
<1>12. \/ UNCHANGED <<DataChannels, opened, closes, closing>> /\ heap' \in {heap, "ok", "undefined"}
       \/ Runs(Create) \/ Runs(CloseDataChannel_Timeout) \/ Runs(ProcessStreamData) \/ Runs(EndMessage)
       \/ Runs(OnDataChannel) \/ Runs(OnDataChannelClosed)
       \/ (\E s \in Streams : Runs(Close(s)) \/ Runs(PeerOpens(s)))
       \/ \E c \in toUs : \/ Runs(ResetNow(c)) \/ Runs(Respond(c))
                          \/ Runs(Defer(c)) \/ Runs(ResetOutgoing(c))
    BY DEF Next, vars, Runs, OpenDataChannel, SendOpen, SendAnswer, PeerWrites, PeerHears, PeerAsks,
           PeerAsksUs, PeerReceives, local
<1> QED BY <1>1, <1>2, <1>3, <1>4, <1>5, <1>6, <1>7, <1>8, <1>9, <1>10, <1>11, <1>12 DEF Counts

LEMMA StepWaits ==
  ASSUME ObjectInv, ObjectInv', Aims, Fresh, TypeInv, Counts', [Next]_vars
  PROVE  Waits'
<1> USE DEF ObjectInv, TypeInv
<1>1. EndTSN \in Nat /\ EndTSN' \in Nat /\ EndTSN <= EndTSN'
    BY EndMoves
<1>2. ASSUME NEW s, NEW n \in Channels, CloseDataChannelEx2(s, n), supported' = supported PROVE Waits'
    BY <1>2, CloseWaits DEF ShapeInv, Counts
<1>3. ASSUME NEW s \in Streams, Runs(Close(s)) PROVE Waits'
    BY <1>2, <1>3, OpenedChannels DEF Runs, Close, ShapeInv, Channels
<1>4. ASSUME pending' = pending, RREQSEQ' \in {RREQSEQ, RREQSEQ + 1}, supported' = supported
      PROVE  Waits'
    <2>1. CASE pending.kind = "own"
        <3>1. pending.seq \in 2..RREQSEQ' - 1
            BY <1>4, <2>1 DEF Waits, Nothing, Counts
        <3> QED BY <1>4, <2>1, <3>1 DEF Waits, Nothing
    <2>2. CASE pending.kind = "deferred"
        <3>1. pending.tsn \in 0..EndTSN'
            BY <1>1, <2>2 DEF Waits, Nothing
        <3> QED BY <1>4, <2>2, <3>1 DEF Waits, Nothing
    <2>3. CASE pending = Nothing \/ pending.kind = "unwritten"
        BY <1>4, <2>3 DEF Waits, Nothing
    <2> QED BY <2>1, <2>2, <2>3 DEF Waits
<1>5. ASSUME NEW n, TakeUp(n), supported' = supported PROVE Waits'
    BY <1>4, <1>5, TakeUpWaits DEF ShapeInv, Counts
<1>6. ASSUME NEW c \in toUs, Runs(Defer(c)) PROVE Waits'
    <2>1. CASE pending = Nothing
        <3>1. pending' = [kind |-> "deferred", stream |-> c.stream,
                          channel |-> c.channel, tsn |-> c.tsn]
              /\ c.type = "outgoing"
            BY <1>6, <2>1 DEF Runs, Defer
        <3>2. c.tsn \in 0..EndTSN'
            BY <1>1, <3>1 DEF Ends, Outgoings
        <3>3. c.channel \in Channels
            BY <3>1, OpenedChannels DEF Fresh
        <3> QED BY <3>1, <3>2, <3>3 DEF Waits
    <2>2. CASE pending # Nothing
        BY <1>4, <1>6, <2>2 DEF Runs, Defer
    <2> QED BY <2>1, <2>2
<1>7. CASE pending' = Nothing
    BY <1>7 DEF Waits
<1>8. \/ pending' = Nothing
      \/ pending' = pending /\ RREQSEQ' \in {RREQSEQ, RREQSEQ + 1}
      \/ (\E n : TakeUp(n)) \/ (\E s \in Streams : Runs(Close(s))) \/ \E c \in toUs : Runs(Defer(c))
    <2>1. ASSUME NEW c, Runs(Respond(c))
          PROVE  pending' = Nothing \/ (pending' = pending /\ RREQSEQ' = RREQSEQ)
        BY <2>1, RespondOutcomes DEF Runs, Respond
    <2>2. Runs(ProcessStreamData) \/ Runs(EndMessage) =>
            (\E n : TakeUp(n)) \/ (pending' = pending /\ RREQSEQ' = RREQSEQ)
        BY DEF Runs, ProcessStreamData, EndMessage, closing
    <2> QED BY <2>1, <2>2
        DEF Next, vars, Runs, Create, OpenDataChannel, SendOpen, CloseDataChannel_Timeout, OnDataChannel,
            OnDataChannelClosed, SendAnswer, ResetNow, ResetOutgoing, PeerOpens, PeerWrites, PeerHears,
            PeerAsks, PeerAsksUs, PeerReceives, closing
<1>9. supported' = supported
    BY DEF Next, vars, Runs
<1> QED BY <1>3, <1>4, <1>5, <1>6, <1>7, <1>8, <1>9

TypesHeld == ObjectInv /\ Aims /\ ResetInv /\ TypeInv

LEMMA TypesKept == Spec => []TypesHeld
<1>1. Init => ObjectInv /\ Aims /\ ResetInv /\ TypeInv
    BY InitObjects, InitReset, InitTypes DEF Init, Aims, Nothing, Outgoings
<1>2. ObjectInv /\ Aims /\ ResetInv /\ TypeInv /\ [Next]_vars
        => ObjectInv' /\ Aims' /\ ResetInv' /\ TypeInv'
    <2> SUFFICES ASSUME ObjectInv, Aims, ResetInv, TypeInv, [Next]_vars
                 PROVE  ObjectInv' /\ Aims' /\ ResetInv' /\ TypeInv'
        OBVIOUS
    <2>1. ObjectInv' /\ Aims' /\ ResetInv'
        BY StepObjects, StepAims, StepReset
    <2>2. Ends' /\ Names' /\ Held' /\ Counts'
        BY <2>1, StepEnds, StepNames, StepHeld, StepCounts DEF TypeInv, ResetInv
    <2>3. Waits'
        BY <2>1, <2>2, StepWaits DEF ResetInv
    <2> QED BY <2>1, <2>2, <2>3 DEF TypeInv
<1> QED BY <1>1, <1>2, PTL DEF Spec, TypesHeld

(* Whatever is lost, repeated and overtaken, and whatever the callbacks    *)
(* let come between, a pending reset is for a stream and for data the peer *)
(* wrote, a close is repeated only as often as its timeout allows, an      *)
(* answer waits for its callback, and the tables keep their types.         *)
THEOREM TypeTheorem == Spec => []TypeOK
<1>1. TypesHeld => TypeOK
    <2> SUFFICES ASSUME ObjectInv, Aims, Fresh, TypeInv PROVE TypeOK
        BY DEF TypesHeld, ResetInv
    <2> USE DEF ObjectInv, TypeInv
    <2>1. peer \in [Streams -> [channel : 0..opened, in : {"up", "reset"},
                                out : {"up", "asked", "reset"}, tsn : Nat]]
        <3>1. ASSUME NEW s \in Streams
              PROVE  peer[s] \in [channel : 0..opened, in : {"up", "reset"},
                                  out : {"up", "asked", "reset"}, tsn : Nat]
            <4>1. peer[s] \in Peers /\ peer[s].channel \in 0..opened /\ peer[s].tsn \in Nat
                BY DEF ShapeInv, Fresh, Ends
            <4> QED BY <4>1 DEF Peers
        <3> QED BY <3>1 DEF ShapeInv
    <2>2. performed \subseteq Channels
        BY OpenedChannels DEF Fresh
    <2>3. \/ pending = Nothing
          \/ /\ pending.kind = "own" /\ pending.stream \in Streams
             /\ pending.seq \in 2..RREQSEQ - 1
          \/ pending.kind = "unwritten" /\ pending.stream \in Streams /\ ~supported
          \/ /\ pending.kind = "deferred" /\ pending.stream \in Streams
             /\ pending.tsn \in 0..userTSN + Len(arriving)
        BY DEF Waits, Aims, EndTSN
    <2>4. attributes \in [Streams -> [status : {"none", "waiting", "assigned"},
                                      channel : 0..MaxChannels]]
        BY DEF ShapeInv, Statuses
    <2>5. /\ supported \in BOOLEAN /\ timer \in BOOLEAN /\ opened \in 0..MaxChannels
          /\ early \subseteq Channels /\ unaware \subseteq Channels /\ taken \subseteq Channels
        BY DEF ShapeInv, Names
    <2>6. /\ DataChannels \in [Streams -> 0..opened] /\ closes \in 0..MaxCloses
          /\ RREQSEQ \in Nat \ {0} /\ reconfigFailures \in Nat
          /\ reconfigFailures # 0 => ~GivesUp(reconfigFailures)
          /\ heap \in {"ok", "crashed", "undefined"}
        BY DEF Counts
    <2>7. creating \in [at : {"none", "object", "attributes"}, channel : 0..opened]
        BY DEF ShapeInv, Creatings, Fresh, Calls
    <2>8. chain \in [at : {"idle", "opening", "opened", "told", "closing", "closed"},
                     stream : Streams, channel : 0..opened]
        BY DEF ShapeInv, Callings, Fresh, Calls
    <2> QED BY <2>1, <2>2, <2>3, <2>4, <2>5, <2>6, <2>7, <2>8 DEF TypeOK, Held
<1> QED BY <1>1, TypesKept, PTL

-----------------------------------------------------------------------------
(* The deferred reset. *)

(* What is deferred when a message is over waits for a later one.          *)
LEMMA TakeUpServes ==
  ASSUME NEW n \in Int, TakeUp(n), Waits, Ends
  PROVE  pending'.kind = "deferred" => n < pending'.tsn
<1>1. CASE Due(n)
    BY <1>1 DEF TakeUp, CloseDataChannelEx2, Chunk
<1>2. CASE ~Due(n)
    <2>1. pending' = pending
        BY <1>2 DEF TakeUp, closing
    <2>2. CASE pending.kind = "deferred"
        <3>1. pending.tsn \in Int
            BY <2>2 DEF Waits, Nothing
        <3> QED BY <1>2, <2>1, <2>2, <3>1 DEF Due
    <2> QED BY <2>1, <2>2
<1> QED BY <1>1, <1>2

LEMMA StepServed ==
  ASSUME TypesHeld, DeferredServed, [Next]_vars
  PROVE  DeferredServed'
<1> USE DEF TypesHeld, ObjectInv, TypeInv
<1>1. Idle.at = "idle" /\ \A w, s, n : At(w, s, n).at = w
    BY DEF Idle, At
<1>2. ASSUME pending' \in {pending, Nothing}, userTSN' = userTSN,
             chain.at \notin {"opening", "opened", "told"}
      PROVE  DeferredServed'
    BY <1>2 DEF DeferredServed, Nothing
<1>3. CASE UNCHANGED <<pending, userTSN, chain>>
    BY <1>3 DEF DeferredServed
<1>4. ASSUME NEW s \in Streams, Runs(Close(s)) PROVE DeferredServed'
    <2>1. pending' = Chunk(s, DataChannels[s])
        BY <1>4 DEF Runs, Close, CloseDataChannelEx2
    <2>2. pending'.kind # "deferred"
        BY <2>1 DEF Chunk
    <2> QED BY <2>2 DEF DeferredServed
<1>5. CASE Runs(ProcessStreamData)
    <2>1. chain = Idle /\ Handle(Head(arriving)) /\ userTSN' = userTSN + 1 /\ userTSN' \in Int
        BY <1>5 DEF Runs, ProcessStreamData, ShapeInv
    <2>2. CASE chain' = Idle
        <3>1. TakeUp(userTSN')
            BY <1>5, <2>1, <2>2 DEF Runs, ProcessStreamData
        <3> QED BY <2>1, <3>1, TakeUpServes DEF DeferredServed
    <2>3. CASE chain' # Idle
        <3>1. chain'.at \in {"told", "opening"}
            BY <1>1, <2>1, <2>3 DEF Handle
        <3> QED BY <3>1 DEF DeferredServed
    <2> QED BY <2>2, <2>3
<1>6. CASE Runs(OnDataChannel)
    <2>1. chain'.at = "opened"
        BY <1>6 DEF Runs, OnDataChannel, ShapeInv, Callings
    <2> QED BY <2>1 DEF DeferredServed
<1>7. CASE Runs(EndMessage)
    <2>1. TakeUp(userTSN') /\ userTSN' \in Int
        BY <1>7 DEF Runs, EndMessage, ShapeInv
    <2> QED BY <2>1, TakeUpServes DEF DeferredServed
<1>8. ASSUME NEW c \in toUs, Runs(Defer(c)) PROVE DeferredServed'
    <2>1. CASE pending = Nothing
        <3>1. pending'.tsn = c.tsn /\ userTSN' = userTSN /\ ~(c.tsn <= userTSN) /\ c \in Outgoings
            BY <1>8, <2>1 DEF Runs, Defer, Passed, data, Outgoings
        <3>2. c.tsn \in Int /\ userTSN \in Int
            BY <3>1 DEF Ends
        <3> QED BY <3>1, <3>2 DEF DeferredServed
    <2>2. CASE pending # Nothing
        BY <1>3, <1>8, <2>2 DEF Runs, Defer, data, thread
    <2> QED BY <2>1, <2>2
<1>9. ASSUME NEW c \in toUs, Runs(Respond(c)) PROVE DeferredServed'
    <2>1. chain = Idle /\ userTSN' = userTSN /\ Respond(c)
        BY <1>9 DEF Runs, Respond, data
    <2>2. pending' \in {pending, Nothing}
        BY <2>1, RespondOutcomes
    <2> QED BY <1>1, <1>2, <2>1, <2>2
<1>10. CASE Runs(CloseDataChannel_Timeout)
    BY <1>1, <1>2, <1>10 DEF Runs, CloseDataChannel_Timeout, data
<1>11. ASSUME NEW c \in toUs, Runs(ResetNow(c)) PROVE DeferredServed'
    BY <1>1, <1>2, <1>11 DEF Runs, ResetNow, data
<1>12. CASE Runs(OnDataChannelClosed)
    BY <1>2, <1>12 DEF Runs, OnDataChannelClosed, closing, data
<1>13. CASE Runs(SendAnswer)
    BY <1>2, <1>13 DEF Runs, SendAnswer, closing, data
<1>14. \/ UNCHANGED <<pending, userTSN, chain>> \/ Runs(ProcessStreamData) \/ Runs(OnDataChannel)
       \/ Runs(EndMessage) \/ Runs(CloseDataChannel_Timeout) \/ Runs(OnDataChannelClosed)
       \/ Runs(SendAnswer) \/ (\E s \in Streams : Runs(Close(s)))
       \/ \E c \in toUs : Runs(Defer(c)) \/ Runs(Respond(c)) \/ Runs(ResetNow(c))
    BY DEF Next, vars, Runs, Create, OpenDataChannel, SendOpen, ResetOutgoing, PeerOpens, PeerWrites,
           PeerHears, PeerAsks, PeerAsksUs, PeerReceives, closing, data, thread
<1> QED BY <1>3, <1>4, <1>5, <1>6, <1>7, <1>8, <1>9, <1>10, <1>11, <1>12, <1>13, <1>14

(* A deferred reset is taken up by the message it waits for, whatever      *)
(* comes between the parts of a message (ILibWebRTC.c:3045-3068).          *)
THEOREM DeferredServedTheorem == Spec => []DeferredServed
<1>1. Init => DeferredServed
    BY DEF Init, Nothing, DeferredServed
<1>2. TypesHeld /\ DeferredServed /\ [Next]_vars => DeferredServed'
    BY StepServed
<1> QED BY <1>1, <1>2, TypesKept, PTL DEF Spec

-----------------------------------------------------------------------------
(* The two tables. *)

(* Why a channel has its object, or has none (the parts of OpenHasObject). *)
Excused(s) ==
  \/ DataChannels[s] = attributes[s].channel
  \/ attributes[s].channel \in taken
  \/ chain = At("opening", s, attributes[s].channel)
  \/ creating.at = "object" /\ s = Own

OpensHeld ==
  \A s \in Streams : attributes[s].status # "none" => attributes[s].channel # 0 /\ Excused(s)

(* The object of a channel that is being created is there, or was taken,   *)
(* and no other call is about this channel.                                *)
CreatesHeld ==
  creating.at = "object" =>
    /\ DataChannels[Own] = creating.channel \/ creating.channel \in taken
    /\ \A s \in Streams : attributes[s].channel # creating.channel
    /\ chain.at = "closing" => chain.channel # creating.channel

(* A close told to the wrapper is of a channel without attributes.         *)
ClosesHeld ==
  chain.at = "closing" =>
    \/ attributes[chain.stream].status = "none"
    \/ chain.stream = Own /\ attributes[Own].channel # chain.channel

(* The streams of the peer have objects while they have attributes.        *)
TheirsHeld ==
  \A s \in Theirs :
    /\ attributes[s].status # "waiting"
    /\ attributes[s].status = "none" =>
         DataChannels[s] = 0 \/ (chain.at = "closing" /\ chain.stream = s)

OpeningHeld ==
  chain.at = "opening" =>
    /\ chain.stream \in Theirs /\ DataChannels[chain.stream] = 0
    /\ attributes[chain.stream].status # "none"
    /\ attributes[chain.stream].channel = chain.channel

Tables == OpensHeld /\ CreatesHeld /\ ClosesHeld /\ TheirsHeld /\ OpeningHeld

TheTables == <<attributes, DataChannels, creating, chain, taken>>

LEMMA InitTables == Init => Tables
<1> SUFFICES ASSUME Init PROVE Tables
    OBVIOUS
<1>1. /\ \A s \in Streams : attributes[s].status = "none" /\ DataChannels[s] = 0
      /\ creating.at = "none" /\ chain.at = "idle"
    BY DEF Init, Free, NoCreate, Idle, At
<1> QED BY <1>1 DEF Tables, OpensHeld, CreatesHeld, ClosesHeld, TheirsHeld, OpeningHeld, Streams

LEMMA ForgetTables ==
  ASSUME ShapeInv, Tables, NEW s \in Streams, Forget(s), chain = Idle, taken' = taken,
         Fresh
  PROVE  Tables'
<1> USE DEF Tables
<1>1. /\ Free.status = "none" /\ Free.channel = 0 /\ Idle.at = "idle"
      /\ \A n : /\ At("closing", s, n).at = "closing" /\ At("closing", s, n).stream = s
                /\ At("closing", s, n).channel = n
    BY DEF Free, Idle, At
<1>2. /\ attributes'[s] = Free /\ (\A t \in Streams : t # s => attributes'[t] = attributes[t])
      /\ UNCHANGED <<DataChannels, creating>>
      /\ attributes[s].status = "assigned" => chain' = At("closing", s, attributes[s].channel)
      /\ attributes[s].status # "assigned" => chain' = Idle
    BY DEF Forget, ShapeInv
<1>3. \A t, n : chain # At("opening", t, n)
    BY <1>1 DEF At
<1>4. OpensHeld'
    BY <1>1, <1>2, <1>3 DEF OpensHeld, Excused
<1>5. CreatesHeld'
    BY <1>1, <1>2 DEF CreatesHeld, Fresh, Calls
<1>6. ClosesHeld'
    BY <1>1, <1>2 DEF ClosesHeld
<1>7. TheirsHeld'
    <2> SUFFICES ASSUME NEW t \in Theirs
                 PROVE  /\ attributes'[t].status # "waiting"
                        /\ attributes'[t].status = "none" =>
                             DataChannels'[t] = 0 \/ (chain'.at = "closing" /\ chain'.stream = t)
        BY DEF TheirsHeld
    <2>1. t \in Streams /\ attributes[t].status # "waiting"
          /\ (attributes[t].status = "none" => DataChannels[t] = 0)
        BY <1>1 DEF TheirsHeld, Streams
    <2>2. attributes[t].status \in {"none", "waiting", "assigned"}
        BY <2>1 DEF ShapeInv, Statuses
    <2>3. CASE t # s
        BY <1>2, <2>1, <2>3
    <2>4. CASE t = s
        BY <1>1, <1>2, <2>1, <2>2, <2>4
    <2> QED BY <2>3, <2>4
<1>8. OpeningHeld'
    BY <1>1, <1>2 DEF OpeningHeld
<1> QED BY <1>4, <1>5, <1>6, <1>7, <1>8

LEMMA PropagateTables ==
  ASSUME ShapeInv, Fresh, Tables, NEW s \in Streams, PropagateChannelClose(s), chain = Idle, taken' = taken
  PROVE  Tables'
<1>1. CASE UNCHANGED <<local, chain>>
    BY <1>1 DEF local, Tables, OpensHeld, Excused, CreatesHeld, ClosesHeld, TheirsHeld, OpeningHeld
<1>2. CASE Forget(s)
    BY <1>2, ForgetTables
<1> QED BY <1>1, <1>2 DEF PropagateChannelClose

(* A message: only the first open of a stream, and the first ack of one    *)
(* of ours, make a channel that can be used.                               *)
LEMMA HandleTables ==
  ASSUME ObjectInv, Fresh, CreatedOnce, Tables, chain = Idle, arriving # <<>>,
         Handle(Head(arriving)), UNCHANGED <<DataChannels, creating, taken>>
  PROVE  Tables'
<1> USE DEF Tables, ObjectInv
<1> DEFINE m == Head(arriving)
           s == m.stream
<1>1. m \in Messages /\ m = arriving[1] /\ 1 \in 1..Len(arriving) /\ Handle(m)
    BY Shorter DEF ShapeInv
<1>2. s \in Streams /\ m.channel \in 1..opened /\ m.channel # 0 /\ m.type \in {"open", "ack", "data"}
      /\ (m.type = "open" => s \in Theirs)
    BY <1>1 DEF Fresh, Messages, OpensTheirs, ShapeInv
<1>3. creating.at # "none" => m.channel # creating.channel
    BY <1>1 DEF CreatedOnce, Unknown
<1>4. Idle.at = "idle" /\ \A w, t, n : At(w, t, n).at = w /\ At(w, t, n).stream = t /\ At(w, t, n).channel = n
    BY DEF Idle, At
<1>5. \A t, n : chain # At("opening", t, n)
    BY <1>4
<1> HIDE DEF m
<1>6. ASSUME chain' = chain \/ chain'.at = "told",
             \A t \in Streams : /\ attributes'[t].channel = attributes[t].channel
                                /\ \/ attributes'[t].status = attributes[t].status
                                   \/ attributes[t].status = "waiting" /\ attributes'[t].status = "assigned"
      PROVE  Tables'
    <2>1. OpensHeld'
        BY <1>5, <1>6 DEF OpensHeld, Excused
    <2>2. CreatesHeld'
        BY <1>4, <1>6 DEF CreatesHeld
    <2>3. ClosesHeld' /\ OpeningHeld'
        BY <1>4, <1>6 DEF ClosesHeld, OpeningHeld
    <2>4. TheirsHeld'
        BY <1>4, <1>6 DEF TheirsHeld, Streams
    <2> QED BY <2>1, <2>2, <2>3, <2>4
<1>7. CASE m.type = "ack" /\ attributes[s].status = "waiting"
    <2>1. attributes' = [attributes EXCEPT ![s].status = "assigned"] /\ chain' = At("told", s, m.channel)
        BY <1>1, <1>7 DEF Handle
    <2>2. attributes'[s].channel = attributes[s].channel /\ attributes'[s].status = "assigned"
          /\ \A t \in Streams : t # s => attributes'[t] = attributes[t]
        BY <1>2, <2>1 DEF ShapeInv, Statuses
    <2> QED BY <1>4, <1>6, <1>7, <2>1, <2>2
<1>8. CASE m.type = "open" /\ attributes[s].status # "assigned"
    <2> DEFINE a == [status |-> "assigned", channel |-> m.channel]
    <2>1. attributes' = [attributes EXCEPT ![s] = a] /\ chain' = At("opening", s, m.channel)
        BY <1>1, <1>8 DEF Handle
    <2>2. a.status = "assigned" /\ a.channel = m.channel
        OBVIOUS
    <2> HIDE DEF a
    <2>3. attributes'[s] = a /\ \A t \in Streams : t # s => attributes'[t] = attributes[t]
        BY <1>2, <2>1 DEF ShapeInv
    <2>4. s \in Theirs /\ attributes[s].status \in {"none", "waiting", "assigned"}
        BY <1>2, <1>8 DEF ShapeInv, Statuses
    <2>5. DataChannels[s] = 0
        BY <1>4, <1>8, <2>4 DEF TheirsHeld
    <2>6. OpensHeld'
        BY <1>2, <1>5, <2>1, <2>2, <2>3 DEF OpensHeld, Excused
    <2>7. CreatesHeld'
        BY <1>3, <1>4, <2>1, <2>2, <2>3 DEF CreatesHeld
    <2>8. ClosesHeld' /\ OpeningHeld'
        BY <1>2, <1>4, <2>1, <2>2, <2>3, <2>4, <2>5 DEF ClosesHeld, OpeningHeld
    <2>9. TheirsHeld'
        <3>1. Theirs \subseteq Streams
            BY DEF Streams
        <3> QED BY <1>4, <2>1, <2>2, <2>3, <3>1 DEF TheirsHeld
    <2> QED BY <2>6, <2>7, <2>8, <2>9
<1>9. CASE m.type = "data"
    BY <1>1, <1>4, <1>6, <1>9 DEF Handle
<1>10. CASE ~(m.type = "ack" /\ attributes[s].status = "waiting")
            /\ ~(m.type = "open" /\ attributes[s].status # "assigned") /\ m.type # "data"
    BY <1>1, <1>6, <1>10 DEF Handle
<1> QED BY <1>7, <1>8, <1>9, <1>10

LEMMA CreateTables ==
  ASSUME ShapeInv, Fresh, Tables, Runs(Create)
  PROVE  Tables'
<1> USE DEF Tables
<1>1. /\ UNCHANGED <<attributes, chain, taken>> /\ opened' = opened + 1 /\ opened \in Nat
      /\ DataChannels'[Own] = opened' /\ creating'.at = "object" /\ creating'.channel = opened'
      /\ \A s \in Streams : s # Own => DataChannels'[s] = DataChannels[s]
    BY DEF Runs, Create, ShapeInv, Streams, thread, history
<1>2. \A n \in 0..opened : n # opened'
    BY <1>1
<1>3. \A s \in Theirs : s \in Streams /\ s # Own
    BY ChannelAssumption DEF Streams
<1>4. OpensHeld'
    BY <1>1 DEF OpensHeld, Excused
<1>5. CreatesHeld'
    BY <1>1, <1>2 DEF CreatesHeld, Fresh, Calls
<1>6. ClosesHeld' /\ TheirsHeld' /\ OpeningHeld'
    BY <1>1, <1>3 DEF ClosesHeld, TheirsHeld, OpeningHeld
<1> QED BY <1>4, <1>5, <1>6

LEMMA OpenDataChannelTables ==
  ASSUME ShapeInv, Fresh, Tables, Runs(OpenDataChannel)
  PROVE  Tables'
<1> USE DEF Tables
<1>1. /\ UNCHANGED <<DataChannels, chain, taken>> /\ creating.at = "object" /\ creating'.at = "attributes"
      /\ attributes'[Own].channel = creating.channel
      /\ \A s \in Streams : s # Own => attributes'[s] = attributes[s]
    BY DEF Runs, OpenDataChannel, ShapeInv, Creatings, Streams, thread, history
<1>2. creating.channel # 0
    BY <1>1 DEF Fresh, Calls, ShapeInv
<1>3. \A s \in Theirs : s \in Streams /\ s # Own
    BY ChannelAssumption DEF Streams
<1>4. OpensHeld'
    BY <1>1, <1>2 DEF OpensHeld, Excused, CreatesHeld
<1>5. CreatesHeld'
    BY <1>1 DEF CreatesHeld
<1>6. ClosesHeld'
    <2>1. chain.stream \in Streams
        BY DEF ShapeInv, Callings
    <2> QED BY <1>1, <2>1 DEF ClosesHeld, CreatesHeld
<1>7. TheirsHeld' /\ OpeningHeld'
    BY <1>1, <1>3 DEF TheirsHeld, OpeningHeld
<1> QED BY <1>4, <1>5, <1>6, <1>7

LEMMA OnDataChannelTables ==
  ASSUME ShapeInv, Tables, Runs(OnDataChannel)
  PROVE  Tables'
<1> USE DEF Tables
<1> DEFINE s == chain.stream
<1>1. /\ UNCHANGED <<attributes, creating, taken>> /\ chain.at = "opening" /\ chain'.at = "opened"
      /\ s \in Theirs /\ DataChannels[s] = 0 /\ s \in Streams
    BY DEF Runs, OnDataChannel, ShapeInv, Callings, history, OpeningHeld
<1>2. DataChannels'[s] = chain.channel /\ \A t \in Streams : t # s => DataChannels'[t] = DataChannels[t]
    BY <1>1 DEF Runs, OnDataChannel, ShapeInv
<1>3. s # Own
    BY <1>1, ChannelAssumption
<1>4. attributes[s].channel = chain.channel
    BY <1>1 DEF OpeningHeld
<1>5. \A t, n : chain = At("opening", t, n) => t = s
    BY DEF At
<1> HIDE DEF s
<1>6. OpensHeld'
    BY <1>1, <1>2, <1>4, <1>5 DEF OpensHeld, Excused
<1>7. CreatesHeld'
    <2>1. Own \in Streams
        BY DEF Streams
    <2> QED BY <1>1, <1>2, <1>3, <2>1 DEF CreatesHeld
<1>8. ClosesHeld' /\ OpeningHeld'
    BY <1>1 DEF ClosesHeld, OpeningHeld
<1>9. TheirsHeld'
    <2> SUFFICES ASSUME NEW t \in Theirs, attributes[t].status = "none" PROVE DataChannels'[t] = 0
        BY <1>1 DEF TheirsHeld
    <2>1. t \in Streams /\ DataChannels[t] = 0
        BY <1>1 DEF TheirsHeld, Streams
    <2>2. t # s
        BY <1>1, <1>4 DEF OpeningHeld, s
    <2> QED BY <1>2, <2>1, <2>2
<1> QED BY <1>6, <1>7, <1>8, <1>9

LEMMA OnDataChannelClosedTables ==
  ASSUME ShapeInv, Fresh, Tables, Runs(OnDataChannelClosed)
  PROVE  Tables'
<1> USE DEF Tables
<1> DEFINE s == chain.stream
<1>1. /\ UNCHANGED <<attributes, creating>> /\ chain.at = "closing" /\ chain'.at \in {"idle", "closed"}
      /\ taken' = taken \union ({DataChannels[s]} \ {0, chain.channel}) /\ s \in Streams
    BY DEF Runs, OnDataChannelClosed, ShapeInv, Callings, Idle, At
<1>2. DataChannels'[s] = 0 /\ \A t \in Streams : t # s => DataChannels'[t] = DataChannels[t]
    BY <1>1 DEF Runs, OnDataChannelClosed, ShapeInv
<1>3. \A t, n : chain # At("opening", t, n)
    BY <1>1 DEF At
<1>4. attributes[s].status # "none" => attributes[s].channel # chain.channel
    BY <1>1 DEF ClosesHeld
<1> HIDE DEF s
<1>5. OpensHeld'
    BY <1>1, <1>2, <1>3, <1>4 DEF OpensHeld, Excused
<1>6. CreatesHeld'
    <2> SUFFICES ASSUME creating.at = "object"
                 PROVE  DataChannels'[Own] = creating.channel \/ creating.channel \in taken'
        BY <1>1 DEF CreatesHeld
    <2>1. creating.channel # 0 /\ creating.channel # chain.channel /\ Own \in Streams
        BY <1>1 DEF Fresh, Calls, ShapeInv, CreatesHeld, Streams
    <2> QED BY <1>1, <1>2, <2>1 DEF CreatesHeld
<1>7. ClosesHeld' /\ OpeningHeld'
    BY <1>1 DEF ClosesHeld, OpeningHeld
<1>8. TheirsHeld'
    BY <1>1, <1>2 DEF TheirsHeld, Streams, s
<1> QED BY <1>5, <1>6, <1>7, <1>8

LEMMA StepTables ==
  ASSUME TypesHeld, Tables, [Next]_vars
  PROVE  Tables'
<1> USE DEF TypesHeld, ObjectInv, ResetInv
<1>1. Idle.at = "idle" /\ \A w, s, n : At(w, s, n).at = w
    BY DEF Idle, At
<1>2. CASE UNCHANGED TheTables
    BY <1>2 DEF TheTables, Tables, OpensHeld, Excused, CreatesHeld, ClosesHeld, TheirsHeld, OpeningHeld
<1>3. ASSUME UNCHANGED <<attributes, DataChannels, creating, taken>>,
             chain.at \notin {"opening", "closing"}, chain' = Idle
      PROVE  Tables'
    BY <1>1, <1>3 DEF Tables, OpensHeld, Excused, CreatesHeld, ClosesHeld, TheirsHeld, OpeningHeld
<1>4. CASE Runs(CloseDataChannel_Timeout)
    <2>1. CASE GivesUp(reconfigFailures + 1)
        <3>1. PropagateChannelClose(pending.stream) /\ chain = Idle /\ taken' = taken /\ pending.kind = "own"
            BY <1>4, <2>1 DEF Runs, CloseDataChannel_Timeout, history, RetryArmed
        <3>2. pending.stream \in Streams
            BY <3>1 DEF Aims
        <3> QED BY <3>1, <3>2, PropagateTables
    <2>2. CASE ~GivesUp(reconfigFailures + 1)
        BY <1>2, <1>4, <2>2 DEF Runs, CloseDataChannel_Timeout, history, local, TheTables
    <2> QED BY <2>1, <2>2
<1>5. CASE Runs(ProcessStreamData)
    BY <1>5, HandleTables DEF Runs, ProcessStreamData, history
<1>6. CASE Runs(EndMessage)
    BY <1>3, <1>6 DEF Runs, EndMessage, local, history
<1>7. CASE Runs(SendAnswer)
    BY <1>3, <1>7 DEF Runs, SendAnswer, local, history
<1>8. ASSUME NEW c \in toUs, Runs(ResetNow(c)) PROVE Tables'
    <2>1. c.stream \in Streams /\ Forget(c.stream) /\ chain = Idle /\ taken' = taken
        BY <1>8 DEF Runs, ResetNow, Aims, Outgoings
    <2> QED BY <2>1, ForgetTables
<1>9. ASSUME NEW c \in toUs, Runs(Respond(c)) PROVE Tables'
    <2>1. Respond(c) /\ chain = Idle /\ taken' = taken
        BY <1>9 DEF Runs, Respond
    <2>2. CASE pending.kind = "own" /\ PropagateChannelClose(pending.stream)
        <3>1. pending.stream \in Streams
            BY <2>2 DEF Aims
        <3> QED BY <2>1, <2>2, <3>1, PropagateTables
    <2>3. CASE UNCHANGED <<local, chain>>
        BY <1>2, <2>1, <2>3 DEF local, TheTables
    <2> QED BY <2>1, <2>2, <2>3, RespondOutcomes
<1>10. CASE Runs(SendOpen)
    <2>1. UNCHANGED <<attributes, DataChannels, chain, taken>> /\ creating.at = "attributes"
          /\ creating'.at = "none"
        BY <1>10 DEF Runs, SendOpen, thread, history, NoCreate
    <2> QED BY <2>1 DEF Tables, OpensHeld, Excused, CreatesHeld, ClosesHeld, TheirsHeld, OpeningHeld
<1>11. \/ UNCHANGED TheTables \/ Runs(CloseDataChannel_Timeout) \/ Runs(ProcessStreamData)
       \/ Runs(EndMessage) \/ Runs(SendAnswer) \/ Runs(SendOpen) \/ Runs(Create) \/ Runs(OpenDataChannel)
       \/ Runs(OnDataChannel) \/ Runs(OnDataChannelClosed)
       \/ \E c \in toUs : Runs(ResetNow(c)) \/ Runs(Respond(c))
    BY DEF Next, vars, Runs, Close, Defer, ResetOutgoing, PeerOpens, PeerWrites, PeerHears, PeerAsks,
           PeerAsksUs, PeerReceives, TheTables, local, thread, history
<1> QED BY <1>2, <1>4, <1>5, <1>6, <1>7, <1>8, <1>9, <1>10, <1>11, CreateTables, OpenDataChannelTables,
           OnDataChannelTables, OnDataChannelClosedTables

(* Although the attributes and the objects are entered and removed under   *)
(* different locks, with other threads in between, the close of another    *)
(* channel is all that makes an open channel lose its object               *)
(* (ILibWebRTC.c:2901-2905, 2970-2977; ILibWrapperWebRTC.c:649-683).       *)
THEOREM OpenHasObjectTheorem == Spec => []OpenHasObject
<1>1. Tables => OpenHasObject
    BY DEF Tables, OpensHeld, Excused, OpenHasObject
<1>2. TypesHeld /\ Tables /\ [Next]_vars => Tables'
    BY StepTables
<1> QED BY <1>1, <1>2, InitTables, TypesKept, PTL DEF Spec
=============================================================================
