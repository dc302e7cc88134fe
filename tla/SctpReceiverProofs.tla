-------------------------- MODULE SctpReceiverProofs --------------------------
(***************************************************************************)
(* Proofs about SctpReceiver for every set of packets, every length of the *)
(* chunks, and with or without an application that pauses and resumes from *)
(* its own thread.  The last part, OrderInv, is of a receiver that is      *)
(* never paused; SctpProofs uses it for the association.                   *)
(***************************************************************************)
EXTENDS SctpReceiver, DataLemmas

(* What the receiver knows of has arrived: the chunks of the packet in     *)
(* hand, the ones held, and everything up to intsn, in the SACK being made *)
(* and in those sent.                                                      *)
ArrivedInv ==
  /\ arrived \subseteq Tsn /\ receiveHoldBuffer \subseteq arrived
  /\ chunks \in Seq(Tsn) /\ \A i \in 1..Len(chunks) : chunks[i] \in arrived
  /\ intsn \in 0..MaxTsn /\ 1..intsn \subseteq arrived
  /\ 1..answer.cum \subseteq arrived
  /\ at \notin {"idle", "parsing"} => chunks # <<>>
  /\ CumulativeArrived

-----------------------------------------------------------------------------
(* What lies between n and the TSN that is reached has arrived.            *)
LEMMA ForwardHeld ==
  ASSUME NEW hold, hold \subseteq Tsn, NEW n \in 0..MaxTsn
  PROVE  /\ Forward(n, hold) \in n..MaxTsn
         /\ (n + 1)..Forward(n, hold) \subseteq hold
         /\ Forward(n, hold) + 1 \notin hold
<1> DEFINE gaps == {m \in n..MaxTsn : m + 1 \notin hold}
<1>1. MaxTsn \in gaps
    BY ReceiverAssumption DEF Tsn
<1>2. gaps \subseteq Nat
    OBVIOUS
<1>3. PICK m \in gaps : \A k \in gaps : m <= k
    BY <1>1, <1>2, LeastElement
<1>4. ASSUME NEW k \in (n + 1)..m PROVE k \in hold
    <2>1. k - 1 \in n..MaxTsn /\ ~(m <= k - 1) /\ (k - 1) + 1 = k
        BY <1>3, <1>4, ReceiverAssumption
    <2> QED BY <1>3, <2>1
<1>5. \E x \in n..MaxTsn : (n + 1)..x \subseteq hold /\ x + 1 \notin hold
    BY <1>3, <1>4
<1> HIDE DEF gaps
<1> QED BY <1>5 DEF Forward

LEMMA MoveArrived ==
  ASSUME ArrivedInv, NEW t \in arrived, t = intsn + 1
  PROVE  /\ MoveTsn(t, receiveHoldBuffer) \in 0..MaxTsn
         /\ 1..MoveTsn(t, receiveHoldBuffer) \subseteq arrived
<1>1. t \in 1..MaxTsn /\ receiveHoldBuffer \subseteq Tsn /\ intsn \in 0..MaxTsn
    BY DEF ArrivedInv, Tsn
<1>2. 1..t \subseteq arrived
    BY <1>1 DEF ArrivedInv
<1>3. t \in 0..MaxTsn
    BY <1>1, ReceiverAssumption
<1>4. /\ Forward(t, receiveHoldBuffer) \in t..MaxTsn
      /\ (t + 1)..Forward(t, receiveHoldBuffer) \subseteq arrived
    BY <1>1, <1>3, ForwardHeld DEF ArrivedInv
<1>5. 1..Forward(t, receiveHoldBuffer) \subseteq 1..t \union (t + 1)..Forward(t, receiveHoldBuffer)
    BY <1>1, <1>4, ReceiverAssumption
<1>6. Forward(t, receiveHoldBuffer) \in 0..MaxTsn
    BY <1>1, <1>4, ReceiverAssumption
<1> QED BY <1>2, <1>3, <1>4, <1>5, <1>6 DEF MoveTsn

-----------------------------------------------------------------------------
LEMMA InitArrived == Init => ArrivedInv
<1> SUFFICES ASSUME Init PROVE ArrivedInv
    OBVIOUS
<1>1. /\ arrived = {} /\ receiveHoldBuffer = {} /\ chunks = <<>> /\ intsn = 0
      /\ answer.cum = 0 /\ sacked = {} /\ at = "idle"
    BY DEF Init, NoSack
<1> QED BY <1>1, ReceiverAssumption DEF ArrivedInv, CumulativeArrived

(* The SACK being made. *)
LEMMA AcknowledgeArrived ==
  ASSUME ArrivedInv, NEW hold, Acknowledge(hold), 1..intsn' \subseteq arrived
  PROVE  1..answer'.cum \subseteq arrived
<1>1. CASE sentsack = "NotSent"
    <2>1. answer'.cum = intsn'
        BY <1>1 DEF Acknowledge, Sack
    <2> QED BY <2>1
<1>2. CASE sentsack # "NotSent"
    BY <1>2 DEF Acknowledge, ArrivedInv
<1> QED BY <1>1, <1>2

LEMMA QueueArrived ==
  ASSUME ArrivedInv, NEW t \in arrived, AddPacketToHoldingQueue(t), 1..intsn' \subseteq arrived
  PROVE  receiveHoldBuffer' \subseteq arrived /\ 1..answer'.cum \subseteq arrived
<1>1. CASE Full(t)
    BY <1>1 DEF AddPacketToHoldingQueue, ArrivedInv
<1>2. CASE ~Full(t)
    <2>1. receiveHoldBuffer' = receiveHoldBuffer \union {t} /\ Acknowledge(receiveHoldBuffer')
        BY <1>2 DEF AddPacketToHoldingQueue
    <2> QED BY <2>1, AcknowledgeArrived DEF ArrivedInv
<1> QED BY <1>1, <1>2

LEMMA ChunkArrived ==
  ASSUME ArrivedInv, chunks # <<>>
  PROVE  /\ Head(chunks) \in arrived /\ Tail(chunks) \in Seq(Tsn)
         /\ \A i \in 1..Len(Tail(chunks)) : Tail(chunks)[i] \in arrived
<1>1. chunks \in Seq(Tsn) /\ Len(chunks) \in Nat
    BY LenProperties DEF ArrivedInv
<1>2. /\ Head(chunks) = chunks[1] /\ 1 \in 1..Len(chunks) /\ Tail(chunks) \in Seq(Tsn)
      /\ \A i \in 1..Len(Tail(chunks)) : i + 1 \in 1..Len(chunks) /\ Tail(chunks)[i] = chunks[i + 1]
    BY <1>1, HeadTailProperties
<1> QED BY <1>2 DEF ArrivedInv

LEMMA StepArrived == ArrivedInv /\ [Next]_vars => ArrivedInv'
<1> SUFFICES ASSUME ArrivedInv, [Next]_vars PROVE ArrivedInv'
    OBVIOUS
(* A step that takes nothing in, and may drop chunks. *)
<1>1. ASSUME UNCHANGED <<arrived, intsn, sacked, answer>>,
             receiveHoldBuffer' \subseteq receiveHoldBuffer,
             chunks' \in {chunks, Tail(chunks)}, chunks # <<>> \/ chunks' = chunks,
             at' \notin {"idle", "parsing"} => chunks' # <<>>
      PROVE  ArrivedInv'
    BY <1>1, ChunkArrived DEF ArrivedInv, CumulativeArrived
<1>2. ASSUME NEW packet \in Packets, ReceivePacket(packet) PROVE ArrivedInv'
    <2>1. packet \in Seq(Tsn) /\ Range(packet) \subseteq Tsn
          /\ Range(packet) = {packet[i] : i \in 1..Len(packet)}
        BY ReceiverAssumption, RangeOfSeq, RangeEquality
    <2>2. /\ at' = "parsing" /\ chunks' = packet /\ answer'.cum = 0 /\ arrived' = arrived \union Range(packet)
          /\ UNCHANGED <<receiveHoldBuffer, intsn, sacked>>
        BY <1>2 DEF ReceivePacket, NoSack, receive
    <2>3. 1..answer'.cum = {}
        BY <2>2
    <2> QED BY <2>1, <2>2, <2>3 DEF ArrivedInv, CumulativeArrived
<1>3. CASE TossDuplicate
    <2>1. UNCHANGED <<receiveHoldBuffer, intsn, sacked, arrived>> /\ chunks # <<>>
          /\ at' = "parsing" /\ chunks' = Tail(chunks) /\ Acknowledge(receiveHoldBuffer)
        BY <1>3 DEF TossDuplicate, Parsing, NextChunk, receive, history
    <2>2. 1..answer'.cum \subseteq arrived
        BY <2>1, AcknowledgeArrived DEF ArrivedInv
    <2> QED BY <2>1, <2>2, ChunkArrived DEF ArrivedInv, CumulativeArrived
<1>4. CASE BufferOutOfOrder
    <2>1. UNCHANGED <<intsn, sacked, arrived>> /\ chunks # <<>>
          /\ at' = "parsing" /\ chunks' = Tail(chunks) /\ AddPacketToHoldingQueue(Head(chunks))
        BY <1>4 DEF BufferOutOfOrder, Parsing, NextChunk, history
    <2>2. 1..answer'.cum \subseteq arrived /\ receiveHoldBuffer' \subseteq arrived
        BY <2>1, ChunkArrived, QueueArrived DEF ArrivedInv
    <2> QED BY <2>1, <2>2, ChunkArrived DEF ArrivedInv, CumulativeArrived
<1>5. CASE BufferInOrder
    <2>1. UNCHANGED <<sacked, arrived>> /\ chunks # <<>> /\ Head(chunks) = intsn + 1
          /\ intsn' = MoveTsn(Head(chunks), receiveHoldBuffer)
          /\ at' = "parsing" /\ chunks' = Tail(chunks) /\ AddPacketToHoldingQueue(Head(chunks))
        BY <1>5 DEF BufferInOrder, Parsing, NextChunk, history
    <2>2. intsn' \in 0..MaxTsn /\ 1..intsn' \subseteq arrived
        BY <2>1, ChunkArrived, MoveArrived
    <2>3. 1..answer'.cum \subseteq arrived /\ receiveHoldBuffer' \subseteq arrived
        BY <2>1, <2>2, ChunkArrived, QueueArrived
    <2> QED BY <2>1, <2>2, <2>3, ChunkArrived DEF ArrivedInv, CumulativeArrived
<1>6. CASE AcceptInOrder
    <2>1. UNCHANGED <<receiveHoldBuffer, chunks, sacked, arrived>> /\ chunks # <<>>
          /\ Head(chunks) = intsn + 1
          /\ intsn' = MoveTsn(Head(chunks), receiveHoldBuffer) /\ Acknowledge(receiveHoldBuffer)
        BY <1>6 DEF AcceptInOrder, Parsing, history
    <2>2. intsn' \in 0..MaxTsn /\ 1..intsn' \subseteq arrived
        BY <2>1, ChunkArrived, MoveArrived
    <2>3. 1..answer'.cum \subseteq arrived
        BY <2>1, <2>2, AcknowledgeArrived
    <2> QED BY <2>1, <2>2, <2>3 DEF ArrivedInv, CumulativeArrived
<1>7. CASE Deliver
    BY <1>7, <1>1 DEF Deliver, receive, ArrivedInv
<1>8. CASE Return
    <2>1. chunks # <<>> /\ (at' = "parsing" \/ chunks' = chunks)
        BY <1>8 DEF Return, NextChunk, ArrivedInv
    <2> QED BY <1>8, <1>1, <2>1 DEF Return, NextChunk, receive, history
<1>9. CASE PullNext
    <2>1. /\ UNCHANGED <<receiveHoldBuffer, chunks, answer, sacked, arrived>>
          /\ receiveHoldBuffer # {} /\ Min(receiveHoldBuffer) <= intsn + 1
          /\ at = "pull"
          /\ intsn' = Min(receiveHoldBuffer)
        BY <1>9 DEF PullNext, CanPull, history
    <2>2. receiveHoldBuffer \subseteq Tsn /\ Tsn \subseteq Nat
        BY DEF ArrivedInv, Tsn
    <2>3. intsn' \in receiveHoldBuffer
        BY <2>1, <2>2, MinIsLeast
    <2>4. intsn' \in 1..MaxTsn /\ intsn' \in arrived /\ intsn' <= intsn + 1
        BY <2>1, <2>2, <2>3 DEF ArrivedInv, Tsn
    <2>5. intsn' \in 0..MaxTsn /\ 1..intsn' \subseteq arrived
        BY <2>4, ReceiverAssumption DEF ArrivedInv
    <2> QED BY <2>1, <2>5 DEF ArrivedInv, CumulativeArrived
<1>10. CASE PullReturn
    BY <1>10, <1>1 DEF PullReturn, ArrivedInv
<1>11. CASE EndPull
    <2>1. chunks # <<>> /\ at' = "parsing"
        BY <1>11 DEF EndPull, NextChunk, ArrivedInv
    <2> QED BY <1>11, <1>1, <2>1 DEF EndPull, NextChunk, history
<1>12. CASE EndPacket
    <2>1. at' = "idle" /\ UNCHANGED <<receiveHoldBuffer, intsn, chunks, arrived>> /\ answer'.cum = 0
          /\ sacked' \subseteq sacked \union {answer}
        BY <1>12 DEF EndPacket, receive, NoSack
    <2>2. 1..answer'.cum = {}
        BY <2>1
    <2> QED BY <2>1, <2>2 DEF ArrivedInv, CumulativeArrived
<1>13. CASE Pause
    BY <1>13, <1>1 DEF Pause, chain, history, ArrivedInv
<1>14. CASE Resume
    BY <1>14, <1>1 DEF Resume, chain, history, ArrivedInv
<1>15. CASE ResumeDeliver
    BY <1>15, <1>1 DEF ResumeDeliver, receive, chain, ArrivedInv
<1>16. CASE ResumeAgain
    BY <1>16, <1>1 DEF ResumeAgain, chain, history, ArrivedInv
<1>17. CASE ResumeReturn
    BY <1>17, <1>1 DEF ResumeReturn, chain, ArrivedInv
<1>18. CASE UNCHANGED vars
    BY <1>18, <1>1 DEF vars, receive, chain, history, ArrivedInv
<1> QED BY <1>2, <1>3, <1>4, <1>5, <1>6, <1>7, <1>8, <1>9, <1>10, <1>11, <1>12, <1>13, <1>14,
           <1>15, <1>16, <1>17, <1>18 DEF Next, ChunkStep, ResumeStep

-----------------------------------------------------------------------------
(* The chunk whose application call runs was given, and none is lost. *)
KeptInv ==
  /\ userTSN \in Nat /\ delivered \in Seq(Nat)
  /\ payload \in Nat /\ rPayload \in Nat
  /\ at \in {"inApp", "pullInApp"} => payload \in Range(delivered)
  /\ rAt = "inApp" => rPayload \in Range(delivered)
  /\ NoneLost

(* What was given, is on its way or held. *)
Known == Given \union receiveHoldBuffer

(* A chunk newly on its way has everything before it known. *)
LEMMA KnownGrows ==
  ASSUME NoneLost, Known \subseteq Known', 1..userTSN' \subseteq Known',
         \A t \in Given' : t \in Given \/ 1..t \subseteq Known'
  PROVE  NoneLost'
BY DEF NoneLost, Known

(* The next chunk for the application: it and all before it are known.     *)
LEMMA NextKnown ==
  ASSUME KeptInv, NEW t \in Nat, t <= userTSN + 1
  PROVE  1..t \subseteq Known \union {t}
<1>1. 1..t \subseteq 1..userTSN \union {t}
    BY DEF KeptInv
<1> QED BY <1>1 DEF KeptInv, NoneLost, Known

LEMMA InitKept == Init => KeptInv
<1> SUFFICES ASSUME Init PROVE KeptInv
    OBVIOUS
<1>1. delivered = <<>> /\ delivered \in Seq(Nat) /\ 1..Len(delivered) = {}
    BY DEF Init
<1>2. Range(delivered) = {}
    BY <1>1, RangeEquality
<1> QED BY <1>1, <1>2 DEF Init, KeptInv, NoneLost, Given, OnItsWay

(* What ILibSCTP_Resume takes next, the hold buffer being the one it left. *)
LEMMA ResumeLoopKept ==
  ASSUME KeptInv, ArrivedInv, rAt \in {"none", "inApp"}, NEW bytes,
         receiveHoldBuffer' \subseteq receiveHoldBuffer,
         receiveHoldBuffer \ receiveHoldBuffer' \subseteq Range(delivered),
         ResumeLoop(receiveHoldBuffer', bytes),
         UNCHANGED <<at, payload, delivered>>
  PROVE  KeptInv'
<1>1. Known \subseteq Range(delivered) \union OnItsWay \union receiveHoldBuffer'
    BY DEF Known, Given
<1>2. CASE Deliverable(receiveHoldBuffer')
    <2>1. userTSN' = userTSN + 1 /\ rPayload' = userTSN + 1 /\ rAt' = "deliver"
        BY <1>2 DEF ResumeLoop
    <2>2. OnItsWay' = OnItsWay \union {userTSN + 1}
        BY <2>1 DEF OnItsWay
    <2>3. Given' = Given \union {userTSN + 1} /\ Known \union {userTSN + 1} \subseteq Known'
        BY <1>1, <2>2 DEF Given, Known
    <2>4. userTSN + 1 \in Nat
        BY DEF KeptInv
    <2>5. 1..(userTSN + 1) \subseteq Known'
        BY <2>3, <2>4, NextKnown
    <2>6. NoneLost'
        BY <2>1, <2>3, <2>5, KnownGrows DEF KeptInv
    <2> QED BY <2>1, <2>4, <2>6 DEF KeptInv
<1>3. CASE ~Deliverable(receiveHoldBuffer')
    <2>1. rAt' = "none" /\ rPayload' = 0 /\ userTSN' = userTSN
        BY <1>3 DEF ResumeLoop
    <2>2. OnItsWay' = OnItsWay
        BY <2>1 DEF OnItsWay
    <2>3. Given' = Given /\ Known \subseteq Known'
        BY <1>1, <2>2 DEF Given, Known
    <2>4. 1..userTSN' \subseteq Known'
        BY <2>1, <2>3 DEF KeptInv, NoneLost, Known
    <2>5. NoneLost'
        BY <2>3, <2>4, KnownGrows DEF KeptInv
    <2> QED BY <2>1, <2>5 DEF KeptInv
<1> QED BY <1>2, <1>3

(* A step that moves no chunk for the application may still take chunks in, *)
(* and take out those that were given.                                      *)
LEMMA QuietKept ==
  ASSUME KeptInv, UNCHANGED <<userTSN, delivered, payload, rPayload, rAt>>,
         receiveHoldBuffer \ receiveHoldBuffer' \subseteq Range(delivered),
         at' = at \/ (/\ at \notin {"deliver", "pullDeliver"}
                    /\ at' \notin {"deliver", "pullDeliver", "inApp", "pullInApp"})
  PROVE  KeptInv'
<1>1. OnItsWay' = OnItsWay
    BY DEF OnItsWay
<1>2. Given' = Given /\ Known \subseteq Known'
    BY <1>1 DEF Given, Known
<1>3. 1..userTSN' \subseteq Known'
    BY <1>2 DEF KeptInv, NoneLost, Known
<1>4. NoneLost'
    BY <1>2, <1>3, KnownGrows DEF KeptInv
<1> QED BY <1>4 DEF KeptInv

(* A chunk given to the application was on its way. *)
LEMMA GiveKept ==
  ASSUME KeptInv, NEW t \in Nat, t \in OnItsWay,
         delivered' = Append(delivered, t), UNCHANGED <<userTSN, receiveHoldBuffer>>,
         OnItsWay \ {t} \subseteq OnItsWay', OnItsWay' \subseteq OnItsWay
  PROVE  /\ NoneLost' /\ delivered' \in Seq(Nat)
         /\ Range(delivered') = Range(delivered) \union {t}
<1>1. delivered' \in Seq(Nat) /\ Range(delivered') = Range(delivered) \union {t}
    BY RangeAppend DEF KeptInv
<1>2. Given' = Given /\ Known' = Known
    BY <1>1 DEF Given, Known
<1>3. 1..userTSN' \subseteq Known'
    BY <1>2 DEF KeptInv, NoneLost, Known
<1> QED BY <1>1, <1>2, <1>3, KnownGrows DEF KeptInv

LEMMA StepKept == ArrivedInv /\ KeptInv /\ [Next]_vars => KeptInv'
<1> SUFFICES ASSUME ArrivedInv, KeptInv, [Next]_vars PROVE KeptInv'
    OBVIOUS
<1>0. receiveHoldBuffer \subseteq Tsn /\ Tsn \subseteq Nat
    BY DEF ArrivedInv, Tsn
<1>1. ASSUME NEW packet \in Packets, ReceivePacket(packet) PROVE KeptInv'
    BY <1>1, QuietKept DEF ReceivePacket, receive, resume
<1>2. CASE TossDuplicate
    BY <1>2, QuietKept DEF TossDuplicate, Parsing, NextChunk, receive, resume, history
<1>3. CASE BufferOutOfOrder
    <2>1. receiveHoldBuffer \subseteq receiveHoldBuffer'
        BY <1>3 DEF BufferOutOfOrder, AddPacketToHoldingQueue
    <2> QED BY <1>3, <2>1, QuietKept DEF BufferOutOfOrder, Parsing, NextChunk, resume, history
<1>4. CASE BufferInOrder
    <2>1. receiveHoldBuffer \subseteq receiveHoldBuffer'
        BY <1>4 DEF BufferInOrder, AddPacketToHoldingQueue
    <2> QED BY <1>4, <2>1, QuietKept DEF BufferInOrder, Parsing, NextChunk, resume, history
<1>5. CASE AcceptInOrder
    <2> DEFINE t == Head(chunks)
    <2>1. /\ chunks # <<>> /\ at = "parsing" /\ at' = "deliver" /\ t = intsn + 1
          /\ intsn' = MoveTsn(t, receiveHoldBuffer) /\ userTSN' = intsn' /\ payload' = t
          /\ ~(userTSN < intsn' - 1)
          /\ UNCHANGED <<receiveHoldBuffer, delivered, rAt, rPayload>>
        BY <1>5 DEF AcceptInOrder, Parsing, MustBuffer, resume, history
    <2>2. t \in Tsn /\ t \in 1..MaxTsn /\ t \in 0..MaxTsn
        BY <2>1, ChunkArrived, ReceiverAssumption DEF ArrivedInv, Tsn
    <2>3. /\ Forward(t, receiveHoldBuffer) \in t..MaxTsn
          /\ (t + 1)..Forward(t, receiveHoldBuffer) \subseteq receiveHoldBuffer
        BY <1>0, <2>2, ForwardHeld
    <2>4. intsn' \in Nat /\ t <= intsn' /\ (intsn' = t \/ intsn' \in receiveHoldBuffer)
        BY <2>1, <2>2, <2>3, ReceiverAssumption DEF MoveTsn
    <2>5. intsn' <= userTSN + 1
        BY <2>1, <2>4 DEF KeptInv
    <2>6. OnItsWay' = OnItsWay \union {t}
        BY <2>1 DEF OnItsWay
    <2>7. Given' = Given \union {t} /\ Known' = Known \union {t}
        BY <2>1, <2>6 DEF Given, Known
    <2>8. 1..intsn' \subseteq Known'
        BY <2>4, <2>5, <2>7, NextKnown DEF Known
    <2>9. 1..t \subseteq Known'
        BY <2>2, <2>4, <2>8
    <2>10. NoneLost'
        BY <2>1, <2>7, <2>8, <2>9, KnownGrows DEF KeptInv
    <2> QED BY <2>1, <2>2, <2>4, <2>10 DEF KeptInv, Tsn
<1>6. CASE Deliver
    <2>1. /\ at \in {"deliver", "pullDeliver"} /\ at' \in {"inApp", "pullInApp"}
          /\ delivered' = Append(delivered, payload)
          /\ UNCHANGED <<userTSN, receiveHoldBuffer, payload, rAt, rPayload>>
        BY <1>6 DEF Deliver, receive, resume
    <2>2. payload \in Nat /\ payload \in OnItsWay
          /\ OnItsWay \ {payload} \subseteq OnItsWay' /\ OnItsWay' \subseteq OnItsWay
        BY <2>1 DEF OnItsWay, KeptInv
    <2>3. /\ NoneLost' /\ delivered' \in Seq(Nat)
          /\ Range(delivered') = Range(delivered) \union {payload}
        BY <2>1, <2>2, GiveKept
    <2> QED BY <2>1, <2>3 DEF KeptInv
<1>7. CASE Return
    BY <1>7, QuietKept DEF Return, NextChunk, receive, resume, history
<1>8. CASE PullNext
    <2> DEFINE t == Min(receiveHoldBuffer)
    <2>1. /\ at = "pull" /\ at' = "pullDeliver" /\ receiveHoldBuffer # {} /\ t <= userTSN + 1
          /\ userTSN' = t /\ payload' = t
          /\ UNCHANGED <<receiveHoldBuffer, delivered, rAt, rPayload>>
        BY <1>8 DEF PullNext, CanPull, resume, history
    <2>2. t \in Nat
        BY <1>0, <2>1, MinIsLeast
    <2>3. OnItsWay' = OnItsWay \union {t}
        BY <2>1 DEF OnItsWay
    <2>4. Given' = Given \union {t} /\ Known' = Known \union {t}
        BY <2>1, <2>3 DEF Given, Known
    <2>5. 1..t \subseteq Known'
        BY <2>1, <2>2, <2>4, NextKnown
    <2>6. NoneLost'
        BY <2>1, <2>4, <2>5, KnownGrows DEF KeptInv
    <2> QED BY <2>1, <2>2, <2>6 DEF KeptInv
<1>9. CASE PullReturn
    <2>1. /\ at = "pullInApp" /\ at' \in {"pulled", "pull"} /\ payload \in Range(delivered)
          /\ receiveHoldBuffer \ receiveHoldBuffer' \subseteq {payload}
        BY <1>9 DEF PullReturn, KeptInv
    <2> QED BY <1>9, <2>1, QuietKept DEF PullReturn, resume
<1>10. CASE EndPull
    BY <1>10, QuietKept DEF EndPull, NextChunk, resume, history
<1>11. CASE EndPacket
    BY <1>11, QuietKept DEF EndPacket, receive, resume
<1>12. CASE Pause
    BY <1>12, QuietKept DEF Pause, chain, resume, history
<1>13. CASE Resume
    <2>1. /\ rAt = "none" /\ ResumeLoop(receiveHoldBuffer', 0)
          /\ UNCHANGED <<at, payload, delivered, receiveHoldBuffer>>
        BY <1>13 DEF Resume, chain, history
    <2> QED BY <2>1, ResumeLoopKept
<1>14. CASE ResumeDeliver
    <2>1. /\ rAt = "deliver" /\ rAt' = "inApp" /\ delivered' = Append(delivered, rPayload)
          /\ UNCHANGED <<userTSN, receiveHoldBuffer, at, payload, rPayload>>
        BY <1>14 DEF ResumeDeliver, receive, chain
    <2>2. rPayload \in Nat /\ rPayload \in OnItsWay
          /\ OnItsWay \ {rPayload} \subseteq OnItsWay' /\ OnItsWay' \subseteq OnItsWay
        BY <2>1 DEF OnItsWay, KeptInv
    <2>3. /\ NoneLost' /\ delivered' \in Seq(Nat)
          /\ Range(delivered') = Range(delivered) \union {rPayload}
        BY <2>1, <2>2, GiveKept
    <2> QED BY <2>1, <2>3 DEF KeptInv
<1>15. CASE ResumeAgain
    BY <1>15, QuietKept DEF ResumeAgain, chain, resume, history
<1>16. CASE ResumeReturn
    <2>1. /\ rAt = "inApp" /\ ResumeLoop(receiveHoldBuffer', rPulled)
          /\ receiveHoldBuffer' \subseteq receiveHoldBuffer
          /\ receiveHoldBuffer \ receiveHoldBuffer' \subseteq {rPayload}
          /\ UNCHANGED <<at, payload, delivered>>
        BY <1>16 DEF ResumeReturn, chain
    <2>2. rPayload \in Range(delivered)
        BY <2>1 DEF KeptInv
    <2> QED BY <2>1, <2>2, ResumeLoopKept
<1>17. CASE UNCHANGED vars
    BY <1>17, QuietKept DEF vars, receive, chain, resume, history
<1> QED BY <1>1, <1>2, <1>3, <1>4, <1>5, <1>6, <1>7, <1>8, <1>9, <1>10, <1>11, <1>12, <1>13,
           <1>14, <1>15, <1>16, <1>17 DEF Next, ChunkStep, ResumeStep

(* No chunk that userTSN passed, or before one that was given, is lost,    *)
(* whatever the threads, the pauses and a full buffer do: it was given, is *)
(* on its way or held (ILibWebRTC.c:4271-4335, 4388-4404).                 *)
THEOREM NoneLostTheorem == Spec => []NoneLost
<1>1. KeptInv => NoneLost
    BY DEF KeptInv
<1> QED BY <1>1, InitArrived, StepArrived, InitKept, StepKept, PTL DEF Spec

-----------------------------------------------------------------------------
(* The chunks in hand are chunks while they are, and a packet with a chunk *)
(* in hand is not at its end.                                              *)
TypeInv ==
  /\ TypeOK
  /\ at \in {"deliver", "inApp", "pullDeliver", "pullInApp"} => payload \in Tsn
  /\ rAt # "none" => rPayload \in Tsn
  /\ at \notin {"idle", "parsing"} => chunks # <<>>

LEMMA TsnFinite ==
  /\ IsFiniteSet(Tsn) /\ Tsn \subseteq Nat /\ Tsn \subseteq 0..MaxTsn
  /\ \A S \in SUBSET Tsn : IsFiniteSet(S)
<1>1. IsFiniteSet(Tsn)
    BY ReceiverAssumption, FS_Interval DEF Tsn
<1>2. \A S \in SUBSET Tsn : IsFiniteSet(S)
    BY <1>1, FS_Subset
<1>3. Tsn \subseteq Nat /\ Tsn \subseteq 0..MaxTsn
    BY ReceiverAssumption DEF Tsn
<1> QED BY <1>1, <1>2, <1>3

LEMMA OffsetTyped ==
  ASSUME NEW t \in Int, NEW cum \in Int
  PROVE  Offset(t, cum) \in Offsets
<1>1. Word \in Nat /\ Word > 0
    BY DEF Word
<1>2. (t - cum) % Word \in 0..(Word - 1)
    BY <1>1
<1> QED BY <1>2 DEF Offset, Offsets

LEMMA SackTyped ==
  ASSUME NEW cum \in 0..MaxTsn, NEW user \in 0..MaxTsn, NEW hold \in SUBSET Tsn
  PROVE  Sack(cum, user, hold) \in SackType
<1> DEFINE beyond == {t \in hold : t > user}
           starts == {t \in beyond : t - 1 \notin beyond}
           twice  == IF starts = {} THEN {} ELSE starts \ {Min(starts)}
           bytes  == SumFunctionOnSet(Length, beyond) + SumFunctionOnSet(Length, twice)
           block(s) == [first |-> Offset(s, cum), last |-> Offset(Forward(s, beyond), cum)]
           blocks == {block(s) : s \in starts}
<1>1. beyond \in SUBSET Tsn /\ twice \in SUBSET Tsn /\ starts \in SUBSET Tsn
    OBVIOUS
<1> HIDE DEF beyond, starts, twice
<1>2. \A S \in SUBSET Tsn : SumFunctionOnSet(Length, S) \in Nat
    <2>1. \A x \in Tsn : Length[x] \in Nat
        BY ReceiverAssumption
    <2> QED BY <2>1, TsnFinite, SumNat
<1>3. bytes \in Nat /\ Capacity \in Nat
    BY <1>1, <1>2, ReceiverAssumption
<1> HIDE DEF bytes
<1>4. Min({bytes, Capacity}) \in {bytes, Capacity} /\ Min({bytes, Capacity}) <= Capacity
    BY <1>3, MinIsLeast
<1>5. Capacity - Min({bytes, Capacity}) \in 0..Capacity
    BY <1>3, <1>4
<1>6. ASSUME NEW s \in starts
      PROVE  block(s) \in [first: Offsets, last: Offsets]
    <2>1. s \in Tsn /\ s \in 0..MaxTsn
        BY <1>1, TsnFinite
    <2>2. Forward(s, beyond) \in s..MaxTsn
        BY <1>1, <2>1, ForwardHeld
    <2>3. s \in Int /\ cum \in Int /\ Forward(s, beyond) \in Int
        BY <2>1, <2>2, ReceiverAssumption
    <2>4. Offset(s, cum) \in Offsets /\ Offset(Forward(s, beyond), cum) \in Offsets
        BY <2>3, OffsetTyped
    <2> QED BY <2>4
<1>7. blocks \in SUBSET [first: Offsets, last: Offsets]
    <2> HIDE DEF block
    <2> QED BY <1>6
<1> HIDE DEF blocks
<1> DEFINE rwnd == Capacity - Min({bytes, Capacity})
<1>8. Sack(cum, user, hold) = [cum |-> cum, blocks |-> blocks, rwnd |-> rwnd]
    BY Zenon DEF Sack, beyond, starts, twice, bytes, blocks
<1>9. rwnd \in 0..Capacity
    BY <1>5
<1> HIDE DEF rwnd
<1> QED BY <1>7, <1>8, <1>9 DEF SackType

LEMMA NoSackTyped == NoSack \in SackType
BY ReceiverAssumption DEF NoSack, SackType

LEMMA AcknowledgeTyped ==
  ASSUME TypeInv, NEW hold \in SUBSET Tsn, Acknowledge(hold),
         intsn' \in 0..MaxTsn, userTSN' \in 0..MaxTsn
  PROVE  sentsack' \in {"NotSent", "Sent", "Skip"} /\ answer' \in SackType
<1>1. CASE sentsack = "NotSent"
    <2>1. sentsack' = "Sent" /\ answer' = Sack(intsn', userTSN', hold)
        BY <1>1 DEF Acknowledge
    <2> QED BY <2>1, SackTyped
<1>2. CASE sentsack # "NotSent"
    BY <1>2 DEF Acknowledge, TypeInv, TypeOK
<1> QED BY <1>1, <1>2

LEMMA QueueTyped ==
  ASSUME TypeInv, NEW t \in Tsn, AddPacketToHoldingQueue(t),
         intsn' \in 0..MaxTsn, userTSN' \in 0..MaxTsn
  PROVE  /\ receiveHoldBuffer' \subseteq Tsn /\ used' \in Int
         /\ sentsack' \in {"NotSent", "Sent", "Skip"} /\ answer' \in SackType
<1>1. CASE Full(t)
    BY <1>1 DEF AddPacketToHoldingQueue, TypeInv, TypeOK
<1>2. CASE ~Full(t)
    <2>1. /\ receiveHoldBuffer' = receiveHoldBuffer \union {t}
          /\ used' = used + ChargeOnce(t) /\ Acknowledge(receiveHoldBuffer')
        BY <1>2 DEF AddPacketToHoldingQueue
    <2>2. ChargeOnce(t) \in Int /\ used \in Int
        BY ReceiverAssumption DEF ChargeOnce, TypeInv, TypeOK
    <2>3. receiveHoldBuffer' \subseteq Tsn
        BY <2>1 DEF TypeInv, TypeOK
    <2> QED BY <2>1, <2>2, <2>3, AcknowledgeTyped
<1> QED BY <1>1, <1>2

LEMMA ChunkTyped ==
  ASSUME TypeInv, chunks # <<>>
  PROVE  Head(chunks) \in Tsn /\ Tail(chunks) \in Seq(Tsn)
BY HeadTailProperties DEF TypeInv, TypeOK

(* What moves intsn. *)
LEMMA MoveTyped ==
  ASSUME TypeInv, NEW t \in Tsn
  PROVE  MoveTsn(t, receiveHoldBuffer) \in 0..MaxTsn
<1>1. t \in 0..MaxTsn /\ receiveHoldBuffer \subseteq Tsn
    BY TsnFinite DEF TypeInv, TypeOK
<1>2. Forward(t, receiveHoldBuffer) \in t..MaxTsn
    BY <1>1, ForwardHeld
<1> QED BY <1>1, <1>2, ReceiverAssumption DEF MoveTsn

LEMMA ResumeLoopTyped ==
  ASSUME TypeInv, NEW hold \in SUBSET Tsn, NEW bytes \in Nat, ResumeLoop(hold, bytes)
  PROVE  /\ userTSN' \in 0..MaxTsn /\ used' \in Int
         /\ rAt' \in {"none", "deliver", "inApp"} /\ rPayload' \in 0..MaxTsn /\ rPulled' \in Nat
         /\ rAt' # "none" => rPayload' \in Tsn
<1>1. CASE Deliverable(hold)
    <2>1. userTSN + 1 \in Tsn
        BY <1>1, TsnFinite, MinIsLeast DEF Deliverable
    <2>2. Charge[userTSN + 1] \in Nat /\ userTSN + 1 \in 0..MaxTsn
        BY <2>1, TsnFinite, ReceiverAssumption
    <2> QED BY <1>1, <2>1, <2>2 DEF ResumeLoop, TypeInv, TypeOK
<1>2. CASE ~Deliverable(hold)
    BY <1>2, ReceiverAssumption DEF ResumeLoop, TypeInv, TypeOK
<1> QED BY <1>1, <1>2

LEMMA InitType == Init => TypeInv
<1> SUFFICES ASSUME Init PROVE TypeInv
    OBVIOUS
<1>1. 0 \in 0..MaxTsn /\ <<>> \in Seq(Tsn)
    BY ReceiverAssumption, EmptySeq
<1>2. /\ intsn = 0 /\ userTSN = 0 /\ receiveHoldBuffer = {} /\ used = 0 /\ paused = FALSE
      /\ at = "idle" /\ chunks = <<>> /\ payload = 0 /\ pulled = 0
      /\ sentsack = "NotSent" /\ answer = NoSack
    BY DEF Init
<1>3. /\ rAt = "none" /\ rPayload = 0 /\ rPulled = 0
      /\ heap = "ok" /\ arrived = {} /\ delivered = <<>> /\ sacked = {}
    BY DEF Init
<1>4. TypeOK
    <2>1. intsn \in 0..MaxTsn /\ userTSN \in 0..MaxTsn
        BY <1>1, <1>2
    <2>2. receiveHoldBuffer \subseteq Tsn /\ used \in Int
        BY <1>2
    <2>9. paused \in BOOLEAN
        BY <1>2, Zenon
    <2>3. at \in {"idle", "parsing", "deliver", "inApp", "pull", "pullDeliver", "pullInApp", "pulled"}
        BY <1>2
    <2>4. chunks \in Seq(Tsn) /\ payload \in 0..MaxTsn /\ pulled \in Nat
        BY <1>1, <1>2
    <2>5. sentsack \in {"NotSent", "Sent", "Skip"} /\ answer \in SackType
        BY <1>2, NoSackTyped
    <2>6. rAt \in {"none", "deliver", "inApp"} /\ rPayload \in 0..MaxTsn /\ rPulled \in Nat
        BY <1>1, <1>3
    <2>7. heap \in {"ok", "corrupt"} /\ arrived \subseteq Tsn
        BY <1>3
    <2>8. delivered \in Seq(Tsn) /\ sacked \subseteq SackType
        BY <1>1, <1>3
    <2> QED BY <2>1, <2>2, <2>3, <2>4, <2>5, <2>6, <2>7, <2>8, <2>9 DEF TypeOK
<1>5. at \in {"idle", "parsing"} /\ rAt = "none"
    BY <1>2, <1>3
<1> QED BY <1>4, <1>5 DEF TypeInv

LEMMA StepType == TypeInv /\ [Next]_vars => TypeInv'
<1> SUFFICES ASSUME TypeInv, [Next]_vars PROVE TypeInv'
    OBVIOUS
<1>1. ASSUME NEW packet \in Packets, ReceivePacket(packet) PROVE TypeInv'
    <2>1. packet \in Seq(Tsn) /\ Range(packet) \subseteq Tsn
        BY ReceiverAssumption, RangeOfSeq
    <2> QED BY <1>1, <2>1, NoSackTyped DEF ReceivePacket, receive, resume, TypeInv, TypeOK
<1>2. CASE TossDuplicate
    <2>1. Acknowledge(receiveHoldBuffer) /\ Tail(chunks) \in Seq(Tsn)
          /\ UNCHANGED <<receive, payload, pulled, resume, history>> /\ NextChunk
        BY <1>2, ChunkTyped DEF TossDuplicate, Parsing
    <2>2. sentsack' \in {"NotSent", "Sent", "Skip"} /\ answer' \in SackType
        BY <2>1, AcknowledgeTyped DEF receive, TypeInv, TypeOK
    <2> QED BY <2>1, <2>2 DEF NextChunk, receive, resume, history, TypeInv, TypeOK
<1>3. CASE BufferOutOfOrder
    <2>1. /\ AddPacketToHoldingQueue(Head(chunks)) /\ Head(chunks) \in Tsn
          /\ Tail(chunks) \in Seq(Tsn) /\ NextChunk
          /\ UNCHANGED <<intsn, userTSN, paused, payload, pulled, resume, history>>
        BY <1>3, ChunkTyped DEF BufferOutOfOrder, Parsing
    <2>2. /\ receiveHoldBuffer' \subseteq Tsn /\ used' \in Int
          /\ sentsack' \in {"NotSent", "Sent", "Skip"} /\ answer' \in SackType
        BY <2>1, QueueTyped DEF TypeInv, TypeOK
    <2> QED BY <2>1, <2>2 DEF NextChunk, resume, history, TypeInv, TypeOK
<1>4. CASE BufferInOrder
    <2>1. /\ AddPacketToHoldingQueue(Head(chunks)) /\ Head(chunks) \in Tsn
          /\ Tail(chunks) \in Seq(Tsn) /\ NextChunk
          /\ intsn' = MoveTsn(Head(chunks), receiveHoldBuffer)
          /\ UNCHANGED <<userTSN, paused, payload, pulled, resume, history>>
        BY <1>4, ChunkTyped DEF BufferInOrder, Parsing
    <2>2. intsn' \in 0..MaxTsn /\ userTSN' \in 0..MaxTsn
        BY <2>1, MoveTyped DEF TypeInv, TypeOK
    <2>3. /\ receiveHoldBuffer' \subseteq Tsn /\ used' \in Int
          /\ sentsack' \in {"NotSent", "Sent", "Skip"} /\ answer' \in SackType
        BY <2>1, <2>2, QueueTyped
    <2> QED BY <2>1, <2>2, <2>3 DEF NextChunk, resume, history, TypeInv, TypeOK
<1>5. CASE AcceptInOrder
    <2>1. /\ Acknowledge(receiveHoldBuffer) /\ Head(chunks) \in Tsn /\ chunks # <<>>
          /\ intsn' = MoveTsn(Head(chunks), receiveHoldBuffer) /\ userTSN' = intsn'
          /\ payload' = Head(chunks) /\ at' = "deliver"
          /\ UNCHANGED <<receiveHoldBuffer, used, paused, chunks, pulled, resume, history>>
        BY <1>5, ChunkTyped DEF AcceptInOrder, Parsing
    <2>2. intsn' \in 0..MaxTsn /\ userTSN' \in 0..MaxTsn /\ payload' \in 0..MaxTsn
        BY <2>1, MoveTyped, TsnFinite
    <2>3. sentsack' \in {"NotSent", "Sent", "Skip"} /\ answer' \in SackType
        BY <2>1, <2>2, AcknowledgeTyped DEF TypeInv, TypeOK
    <2> QED BY <2>1, <2>2, <2>3 DEF resume, history, TypeInv, TypeOK
<1>6. CASE Deliver
    <2>1. Append(delivered, payload) \in Seq(Tsn)
        BY <1>6, AppendProperties DEF Deliver, TypeInv, TypeOK
    <2> QED BY <1>6, <2>1 DEF Deliver, receive, resume, TypeInv, TypeOK
<1>7. CASE Return
    <2>1. Tail(chunks) \in Seq(Tsn) /\ chunks # <<>>
        BY <1>7, ChunkTyped DEF Return, TypeInv
    <2> QED BY <1>7, <2>1 DEF Return, NextChunk, receive, resume, history, TypeInv, TypeOK
<1>8. CASE PullNext
    <2>1. payload' \in Tsn /\ payload' = Min(receiveHoldBuffer)
        BY <1>8, TsnFinite, MinIsLeast DEF PullNext, CanPull, TypeInv, TypeOK
    <2>2. Charge[payload'] \in Nat /\ payload' \in 0..MaxTsn
        BY <2>1, TsnFinite, ReceiverAssumption
    <2> QED BY <1>8, <2>1, <2>2 DEF PullNext, resume, history, TypeInv, TypeOK
<1>9. CASE PullReturn
    BY <1>9 DEF PullReturn, resume, TypeInv, TypeOK
<1>10. CASE EndPull
    <2>1. Tail(chunks) \in Seq(Tsn) /\ chunks # <<>>
        BY <1>10, ChunkTyped DEF EndPull, TypeInv
    <2> QED BY <1>10, <2>1 DEF EndPull, NextChunk, resume, history, TypeInv, TypeOK
<1>11. CASE EndPacket
    BY <1>11, NoSackTyped DEF EndPacket, receive, resume, TypeInv, TypeOK
<1>12. CASE Pause
    BY <1>12 DEF Pause, chain, resume, history, TypeInv, TypeOK
<1>13. CASE Resume
    <2>1. receiveHoldBuffer \in SUBSET Tsn /\ ResumeLoop(receiveHoldBuffer, 0)
        BY <1>13 DEF Resume, TypeInv, TypeOK
    <2>2. /\ userTSN' \in 0..MaxTsn /\ used' \in Int
          /\ rAt' \in {"none", "deliver", "inApp"} /\ rPayload' \in 0..MaxTsn /\ rPulled' \in Nat
          /\ rAt' # "none" => rPayload' \in Tsn
        BY <2>1, ResumeLoopTyped
    <2> QED BY <1>13, <2>2 DEF Resume, chain, history, TypeInv, TypeOK
<1>14. CASE ResumeDeliver
    <2>1. Append(delivered, rPayload) \in Seq(Tsn)
        BY <1>14, AppendProperties DEF ResumeDeliver, TypeInv, TypeOK
    <2> QED BY <1>14, <2>1 DEF ResumeDeliver, receive, chain, TypeInv, TypeOK
<1>15. CASE ResumeAgain
    BY <1>15 DEF ResumeAgain, chain, resume, history, TypeInv, TypeOK
<1>16. CASE ResumeReturn
    <2>1. receiveHoldBuffer' \in SUBSET Tsn /\ rPulled \in Nat
          /\ ResumeLoop(receiveHoldBuffer', rPulled) /\ heap' \in {"ok", "corrupt"}
        BY <1>16 DEF ResumeReturn, TypeInv, TypeOK
    <2>2. /\ userTSN' \in 0..MaxTsn /\ used' \in Int
          /\ rAt' \in {"none", "deliver", "inApp"} /\ rPayload' \in 0..MaxTsn /\ rPulled' \in Nat
          /\ rAt' # "none" => rPayload' \in Tsn
        BY <2>1, ResumeLoopTyped
    <2> QED BY <1>16, <2>1, <2>2 DEF ResumeReturn, chain, TypeInv, TypeOK
<1>17. CASE UNCHANGED vars
    BY <1>17 DEF vars, receive, chain, resume, history, TypeInv, TypeOK
<1> QED BY <1>1, <1>2, <1>3, <1>4, <1>5, <1>6, <1>7, <1>8, <1>9, <1>10, <1>11, <1>12, <1>13,
           <1>14, <1>15, <1>16, <1>17 DEF Next, ChunkStep, ResumeStep

(* The variables keep the shape of the session structure, the gap offsets  *)
(* their 16 bits and the advertised window its range, whatever the packets *)
(* hold (ILibWebRTC.c:4236-4345).                                          *)
THEOREM TypeTheorem == Spec => []TypeOK
<1>1. TypeInv => TypeOK
    BY DEF TypeInv
<1> QED BY <1>1, InitType, StepType, PTL DEF Spec

-----------------------------------------------------------------------------
(* What the hold buffer is charged for, and what each thread has yet to    *)
(* give back.                                                              *)
Held == SumFunctionOnSet(Charge, receiveHoldBuffer)
ChainUnreturned ==
  CASE at \in {"pullDeliver", "pullInApp"} -> pulled - Charge[payload]
    [] at \in {"pull", "pulled"} -> pulled
    [] OTHER -> 0
ResumeUnreturned == IF rAt = "none" THEN 0 ELSE rPulled - Charge[rPayload]
Balanced == used = Held + ChainUnreturned + ResumeUnreturned

LEMMA HeldAdds ==
  ASSUME NEW hold \in SUBSET Tsn, NEW t \in Tsn
  PROVE  /\ SumFunctionOnSet(Charge, hold) \in Int /\ Charge[t] \in Int
         /\ t \notin hold => SumFunctionOnSet(Charge, hold \union {t})
                             = SumFunctionOnSet(Charge, hold) + Charge[t]
         /\ t \in hold => SumFunctionOnSet(Charge, hold \ {t})
                          = SumFunctionOnSet(Charge, hold) - Charge[t]
<1>1. \A x \in Tsn : Charge[x] \in Int
    BY ReceiverAssumption
<1>2. \A S \in SUBSET Tsn : SumFunctionOnSet(Charge, S) \in Int
    BY <1>1, TsnFinite, SumChosen
<1>3. \A S \in SUBSET Tsn : t \notin S =>
        SumFunctionOnSet(Charge, S \union {t}) = SumFunctionOnSet(Charge, S) + Charge[t]
    BY <1>1, TsnFinite, SumAdd
<1>4. ASSUME t \in hold
      PROVE  SumFunctionOnSet(Charge, hold \ {t}) = SumFunctionOnSet(Charge, hold) - Charge[t]
    <2> DEFINE rest == hold \ {t}
    <2>1. rest \in SUBSET Tsn /\ t \notin rest /\ rest \union {t} = hold
        BY <1>4
    <2> HIDE DEF rest
    <2>2. SumFunctionOnSet(Charge, hold) = SumFunctionOnSet(Charge, rest) + Charge[t]
        BY <1>3, <2>1
    <2>3. SumFunctionOnSet(Charge, rest) \in Int /\ Charge[t] \in Int
        BY <1>1, <1>2, <2>1
    <2>4. SumFunctionOnSet(Charge, rest) = SumFunctionOnSet(Charge, hold) - Charge[t]
        BY <2>2, <2>3
    <2> QED BY <2>4 DEF rest
<1> QED BY <1>1, <1>2, <1>3, <1>4

LEMMA BalanceTyped ==
  ASSUME TypeInv
  PROVE  Held \in Int /\ ChainUnreturned \in Int /\ ResumeUnreturned \in Int /\ used \in Int
<1>1. Held \in Int
    <2>1. \A x \in Tsn : Charge[x] \in Int
        BY ReceiverAssumption
    <2>2. receiveHoldBuffer \in SUBSET Tsn
        BY DEF TypeInv, TypeOK
    <2> QED BY <2>1, <2>2, TsnFinite, SumChosen DEF Held
<1>2. ChainUnreturned \in Int
    <2>1. at \in {"pullDeliver", "pullInApp"} => Charge[payload] \in Int
        BY ReceiverAssumption DEF TypeInv
    <2>2. pulled \in Int
        BY DEF TypeInv, TypeOK
    <2> QED BY <2>1, <2>2 DEF ChainUnreturned
<1>3. ResumeUnreturned \in Int
    <2>1. rAt # "none" => Charge[rPayload] \in Int
        BY ReceiverAssumption DEF TypeInv
    <2>2. rPulled \in Int
        BY DEF TypeInv, TypeOK
    <2> QED BY <2>1, <2>2 DEF ResumeUnreturned
<1>4. used \in Int
    BY DEF TypeInv, TypeOK
<1> QED BY <1>1, <1>2, <1>3, <1>4

LEMMA BalanceTypedNext ==
  ASSUME TypeInv'
  PROVE  used' \in Int /\ ResumeUnreturned' \in Int
<1>1. (rAt' # "none" => Charge[rPayload'] \in Int) /\ rPulled' \in Int /\ used' \in Int
    BY ReceiverAssumption DEF TypeInv, TypeOK
<1> QED BY <1>1 DEF ResumeUnreturned

LEMMA QueueBalanced ==
  ASSUME TypeInv, Balanced, NEW t \in Tsn, AddPacketToHoldingQueue(t),
         ChainUnreturned' = ChainUnreturned, ResumeUnreturned' = ResumeUnreturned
  PROVE  Balanced'
<1>1. CASE Full(t)
    BY <1>1 DEF AddPacketToHoldingQueue, Balanced, Held
<1>2. CASE ~Full(t)
    <2>1. receiveHoldBuffer' = receiveHoldBuffer \union {t} /\ used' = used + ChargeOnce(t)
        BY <1>2 DEF AddPacketToHoldingQueue
    <2>2. receiveHoldBuffer \in SUBSET Tsn
        BY DEF TypeInv, TypeOK
    <2>3. CASE t \in receiveHoldBuffer
        <3>1. receiveHoldBuffer' = receiveHoldBuffer /\ used' = used + 0
            BY <2>1, <2>3 DEF ChargeOnce
        <3>2. Held' = Held
            BY <3>1 DEF Held
        <3> QED BY <3>1, <3>2, BalanceTyped DEF Balanced
    <2>4. CASE t \notin receiveHoldBuffer
        <3>1. used' = used + Charge[t]
            BY <2>1, <2>4 DEF ChargeOnce
        <3>2. Held' = Held + Charge[t] /\ Charge[t] \in Int
            BY <2>1, <2>2, <2>4, HeldAdds DEF Held
        <3> QED BY <3>1, <3>2, BalanceTyped DEF Balanced
    <2> QED BY <2>3, <2>4
<1> QED BY <1>1, <1>2

(* ILibSCTP_Resume gives back what it took, the chunk before included. *)
LEMMA ResumeLoopBalanced ==
  ASSUME TypeInv, NEW hold \in SUBSET Tsn, NEW bytes \in Nat, ResumeLoop(hold, bytes)
  PROVE  used' - ResumeUnreturned' = used - bytes
<1>1. CASE Deliverable(hold)
    <2>1. userTSN + 1 \in Tsn
        BY <1>1, TsnFinite, MinIsLeast DEF Deliverable
    <2>2. Charge[userTSN + 1] \in Int
        BY <2>1, ReceiverAssumption
    <2>3. ResumeUnreturned' = (bytes + Charge[userTSN + 1]) - Charge[userTSN + 1] /\ used' = used
        BY <1>1 DEF ResumeLoop, ResumeUnreturned
    <2> QED BY <2>2, <2>3, BalanceTyped
<1>2. CASE ~Deliverable(hold)
    <2>1. ResumeUnreturned' = 0 /\ used' = used - bytes
        BY <1>2 DEF ResumeLoop, ResumeUnreturned
    <2> QED BY <2>1, BalanceTyped
<1> QED BY <1>1, <1>2

LEMMA StepBalanced ==
  ASSUME TypeInv, TypeInv', Balanced, heap = "ok", heap' = "ok", [Next]_vars
  PROVE  Balanced'
<1>0. UNCHANGED <<rAt, rPayload, rPulled>> => ResumeUnreturned' = ResumeUnreturned
    BY DEF ResumeUnreturned
<1>1. ASSUME NEW packet \in Packets, ReceivePacket(packet) PROVE Balanced'
    <2>1. at = "idle" /\ at' = "parsing" /\ UNCHANGED <<used, receiveHoldBuffer, resume>>
        BY <1>1 DEF ReceivePacket, receive
    <2> QED BY <2>1 DEF resume, Balanced, Held, ChainUnreturned, ResumeUnreturned
<1>2. CASE TossDuplicate
    <2>1. at = "parsing" /\ at' = "parsing" /\ UNCHANGED <<used, receiveHoldBuffer, resume>>
        BY <1>2 DEF TossDuplicate, Parsing, NextChunk, receive
    <2> QED BY <2>1 DEF resume, Balanced, Held, ChainUnreturned, ResumeUnreturned
<1>3. CASE BufferOutOfOrder \/ BufferInOrder
    <2>1. /\ at = "parsing" /\ at' = "parsing" /\ AddPacketToHoldingQueue(Head(chunks))
          /\ Head(chunks) \in Tsn /\ UNCHANGED resume
        BY <1>3, ChunkTyped DEF BufferOutOfOrder, BufferInOrder, Parsing, NextChunk
    <2>2. ChainUnreturned' = ChainUnreturned /\ ResumeUnreturned' = ResumeUnreturned
        BY <2>1 DEF resume, ChainUnreturned, ResumeUnreturned
    <2> QED BY <2>1, <2>2, QueueBalanced
<1>4. CASE AcceptInOrder
    <2>1. at = "parsing" /\ at' = "deliver" /\ UNCHANGED <<used, receiveHoldBuffer, resume>>
        BY <1>4 DEF AcceptInOrder, Parsing
    <2> QED BY <2>1 DEF resume, Balanced, Held, ChainUnreturned, ResumeUnreturned
<1>5. CASE Deliver
    <2>1. /\ at \in {"deliver", "pullDeliver"}
          /\ at' = IF at = "deliver" THEN "inApp" ELSE "pullInApp"
          /\ UNCHANGED <<used, receiveHoldBuffer, pulled, payload, resume>>
        BY <1>5 DEF Deliver, receive
    <2> QED BY <2>1 DEF resume, Balanced, Held, ChainUnreturned, ResumeUnreturned
<1>6. CASE Return
    <2>1. /\ at = "inApp" /\ at' \in {"parsing", "pull"} /\ pulled' = 0
          /\ UNCHANGED <<used, receiveHoldBuffer, resume>>
        BY <1>6 DEF Return, NextChunk, receive
    <2> QED BY <2>1 DEF resume, Balanced, Held, ChainUnreturned, ResumeUnreturned
<1>7. CASE PullNext
    <2>1. /\ at = "pull" /\ at' = "pullDeliver" /\ pulled' = pulled + Charge[payload']
          /\ UNCHANGED <<used, receiveHoldBuffer, resume>>
        BY <1>7 DEF PullNext
    <2>2. payload' \in Tsn
        BY <2>1 DEF TypeInv
    <2>3. Charge[payload'] \in Int /\ pulled \in Int
        BY <2>2, ReceiverAssumption DEF TypeInv, TypeOK
    <2>4. ChainUnreturned' = ChainUnreturned
        BY <2>1, <2>3 DEF ChainUnreturned
    <2> QED BY <2>1, <2>4 DEF resume, Balanced, Held, ResumeUnreturned
<1>8. CASE PullReturn
    <2>1. /\ at = "pullInApp" /\ at' \in {"pull", "pulled"}
          /\ payload \in receiveHoldBuffer /\ receiveHoldBuffer' = receiveHoldBuffer \ {payload}
          /\ UNCHANGED <<used, pulled, resume>>
        BY <1>8 DEF PullReturn
    <2>2. payload \in Tsn /\ receiveHoldBuffer \in SUBSET Tsn /\ pulled \in Int
        BY <2>1 DEF TypeInv, TypeOK
    <2>3. Held' = Held - Charge[payload] /\ Charge[payload] \in Int
        BY <2>1, <2>2, HeldAdds DEF Held
    <2>4. ChainUnreturned = pulled - Charge[payload] /\ ChainUnreturned' = pulled
        BY <2>1 DEF ChainUnreturned
    <2>5. ResumeUnreturned' = ResumeUnreturned
        BY <1>0, <2>1 DEF resume
    <2> QED BY <2>1, <2>2, <2>3, <2>4, <2>5, BalanceTyped DEF Balanced
<1>9. CASE EndPull
    <2>1. /\ at \in {"pull", "pulled"} /\ at' = "parsing" /\ used' = used - pulled
          /\ UNCHANGED <<receiveHoldBuffer, resume>>
        BY <1>9 DEF EndPull, NextChunk
    <2>2. ChainUnreturned = pulled /\ ChainUnreturned' = 0 /\ Held' = Held
        BY <2>1 DEF ChainUnreturned, Held
    <2>3. ResumeUnreturned' = ResumeUnreturned
        BY <1>0, <2>1 DEF resume
    <2> QED BY <2>1, <2>2, <2>3, BalanceTyped DEF Balanced
<1>10. CASE EndPacket
    <2>1. at = "parsing" /\ at' = "idle" /\ UNCHANGED <<used, receiveHoldBuffer, resume>>
        BY <1>10 DEF EndPacket, receive
    <2> QED BY <2>1 DEF resume, Balanced, Held, ChainUnreturned, ResumeUnreturned
<1>11. CASE Pause \/ ResumeAgain
    <2>1. UNCHANGED <<used, receiveHoldBuffer, chain, resume>>
        BY <1>11 DEF Pause, ResumeAgain
    <2> QED BY <2>1 DEF chain, resume, Balanced, Held, ChainUnreturned, ResumeUnreturned
<1>12. CASE Resume
    <2>1. /\ rAt = "none" /\ receiveHoldBuffer \in SUBSET Tsn /\ ResumeLoop(receiveHoldBuffer, 0)
          /\ UNCHANGED <<receiveHoldBuffer, chain>>
        BY <1>12 DEF Resume, TypeInv, TypeOK
    <2>2. used' - ResumeUnreturned' = used - 0
        BY <2>1, ResumeLoopBalanced
    <2>3. ResumeUnreturned = 0 /\ Held' = Held /\ ChainUnreturned' = ChainUnreturned
        BY <2>1 DEF ResumeUnreturned, Held, ChainUnreturned, chain
    <2>4. used' \in Int /\ ResumeUnreturned' \in Int
        BY BalanceTypedNext
    <2> QED BY <2>2, <2>3, <2>4, BalanceTyped DEF Balanced
<1>13. CASE ResumeDeliver
    <2>1. /\ rAt = "deliver" /\ rAt' = "inApp"
          /\ UNCHANGED <<used, receiveHoldBuffer, chain, rPayload, rPulled>>
        BY <1>13 DEF ResumeDeliver, receive
    <2> QED BY <2>1 DEF chain, Balanced, Held, ChainUnreturned, ResumeUnreturned
<1>14. CASE ResumeReturn
    <2>1. /\ rAt = "inApp" /\ rPayload \in receiveHoldBuffer
          /\ receiveHoldBuffer' = receiveHoldBuffer \ {rPayload}
          /\ ResumeLoop(receiveHoldBuffer', rPulled) /\ UNCHANGED chain
        BY <1>14 DEF ResumeReturn
    <2>2. /\ rPayload \in Tsn /\ receiveHoldBuffer \in SUBSET Tsn /\ receiveHoldBuffer' \in SUBSET Tsn
          /\ rPulled \in Nat
        BY <2>1 DEF TypeInv, TypeOK
    <2>3. Held' = Held - Charge[rPayload] /\ Charge[rPayload] \in Int
        BY <2>1, <2>2, HeldAdds DEF Held
    <2>4. used' - ResumeUnreturned' = used - rPulled
        BY <2>1, <2>2, ResumeLoopBalanced
    <2>5. ResumeUnreturned = rPulled - Charge[rPayload] /\ ChainUnreturned' = ChainUnreturned
        BY <2>1 DEF ResumeUnreturned, ChainUnreturned, chain
    <2>6. used' \in Int /\ ResumeUnreturned' \in Int
        BY BalanceTypedNext
    <2> QED BY <2>2, <2>3, <2>4, <2>5, <2>6, BalanceTyped DEF Balanced
<1>15. CASE UNCHANGED vars
    BY <1>15 DEF vars, receive, chain, resume, Balanced, Held, ChainUnreturned, ResumeUnreturned
<1> QED BY <1>1, <1>2, <1>3, <1>4, <1>5, <1>6, <1>7, <1>8, <1>9, <1>10, <1>11, <1>12, <1>13,
           <1>14, <1>15 DEF Next, ChunkStep, ResumeStep

(* Nothing happens any more once a chunk was used after it was freed. *)
LEMMA HeapStays == heap # "ok" /\ [Next]_vars => heap' = heap
BY DEF Next, ReceivePacket, ChunkStep, TossDuplicate, BufferOutOfOrder, BufferInOrder,
       AcceptInOrder, Deliver, Return, PullNext, PullReturn, EndPull, EndPacket, Pause,
       ResumeStep, Resume, ResumeDeliver, ResumeAgain, ResumeReturn, Parsing, ChainRuns,
       Callable, vars, history

(* The bytes charged to the hold buffer are those of the chunks in it and  *)
(* of the ones a thread took out and has yet to give back, duplicates,     *)
(* full buffers, pauses and a second thread included                       *)
(* (ILibWebRTC.c:3684-3753, 4336-4345, 5760-5830).                         *)
THEOREM AccountingTheorem == Spec => []AccountingExact
<1> DEFINE Inv == TypeInv /\ (heap = "ok" => Balanced)
<1>1. Init => Inv
    <2> SUFFICES ASSUME Init PROVE Balanced
        BY InitType
    <2>1. receiveHoldBuffer = {} /\ used = 0 /\ at = "idle" /\ rAt = "none"
        BY DEF Init
    <2>2. Held = 0
        BY <2>1, FS_EmptySet, SumChosen DEF Held
    <2> QED BY <2>1, <2>2 DEF Balanced, ChainUnreturned, ResumeUnreturned
<1>2. Inv /\ [Next]_vars => Inv'
    BY StepType, StepBalanced, HeapStays
<1>3. Inv => AccountingExact
    <2>1. Unreturned = ChainUnreturned + ResumeUnreturned
        BY DEF Unreturned, ChainUnreturned, ResumeUnreturned
    <2> QED BY <2>1, BalanceTyped DEF AccountingExact, Balanced, Held
<1> QED BY <1>1, <1>2, <1>3, PTL DEF Spec
-----------------------------------------------------------------------------
(* What the gap blocks of a SACK report, as the sender reads them.         *)
LEMMA OffsetIs ==
  ASSUME NEW t \in 0..MaxTsn, NEW cum \in 0..MaxTsn
  PROVE  Offset(t, cum) = IF t >= cum THEN t - cum ELSE (t - cum) + 65536
<1>1. /\ t \in Int /\ cum \in Int /\ 0 <= t /\ 0 <= cum /\ t < 65536 /\ cum < 65536
    BY ReceiverAssumption
<1>2. CASE t >= cum
    BY <1>1, <1>2 DEF Offset, Word
<1>3. CASE ~(t >= cum)
    BY <1>1, <1>3 DEF Offset, Word
<1> QED BY <1>2, <1>3

LEMMA BlockReports ==
  ASSUME NEW cum \in 0..MaxTsn, NEW first \in 0..MaxTsn, NEW last \in first..MaxTsn
  PROVE  Reported(cum, [first |-> Offset(first, cum), last |-> Offset(last, cum)])
           \subseteq first..last
<1>1. last \in 0..MaxTsn /\ last >= first /\ first \in Int /\ last \in Int /\ cum \in Int
      /\ MaxTsn \in Nat /\ MaxTsn < 65536 /\ first >= 0 /\ cum >= 0
    BY ReceiverAssumption
<1>2. /\ Offset(first, cum) = IF first >= cum THEN first - cum ELSE (first - cum) + 65536
      /\ Offset(last, cum) = IF last >= cum THEN last - cum ELSE (last - cum) + 65536
    BY <1>1, OffsetIs
<1>3. ASSUME NEW t \in Tsn,
             cum + Offset(first, cum) <= t, t <= cum + Offset(last, cum)
      PROVE  t \in first..last
    <2>1. t \in Int /\ 1 <= t /\ t <= MaxTsn
        BY <1>1 DEF Tsn
    <2>2. CASE first >= cum
        BY <1>1, <1>2, <1>3, <2>1, <2>2
    <2>3. CASE ~(first >= cum)
        BY <1>1, <1>2, <1>3, <2>1, <2>3
    <2> QED BY <2>2, <2>3
<1> QED BY <1>3 DEF Reported

LEMMA SackReports ==
  ASSUME NEW cum \in 0..MaxTsn, NEW user \in 0..MaxTsn, NEW hold \in SUBSET Tsn,
         NEW block \in Sack(cum, user, hold).blocks
  PROVE  Reported(cum, block) \subseteq hold
<1> DEFINE beyond == {t \in hold : t > user}
           starts == {t \in beyond : t - 1 \notin beyond}
           of(s) == [first |-> Offset(s, cum), last |-> Offset(Forward(s, beyond), cum)]
<1>1. Sack(cum, user, hold).blocks = {of(s) : s \in starts}
    BY DEF Sack
<1>2. PICK s \in starts : block = of(s)
    BY <1>1
<1>3. s \in beyond /\ s \in hold /\ s \in Tsn /\ s \in 0..MaxTsn /\ beyond \subseteq Tsn
      /\ beyond \subseteq hold
    BY <1>2, TsnFinite
<1> HIDE DEF beyond
<1>4. Forward(s, beyond) \in s..MaxTsn /\ (s + 1)..Forward(s, beyond) \subseteq beyond
    BY <1>3, ForwardHeld
<1>5. Reported(cum, block) \subseteq s..Forward(s, beyond)
    BY <1>2, <1>3, <1>4, BlockReports
<1>6. s..Forward(s, beyond) \subseteq {s} \union (s + 1)..Forward(s, beyond)
    BY <1>3, <1>4, ReceiverAssumption
<1> QED BY <1>3, <1>4, <1>5, <1>6

(* The blocks of a SACK that is sent or being made report what arrived.    *)
Truthful(sack) == \A block \in sack.blocks : Reported(sack.cum, block) \subseteq arrived
GapsInv == GapsArrived /\ Truthful(answer)

LEMMA InitGaps == Init => GapsInv
BY DEF Init, NoSack, GapsInv, GapsArrived, Truthful

LEMMA AcknowledgeTruthful ==
  ASSUME TypeInv, GapsInv, NEW hold \in SUBSET Tsn, Acknowledge(hold), hold \subseteq arrived,
         arrived' = arrived, intsn' \in 0..MaxTsn, userTSN' \in 0..MaxTsn
  PROVE  Truthful(answer)'
<1>1. CASE sentsack = "NotSent"
    <2>1. answer' = Sack(intsn', userTSN', hold)
        BY <1>1 DEF Acknowledge
    <2>2. answer'.cum = intsn'
        BY <2>1 DEF Sack
    <2>3. ASSUME NEW block \in answer'.blocks PROVE Reported(answer'.cum, block) \subseteq arrived'
        BY <2>1, <2>2, <2>3, SackReports
    <2> QED BY <2>3 DEF Truthful
<1>2. CASE sentsack # "NotSent"
    BY <1>2 DEF Acknowledge, GapsInv, Truthful
<1> QED BY <1>1, <1>2

LEMMA StepGaps ==
  ASSUME TypeInv, ArrivedInv, GapsInv, [Next]_vars, TypeInv', ArrivedInv'
  PROVE  GapsInv'
<1>1. /\ arrived \subseteq arrived' /\ receiveHoldBuffer' \in SUBSET Tsn
      /\ receiveHoldBuffer \in SUBSET Tsn /\ receiveHoldBuffer' \subseteq arrived'
      /\ receiveHoldBuffer \subseteq arrived
      /\ intsn' \in 0..MaxTsn /\ userTSN' \in 0..MaxTsn
    <2>1. arrived \subseteq arrived'
        BY DEF Next, ChunkStep, ResumeStep, ReceivePacket, TossDuplicate, BufferOutOfOrder,
               BufferInOrder, AcceptInOrder, Deliver, Return, PullNext, PullReturn, EndPull,
               EndPacket, Pause, Resume, ResumeDeliver, ResumeAgain, ResumeReturn,
               vars, history
    <2> QED BY <2>1 DEF TypeInv, TypeOK, ArrivedInv
(* A step that makes and sends no SACK. *)
<1>2. ASSUME UNCHANGED <<answer, sacked>> PROVE GapsInv'
    BY <1>1, <1>2 DEF GapsInv, GapsArrived, Truthful
(* A step that may put a SACK in the answer. *)
<1>3. ASSUME NEW hold \in SUBSET Tsn, Acknowledge(hold), hold \subseteq arrived,
             arrived' = arrived, sacked' = sacked
      PROVE  GapsInv'
    <2>1. Truthful(answer)'
        BY <1>1, <1>3, AcknowledgeTruthful
    <2> QED BY <1>3, <2>1 DEF GapsInv, GapsArrived
<1>4. ASSUME NEW packet \in Packets, ReceivePacket(packet) PROVE GapsInv'
    <2>1. answer'.blocks = {} /\ sacked' = sacked
        BY <1>4 DEF ReceivePacket, NoSack
    <2> QED BY <1>1, <2>1 DEF GapsInv, GapsArrived, Truthful
<1>5. CASE TossDuplicate \/ AcceptInOrder
    <2>1. Acknowledge(receiveHoldBuffer) /\ arrived' = arrived /\ sacked' = sacked
        BY <1>5 DEF TossDuplicate, AcceptInOrder, history
    <2> QED BY <1>1, <1>3, <2>1
<1>6. CASE BufferOutOfOrder \/ BufferInOrder
    <2>1. /\ AddPacketToHoldingQueue(Head(chunks)) /\ arrived' = arrived /\ sacked' = sacked
        BY <1>6 DEF BufferOutOfOrder, BufferInOrder, history
    <2>2. CASE UNCHANGED answer
        BY <1>2, <2>1, <2>2
    <2>3. CASE Acknowledge(receiveHoldBuffer')
        BY <1>1, <1>3, <2>1, <2>3
    <2> QED BY <2>1, <2>2, <2>3 DEF AddPacketToHoldingQueue
<1>7. CASE EndPacket
    <2>1. /\ answer'.blocks = {} /\ sacked' \subseteq sacked \union {answer}
        BY <1>7 DEF EndPacket, NoSack
    <2> QED BY <1>1, <2>1 DEF GapsInv, GapsArrived, Truthful
<1>8. CASE Deliver \/ Return \/ PullNext \/ PullReturn \/ EndPull \/ Pause
           \/ Resume \/ ResumeDeliver \/ ResumeAgain \/ ResumeReturn \/ UNCHANGED vars
    BY <1>2, <1>8 DEF Deliver, Return, PullNext, PullReturn, EndPull, Pause,
       Resume, ResumeDeliver, ResumeAgain, ResumeReturn, vars, chain, history
<1> QED BY <1>4, <1>5, <1>6, <1>7, <1>8 DEF Next, ChunkStep, ResumeStep

(* No SACK covers a chunk that did not arrive, by its cumulative TSN or by  *)
(* its gap blocks, whatever is held, where the offsets wrap, and however   *)
(* the application paused (ILibStun_SctpAddSackChunk).                     *)
THEOREM AckedArrivedTheorem == Spec => []AckedArrived
<1>1. TypeInv /\ ArrivedInv /\ GapsInv /\ [Next]_vars => (TypeInv /\ ArrivedInv /\ GapsInv)'
    BY StepType, StepArrived, StepGaps
<1>2. ArrivedInv /\ GapsInv => AckedArrived
    BY DEF ArrivedInv, GapsInv, AckedArrived
<1> QED BY <1>1, <1>2, InitType, InitArrived, InitGaps, PTL DEF Spec

-----------------------------------------------------------------------------
(* The chain thread alone, with an application that does not pause: chunks *)
(* come out in order.  What arrives after a gap was filled is held until   *)
(* somebody calls Resume, so userTSN stays behind intsn from then on;      *)
(* until then nothing is pulled from the buffer.                           *)
ChainOnly == ChunkStep \/ (\E packet \in Packets : ReceivePacket(packet)) \/ UNCHANGED vars

OrderInv ==
  /\ ~paused
  /\ at \in {"idle", "parsing", "deliver", "inApp", "pull"}
  /\ userTSN <= intsn
  /\ \A t \in receiveHoldBuffer : userTSN < t
  /\ userTSN = intsn => intsn + 1 \notin receiveHoldBuffer
  /\ at \in {"deliver", "inApp", "pull"} => userTSN = intsn
  /\ at = "deliver" => payload = userTSN
  /\ Len(delivered) = IF at = "deliver" THEN userTSN - 1 ELSE userTSN
  /\ InOrder

LEMMA InitOrder == Init => OrderInv
<1> SUFFICES ASSUME Init PROVE OrderInv
    OBVIOUS
<1>1. /\ paused = FALSE /\ at = "idle" /\ userTSN = 0 /\ intsn = 0 /\ receiveHoldBuffer = {}
      /\ delivered = <<>> /\ Len(delivered) = 0
    BY DEF Init
<1> QED BY <1>1 DEF OrderInv, InOrder

(* intsn stays at the chunk that moved it only if the next one is missing. *)
LEMMA MoveStays ==
  ASSUME NEW hold \in SUBSET Tsn, NEW n \in Tsn, \A t \in hold : n < t
  PROVE  /\ MoveTsn(n, hold) \in n..MaxTsn
         /\ MoveTsn(n, hold) = n => n + 1 \notin hold
<1>1. n \in 0..MaxTsn /\ hold \subseteq Nat /\ n \in Nat
    BY TsnFinite
<1>2. Forward(n, hold) \in n..MaxTsn /\ Forward(n, hold) + 1 \notin hold
    BY <1>1, ForwardHeld
<1>3. ASSUME n + 1 \in hold PROVE Min(hold) = n + 1
    <2>1. Min(hold) \in hold /\ Min(hold) <= n + 1
        BY <1>1, <1>3, MinIsLeast
    <2>2. Min(hold) \in Nat /\ n < Min(hold)
        BY <1>1, <2>1
    <2> QED BY <1>1, <2>1, <2>2
<1> QED BY <1>1, <1>2, <1>3, ReceiverAssumption DEF MoveTsn

LEMMA StepOrder ==
  ASSUME TypeInv, OrderInv, ChainOnly
  PROVE  OrderInv'
<1>1. /\ intsn \in Nat /\ userTSN \in Nat /\ delivered \in Seq(Tsn) /\ Len(delivered) \in Nat
      /\ receiveHoldBuffer \in SUBSET Tsn /\ Tsn \subseteq Nat /\ chunks \in Seq(Tsn)
    BY TsnFinite, LenProperties, ReceiverAssumption DEF TypeInv, TypeOK
<1>2. /\ ~paused /\ userTSN <= intsn /\ \A t \in receiveHoldBuffer : userTSN < t
      /\ userTSN = intsn => intsn + 1 \notin receiveHoldBuffer
      /\ at \in {"deliver", "inApp", "pull"} => userTSN = intsn
    BY DEF OrderInv
<1>3. ASSUME UNCHANGED <<paused, intsn, userTSN, receiveHoldBuffer, payload, delivered>>,
             at # "deliver", at' \in {"idle", "parsing", "inApp", "pull"},
             at' \in {"inApp", "pull"} => userTSN = intsn
      PROVE  OrderInv'
    BY <1>3 DEF OrderInv, InOrder
<1>4. ASSUME Parsing
      PROVE  Head(chunks) \in Tsn /\ at = "parsing" /\ Len(delivered) = userTSN /\ InOrder
    BY <1>4, ChunkTyped DEF Parsing, OrderInv
<1>5. ASSUME NEW t \in Tsn, AddPacketToHoldingQueue(t), userTSN < t, Parsing, NextChunk,
             UNCHANGED <<userTSN, paused, delivered>>, intsn' \in Nat, intsn <= intsn',
             userTSN = intsn' => intsn' + 1 \notin receiveHoldBuffer /\ t # intsn' + 1
      PROVE  OrderInv'
    <2>1. receiveHoldBuffer' \subseteq receiveHoldBuffer \union {t} /\ at' = "parsing"
        BY <1>5 DEF AddPacketToHoldingQueue, NextChunk
    <2>2. /\ userTSN' <= intsn'
          /\ \A u \in receiveHoldBuffer' : userTSN' < u
          /\ userTSN' = intsn' => intsn' + 1 \notin receiveHoldBuffer'
        <3>1. /\ userTSN' = userTSN /\ userTSN <= intsn /\ intsn <= intsn' /\ userTSN < t
              /\ \A u \in receiveHoldBuffer : userTSN < u
              /\ userTSN = intsn' => intsn' + 1 \notin receiveHoldBuffer /\ t # intsn' + 1
            BY <1>2, <1>5
        <3>2. userTSN \in Nat /\ intsn \in Nat /\ intsn' \in Nat
            BY <1>1, <1>5
        <3>3. userTSN' <= intsn'
            BY <3>1, <3>2
        <3>4. \A u \in receiveHoldBuffer' : userTSN' < u
            BY <2>1, <3>1
        <3>5. userTSN' = intsn' => intsn' + 1 \notin receiveHoldBuffer'
            BY <2>1, <3>1
        <3> QED BY <3>3, <3>4, <3>5
    <2>4. ~paused'
        BY <1>2, <1>5
    <2>3. Len(delivered') = userTSN' /\ InOrder'
        BY <1>4, <1>5 DEF InOrder
    <2> QED BY <2>1, <2>2, <2>3, <2>4 DEF OrderInv
<1>6. ASSUME NEW packet \in Packets, ReceivePacket(packet) PROVE OrderInv'
    BY <1>3, <1>6 DEF ReceivePacket, receive
<1>7. CASE TossDuplicate
    BY <1>3, <1>7 DEF TossDuplicate, Parsing, NextChunk, receive, history
<1>8. CASE BufferOutOfOrder
    <2>1. /\ Parsing /\ Head(chunks) > intsn + 1 /\ NextChunk
          /\ UNCHANGED <<intsn, userTSN, paused, delivered>>
          /\ AddPacketToHoldingQueue(Head(chunks))
        BY <1>8 DEF BufferOutOfOrder, history
    <2> DEFINE t == Head(chunks)
    <2>2. t \in Tsn /\ t \in Nat /\ intsn + 1 < t /\ AddPacketToHoldingQueue(t)
        BY <1>1, <1>4, <2>1
    <2> HIDE DEF t
    <2>3. userTSN < t /\ t # intsn + 1
        BY <1>1, <1>2, <2>2
    <2>4. /\ intsn' \in Nat /\ intsn <= intsn'
          /\ userTSN = intsn' => intsn' + 1 \notin receiveHoldBuffer /\ t # intsn' + 1
        BY <1>1, <1>2, <2>1, <2>3
    <2> QED BY <1>5, <2>1, <2>2, <2>3, <2>4
<1>9. CASE BufferInOrder \/ AcceptInOrder
    <2>1. /\ Parsing /\ Head(chunks) = intsn + 1
          /\ intsn' = MoveTsn(intsn + 1, receiveHoldBuffer)
        BY <1>9 DEF BufferInOrder, AcceptInOrder
    <2>2. Head(chunks) \in Tsn /\ intsn + 1 \in Tsn /\ intsn + 1 \in Nat
        BY <1>1, <1>4, <2>1
    <2>3. intsn' \in Nat /\ intsn + 1 <= intsn'
        <3>1. Forward(intsn + 1, receiveHoldBuffer) \in (intsn + 1)..MaxTsn
            BY <1>1, <2>2, TsnFinite, ForwardHeld
        <3> QED BY <2>1, <2>2, <3>1, ReceiverAssumption DEF MoveTsn
    <2>4. CASE BufferInOrder
        <3>1. /\ AddPacketToHoldingQueue(Head(chunks)) /\ NextChunk /\ MustBuffer
              /\ UNCHANGED <<userTSN, paused, delivered>>
            BY <2>4 DEF BufferInOrder, history
        <3>2. userTSN < intsn' /\ userTSN < Head(chunks) /\ intsn <= intsn'
            BY <1>1, <1>2, <2>1, <2>3, <3>1 DEF MustBuffer
        <3>3. userTSN # intsn'
            BY <1>1, <2>3, <3>2
        <3> QED BY <1>5, <2>1, <2>2, <2>3, <3>1, <3>2, <3>3
    <2>5. CASE AcceptInOrder
        <3>1. /\ ~MustBuffer /\ userTSN' = intsn' /\ payload' = intsn + 1 /\ at' = "deliver"
              /\ UNCHANGED <<receiveHoldBuffer, paused, delivered>>
            BY <2>1, <2>5 DEF AcceptInOrder, history
        <3>7. ~(userTSN < intsn' - 1)
            BY <3>1, Zenon DEF MustBuffer
        <3>8. /\ userTSN \in Nat /\ intsn \in Nat /\ intsn' \in Nat
              /\ userTSN <= intsn /\ intsn + 1 <= intsn'
            BY <1>1, <1>2, <2>3
        <3>9. \A a, b, c \in Nat : ~(a < c - 1) /\ a <= b /\ b + 1 <= c
                                 => a = b /\ c = b + 1
            OBVIOUS
        <3>2. userTSN = intsn /\ intsn' = intsn + 1
            BY <3>7, <3>8, <3>9
        <3>3. \A t \in receiveHoldBuffer : intsn + 1 < t
            BY <1>1, <1>2, <3>2
        <3>4. intsn' + 1 \notin receiveHoldBuffer
            BY <1>1, <2>1, <2>2, <3>2, <3>3, MoveStays
        <3>5. Len(delivered') = userTSN' - 1 /\ InOrder'
            BY <1>1, <1>4, <2>1, <3>1, <3>2 DEF InOrder
        <3>6. \A t \in receiveHoldBuffer' : userTSN' < t
            BY <3>1, <3>2, <3>3
        <3> QED BY <1>1, <1>2, <2>3, <3>1, <3>2, <3>4, <3>5, <3>6 DEF OrderInv
    <2> QED BY <1>9, <2>4, <2>5
<1>10. CASE Deliver
    <2>1. /\ at = "deliver" /\ at' = "inApp" /\ delivered' = Append(delivered, payload)
          /\ UNCHANGED <<paused, intsn, userTSN, receiveHoldBuffer>>
        BY <1>10 DEF Deliver, OrderInv, receive
    <2>2. payload = userTSN /\ Len(delivered) = userTSN - 1 /\ payload \in Tsn
        BY <2>1 DEF OrderInv, TypeInv
    <2>3. /\ Len(delivered') = userTSN /\ delivered'[Len(delivered) + 1] = payload
          /\ \A i \in 1..Len(delivered) : delivered'[i] = delivered[i]
        BY <1>1, <2>1, <2>2, AppendProperties
    <2>4. InOrder'
        BY <1>1, <2>2, <2>3 DEF OrderInv, InOrder
    <2> QED BY <1>2, <2>1, <2>3, <2>4 DEF OrderInv
<1>11. CASE Return \/ EndPull
    <2>1. at # "deliver" /\ at' \in {"parsing", "pull"} /\ (at' = "pull" => userTSN = intsn)
        BY <1>2, <1>11 DEF Return, EndPull, NextChunk, OrderInv
    <2> QED BY <1>3, <1>11, <2>1 DEF Return, EndPull, receive, history
<1>12. ~PullNext
    <2>1. SUFFICES ASSUME at = "pull", receiveHoldBuffer # {},
                          Min(receiveHoldBuffer) <= intsn + 1
                   PROVE  FALSE
        BY DEF PullNext, CanPull
    <2> DEFINE m == Min(receiveHoldBuffer)
    <2>2. m \in receiveHoldBuffer /\ m \in Nat /\ m <= intsn + 1
        BY <1>1, <2>1, MinIsLeast
    <2> HIDE DEF m
    <2>3. userTSN = intsn /\ userTSN < m
        BY <1>2, <2>1, <2>2
    <2>4. m = intsn + 1
        BY <1>1, <2>2, <2>3
    <2> QED BY <1>2, <2>2, <2>3, <2>4
<1>13. ~PullReturn
    BY DEF PullReturn, OrderInv
<1>14. CASE EndPacket
    BY <1>3, <1>14 DEF EndPacket, receive
<1>15. CASE UNCHANGED vars
    BY <1>15 DEF vars, receive, chain, history, OrderInv, InOrder
<1> QED BY <1>6, <1>7, <1>8, <1>9, <1>10, <1>11, <1>12, <1>13, <1>14, <1>15
        DEF ChainOnly, ChunkStep

(* Of what is delivered in such a step it is the next one. *)
LEMMA NextDelivered ==
  ASSUME TypeInv, ArrivedInv, OrderInv, ChainOnly
  PROVE  \/ UNCHANGED delivered
         \/ /\ Len(delivered) + 1 \in arrived
            /\ delivered' = Append(delivered, Len(delivered) + 1)
<1>1. CASE Deliver
    <2>1. at = "deliver" /\ delivered' = Append(delivered, payload)
        BY <1>1 DEF Deliver, OrderInv
    <2>2. /\ payload \in Tsn /\ payload = userTSN /\ Len(delivered) = userTSN - 1
          /\ userTSN \in Nat /\ intsn \in Nat /\ userTSN <= intsn
        BY <2>1, ReceiverAssumption DEF TypeInv, TypeOK, OrderInv
    <2>3. payload \in 1..intsn /\ Len(delivered) + 1 = payload
        BY <2>2 DEF Tsn
    <2> QED BY <2>1, <2>3 DEF ArrivedInv
<1>2. CASE ~Deliver
    BY <1>2 DEF ChainOnly, ChunkStep, ReceivePacket, TossDuplicate, BufferOutOfOrder,
       BufferInOrder, AcceptInOrder, Return, PullNext, PullReturn, EndPull, EndPacket,
       vars, history
<1> QED BY <1>1, <1>2

(* A SACK that is lost or has arrived takes nothing from the receiver. *)
LEMMA SackGone ==
  ASSUME TypeInv, ArrivedInv, GapsInv, OrderInv, sacked' \subseteq sacked,
         UNCHANGED <<receive, chain, resume, heap, arrived, delivered>>
  PROVE  TypeInv' /\ ArrivedInv' /\ GapsInv' /\ OrderInv'
<1>1. TypeInv'
    BY DEF receive, chain, resume, TypeInv, TypeOK
<1>2. ArrivedInv'
    BY DEF receive, chain, resume, ArrivedInv, CumulativeArrived
<1>3. GapsInv'
    BY DEF chain, GapsInv, GapsArrived, Truthful
<1>4. OrderInv'
    BY DEF receive, chain, OrderInv, InOrder
<1> QED BY <1>1, <1>2, <1>3, <1>4

=============================================================================
