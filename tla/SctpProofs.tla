------------------------------- MODULE SctpProofs -------------------------------
(***************************************************************************)
(* Proofs about SctpSender and SctpAssociation.  The sender's hold for     *)
(* every value of its constants: every message size, MTU, window and any   *)
(* peer, including one that takes back its gap acknowledgements; the       *)
(* inductive invariant IInv is the conjunction of the named parts below.   *)
(* The association's hold for every size of the peer's hold buffer and any *)
(* number of losses; AssociationInv joins the sender's invariants to those *)
(* SctpReceiverProofs has of the peer.                                     *)
(***************************************************************************)
EXTENDS SctpAssociation, TLAPS, SequenceTheorems, FiniteSetTheorems

(* The payloads of the packets of s add up to n: some list of partial sums *)
(* starts at 0 and ends at n.  (A recursive sum would need induction.)     *)
AddUpTo(s, n) ==
  \E c \in [1..(Len(s) + 1) -> Int] :
    /\ c[1] = 0
    /\ \A i \in 1..Len(s) : c[i + 1] = c[i] + s[i].size
    /\ c[Len(s) + 1] = n

BytesInv == AddUpTo(pendingQueue, pendingByteCount)

(* An empty pending queue means full credits, so nothing is held back      *)
(* except in the middle of the SACK that emptied it.                       *)
StallInv ==
  /\ at = "resend" => pendingQueue # <<>>
  /\ pendingQueue = <<>> /\ at # "cumulative" => senderCredits >= StartMTU
  /\ pendingQueue = <<>> /\ at \in {"free", "whole", "part"} => holdingQueue = <<>>

(* Where a promised OnSendOK call stands. *)
SendOKInv ==
  /\ at \notin {"free", "whole", "part"} => callback = "none"
  /\ at = "flush" /\ holdingQueue # <<>> => frame.held
  /\ SendOKComes

-----------------------------------------------------------------------------
LEMMA SmallestWindowFact ==
  SmallestWindow \in Nat /\ SmallestWindow >= StartMTU /\ StartMTU \in Nat
<1>1. StartMTU \in Nat /\ InitialMTUs \in Nat /\ InitialMTUs >= 1
  BY SizesAssumption
<1>2. ASSUME NEW m \in Nat, NEW k \in Nat, k >= 1
      PROVE  k * m \in Nat /\ k * m >= m
  BY <1>2
<1> QED BY <1>1, <1>2 DEF SmallestWindow

LEMMA PacketFact == \A p \in Packet : p.size \in Nat /\ p.tsn \in Nat
<1>1. \A R, S, T : \A p \in [tsn: R, size: S, gap: T] : p.tsn \in R /\ p.size \in S
  OBVIOUS
<1>2. \A p \in Packet : p.tsn \in Nat \ {0} /\ p.size \in 1..MaxPayload
  BY <1>1, Zenon DEF Packet
<1> QED BY <1>2, SizesAssumption

(* Sending a packet adds its payload to the sum of the queue. *)
LEMMA AddUpToAppend ==
  ASSUME NEW s \in Seq(Packet), NEW n \in Int, AddUpTo(s, n), NEW p \in Packet
  PROVE  AddUpTo(Append(s, p), n + p.size)
<1>1. PICK c \in [1..(Len(s) + 1) -> Int] :
        /\ c[1] = 0
        /\ \A i \in 1..Len(s) : c[i + 1] = c[i] + s[i].size
        /\ c[Len(s) + 1] = n
  BY DEF AddUpTo
<1> DEFINE t == Append(s, p)
           d == [i \in 1..(Len(t) + 1) |-> IF i <= Len(s) + 1 THEN c[i] ELSE n + p.size]
<1>2. /\ t \in Seq(Packet) /\ Len(t) = Len(s) + 1 /\ Len(s) \in Nat
      /\ \A i \in 1..Len(s) : t[i] = s[i]
      /\ t[Len(s) + 1] = p
  BY AppendProperties
<1>3. p.size \in Int
  BY PacketFact
<1>4. d \in [1..(Len(t) + 1) -> Int]
  BY <1>1, <1>2, <1>3
<1>5. d[1] = 0
  BY <1>1, <1>2
<1>6. ASSUME NEW i \in 1..Len(t)
      PROVE  d[i + 1] = d[i] + t[i].size
  <2>1. CASE i <= Len(s)
    BY <2>1, <1>1, <1>2
  <2>2. CASE i = Len(s) + 1
    BY <2>2, <1>1, <1>2
  <2> QED BY <2>1, <2>2, <1>2
<1>7. d[Len(t) + 1] = n + p.size
  BY <1>2
<1> HIDE DEF d
<1> QED BY <1>4, <1>5, <1>6, <1>7 DEF AddUpTo

(* Clearing the first packet takes its payload off the sum. *)
LEMMA AddUpToTail ==
  ASSUME NEW s \in Seq(Packet), s # <<>>, NEW n \in Int, AddUpTo(s, n)
  PROVE  AddUpTo(Tail(s), n - Head(s).size)
<1>1. PICK c \in [1..(Len(s) + 1) -> Int] :
        /\ c[1] = 0
        /\ \A i \in 1..Len(s) : c[i + 1] = c[i] + s[i].size
        /\ c[Len(s) + 1] = n
  BY DEF AddUpTo
<1> DEFINE t == Tail(s)
           d == [i \in 1..(Len(t) + 1) |-> c[i + 1] - Head(s).size]
<1>2. /\ t \in Seq(Packet) /\ Len(t) = Len(s) - 1 /\ Len(s) \in Nat \ {0}
      /\ \A i \in 1..Len(t) : t[i] = s[i + 1]
      /\ Head(s) = s[1] /\ s[1] \in Packet
  BY HeadTailProperties, EmptySeq, ElementOfSeq
<1>3. s[1].size \in Int
  BY <1>2, PacketFact
<1>4. d \in [1..(Len(t) + 1) -> Int]
  BY <1>1, <1>2, <1>3
<1>5. d[1] = 0
  BY <1>1, <1>2, <1>3
<1>6. ASSUME NEW i \in 1..Len(t)
      PROVE  d[i + 1] = d[i] + t[i].size
  <2>1. i + 1 \in 1..Len(s) /\ i + 1 \in 1..(Len(s) + 1) /\ i + 2 \in 1..(Len(s) + 1)
    BY <1>2
  <2>2. s[i + 1] \in Packet
    BY <2>1, ElementOfSeq
  <2>3. s[i + 1].size \in Int
    BY <2>2, PacketFact
  <2>4. c[(i + 1) + 1] = c[i + 1] + s[i + 1].size
    BY <2>1, <1>1
  <2>5. c[i + 2] \in Int /\ c[i + 1] \in Int
    BY <2>1, <1>1
  <2>6. i \in 1..(Len(t) + 1) /\ i + 1 \in 1..(Len(t) + 1)
    BY <1>2
  <2>7. d[i + 1] = c[(i + 1) + 1] - Head(s).size /\ d[i] = c[i + 1] - Head(s).size
    BY <2>6
  <2>8. t[i].size = s[i + 1].size
    BY <1>2
  <2> HIDE DEF d, t
  <2> QED BY <2>3, <2>4, <2>5, <2>7, <2>8, <1>2, <1>3
<1>7. d[Len(t) + 1] = n - Head(s).size
  BY <1>1, <1>2
<1> HIDE DEF d
<1> QED BY <1>4, <1>5, <1>6, <1>7 DEF AddUpTo

(* Marking a packet changes neither TSNs nor payloads. *)
LEMMA MarkProperties ==
  ASSUME NEW s \in Seq(Packet), NEW j \in 1..Len(s), NEW g \in 0..255
  PROVE  /\ Mark(s, j, g) \in Seq(Packet)
         /\ Len(Mark(s, j, g)) = Len(s)
         /\ \A i \in 1..Len(s) : /\ Mark(s, j, g)[i].tsn = s[i].tsn
                                 /\ Mark(s, j, g)[i].size = s[i].size
<1> DEFINE e == Marked(s[j], g)
           t == Mark(s, j, g)
<1>0. \A i \in 1..Len(s) : s[i] \in Packet
  BY ElementOfSeq
<1>1. e \in Packet /\ e.tsn = s[j].tsn /\ e.size = s[j].size
  BY <1>0 DEF Packet, Marked
<1>2. t = [s EXCEPT ![j] = e]
  BY DEF Mark
<1> HIDE DEF e, t
<1>3. t \in Seq(Packet) /\ Len(t) = Len(s)
  BY <1>1, <1>2, ExceptSeq
<1>4. \A i \in 1..Len(s) : t[i].tsn = s[i].tsn /\ t[i].size = s[i].size
  BY <1>1, <1>2, ExceptSeq
<1> QED BY <1>3, <1>4 DEF t

LEMMA AddUpToMark ==
  ASSUME NEW s \in Seq(Packet), NEW n, AddUpTo(s, n),
         NEW j \in 1..Len(s), NEW g \in 0..255
  PROVE  AddUpTo(Mark(s, j, g), n)
<1> DEFINE t == Mark(s, j, g)
<1>1. Len(t) = Len(s) /\ \A i \in 1..Len(s) : t[i].size = s[i].size
  BY MarkProperties
<1> HIDE DEF t
<1> QED BY <1>1 DEF AddUpTo, t

(* An empty queue adds up to 0 only. *)
LEMMA AddUpToEmpty ==
  ASSUME NEW n, AddUpTo(<<>>, n)
  PROVE  n = 0
BY DEF AddUpTo

-----------------------------------------------------------------------------
(* The walk over the gap blocks marks one pending packet, whose counter    *)
(* stays a byte.                                                           *)
LEMMA CurrentFact ==
  ASSUME TypeOK, frame.entry <= Len(pendingQueue)
  PROVE  /\ frame.entry \in 1..Len(pendingQueue)
         /\ Current \in Packet
         /\ Current.tsn \in Nat \ {0} /\ Current.size \in 1..MaxPayload
         /\ Current.gap \in 0..255 /\ Counter \in 0..255
<1>1. frame.entry \in 1..Len(pendingQueue)
  BY LenProperties DEF TypeOK, ControlType, QueuesType, Frame
<1>2. Current \in Packet
  BY <1>1, ElementOfSeq DEF TypeOK, QueuesType, Current
<1>3. /\ Current.tsn \in Nat \ {0} /\ Current.size \in 1..MaxPayload
      /\ Current.gap \in 0..255
  BY <1>2 DEF Packet
<1>4. Counter \in 0..255
  <2> DEFINE g == Current.gap
  <2>1. Counter = IF g < 254 THEN IF g + 1 <= 253 THEN g + 1 ELSE 253
                  ELSE IF g = 254 THEN 1 ELSE 255
    BY DEF Counter, MinimumOf, GapAcked, GapCap, Retransmit
  <2>2. g \in 0..255
    BY <1>3
  <2> HIDE DEF g
  <2> QED BY <2>1, <2>2
<1> QED BY <1>1, <1>2, <1>3, <1>4

(* A step of the walk that marks the current packet, whatever the mark. *)
LEMMA NextEntryType ==
  ASSUME TypeOK, NEW gap \in 0..255, NEW extra \in Frame,
         frame.entry <= Len(pendingQueue), at = "gaps", NextEntry(gap, extra)
  PROVE  /\ pendingQueue' \in Seq(Packet)
         /\ frame' \in Frame
<1>1. frame.entry \in 1..Len(pendingQueue)
  BY CurrentFact
<1>2. pendingQueue' \in Seq(Packet)
  <2>1. pendingQueue' = Mark(pendingQueue, frame.entry, gap)
    BY DEF NextEntry
  <2>2. pendingQueue \in Seq(Packet)
    BY DEF TypeOK, QueuesType
  <2> QED BY <1>1, <2>1, <2>2, MarkProperties
<1>3. frame.entry + 1 \in Nat \ {0}
  BY <1>1
<1>4. frame' \in Frame
  BY <1>3 DEF NextEntry, Frame
<1> QED BY <1>2, <1>4

(* What each assignment to a local variable of the SACK chunk leaves.      *)
LEMMA FrameUpdates ==
  ASSUME NEW f \in Frame
  PROVE  /\ \A n \in Nat : LET g == [f EXCEPT !.advanced = n] IN
               g \in Frame /\ g.advanced = n /\ g.held = f.held
         /\ \A n \in Nat \ {0} : LET g == [f EXCEPT !.entry = n] IN
               g \in Frame /\ g.advanced = f.advanced /\ g.held = f.held
         /\ \A n \in Nat \ {0} : LET g == [f EXCEPT !.block = n] IN
               g \in Frame /\ g.advanced = f.advanced /\ g.held = f.held
         /\ \A n \in Nat : LET g == [f EXCEPT !.last = n] IN
               g \in Frame /\ g.advanced = f.advanced /\ g.held = f.held
         /\ LET g == [f EXCEPT !.resent = TRUE] IN
               g \in Frame /\ g.advanced = f.advanced /\ g.held = f.held
         /\ \A b \in BOOLEAN : LET g == [f EXCEPT !.held = b] IN
               g \in Frame /\ g.advanced = f.advanced /\ g.held = b
BY DEF Frame

LEMMA SackFrame ==
  ASSUME NEW cum \in Nat, NEW gaps \in Seq(Block), NEW pbc \in Int
  PROVE  LET f == [NoFrame EXCEPT !.cum = cum, !.gaps = gaps, !.pbc = pbc] IN
           f \in Frame /\ f.advanced = 0
<1>1. NoFrame \in Frame /\ NoFrame.advanced = 0
  BY EmptySeq DEF NoFrame, Frame
<1>2. ASSUME NEW f \in Frame, f.advanced = 0
      PROVE  /\ [f EXCEPT !.cum = cum] \in Frame /\ [f EXCEPT !.cum = cum].advanced = 0
             /\ [f EXCEPT !.gaps = gaps] \in Frame /\ [f EXCEPT !.gaps = gaps].advanced = 0
             /\ [f EXCEPT !.pbc = pbc] \in Frame /\ [f EXCEPT !.pbc = pbc].advanced = 0
  BY <1>2 DEF Frame
<1> HIDE DEF NoFrame
<1>3. [NoFrame EXCEPT !.cum = cum] \in Frame /\ [NoFrame EXCEPT !.cum = cum].advanced = 0
  BY <1>1, <1>2
<1>4. /\ [[NoFrame EXCEPT !.cum = cum] EXCEPT !.gaps = gaps] \in Frame
      /\ [[NoFrame EXCEPT !.cum = cum] EXCEPT !.gaps = gaps].advanced = 0
  BY <1>2, <1>3
<1> QED BY <1>2, <1>4

(* TYPE, its initial state. *)
LEMMA TypeInit == Init => TypeOK
<1> SUFFICES ASSUME Init PROVE TypeOK
  OBVIOUS
<1> USE DEF Init
<1>1. QueuesType
  BY EmptySeq DEF QueuesType
<1>2. WindowsType
  BY SmallestWindowFact, SizesAssumption DEF WindowsType
<1>3. TimersType
  BY DEF TimersType
<1>4. ControlType
  <2>1. NoFrame \in Frame
    BY EmptySeq DEF NoFrame, Frame
  <2> QED BY <2>1, EmptySeq DEF ControlType, Sending
<1>5. OutputType
  BY DEF OutputType
<1> QED BY <1>1, <1>2, <1>3, <1>4, <1>5 DEF TypeOK

(* TYPE, the steps of the sending thread. *)
LEMMA TypeUser ==
  ASSUME TypeOK, Application \/ UserStep
  PROVE  TypeOK'
<1> USE DEF TypeOK
<1>1. ASSUME NEW message \in Messages, SendEx(message)
      PROVE  TypeOK'
  <2> USE <1>1 DEF SendEx
  <2>1. QueuesType' /\ WindowsType' /\ TimersType' /\ OutputType'
    BY DEF QueuesType, WindowsType, TimersType, OutputType,
           queues, credits, congestion, timers, output
  <2>2. message \in Seq(1..MaxPayload) /\ message # <<>>
    BY SizesAssumption
  <2>3. ControlType'
    BY <2>2 DEF ControlType, Sending
  <2> QED BY <2>1, <2>3
<1>2. ASSUME Sending, NEW incomplete \in BOOLEAN, FragmentDone(incomplete)
      PROVE  /\ Head(fragments) \in 1..MaxPayload
             /\ [tsn |-> outtsn, size |-> Head(fragments), gap |-> 0] \in Packet
             /\ fragments' \in Seq(1..MaxPayload)
             /\ (Sending <=> fragments # <<>>)'
             /\ at' \in {"free", "whole", "part"}
             /\ toldToWait' \in BOOLEAN
  <2>1. /\ Head(fragments) \in 1..MaxPayload
        /\ Tail(fragments) \in Seq(1..MaxPayload)
    BY <1>2, HeadTailProperties DEF ControlType
  <2>2. [tsn |-> outtsn, size |-> Head(fragments), gap |-> 0] \in Packet
    BY <2>1 DEF QueuesType, Packet
  <2>3. toldToWait' \in BOOLEAN
    BY <1>2 DEF FragmentDone, OutputType
  <2> QED BY <1>2, <2>1, <2>2, <2>3 DEF FragmentDone, Sending
<1>3. CASE HoldFragment
  <2> USE <1>3 DEF HoldFragment
  <2> DEFINE p == [tsn |-> outtsn, size |-> Head(fragments), gap |-> 0]
  <2>a. p \in Packet /\ Head(fragments) \in 1..MaxPayload
    BY <1>2
  <2>0. p \in Packet /\ Head(fragments) \in Nat
    BY <2>a, SizesAssumption
  <2> HIDE DEF p
  <2>1. QueuesType'
    BY <2>0, AppendProperties DEF QueuesType, p
  <2>2. WindowsType' /\ TimersType'
    BY DEF WindowsType, TimersType, credits, congestion, timers
  <2>3. ControlType' /\ OutputType'
    BY <1>2 DEF ControlType, OutputType
  <2> QED BY <2>1, <2>2, <2>3
<1>4. ASSUME NEW merged \in BOOLEAN, NEW blocked \in BOOLEAN,
             SendFragment(merged, blocked)
      PROVE  TypeOK'
  <2> USE <1>4 DEF SendFragment
  <2> DEFINE p == [tsn |-> outtsn, size |-> Head(fragments), gap |-> 0]
  <2>a. p \in Packet /\ Head(fragments) \in 1..MaxPayload
    BY <1>2
  <2>0. p \in Packet /\ Head(fragments) \in Nat
    BY <2>a, SizesAssumption
  <2> HIDE DEF p
  <2>1. QueuesType'
    BY <2>0, AppendProperties DEF QueuesType, p
  <2>2. WindowsType' /\ TimersType'
    BY <1>2 DEF WindowsType, TimersType, congestion
  <2>3. ControlType'
    BY <1>2 DEF ControlType
  <2>4. rpacket' \subseteq Nat /\ wire' \subseteq Nat
    BY DEF QueuesType, OutputType
  <2>5. OutputType'
    BY <1>2, <2>4 DEF OutputType
  <2> QED BY <2>1, <2>2, <2>3, <2>5
<1> QED BY <1>1, <1>3, <1>4 DEF Application, UserStep

LEMMA NextUnsentFact ==
  ASSUME TypeOK
  PROVE  NextUnsent \in Nat \ {0}
<1>1. CASE holdingQueue = <<>>
  BY <1>1 DEF TypeOK, QueuesType, NextUnsent
<1>2. CASE holdingQueue # <<>>
  <2>1. Head(holdingQueue) \in Packet
    BY <1>2, HeadTailProperties DEF TypeOK, QueuesType
  <2> QED BY <1>2, <2>1 DEF NextUnsent, Packet
<1> QED BY <1>1, <1>2

(* TYPE, the steps of the SACK chunk before the walk over the gap blocks.  *)
LEMMA TypeReceiveSack ==
  ASSUME TypeOK, NEW cum \in Nat, NEW gaps \in Seq(Block), ReceiveSack(cum, gaps)
  PROVE  TypeOK'
<1> USE DEF TypeOK, ReceiveSack
<1>1. QueuesType' /\ WindowsType' /\ TimersType' /\ OutputType'
  BY DEF QueuesType, WindowsType, TimersType, OutputType,
         queues, credits, timers, output
<1>2. frame' \in Frame
  BY SackFrame DEF QueuesType
<1>3. ControlType'
  BY <1>2 DEF ControlType, Sending
<1> QED BY <1>1, <1>3

LEMMA TypeCumulative ==
  ASSUME TypeOK,
         \/ \E cum \in 0..(NextUnsent - 1), gaps \in GapLists : ReceiveSack(cum, gaps)
         \/ ClearAcknowledged \/ CreditAcknowledged
  PROVE  TypeOK'
<1> USE DEF TypeOK
<1>1. ASSUME NEW cum \in 0..(NextUnsent - 1), NEW gaps \in GapLists,
             ReceiveSack(cum, gaps)
      PROVE  TypeOK'
  <2>1. NextUnsent \in Nat
    BY NextUnsentFact
  <2>2. cum \in Nat /\ gaps \in Seq(Block)
    BY <2>1, GapListsAssumption
  <2> QED BY <1>1, <2>2, TypeReceiveSack
<1>2. CASE ClearAcknowledged
  <2>1. /\ pendingQueue # <<>>
        /\ pendingQueue' = Tail(pendingQueue)
        /\ pendingByteCount' = pendingByteCount - Head(pendingQueue).size
        /\ frame' = [frame EXCEPT !.advanced = frame.advanced + Head(pendingQueue).size]
        /\ at = "cumulative"
        /\ UNCHANGED <<at, fragments, outtsn, holdingQueue, holdingByteCount>>
    BY <1>2 DEF ClearAcknowledged, Acknowledged
  <2>2. /\ Head(pendingQueue) \in Packet
        /\ Tail(pendingQueue) \in Seq(Packet)
    BY <2>1, HeadTailProperties DEF QueuesType
  <2>3. Head(pendingQueue).size \in Nat
    BY <2>2, PacketFact
  <2>4. QueuesType'
    BY <2>1, <2>2, <2>3 DEF QueuesType
  <2>5. WindowsType' /\ TimersType' /\ OutputType'
    BY <1>2 DEF ClearAcknowledged, WindowsType, TimersType, OutputType,
                credits, congestion, output
  <2>6. frame.advanced + Head(pendingQueue).size \in Nat
    BY <2>3 DEF ControlType, Frame
  <2>7. frame' \in Frame
    BY <2>1, <2>6, FrameUpdates DEF ControlType
  <2>8. ControlType'
    BY <2>1, <2>7 DEF ControlType, Sending
  <2> QED BY <2>4, <2>5, <2>8
<1>3. CASE CreditAcknowledged
  <2> USE <1>3 DEF CreditAcknowledged
  <2>1. frame.advanced \in Nat /\ StartMTU \in Nat
    BY SizesAssumption DEF ControlType, Frame
  <2>2. congestionWindowSize' \in Nat
    BY <2>1 DEF WindowsType, MinimumOf
  <2>3. PARTIAL_BYTES_ACKED' \in Int
    BY <2>1, <2>2 DEF WindowsType, BytesAcked
  <2>4. receiverCredits' \in Int /\ senderCredits' \in Int
    BY <2>1 DEF WindowsType, MinimumOf
  <2>5. WindowsType'
    BY <2>2, <2>3, <2>4 DEF WindowsType
  <2>6. QueuesType' /\ ControlType' /\ OutputType'
    BY DEF QueuesType, ControlType, Sending, OutputType, queues, output
  <2>7. TimersType'
    BY DEF TimersType
  <2> QED BY <2>5, <2>6, <2>7
<1> QED BY <1>1, <1>2, <1>3

(* TYPE, the walk over the gap blocks. *)
LEMMA TypeGaps ==
  ASSUME TypeOK,
         \/ GapAcknowledge \/ CountMissing \/ FastRetransmit \/ MarkLost
         \/ RetransmitMarked \/ NextBlock \/ EndGaps
  PROVE  TypeOK'
<1> USE DEF TypeOK
<1>1. ASSUME Walking
      PROVE  /\ at = "gaps" /\ frame.entry <= Len(pendingQueue)
             /\ Current \in Packet
             /\ Current.tsn \in Nat \ {0} /\ Current.size \in Nat
             /\ Current.gap \in 0..255 /\ Counter \in 0..255
             /\ FullSize(Current) \in Nat
  BY <1>1, CurrentFact, SizesAssumption DEF Walking, FullSize
<1>2. ASSUME NEW gap \in 0..255, NEW extra \in Frame, Walking,
             NextEntry(gap, extra), WindowsType', T3running' \in BOOLEAN,
             wire' \subseteq Nat
      PROVE  TypeOK'
  <2> USE <1>2 DEF NextEntry
  <2>1. pendingQueue' \in Seq(Packet) /\ frame' \in Frame
    BY <1>1, NextEntryType
  <2>2. QueuesType'
    BY <2>1 DEF QueuesType
  <2>3. TimersType' /\ OutputType'
    BY DEF TimersType, OutputType
  <2>4. ControlType'
    BY <2>1 DEF ControlType, Sending
  <2> QED BY <2>2, <2>3, <2>4
<1>3. frame \in Frame /\ GapAcked \in 0..255 /\ Retransmit \in 0..255
  BY DEF ControlType, GapAcked, Retransmit
<1>4. T3running \in BOOLEAN /\ wire \subseteq Nat
  BY DEF TimersType, OutputType
<1>5. ASSUME Walking PROVE wire \union {Current.tsn} \subseteq Nat
  BY <1>1, <1>4, <1>5
<1>6. CASE GapAcknowledge
  <2> USE <1>6 DEF GapAcknowledge, Covered
  <2>1. WindowsType'
    BY <1>1 DEF WindowsType, NextEntry
  <2> QED BY <1>2, <1>3, <1>4, <2>1
<1>7. CASE CountMissing
  <2> USE <1>7 DEF CountMissing, Missing, Covered
  <2>1. WindowsType'
    BY DEF WindowsType, NextEntry, congestion
  <2> QED BY <1>1, <1>2, <1>3, <1>4, <2>1
<1>8. CASE FastRetransmit
  <2> USE <1>8 DEF FastRetransmit, Missing, Covered
  <2>1. WindowsType'
    BY SmallestWindowFact DEF WindowsType, NextEntry, MinimumOf, MaximumOf
  <2>2. [frame EXCEPT !.resent = TRUE, !.last = Current.tsn] \in Frame
    BY <1>1, <1>3 DEF Frame
  <2> QED BY <1>2, <1>3, <1>5, <2>1, <2>2
<1>9. CASE MarkLost
  <2> USE <1>9 DEF MarkLost, Missing, Covered
  <2>1. WindowsType'
    BY <1>1 DEF WindowsType, NextEntry, congestion
  <2>2. [frame EXCEPT !.last = Current.tsn] \in Frame
    BY <1>1, <1>3 DEF Frame
  <2>3. T3running' \in BOOLEAN /\ wire' \subseteq Nat
    BY <1>4, <1>5
  <2> QED BY <1>2, <1>3, <2>1, <2>2, <2>3
<1>10. CASE RetransmitMarked
  <2> USE <1>10 DEF RetransmitMarked, Missing, Covered
  <2>1. WindowsType'
    BY <1>1 DEF WindowsType, NextEntry, congestion
  <2>2. T3running' \in BOOLEAN /\ wire' \subseteq Nat
    BY <1>4, <1>5
  <2> QED BY <1>2, <1>3, <2>1, <2>2
<1>11. CASE NextBlock
  <2>1. frame' \in Frame
    <3>1. frame' = [frame EXCEPT !.block = frame.block + 1]
      BY <1>11 DEF NextBlock
    <3> QED BY <1>3, <3>1 DEF Frame
  <2> USE <1>11 DEF NextBlock
  <2>2. QueuesType' /\ WindowsType' /\ TimersType' /\ OutputType'
    BY DEF QueuesType, WindowsType, TimersType, OutputType,
           queues, credits, congestion, timers, output
  <2> QED BY <2>1, <2>2 DEF ControlType, Sending
<1>12. CASE EndGaps
  <2> USE <1>12 DEF EndGaps
  <2>1. frame' \in Frame /\ frame.last \in Nat
    BY <1>3 DEF Frame
  <2>2. WindowsType'
    BY <2>1 DEF WindowsType, credits
  <2>3. QueuesType' /\ TimersType' /\ OutputType'
    BY DEF QueuesType, TimersType, OutputType, queues, timers, output
  <2> QED BY <2>1, <2>2, <2>3 DEF ControlType, Sending
<1> QED BY <1>6, <1>7, <1>8, <1>9, <1>10, <1>11, <1>12

(* TYPE, the end of the SACK chunk and the callback. *)
LEMMA TypeFlush ==
  ASSUME TypeOK, FlushOne \/ EndSack \/ CallbackStep
  PROVE  TypeOK'
<1> USE DEF TypeOK
<1>1. CASE FlushOne
  <2> DEFINE p == Head(holdingQueue)
  <2>1. /\ holdingQueue # <<>> /\ holdingQueue' = Tail(holdingQueue)
        /\ pendingQueue' = Append(pendingQueue, p)
        /\ holdingByteCount' = holdingByteCount - p.size
        /\ pendingByteCount' = pendingByteCount + p.size
        /\ senderCredits' = senderCredits - p.size
        /\ receiverCredits' = receiverCredits - p.size
        /\ wire' = wire \union {p.tsn} /\ T3running' = TRUE
        /\ UNCHANGED <<outtsn, congestion, timervalue, state, control, callback, rpacket,
                       toldToWait>>
    BY <1>1 DEF FlushOne, CanFlush
  <2> HIDE DEF p
  <2>2. p \in Packet /\ Tail(holdingQueue) \in Seq(Packet)
    BY <2>1, HeadTailProperties DEF QueuesType, p
  <2>3. p.size \in Nat /\ p.tsn \in Nat
    BY <2>2, PacketFact
  <2>4. QueuesType'
    BY <2>1, <2>2, <2>3, AppendProperties DEF QueuesType
  <2>5. WindowsType' /\ TimersType'
    BY <2>1, <2>3 DEF WindowsType, TimersType, congestion
  <2>6. wire' \subseteq Nat
    BY <2>1, <2>3 DEF OutputType
  <2>7. ControlType' /\ OutputType'
    BY <2>1, <2>6 DEF ControlType, Sending, OutputType, control
  <2> QED BY <2>4, <2>5, <2>7
<1>2. CASE EndSack
  <2> USE <1>2 DEF EndSack
  <2>1. NoFrame \in Frame
    BY EmptySeq DEF NoFrame, Frame
  <2>2. QueuesType' /\ WindowsType' /\ TimersType' /\ OutputType'
    BY DEF QueuesType, WindowsType, TimersType, OutputType,
           queues, credits, congestion, timers
  <2>3. ControlType'
    BY <2>1 DEF ControlType, Sending
  <2> QED BY <2>2, <2>3
<1>3. CASE CallOnSendOK
  BY <1>3 DEF CallOnSendOK, QueuesType, WindowsType, TimersType, ControlType,
              OutputType, Sending, queues, credits, congestion, timers, control
<1>4. CASE ReturnOnSendOK
  BY <1>4 DEF ReturnOnSendOK, QueuesType, WindowsType, TimersType, ControlType,
              OutputType, Sending, queues, credits, congestion, timers, control
<1> QED BY <1>1, <1>2, <1>3, <1>4 DEF CallbackStep

(* TYPE, the timer and the peer's heartbeats. *)
LEMMA TypeTimer ==
  ASSUME TypeOK, TimerStep \/ ReceiveHeartbeat
  PROVE  TypeOK'
<1> USE DEF TypeOK
<1>1. CASE OnTimeout \/ OnTimeoutGiveUp \/ ReceiveHeartbeat
  <2>1. QueuesType' /\ WindowsType' /\ ControlType' /\ OutputType'
    BY <1>1 DEF OnTimeout, OnTimeoutGiveUp, ReceiveHeartbeat, QueuesType,
                WindowsType, ControlType, OutputType, Sending, queues, credits,
                congestion, control, output
  <2>2. TimersType'
    BY <1>1 DEF OnTimeout, OnTimeoutGiveUp, ReceiveHeartbeat, Tick, TimersType
  <2> QED BY <2>1, <2>2
<1>2. CASE OnTimeoutExpired
  <2> USE <1>2 DEF OnTimeoutExpired
  <2>1. WindowsType'
    BY SmallestWindowFact DEF WindowsType, MaximumOf
  <2>2. TimersType'
    <3>1. timervalue' \in Nat
      BY DEF TimersType, Tick
    <3> QED BY <3>1 DEF TimersType
  <2>3. QueuesType' /\ ControlType' /\ OutputType'
    BY DEF QueuesType, ControlType, OutputType, Sending, Tick, queues, output
  <2> QED BY <2>1, <2>2, <2>3
<1>3. CASE ResendOne
  <2>1. /\ at = "resend" /\ frame.entry <= Len(pendingQueue)
        /\ frame' = [frame EXCEPT !.entry = frame.entry + 1]
    BY <1>3 DEF ResendOne
  <2>2. /\ frame.entry \in 1..Len(pendingQueue)
        /\ Current.tsn \in Nat /\ Current.size \in Nat
        /\ FullSize(Current) \in Nat
    BY <2>1, CurrentFact, SizesAssumption DEF FullSize
  <2>3. frame.entry + 1 \in Nat \ {0}
    BY <2>2
  <2>4. frame' \in Frame
    BY <2>1, <2>3, FrameUpdates DEF ControlType
  <2>5. ControlType'
    BY <1>3, <2>4 DEF ResendOne, ControlType, Sending
  <2>6. /\ Mark(pendingQueue, frame.entry, 0) \in Seq(Packet)
        /\ Mark(pendingQueue, frame.entry, Retransmit) \in Seq(Packet)
    <3>1. 0 \in 0..255 /\ Retransmit \in 0..255
      BY DEF Retransmit
    <3> QED BY <2>2, <3>1, MarkProperties DEF QueuesType
  <2>7. QueuesType'
    BY <1>3, <2>6 DEF ResendOne, QueuesType
  <2>8. /\ senderCredits' \in {senderCredits, senderCredits - FullSize(Current)}
        /\ UNCHANGED <<receiverCredits, congestion>>
    BY <1>3 DEF ResendOne
  <2>9. WindowsType'
    BY <2>2, <2>8 DEF WindowsType, congestion
  <2>10. T3running' \in BOOLEAN /\ wire' \subseteq Nat
    <3>1. T3running' \in {T3running, TRUE} /\ wire' \in {wire, wire \union {Current.tsn}}
      BY <1>3 DEF ResendOne
    <3> QED BY <2>2, <3>1 DEF TimersType, OutputType
  <2>11. TimersType' /\ OutputType'
    BY <1>3, <2>10 DEF ResendOne, TimersType, OutputType
  <2> QED BY <2>5, <2>7, <2>9, <2>11
<1>4. CASE EndResend
  <2> USE <1>4 DEF EndResend
  <2>1. NoFrame \in Frame
    BY EmptySeq DEF NoFrame, Frame
  <2>2. QueuesType' /\ WindowsType' /\ TimersType' /\ OutputType'
    BY DEF QueuesType, WindowsType, TimersType, OutputType,
           queues, credits, congestion, timers, output
  <2>3. ControlType'
    BY <2>1 DEF ControlType, Sending
  <2> QED BY <2>2, <2>3
<1> QED BY <1>1, <1>2, <1>3, <1>4 DEF TimerStep

LEMMA TypeStutter == TypeOK /\ UNCHANGED vars => TypeOK'
BY DEF TypeOK, QueuesType, WindowsType, TimersType, ControlType, OutputType,
       Sending, vars, queues, credits, congestion, timers, control, output

LEMMA TypeNext == TypeOK /\ [Next]_vars => TypeOK'
<1> SUFFICES ASSUME TypeOK, [Next]_vars PROVE TypeOK'
  OBVIOUS
<1>1. CASE Application \/ UserStep
  BY <1>1, TypeUser
<1>2. CASE SackStep
  BY <1>2, TypeCumulative, TypeGaps, TypeFlush DEF SackStep
<1>3. CASE CallbackStep
  BY <1>3, TypeFlush
<1>4. CASE TimerStep
  BY <1>4, TypeTimer
<1>5. CASE PeerStep
  BY <1>5, TypeCumulative, TypeTimer DEF PeerStep
<1>6. CASE UNCHANGED vars
  BY <1>6, TypeStutter
<1> QED BY <1>1, <1>2, <1>3, <1>4, <1>5, <1>6 DEF Next

(* TYPE: the session keeps its shape for any peer and any message sizes.   *)
THEOREM TypeCorrect == Spec => []TypeOK
BY TypeInit, TypeNext, PTL DEF Spec

-----------------------------------------------------------------------------
(* Actions by what they leave alone.  The walk over the gap blocks and the *)
(* resend loop mark packets of the pending queue; the quiet ones touch     *)
(* neither queue.                                                          *)
Marking == \/ GapAcknowledge \/ CountMissing \/ FastRetransmit \/ MarkLost
           \/ RetransmitMarked \/ ResendOne

QuietStep == \/ Application \/ NextBlock \/ EndGaps \/ EndSack \/ CallbackStep
         \/ OnTimeout \/ OnTimeoutExpired \/ OnTimeoutGiveUp \/ EndResend
         \/ ReceiveHeartbeat \/ UNCHANGED vars

AnyReceiveSack ==
  \E cum \in 0..(NextUnsent - 1), gaps \in GapLists : ReceiveSack(cum, gaps)

AnySendFragment == \E merged, blocked \in BOOLEAN : SendFragment(merged, blocked)

LEMMA NextCases ==
  ASSUME [Next]_vars
  PROVE  \/ HoldFragment \/ AnySendFragment \/ AnyReceiveSack
         \/ ClearAcknowledged \/ CreditAcknowledged \/ FlushOne
         \/ Marking \/ QuietStep
BY DEF Next, UserStep, SackStep, TimerStep, PeerStep, AnyReceiveSack,
       AnySendFragment, Marking, QuietStep

LEMMA QuietStepFact ==
  ASSUME QuietStep
  PROVE  /\ UNCHANGED queues /\ UNCHANGED outtsn /\ UNCHANGED receiverCredits
         /\ \/ at # "cumulative" /\ at' # "cumulative"
            \/ UNCHANGED <<at, frame>>
BY DEF QuietStep, Application, SendEx, NextBlock, EndGaps, EndSack, CallbackStep,
       CallOnSendOK, ReturnOnSendOK, OnTimeout, OnTimeoutExpired,
       OnTimeoutGiveUp, EndResend, ReceiveHeartbeat, Tick, Walking, vars,
       queues, credits, control

LEMMA MarkingFact ==
  ASSUME Marking
  PROVE  /\ UNCHANGED <<outtsn, pendingByteCount, holdingQueue,
                        holdingByteCount, receiverCredits, at, callback, toldToWait>>
         /\ at \in {"gaps", "resend"}
         /\ frame.entry <= Len(pendingQueue)
         /\ \/ UNCHANGED pendingQueue
            \/ \E gap : pendingQueue' = Mark(pendingQueue, frame.entry, gap)
BY DEF Marking, GapAcknowledge, CountMissing, FastRetransmit, MarkLost,
       RetransmitMarked, ResendOne, NextEntry, Missing, Covered, Walking

(* WINDOW: the sum of what is left of the peer's window, what is pending   *)
(* and what the SACK being processed has cleared.                          *)
LEMMA WindowNext ==
  ASSUME TypeOK, WindowConserved, [Next]_vars
  PROVE  WindowConserved'
<1> USE DEF WindowConserved
<1>1. /\ receiverCredits \in Int /\ pendingByteCount \in Int
      /\ frame.advanced \in Nat /\ PeerWindow \in Nat
  BY SizesAssumption DEF TypeOK, QueuesType, WindowsType, ControlType, Frame
<1>2. ASSUME Sending PROVE Head(fragments) \in Nat /\ at # "cumulative"
  <2>1. Head(fragments) \in 1..MaxPayload
    BY <1>2, HeadTailProperties DEF TypeOK, ControlType
  <2> QED BY <1>2, <2>1, SizesAssumption DEF Sending
<1>3. CASE HoldFragment
  BY <1>1, <1>2, <1>3 DEF HoldFragment, FragmentDone, Sending, credits
<1>4. CASE AnySendFragment
  <2>1. PICK merged \in BOOLEAN, blocked \in BOOLEAN : SendFragment(merged, blocked)
    BY <1>4 DEF AnySendFragment
  <2>2. /\ Sending /\ ~(receiverCredits < Head(fragments))
        /\ pendingByteCount' = pendingByteCount + Head(fragments)
        /\ receiverCredits' = receiverCredits - Head(fragments)
        /\ at' \in {"free", at}
    BY <2>1 DEF SendFragment, FragmentDone, OutOfCredits
  <2> QED BY <1>1, <1>2, <2>2
<1>5. CASE AnyReceiveSack
  <2>1. PICK cum \in 0..(NextUnsent - 1), gaps \in GapLists : ReceiveSack(cum, gaps)
    BY <1>5 DEF AnyReceiveSack
  <2>2. /\ at = "free" /\ UNCHANGED <<receiverCredits, pendingByteCount>>
        /\ frame' = [NoFrame EXCEPT !.cum = cum, !.gaps = gaps, !.pbc = pendingByteCount]
    BY <2>1 DEF ReceiveSack, credits, queues
  <2>3. cum \in Nat /\ gaps \in Seq(Block)
    <3>1. NextUnsent \in Nat
      BY NextUnsentFact
    <3> QED BY <3>1, GapListsAssumption
  <2>4. frame'.advanced = 0
    BY <1>1, <2>2, <2>3, SackFrame
  <2> QED BY <1>1, <2>2, <2>4
<1>6. CASE ClearAcknowledged
  <2>1. /\ at = "cumulative" /\ at' = at /\ UNCHANGED receiverCredits
        /\ pendingQueue # <<>>
        /\ pendingByteCount' = pendingByteCount - Head(pendingQueue).size
        /\ frame' = [frame EXCEPT !.advanced = frame.advanced + Head(pendingQueue).size]
    BY <1>6 DEF ClearAcknowledged, Acknowledged, credits
  <2>2. Head(pendingQueue) \in Packet
    BY <2>1, HeadTailProperties DEF TypeOK, QueuesType
  <2>3. Head(pendingQueue).size \in Nat
    BY <2>2, PacketFact
  <2>4. frame.advanced + Head(pendingQueue).size \in Nat
    BY <1>1, <2>3
  <2>5. frame'.advanced = frame.advanced + Head(pendingQueue).size
    BY <2>1, <2>4, FrameUpdates DEF TypeOK, ControlType
  <2> HIDE <2>1
  <2>6. /\ at = "cumulative" /\ at' = at /\ receiverCredits' = receiverCredits
        /\ pendingByteCount' = pendingByteCount - Head(pendingQueue).size
    BY <2>1
  <2> QED BY <1>1, <2>3, <2>5, <2>6
<1>7. CASE CreditAcknowledged
  BY <1>1, <1>7 DEF CreditAcknowledged, queues
<1>8. CASE FlushOne
  <2>1. /\ at = "flush" /\ UNCHANGED at /\ holdingQueue # <<>>
        /\ receiverCredits >= Head(holdingQueue).size
        /\ pendingByteCount' = pendingByteCount + Head(holdingQueue).size
        /\ receiverCredits' = receiverCredits - Head(holdingQueue).size
    BY <1>8 DEF FlushOne, CanFlush, control
  <2>2. Head(holdingQueue) \in Packet
    BY <2>1, HeadTailProperties DEF TypeOK, QueuesType
  <2>3. Head(holdingQueue).size \in Nat
    BY <2>2, PacketFact
  <2> QED BY <1>1, <2>1, <2>3
<1>9. CASE Marking
  BY <1>1, <1>9, MarkingFact
<1>10. CASE QuietStep
  BY <1>1, <1>10, QuietStepFact DEF queues
<1> QED BY <1>3, <1>4, <1>5, <1>6, <1>7, <1>8, <1>9, <1>10, NextCases

LEMMA WindowInit == Init => WindowConserved
BY SizesAssumption DEF Init, WindowConserved

(* WINDOW: the peer's window is never overrun and never shrinks.           *)
THEOREM WindowTheorem == Spec => []WindowConserved
BY TypeCorrect, WindowInit, WindowNext, PTL DEF Spec

-----------------------------------------------------------------------------
(* Marking changes neither the length of the pending queue nor the TSN and *)
(* payload of any packet.                                                  *)
LEMMA MarkingQueue ==
  ASSUME TypeOK, Marking
  PROVE  /\ Len(pendingQueue') = Len(pendingQueue)
         /\ \A i \in 1..Len(pendingQueue) : pendingQueue'[i].tsn = pendingQueue[i].tsn
         /\ \A n : AddUpTo(pendingQueue, n) => AddUpTo(pendingQueue', n)
<1>1. /\ frame.entry \in 1..Len(pendingQueue) /\ Counter \in 0..255
      /\ pendingQueue \in Seq(Packet)
  BY MarkingFact, CurrentFact DEF TypeOK, QueuesType
<1>2. GapAcked \in 0..255 /\ Retransmit \in 0..255 /\ 0 \in 0..255
  BY DEF GapAcked, Retransmit
<1>3. CASE UNCHANGED pendingQueue
  BY <1>3
<1>4. CASE \E gap \in 0..255 : pendingQueue' = Mark(pendingQueue, frame.entry, gap)
  <2>1. PICK gap \in 0..255 : pendingQueue' = Mark(pendingQueue, frame.entry, gap)
    BY <1>4
  <2>2. /\ Len(pendingQueue') = Len(pendingQueue)
        /\ \A i \in 1..Len(pendingQueue) : pendingQueue'[i].tsn = pendingQueue[i].tsn
    BY <1>1, <2>1, MarkProperties
  <2>3. ASSUME NEW n, AddUpTo(pendingQueue, n) PROVE AddUpTo(pendingQueue', n)
    BY <1>1, <2>1, <2>3, AddUpToMark
  <2> QED BY <2>2, <2>3
<1>5. \/ UNCHANGED pendingQueue
      \/ \E gap \in 0..255 : pendingQueue' = Mark(pendingQueue, frame.entry, gap)
  BY <1>1, <1>2 DEF Marking, GapAcknowledge, CountMissing, FastRetransmit, MarkLost,
                    RetransmitMarked, ResendOne, NextEntry
<1> QED BY <1>3, <1>4, <1>5

(* Consecutive TSNs when a packet joins or leaves a queue. *)
LEMMA TsnRunAppend ==
  ASSUME NEW s \in Seq(Packet), NEW first \in Int, TsnRun(s, first),
         NEW p \in Packet, p.tsn = first + Len(s)
  PROVE  TsnRun(Append(s, p), first) /\ Len(Append(s, p)) = Len(s) + 1
<1> DEFINE t == Append(s, p)
<1>1. /\ Len(s) \in Nat /\ Len(t) = Len(s) + 1
      /\ \A i \in 1..Len(s) : t[i] = s[i]
      /\ t[Len(s) + 1] = p
  BY AppendProperties, LenProperties
<1>2. ASSUME NEW i \in 1..Len(t) PROVE t[i].tsn = first + i - 1
  <2>1. CASE i \in 1..Len(s)
    BY <1>1, <2>1 DEF TsnRun
  <2>2. CASE i = Len(s) + 1
    <3>1. t[i].tsn = first + Len(s)
      BY <1>1, <2>2
    <3>2. first + Len(s) = first + i - 1
      BY <1>1, <2>2
    <3> QED BY <3>1, <3>2
  <2> QED BY <1>1, <2>1, <2>2
<1> HIDE DEF t
<1>3. TsnRun(t, first)
  BY <1>2 DEF TsnRun
<1> QED BY <1>1, <1>3 DEF t

LEMMA TsnRunTail ==
  ASSUME NEW s \in Seq(Packet), s # <<>>, NEW first \in Int, TsnRun(s, first)
  PROVE  /\ Head(s) \in Packet /\ Head(s).tsn = first
         /\ Tail(s) \in Seq(Packet) /\ Len(Tail(s)) = Len(s) - 1
         /\ TsnRun(Tail(s), first + 1)
<1> DEFINE t == Tail(s)
<1>1. /\ Len(s) \in Nat \ {0} /\ Len(t) = Len(s) - 1 /\ t \in Seq(Packet)
      /\ \A i \in 1..Len(t) : t[i] = s[i + 1]
      /\ Head(s) \in Packet /\ Head(s) = s[1]
  BY HeadTailProperties, EmptySeq
<1>2. s[1].tsn = first + 1 - 1
  BY <1>1 DEF TsnRun
<1>3. ASSUME NEW i \in 1..Len(t) PROVE t[i].tsn = (first + 1) + i - 1
  <2>1. i + 1 \in 1..Len(s)
    BY <1>1
  <2>2. s[i + 1].tsn = first + (i + 1) - 1
    BY <2>1 DEF TsnRun
  <2>3. t[i] = s[i + 1]
    BY <1>1
  <2>4. first + (i + 1) - 1 = (first + 1) + i - 1
    BY <1>1
  <2> QED BY <2>2, <2>3, <2>4
<1>4. TsnRun(t, first + 1)
  BY <1>3 DEF TsnRun
<1> QED BY <1>1, <1>2, <1>4

(* ORDER: each of the actions that move a packet keeps the TSNs of the two *)
(* queues consecutive.                                                     *)
LEMMA ConsecutiveNext ==
  ASSUME TypeOK, ConsecutiveTsns, [Next]_vars
  PROVE  ConsecutiveTsns'
<1>1. /\ outtsn \in Int
      /\ pendingQueue \in Seq(Packet) /\ holdingQueue \in Seq(Packet)
      /\ Len(pendingQueue) \in Nat /\ Len(holdingQueue) \in Nat
  BY LenProperties DEF TypeOK, QueuesType
<1> DEFINE p == [tsn |-> outtsn, size |-> Head(fragments), gap |-> 0]
           h == outtsn - Len(holdingQueue)
           b == outtsn - Len(holdingQueue) - Len(pendingQueue)
<1>2. ASSUME Sending PROVE p \in Packet /\ p.tsn = outtsn
  <2>1. Head(fragments) \in 1..MaxPayload
    BY <1>2, HeadTailProperties DEF TypeOK, ControlType
  <2> QED BY <2>1 DEF TypeOK, QueuesType, Packet
<1> HIDE DEF p
<1>3. /\ h \in Int /\ h + Len(holdingQueue) = outtsn
      /\ b \in Int /\ b + Len(pendingQueue) = h
  BY <1>1
<1>4. TsnRun(holdingQueue, h) /\ TsnRun(pendingQueue, b)
  BY DEF ConsecutiveTsns
<1>5. SUFFICES /\ TsnRun(holdingQueue', outtsn' - Len(holdingQueue'))
               /\ TsnRun(pendingQueue', outtsn' - Len(holdingQueue') - Len(pendingQueue'))
  BY DEF ConsecutiveTsns
<1>6. CASE HoldFragment
  <2>1. /\ Sending /\ holdingQueue' = Append(holdingQueue, p)
        /\ outtsn' = outtsn + 1 /\ pendingQueue' = pendingQueue
    BY <1>6 DEF HoldFragment, p
  <2>2. TsnRun(holdingQueue', h) /\ Len(holdingQueue') = Len(holdingQueue) + 1
    <3> HIDE DEF h
    <3> QED BY <1>1, <1>2, <1>3, <1>4, <2>1, TsnRunAppend
  <2>3. /\ outtsn' - Len(holdingQueue') = h
        /\ outtsn' - Len(holdingQueue') - Len(pendingQueue') = b
    BY <1>1, <2>1, <2>2
  <2> QED BY <1>4, <2>1, <2>2, <2>3
<1>7. CASE AnySendFragment
  <2>1. /\ Sending /\ pendingQueue' = Append(pendingQueue, p)
        /\ outtsn' = outtsn + 1 /\ holdingQueue' = holdingQueue
        /\ holdingQueue = <<>> /\ Len(holdingQueue) = 0
    BY <1>7, EmptySeq DEF AnySendFragment, SendFragment, OutOfCredits, p
  <2>2. p.tsn = b + Len(pendingQueue)
    BY <1>1, <1>2, <2>1
  <2>3. TsnRun(pendingQueue', b) /\ Len(pendingQueue') = Len(pendingQueue) + 1
    <3> HIDE DEF b
    <3> QED BY <1>1, <1>2, <1>3, <1>4, <2>1, <2>2, TsnRunAppend
  <2>4. outtsn' - Len(holdingQueue') - Len(pendingQueue') = b
    BY <1>1, <2>1, <2>3
  <2>5. TsnRun(holdingQueue', outtsn' - Len(holdingQueue'))
    BY <2>1 DEF TsnRun
  <2> QED BY <2>3, <2>4, <2>5
<1>8. CASE ClearAcknowledged
  <2>1. /\ pendingQueue # <<>> /\ pendingQueue' = Tail(pendingQueue)
        /\ outtsn' = outtsn /\ holdingQueue' = holdingQueue
    BY <1>8 DEF ClearAcknowledged, Acknowledged
  <2>2. TsnRun(pendingQueue', b + 1) /\ Len(pendingQueue') = Len(pendingQueue) - 1
    <3> HIDE DEF b
    <3> QED BY <1>1, <1>3, <1>4, <2>1, TsnRunTail
  <2>3. outtsn' - Len(holdingQueue') - Len(pendingQueue') = b + 1
    BY <1>1, <2>1, <2>2
  <2> QED BY <1>4, <2>1, <2>2, <2>3
<1>9. CASE FlushOne
  <2>1. /\ holdingQueue # <<>> /\ holdingQueue' = Tail(holdingQueue)
        /\ pendingQueue' = Append(pendingQueue, Head(holdingQueue))
        /\ outtsn' = outtsn
    BY <1>9 DEF FlushOne, CanFlush
  <2>2. /\ Head(holdingQueue) \in Packet /\ Head(holdingQueue).tsn = h
        /\ TsnRun(holdingQueue', h + 1)
        /\ Len(holdingQueue') = Len(holdingQueue) - 1
    <3> HIDE DEF h
    <3> QED BY <1>1, <1>3, <1>4, <2>1, TsnRunTail
  <2>3. TsnRun(pendingQueue', b) /\ Len(pendingQueue') = Len(pendingQueue) + 1
    <3> HIDE DEF b, h
    <3> QED BY <1>1, <1>3, <1>4, <2>1, <2>2, TsnRunAppend
  <2>4. /\ outtsn' - Len(holdingQueue') = h + 1
        /\ outtsn' - Len(holdingQueue') - Len(pendingQueue') = b
    BY <1>1, <2>1, <2>2, <2>3
  <2> QED BY <2>2, <2>3, <2>4
<1>10. CASE Marking
  <2>1. outtsn' = outtsn /\ holdingQueue' = holdingQueue
    BY <1>10, MarkingFact
  <2>2. Len(pendingQueue') = Len(pendingQueue) /\ TsnRun(pendingQueue', b)
    BY <1>4, <1>10, MarkingQueue DEF TsnRun
  <2> QED BY <1>4, <2>1, <2>2
<1>11. CASE AnyReceiveSack \/ CreditAcknowledged \/ QuietStep
  <2>1. UNCHANGED <<outtsn, holdingQueue, pendingQueue>>
    BY <1>11, QuietStepFact DEF AnyReceiveSack, ReceiveSack, CreditAcknowledged, queues
  <2> QED BY <1>4, <2>1
<1> QED BY <1>6, <1>7, <1>8, <1>9, <1>10, <1>11, NextCases

LEMMA ConsecutiveInit == Init => ConsecutiveTsns
BY EmptySeq DEF Init, ConsecutiveTsns, TsnRun

(* ORDER: no packet is lost, duplicated or overtaken between the queues.   *)
THEOREM ConsecutiveTheorem == Spec => []ConsecutiveTsns
BY TypeCorrect, ConsecutiveInit, ConsecutiveNext, PTL DEF Spec

-----------------------------------------------------------------------------
(* BYTES: pendingByteCount is the payload of the pending queue.            *)
LEMMA BytesNext ==
  ASSUME TypeOK, BytesInv, [Next]_vars
  PROVE  BytesInv'
<1> USE DEF BytesInv
<1>1. /\ pendingQueue \in Seq(Packet) /\ pendingByteCount \in Int
      /\ holdingQueue \in Seq(Packet)
  BY DEF TypeOK, QueuesType
<1>2. CASE AnySendFragment
  <2> DEFINE p == [tsn |-> outtsn, size |-> Head(fragments), gap |-> 0]
  <2>1. /\ Sending /\ pendingQueue' = Append(pendingQueue, p)
        /\ pendingByteCount' = pendingByteCount + Head(fragments)
    BY <1>2 DEF AnySendFragment, SendFragment
  <2>2. Head(fragments) \in 1..MaxPayload
    BY <2>1, HeadTailProperties DEF TypeOK, ControlType
  <2>3. p \in Packet /\ p.size = Head(fragments)
    BY <2>2 DEF TypeOK, QueuesType, Packet
  <2> HIDE DEF p
  <2> QED BY <1>1, <2>1, <2>3, AddUpToAppend
<1>3. CASE ClearAcknowledged
  <2>1. /\ pendingQueue # <<>> /\ pendingQueue' = Tail(pendingQueue)
        /\ pendingByteCount' = pendingByteCount - Head(pendingQueue).size
    BY <1>3 DEF ClearAcknowledged, Acknowledged
  <2> QED BY <1>1, <2>1, AddUpToTail
<1>4. CASE FlushOne
  <2>1. /\ holdingQueue # <<>>
        /\ pendingQueue' = Append(pendingQueue, Head(holdingQueue))
        /\ pendingByteCount' = pendingByteCount + Head(holdingQueue).size
    BY <1>4 DEF FlushOne, CanFlush
  <2>2. Head(holdingQueue) \in Packet
    BY <1>1, <2>1, HeadTailProperties
  <2> QED BY <1>1, <2>1, <2>2, AddUpToAppend
<1>5. CASE Marking
  BY <1>5, MarkingFact, MarkingQueue
<1>6. CASE HoldFragment \/ AnyReceiveSack \/ CreditAcknowledged \/ QuietStep
  BY <1>6, QuietStepFact DEF HoldFragment, AnyReceiveSack, ReceiveSack,
                         CreditAcknowledged, queues
<1> QED BY <1>2, <1>3, <1>4, <1>5, <1>6, NextCases

LEMMA BytesInit == Init => BytesInv
<1>1. AddUpTo(<<>>, 0)
  <2> DEFINE c == [i \in 1..1 |-> 0]
  <2>1. c \in [1..(Len(<<>>) + 1) -> Int] /\ c[1] = 0 /\ Len(<<>>) = 0
    BY EmptySeq
  <2> HIDE DEF c
  <2> QED BY <2>1 DEF AddUpTo
<1> QED BY <1>1 DEF Init, BytesInv

-----------------------------------------------------------------------------
(* FLOORS: each step that takes from the congestion window or cuts it down *)
(* leaves its floors.                                                      *)
LEMMA FloorsNext ==
  ASSUME TypeOK, WindowFloors, [Next]_vars
  PROVE  WindowFloors'
<1> USE DEF WindowFloors
<1>1. /\ senderCredits \in Int /\ congestionWindowSize \in Nat /\ SSTHRESH \in Nat
      /\ frame.advanced \in Nat /\ SmallestWindow \in Nat /\ StartMTU \in Nat
      /\ SmallestWindow >= StartMTU
  BY SmallestWindowFact DEF TypeOK, WindowsType, ControlType, Frame
<1>2. ASSUME frame.entry <= Len(pendingQueue)
      PROVE  /\ Current.size \in Nat /\ FullSize(Current) \in Nat
             /\ FullSize(Current) >= Current.size
  <2>1. Current.size \in 1..MaxPayload
    BY <1>2, CurrentFact
  <2> QED BY <2>1, SizesAssumption DEF FullSize
<1>3. CASE AnySendFragment
  <2>1. /\ Sending /\ ~(senderCredits < Head(fragments))
        /\ senderCredits' = senderCredits - Head(fragments)
        /\ UNCHANGED <<congestionWindowSize, SSTHRESH>>
    BY <1>3 DEF AnySendFragment, SendFragment, OutOfCredits, congestion
  <2>2. Head(fragments) \in 1..MaxPayload
    BY <2>1, HeadTailProperties DEF TypeOK, ControlType
  <2> QED BY <1>1, <2>1, <2>2, SizesAssumption
<1>4. CASE CreditAcknowledged
  <2> USE <1>4 DEF CreditAcknowledged
  <2>1. senderCredits' >= 0
    BY <1>1 DEF MinimumOf
  <2>2. congestionWindowSize' >= congestionWindowSize
    BY <1>1 DEF MinimumOf
  <2> QED BY <1>1, <2>1, <2>2
<1>5. CASE GapAcknowledge
  <2>1. /\ frame.entry <= Len(pendingQueue)
        /\ senderCredits' \in {senderCredits, senderCredits + Current.size}
        /\ UNCHANGED <<congestionWindowSize, SSTHRESH>>
    <3>1. GapAcknowledge => frame.entry <= Len(pendingQueue)
      BY DEF GapAcknowledge, Covered, Walking
    <3>2. senderCredits' = senderCredits + (IF Current.gap = GapAcked THEN 0 ELSE Current.size)
      BY <1>5 DEF GapAcknowledge
    <3>3. UNCHANGED <<congestionWindowSize, SSTHRESH>>
      BY <1>5 DEF GapAcknowledge
    <3> QED BY <1>1, <1>5, <3>1, <3>2, <3>3
  <2> QED BY <1>1, <1>2, <2>1
<1>6. CASE CountMissing
  BY <1>1, <1>6 DEF CountMissing, congestion
<1>7. CASE FastRetransmit
  <2>1. \/ /\ SSTHRESH' = MaximumOf(congestionWindowSize \div 2, SmallestWindow)
           /\ congestionWindowSize' = SSTHRESH'
           /\ senderCredits' = MinimumOf(senderCredits, SSTHRESH')
        \/ UNCHANGED <<SSTHRESH, congestionWindowSize, senderCredits>>
    BY <1>7 DEF FastRetransmit
  <2>2. congestionWindowSize \div 2 \in Nat
    BY <1>1
  <2>3. MaximumOf(congestionWindowSize \div 2, SmallestWindow) >= SmallestWindow
    BY <1>1, <2>2 DEF MaximumOf
  <2>4. MaximumOf(congestionWindowSize \div 2, SmallestWindow) \in Nat
    BY <1>1, <2>2 DEF MaximumOf
  <2> QED BY <1>1, <2>1, <2>3, <2>4 DEF MinimumOf
<1>8. CASE MarkLost \/ RetransmitMarked \/ ResendOne
  <2>1. /\ frame.entry <= Len(pendingQueue)
        /\ \/ UNCHANGED senderCredits
           \/ /\ senderCredits >= FullSize(Current)
              /\ \/ senderCredits' = senderCredits - Current.size
                 \/ senderCredits' = senderCredits - FullSize(Current)
        /\ UNCHANGED <<congestionWindowSize, SSTHRESH>>
    BY <1>8 DEF MarkLost, RetransmitMarked, ResendOne, Missing, Covered, Walking, congestion
  <2> QED BY <1>1, <1>2, <2>1
<1>9. CASE FlushOne
  <2>1. /\ senderCredits >= Head(holdingQueue).size
        /\ senderCredits' = senderCredits - Head(holdingQueue).size
        /\ UNCHANGED <<congestionWindowSize, SSTHRESH>> /\ holdingQueue # <<>>
    BY <1>9 DEF FlushOne, CanFlush, congestion
  <2>2. Head(holdingQueue) \in Packet
    BY <2>1, HeadTailProperties DEF TypeOK, QueuesType
  <2>3. Head(holdingQueue).size \in Nat
    BY <2>2, PacketFact
  <2> QED BY <1>1, <2>1, <2>3
<1>10. CASE OnTimeoutExpired
  <2>1. congestionWindowSize \div 2 \in Nat
    BY <1>1
  <2>2. SSTHRESH' >= SmallestWindow
    BY <1>1, <1>10, <2>1 DEF OnTimeoutExpired, MaximumOf
  <2> QED BY <1>1, <1>10, <2>2 DEF OnTimeoutExpired
<1>11. CASE HoldFragment \/ AnyReceiveSack \/ ClearAcknowledged
  BY <1>11 DEF HoldFragment, AnyReceiveSack, ReceiveSack, ClearAcknowledged, credits, congestion
<1>12. CASE QuietStep /\ ~OnTimeoutExpired
  BY <1>12 DEF QuietStep, Application, SendEx, NextBlock, EndGaps, EndSack, CallbackStep,
       CallOnSendOK, ReturnOnSendOK, OnTimeout, OnTimeoutGiveUp, EndResend,
       ReceiveHeartbeat, vars, credits, congestion
<1> QED
  BY <1>3, <1>4, <1>5, <1>6, <1>7, <1>8, <1>9, <1>10, <1>11, <1>12, NextCases DEF Marking

LEMMA FloorsInit == Init => WindowFloors
BY SmallestWindowFact DEF Init, WindowFloors

(* FLOORS: credits are never negative, a timeout leaves room for a packet. *)
THEOREM FloorsTheorem == Spec => []WindowFloors
BY TypeCorrect, FloorsInit, FloorsNext, PTL DEF Spec

-----------------------------------------------------------------------------
(* With nothing pending the peer's whole window is available again.        *)
LEMMA FullCredits ==
  ASSUME TypeOK, WindowConserved, BytesInv, pendingQueue = <<>>, at # "cumulative"
  PROVE  receiverCredits = PeerWindow
<1>1. pendingByteCount = 0
  BY AddUpToEmpty DEF BytesInv
<1> QED
  BY <1>1, SizesAssumption DEF WindowConserved, TypeOK, QueuesType, WindowsType

(* STALL: with nothing pending, a packet finds room at once; so a packet   *)
(* is held only behind another, and a SACK that acknowledges everything    *)
(* empties the holding queue as far as the windows allow, one packet at    *)
(* the least.                                                              *)
LEMMA StallNext ==
  ASSUME TypeOK, WindowConserved, BytesInv, WindowFloors, StallInv, [Next]_vars
  PROVE  StallInv'
<1>1. /\ pendingQueue \in Seq(Packet) /\ holdingQueue \in Seq(Packet)
      /\ senderCredits \in Int /\ receiverCredits \in Int
      /\ StartMTU \in Nat /\ MaxPayload \in Nat /\ MaxPayload <= StartMTU
      /\ PeerWindow \in Nat /\ MaxPayload <= PeerWindow
      /\ congestionWindowSize \in Nat /\ congestionWindowSize >= StartMTU
  BY SizesAssumption DEF TypeOK, QueuesType, WindowsType, WindowFloors
<1>2. ASSUME NEW p \in Packet
      PROVE  pendingQueue' = Append(pendingQueue, p) => pendingQueue' # <<>>
  BY <1>1, AppendProperties, EmptySeq
<1>3. ASSUME Sending
      PROVE  /\ Head(fragments) \in 1..MaxPayload
             /\ [tsn |-> outtsn, size |-> Head(fragments), gap |-> 0] \in Packet
  <2>1. Head(fragments) \in 1..MaxPayload
    BY <1>3, HeadTailProperties DEF TypeOK, ControlType
  <2> QED BY <2>1 DEF TypeOK, QueuesType, Packet
<1>4. CASE HoldFragment
  <2>1. /\ Sending /\ at \in {"whole", "part"} /\ at' \in {"free", "whole", "part"}
        /\ OutOfCredits(Head(fragments))
        /\ UNCHANGED <<pendingQueue, senderCredits>>
    BY <1>4 DEF HoldFragment, Sending, FragmentDone, credits
  <2>2. pendingQueue # <<>>
    <3> SUFFICES ASSUME pendingQueue = <<>> PROVE FALSE
      OBVIOUS
    <3>1. holdingQueue = <<>> /\ senderCredits >= StartMTU
      BY <2>1 DEF StallInv
    <3>2. receiverCredits = PeerWindow
      BY <2>1, FullCredits
    <3>3. receiverCredits < Head(fragments) \/ senderCredits < Head(fragments)
      BY <2>1, <3>1 DEF OutOfCredits
    <3> QED BY <1>1, <1>3, <2>1, <3>1, <3>2, <3>3
  <2> QED BY <2>1, <2>2 DEF StallInv
<1>5. CASE AnySendFragment
  <2>1. /\ Sending
        /\ pendingQueue' = Append(pendingQueue, [tsn |-> outtsn, size |-> Head(fragments), gap |-> 0])
    BY <1>5 DEF AnySendFragment, SendFragment
  <2>2. pendingQueue' # <<>>
    BY <1>2, <1>3, <2>1
  <2> QED BY <2>2 DEF StallInv
<1>6. CASE AnyReceiveSack \/ ClearAcknowledged
  BY <1>6 DEF AnyReceiveSack, ReceiveSack, ClearAcknowledged, StallInv
<1>7. CASE CreditAcknowledged
  BY <1>1, <1>7 DEF CreditAcknowledged, StallInv, queues
<1>8. CASE Marking
  <2>1. pendingQueue # <<>> /\ pendingQueue' # <<>>
    <3>1. /\ frame.entry \in 1..Len(pendingQueue)
      BY <1>8, MarkingFact, CurrentFact
    <3>2. Len(pendingQueue') = Len(pendingQueue)
      BY <1>8, MarkingQueue
    <3> QED BY <1>1, <3>1, <3>2, EmptySeq
  <2> QED BY <2>1 DEF StallInv
<1>9. CASE FlushOne
  <2>1. /\ holdingQueue # <<>>
        /\ pendingQueue' = Append(pendingQueue, Head(holdingQueue))
    BY <1>9 DEF FlushOne, CanFlush
  <2>2. Head(holdingQueue) \in Packet
    BY <1>1, <2>1, HeadTailProperties
  <2>3. pendingQueue' # <<>>
    BY <1>2, <2>1, <2>2
  <2> QED BY <2>3 DEF StallInv
<1>10. CASE EndSack
  <2>1. /\ at = "flush" /\ ~CanFlush /\ at' = "free"
        /\ UNCHANGED <<pendingQueue, holdingQueue, senderCredits>>
    BY <1>10 DEF EndSack, queues, credits
  <2>2. pendingQueue = <<>> => holdingQueue = <<>>
    <3> SUFFICES ASSUME pendingQueue = <<>>, holdingQueue # <<>> PROVE FALSE
      OBVIOUS
    <3>1. Head(holdingQueue) \in Packet
      BY <1>1, HeadTailProperties
    <3>2. Head(holdingQueue).size \in 1..MaxPayload
      BY <3>1 DEF Packet
    <3>3. senderCredits >= StartMTU /\ receiverCredits = PeerWindow
      BY <2>1, FullCredits DEF StallInv
    <3> QED BY <1>1, <2>1, <3>2, <3>3 DEF CanFlush
  <2> QED BY <2>1, <2>2 DEF StallInv
<1>11. CASE OnTimeoutExpired
  <2>1. /\ pendingQueue # <<>> /\ UNCHANGED pendingQueue
    BY <1>11 DEF OnTimeoutExpired, queues
  <2> QED BY <2>1 DEF StallInv
<1>12. CASE EndResend
  <2>1. at = "resend" /\ UNCHANGED pendingQueue
    BY <1>12 DEF EndResend, queues
  <2> QED BY <2>1 DEF StallInv
<1>13. CASE \/ Application \/ CallbackStep \/ OnTimeout \/ OnTimeoutGiveUp
             \/ ReceiveHeartbeat \/ UNCHANGED vars
  <2>1. /\ UNCHANGED <<pendingQueue, holdingQueue, senderCredits>>
        /\ \/ UNCHANGED at
           \/ at = "free" /\ at' \in {"whole", "part"}
    BY <1>13 DEF Application, SendEx, CallbackStep, CallOnSendOK, ReturnOnSendOK,
       OnTimeout, OnTimeoutGiveUp, ReceiveHeartbeat, Tick, vars, queues, credits, control
  <2> QED BY <2>1 DEF StallInv
<1>14. CASE NextBlock \/ EndGaps
  <2>1. /\ UNCHANGED <<pendingQueue, senderCredits>>
        /\ at' \in {"gaps", "flush"} /\ at = "gaps"
    BY <1>14 DEF NextBlock, EndGaps, Walking, queues, credits
  <2> QED BY <2>1 DEF StallInv
<1> QED
  BY <1>4, <1>5, <1>6, <1>7, <1>8, <1>9, <1>10, <1>11, <1>12, <1>13, <1>14,
     NextCases DEF QuietStep

(* The inductive invariant of the association's sending half.              *)
IInv == /\ TypeOK /\ WindowConserved /\ ConsecutiveTsns /\ WindowFloors
        /\ BytesInv /\ StallInv

LEMMA Inductive ==
  /\ Init => IInv
  /\ IInv /\ [Next]_vars => IInv'
<1>1. Init => StallInv
  BY SmallestWindowFact DEF Init, StallInv
<1>2. Init => IInv
  BY <1>1, TypeInit, WindowInit, ConsecutiveInit, FloorsInit, BytesInit DEF IInv
<1>3. IInv /\ [Next]_vars => IInv'
  BY TypeNext, WindowNext, ConsecutiveNext, FloorsNext, BytesNext, StallNext DEF IInv
<1> QED BY <1>2, <1>3

(* STALL: packets are held back only while others are unacknowledged, for  *)
(* every window of the peer that takes a packet, after any timeouts, fast  *)
(* retransmissions and changes of mind of the peer.                        *)
THEOREM NoStallTheorem == Spec => []NoStall
<1>1. IInv => NoStall
  BY DEF IInv, StallInv, NoStall
<1> QED BY <1>1, Inductive, PTL DEF Spec

-----------------------------------------------------------------------------
(* SENDOK: an application that was told to wait is going to be called back *)
(* when the transport below never refuses a packet.                        *)
LEMMA SendOKNext ==
  ASSUME TransportBlocks = FALSE, TypeOK, SendOKInv, [Next]_vars
  PROVE  SendOKInv'
<1> USE DEF SendOKInv, SendOKComes
<1>1. CASE HoldFragment
  <2>1. /\ holdingQueue' # <<>> /\ UNCHANGED callback
        /\ at \in {"whole", "part"} /\ at' \in {"free", "whole", "part"}
    <3>1. ASSUME Sending
          PROVE [tsn |-> outtsn, size |-> Head(fragments), gap |-> 0] \in Packet
      <4>1. Head(fragments) \in 1..MaxPayload
        BY <3>1, HeadTailProperties DEF TypeOK, ControlType
      <4> QED BY <4>1 DEF TypeOK, QueuesType, Packet
    <3>2. /\ Sending /\ UNCHANGED callback
          /\ holdingQueue' = Append(holdingQueue, [tsn |-> outtsn, size |-> Head(fragments), gap |-> 0])
      BY <1>1 DEF HoldFragment
    <3>3. holdingQueue' # <<>>
      BY <3>1, <3>2, AppendProperties, EmptySeq DEF TypeOK, QueuesType
    <3> QED BY <1>1, <3>2, <3>3 DEF HoldFragment, Sending, FragmentDone
  <2> QED BY <2>1
<1>2. CASE AnySendFragment
  <2>1. PICK merged \in BOOLEAN, blocked \in BOOLEAN : SendFragment(merged, blocked)
    BY <1>2 DEF AnySendFragment
  <2>2. /\ at \in {"whole", "part"} /\ at' \in {"free", "whole", "part"}
        /\ UNCHANGED <<callback, holdingQueue>> /\ ~blocked
        /\ toldToWait' = FALSE \/ toldToWait' = toldToWait
    BY <2>1 DEF SendFragment, Sending, FragmentDone
  <2> QED BY <2>2
<1>3. CASE AnyReceiveSack
  BY <1>3 DEF AnyReceiveSack, ReceiveSack, queues, output
<1>4. CASE ClearAcknowledged \/ CreditAcknowledged
  BY <1>4 DEF ClearAcknowledged, CreditAcknowledged, queues, output
<1>5. CASE Marking
  BY <1>5, MarkingFact
<1>6. CASE FlushOne
  <2>1. /\ at = "flush" /\ holdingQueue # <<>>
        /\ UNCHANGED <<at, frame, callback, toldToWait>>
    BY <1>6 DEF FlushOne, CanFlush, control
  <2> QED BY <2>1
<1>7. CASE EndSack
  BY <1>7 DEF EndSack, queues
<1>8. CASE EndGaps
  <2>1. frame'.held = (holdingQueue # <<>>)
    BY <1>8, FrameUpdates DEF EndGaps, TypeOK, ControlType
  <2> QED BY <1>8, <2>1 DEF EndGaps, queues, output
<1>9. CASE NextBlock
  BY <1>9 DEF NextBlock, Walking, queues, output
<1>10. CASE Application \/ CallbackStep
  BY <1>10 DEF Application, SendEx, CallbackStep, CallOnSendOK, ReturnOnSendOK,
               queues, output, control
<1>11. CASE OnTimeout \/ OnTimeoutExpired \/ OnTimeoutGiveUp \/ ReceiveHeartbeat
  BY <1>11 DEF OnTimeout, OnTimeoutExpired, OnTimeoutGiveUp, ReceiveHeartbeat,
               Tick, queues, output, control
<1>12. CASE EndResend \/ UNCHANGED vars
  BY <1>12 DEF EndResend, vars, queues, output, control
<1> QED
  BY <1>1, <1>2, <1>3, <1>4, <1>5, <1>6, <1>7, <1>8, <1>9, <1>10, <1>11, <1>12,
     NextCases DEF QuietStep

(* SENDOK: where the transport never refuses a packet, being told to wait  *)
(* is always followed up.                                                  *)
THEOREM SendOKTheorem ==
  ASSUME TransportBlocks = FALSE
  PROVE  Spec => []SendOKComes
<1>1. Init => SendOKInv
  BY DEF Init, SendOKInv, SendOKComes
<1>2. TypeOK /\ SendOKInv /\ [Next]_vars => SendOKInv'
  BY SendOKNext
<1>3. SendOKInv => SendOKComes
  BY DEF SendOKInv
<1> QED BY <1>1, <1>2, <1>3, TypeCorrect, PTL DEF Spec
-----------------------------------------------------------------------------
(* The association.  The proofs about the receiver hold of the peer. *)
PP == INSTANCE SctpReceiverProofs WITH
        at <- pAt,
        Packets <- {<<t>> : t \in 1..MaxTsn},
        Length <- [t \in 1..MaxTsn |-> 1], Charge <- [t \in 1..MaxTsn |-> 1],
        UserResume <- FALSE, MayPause <- FALSE, MaxCalls <- MaxTsn + 1

LEMMA PeerAssumption == PP!ReceiverAssumption
<1>1. MaxTsn \in Nat /\ MaxTsn < 65536 /\ Capacity \in Nat /\ MaxTsn + 1 \in Nat
  BY CountsAssumption, LossAssumption
<1>2. {<<t>> : t \in 1..MaxTsn} \subseteq Seq(1..MaxTsn)
  <2>1. \A S : \A t \in S : <<t>> \in Seq(S)
    OBVIOUS
  <2> QED BY <2>1, Zenon
<1> QED BY <1>1, <1>2 DEF PP!Tsn

(* The offsets of a gap block are the same 16 bits on both sides.  (They   *)
(* are given by their bound k, which the provers need not count up to.)    *)
LEMMA BlockIs ==
  \E k \in Nat : Block = [first: 0..k, last: 0..k] /\ PP!Offsets = 0..k
<1> DEFINE k == 65535
<1>1. k \in Nat /\ k = 65535
  OBVIOUS
<1>2. \A m : m = 65535 => Block = [first: 0..m, last: 0..m]
  BY DEF Block
<1>3. \A m : m = 65535 => PP!Offsets = 0..m
  BY DEF PP!Offsets, PP!Word
<1> HIDE DEF k
<1> QED BY <1>1, <1>2, <1>3

(* What the sender sent.  The peer's SACKs say nothing of other chunks, and *)
(* the marks of the sender are true.                                        *)
Numbers == 1..(outtsn - 1)
Reports(cum, block) == Peer!Reported(cum, block) \subseteq arrived

SentInv ==
  /\ outtsn + Len(fragments) - 1 <= MaxTsn
  /\ wire \subseteq Numbers /\ rpacket \subseteq Numbers /\ arrived \subseteq Numbers
  /\ \A i \in 1..Len(holdingQueue) : holdingQueue[i].gap = 0
  /\ \A i \in 1..Len(frame.gaps) : Reports(frame.cum, frame.gaps[i])
  /\ GapAckedArrived

PeerInv == PP!TypeInv /\ PP!ArrivedInv /\ PP!GapsInv /\ PP!OrderInv
AssociationInv == TypeOK /\ ConsecutiveTsns /\ SentInv /\ PeerInv

(* The numbers used grow with the next one. *)
LEMMA NumbersGrow ==
  ASSUME NEW n \in Nat, NEW m \in {n, n + 1}
  PROVE  /\ 1..(n - 1) \subseteq 1..(m - 1)
         /\ m = n + 1 => 1..(m - 1) \subseteq 1..(n - 1) \union {n}
         /\ m = n + 1 /\ n # 0 => n \in 1..(m - 1)
<1>1. CASE m = n
  BY <1>1
<1>2. CASE m = n + 1
  <2>1. m - 1 = n
    BY <1>2
  <2> QED BY <2>1
<1> QED BY <1>1, <1>2

(* The packets in the queues have been numbered. *)
LEMMA QueuesSent ==
  ASSUME TypeOK, ConsecutiveTsns
  PROVE  /\ \A i \in 1..Len(pendingQueue) : pendingQueue[i].tsn \in Numbers
         /\ \A i \in 1..Len(holdingQueue) : holdingQueue[i].tsn \in Numbers
<1>1. /\ outtsn \in Nat \ {0} /\ Len(pendingQueue) \in Nat /\ Len(holdingQueue) \in Nat
      /\ \A i \in 1..Len(pendingQueue) : pendingQueue[i] \in Packet
      /\ \A i \in 1..Len(holdingQueue) : holdingQueue[i] \in Packet
  BY LenProperties, ElementOfSeq DEF TypeOK, QueuesType
<1>2. ASSUME NEW i \in 1..Len(pendingQueue) PROVE pendingQueue[i].tsn \in Numbers
  <2>1. /\ pendingQueue[i].tsn \in Nat \ {0}
        /\ pendingQueue[i].tsn = (outtsn - Len(holdingQueue) - Len(pendingQueue)) + i - 1
    BY <1>1 DEF Packet, ConsecutiveTsns, TsnRun
  <2> QED BY <1>1, <2>1 DEF Numbers
<1>3. ASSUME NEW i \in 1..Len(holdingQueue) PROVE holdingQueue[i].tsn \in Numbers
  <2>1. /\ holdingQueue[i].tsn \in Nat \ {0}
        /\ holdingQueue[i].tsn = (outtsn - Len(holdingQueue)) + i - 1
    BY <1>1 DEF Packet, ConsecutiveTsns, TsnRun
  <2> QED BY <1>1, <2>1 DEF Numbers
<1> QED BY <1>2, <1>3

(* The parts of SentInv that a step of the sender may disturb, one by one. *)
SenderStep ==
  \/ Application \/ UserStep \/ SackStep \/ CallbackStep \/ TimerStep \/ ReceiveHeartbeat

LEMMA SenderStepNext == SenderStep => Next
BY DEF SenderStep, Next, PeerStep

(* The gap blocks under examination stay. *)
LEMMA FrameGaps ==
  ASSUME TypeOK, SenderStep
  PROVE  (frame'.cum = frame.cum /\ frame'.gaps = frame.gaps) \/ frame' = NoFrame
<1>1. frame \in Frame
  BY DEF TypeOK, ControlType
<1>2. CASE Application \/ UserStep
  BY <1>2 DEF Application, SendEx, UserStep, HoldFragment, SendFragment
<1>3. CASE ClearAcknowledged \/ NextBlock \/ EndGaps \/ ResendOne
  BY <1>1, <1>3 DEF Frame, ClearAcknowledged, NextBlock, EndGaps, ResendOne
<1>4. CASE GapAcknowledge \/ CountMissing \/ FastRetransmit \/ MarkLost \/ RetransmitMarked
  BY <1>1, <1>4 DEF Frame, GapAcknowledge, CountMissing, FastRetransmit, MarkLost,
                    RetransmitMarked, NextEntry
<1>5. CASE CreditAcknowledged \/ FlushOne \/ CallbackStep \/ ReceiveHeartbeat
           \/ OnTimeout \/ OnTimeoutExpired \/ OnTimeoutGiveUp
  BY <1>5 DEF CreditAcknowledged, FlushOne, CallbackStep, CallOnSendOK, ReturnOnSendOK,
              ReceiveHeartbeat, OnTimeout, OnTimeoutExpired, OnTimeoutGiveUp, control
<1>6. CASE EndSack \/ EndResend
  BY <1>6 DEF EndSack, EndResend
<1> QED BY <1>2, <1>3, <1>4, <1>5, <1>6 DEF SenderStep, SackStep, TimerStep

LEMMA SentFrame ==
  ASSUME TypeOK, SentInv, SenderStep, arrived' = arrived
  PROVE  \A i \in 1..Len(frame'.gaps) : Reports(frame.cum, frame.gaps[i])'
<1>1. CASE frame' = NoFrame
  <2>1. frame'.gaps = <<>> /\ Len(<<>>) = 0
    BY <1>1 DEF NoFrame
  <2> QED BY <2>1
<1>2. CASE frame'.cum = frame.cum /\ frame'.gaps = frame.gaps
  BY <1>2 DEF SentInv, Reports, Peer!Reported
<1> QED BY <1>1, <1>2, FrameGaps

(* TSNs are numbered as fragments leave, and sent with the number.         *)
LEMMA SentNumbers ==
  ASSUME TypeOK, ConsecutiveTsns, SentInv, SenderStep
  PROVE  /\ outtsn' + Len(fragments') - 1 <= MaxTsn
         /\ outtsn <= outtsn' /\ outtsn' \in {outtsn, outtsn + 1}
         /\ wire' \subseteq 1..(outtsn' - 1) /\ rpacket' \subseteq 1..(outtsn' - 1)
<1>1. /\ outtsn \in Nat \ {0} /\ MaxTsn \in Nat /\ outtsn + Len(fragments) - 1 <= MaxTsn
      /\ wire \subseteq 1..(outtsn - 1) /\ rpacket \subseteq 1..(outtsn - 1)
      /\ fragments \in Seq(1..MaxPayload)
  BY CountsAssumption DEF TypeOK, QueuesType, ControlType, SentInv, Numbers
<1>2. CASE Application
  <2>1. PICK message \in Messages : SendEx(message)
    BY <1>2 DEF Application
  <2> QED BY <1>1, <2>1 DEF SendEx, output
<1>3. CASE UserStep
  <2>1. /\ Sending /\ fragments' = Tail(fragments) /\ outtsn' = outtsn + 1
        /\ wire' \subseteq wire \union {outtsn} /\ rpacket' \subseteq rpacket \union {outtsn}
    BY <1>3 DEF UserStep, HoldFragment, SendFragment, FragmentDone
  <2>2. fragments # <<>>
    BY <2>1 DEF TypeOK, ControlType
  <2>3. Len(fragments') = Len(fragments) - 1 /\ Len(fragments) \in Nat
    BY <1>1, <2>1, <2>2, HeadTailProperties, LenProperties
  <2>4. outtsn' + Len(fragments') - 1 <= MaxTsn
    <3>1. \A a, b, c, d, m \in Int : a + c - 1 <= m /\ b = a + 1 /\ d = c - 1
                                     => b + d - 1 <= m
      OBVIOUS
    <3>2. /\ outtsn \in Int /\ outtsn' \in Int /\ MaxTsn \in Int /\ outtsn' = outtsn + 1
          /\ Len(fragments) \in Int /\ Len(fragments') \in Int
          /\ outtsn + Len(fragments) - 1 <= MaxTsn
      BY <1>1, <2>1, <2>3
    <3> QED BY <2>3, <3>1, <3>2
  <2>5. 1..(outtsn - 1) \subseteq 1..(outtsn' - 1) /\ outtsn \in 1..(outtsn' - 1)
    BY <1>1, <2>1, NumbersGrow
  <2>6. wire' \subseteq 1..(outtsn' - 1) /\ rpacket' \subseteq 1..(outtsn' - 1)
    BY <1>1, <2>1, <2>5, Zenon
  <2>7. outtsn <= outtsn' /\ outtsn' \in {outtsn, outtsn + 1}
    <3>1. \A a \in Nat : \A b : b = a + 1 => a <= b
      OBVIOUS
    <3>2. outtsn' = outtsn + 1 /\ outtsn \in Nat
      BY <1>1, <2>1
    <3> QED BY <3>1, <3>2
  <2> QED BY <2>4, <2>6, <2>7, Zenon
<1>4. CASE Marking
  <2>1. UNCHANGED <<outtsn, fragments, rpacket>> /\ wire' \subseteq wire \union {Current.tsn}
    BY <1>4 DEF Marking, GapAcknowledge, CountMissing, FastRetransmit, MarkLost,
                RetransmitMarked, ResendOne, NextEntry
  <2>2. Current.tsn \in 1..(outtsn - 1)
    BY <1>4, MarkingFact, CurrentFact, QueuesSent DEF Current, Numbers
  <2> QED BY <1>1, <2>1, <2>2
<1>5. CASE FlushOne
  <2>1. /\ UNCHANGED <<outtsn, fragments, rpacket>> /\ holdingQueue # <<>>
        /\ wire' = wire \union {Head(holdingQueue).tsn}
    BY <1>5 DEF FlushOne, CanFlush, control
  <2>2. Head(holdingQueue) = holdingQueue[1] /\ 1 \in 1..Len(holdingQueue)
    BY <2>1, HeadTailProperties, LenProperties, EmptySeq DEF TypeOK, QueuesType
  <2>3. \A i \in 1..Len(holdingQueue) : holdingQueue[i].tsn \in 1..(outtsn - 1)
    BY QueuesSent DEF Numbers
  <2>4. Head(holdingQueue).tsn \in 1..(outtsn - 1)
    BY <2>2, <2>3, Zenon
  <2>5. wire' \subseteq 1..(outtsn - 1)
    BY <1>1, <2>1, <2>4, Zenon
  <2> QED BY <1>1, <2>1, <2>5
<1>6. CASE CallbackStep
  <2>1. UNCHANGED <<outtsn, fragments>> /\ wire' \subseteq wire \union rpacket
        /\ rpacket' \subseteq rpacket
    BY <1>6 DEF CallbackStep, CallOnSendOK, ReturnOnSendOK, control
  <2> QED BY <1>1, <2>1
<1>7. CASE ClearAcknowledged \/ CreditAcknowledged \/ NextBlock \/ EndGaps \/ EndSack
           \/ EndResend \/ OnTimeout \/ OnTimeoutExpired \/ OnTimeoutGiveUp \/ ReceiveHeartbeat
  <2>1. UNCHANGED <<outtsn, fragments, wire, rpacket>>
    BY <1>7 DEF ClearAcknowledged, CreditAcknowledged, NextBlock, EndGaps, EndSack,
                EndResend, OnTimeout, OnTimeoutExpired, OnTimeoutGiveUp, ReceiveHeartbeat,
                output, control
  <2> QED BY <1>1, <2>1
<1> QED BY <1>2, <1>3, <1>4, <1>5, <1>6, <1>7
        DEF SenderStep, SackStep, TimerStep, Marking

(* The marks.  A packet is marked as received where a gap block covers it. *)
LEMMA CoveredArrived ==
  ASSUME TypeOK, ConsecutiveTsns, SentInv, Covered, ~Missing
  PROVE  Current.tsn \in arrived
<1>1. /\ frame.entry \in 1..Len(pendingQueue) /\ Current.tsn \in Numbers
    BY CurrentFact, QueuesSent DEF Covered, Walking, Current
<1>2. /\ frame.block \in 1..Len(frame.gaps) /\ frame.cum \in Nat
      /\ frame.gaps[frame.block] \in Block
    BY ElementOfSeq, LenProperties DEF Covered, Walking, TypeOK, ControlType, Frame
<1>3. /\ frame.cum + frame.gaps[frame.block].first \in Nat
      /\ frame.gaps[frame.block].first \in Nat /\ frame.gaps[frame.block].last \in Nat
    <2>1. \A b \in Block : b.first \in Nat /\ b.last \in Nat
        <3>1. PICK k \in Nat : Block = [first: 0..k, last: 0..k]
            BY BlockIs
        <3> QED BY <3>1
    <2>2. /\ frame.gaps[frame.block].first \in Nat
          /\ frame.gaps[frame.block].last \in Nat
        BY <1>2, <2>1, Zenon
    <2> QED BY <1>2, <2>2
<1>4. /\ Current.tsn <= frame.cum + frame.gaps[frame.block].last
      /\ frame.cum + frame.gaps[frame.block].first <= Current.tsn
    BY <1>1, <1>3 DEF Covered, Missing, BlockFirst, BlockLast, Numbers
<1>5. Current.tsn \in 1..MaxTsn
    <2>1. outtsn - 1 <= MaxTsn /\ outtsn \in Nat /\ MaxTsn \in Nat
        <3>1. /\ Len(fragments) \in Nat /\ outtsn \in Nat /\ MaxTsn \in Nat
              /\ outtsn + Len(fragments) - 1 <= MaxTsn
            BY CountsAssumption, LenProperties
               DEF SentInv, TypeOK, ControlType, QueuesType
        <3> QED BY <3>1
    <2> QED BY <1>1, <2>1 DEF Numbers
<1> QED BY <1>2, <1>4, <1>5 DEF SentInv, Reports, Peer!Reported, Peer!Tsn

LEMMA MarkRight ==
  ASSUME TypeOK, SentInv, NEW j \in 1..Len(pendingQueue), NEW g \in 0..255,
         pendingQueue' = Mark(pendingQueue, j, g), arrived' = arrived,
         g = GapAcked => pendingQueue[j].tsn \in arrived
  PROVE  GapAckedArrived'
<1>1. /\ pendingQueue \in Seq(Packet)
      /\ \A i \in 1..Len(pendingQueue) : pendingQueue[i] \in Packet
    BY ElementOfSeq DEF TypeOK, QueuesType
<1> DEFINE e == Marked(pendingQueue[j], g)
<1>2. e \in Packet /\ e.tsn = pendingQueue[j].tsn /\ e.gap = g
    BY <1>1 DEF Packet, Marked
<1>3. pendingQueue' = [pendingQueue EXCEPT ![j] = e]
    BY DEF Mark
<1> HIDE DEF e
<1>4. /\ Len(pendingQueue') = Len(pendingQueue)
      /\ \A i \in 1..Len(pendingQueue) : pendingQueue'[i] = IF i = j THEN e ELSE pendingQueue[i]
    BY <1>1, <1>2, <1>3, ExceptSeq
<1>5. ASSUME NEW i \in 1..Len(pendingQueue'), pendingQueue'[i].gap = GapAcked
      PROVE  pendingQueue'[i].tsn \in arrived
    <2>1. CASE i = j
        BY <1>2, <1>4, <1>5, <2>1
    <2>2. CASE i # j
        <3>1. pendingQueue'[i] = pendingQueue[i] /\ i \in 1..Len(pendingQueue)
            BY <1>4, <1>5, <2>2
        <3> QED BY <1>5, <3>1 DEF SentInv, GapAckedArrived
    <2> QED BY <2>1, <2>2
<1> QED BY <1>5 DEF GapAckedArrived

(* A packet that joins the queue has no mark yet. *)
LEMMA JoinRight ==
  ASSUME TypeOK, SentInv, NEW p, pendingQueue' = Append(pendingQueue, p),
         p \in Packet, p.gap = 0, arrived' = arrived
  PROVE  GapAckedArrived'
<1>1. pendingQueue \in Seq(Packet)
    BY DEF TypeOK, QueuesType
<1>2. /\ Len(pendingQueue') = Len(pendingQueue) + 1 /\ Len(pendingQueue) \in Nat
      /\ \A i \in 1..Len(pendingQueue) : pendingQueue'[i] = pendingQueue[i]
      /\ pendingQueue'[Len(pendingQueue) + 1] = p
    BY <1>1, AppendProperties, LenProperties
<1>3. ASSUME NEW i \in 1..Len(pendingQueue'), pendingQueue'[i].gap = GapAcked
      PROVE  pendingQueue'[i].tsn \in arrived
    <2>1. i # Len(pendingQueue) + 1
        BY <1>2, <1>3 DEF GapAcked
    <2>2. i \in 1..Len(pendingQueue) /\ pendingQueue'[i] = pendingQueue[i]
        BY <1>2, <2>1
    <2> QED BY <1>3, <2>2 DEF SentInv, GapAckedArrived
<1> QED BY <1>3 DEF GapAckedArrived

LEMMA SentMarks ==
  ASSUME TypeOK, ConsecutiveTsns, SentInv, SenderStep, arrived' = arrived
  PROVE  GapAckedArrived' /\ \A i \in 1..Len(holdingQueue') : holdingQueue'[i].gap = 0
<1>1. /\ pendingQueue \in Seq(Packet) /\ holdingQueue \in Seq(Packet)
      /\ \A i \in 1..Len(holdingQueue) : holdingQueue[i].gap = 0
    BY DEF TypeOK, QueuesType, SentInv
<1> DEFINE p == [tsn |-> outtsn, size |-> Head(fragments), gap |-> 0]
<1>2. ASSUME Sending PROVE p \in Packet /\ p.gap = 0
  <2>1. Head(fragments) \in 1..MaxPayload
    BY <1>2, HeadTailProperties DEF TypeOK, ControlType
  <2> QED BY <2>1 DEF TypeOK, QueuesType, Packet
<1> HIDE DEF p
<1>3. ASSUME UNCHANGED pendingQueue PROVE GapAckedArrived'
    BY <1>3 DEF SentInv, GapAckedArrived
<1>4. ASSUME UNCHANGED holdingQueue
      PROVE  \A i \in 1..Len(holdingQueue') : holdingQueue'[i].gap = 0
    BY <1>1, <1>4
<1>5. CASE HoldFragment
    <2>1. Sending /\ holdingQueue' = Append(holdingQueue, p) /\ UNCHANGED pendingQueue
        BY <1>5 DEF HoldFragment, p
    <2>2. /\ Len(holdingQueue') = Len(holdingQueue) + 1 /\ Len(holdingQueue) \in Nat
          /\ \A i \in 1..Len(holdingQueue) : holdingQueue'[i] = holdingQueue[i]
          /\ holdingQueue'[Len(holdingQueue) + 1] = p
        BY <1>1, <1>2, <2>1, AppendProperties, LenProperties
    <2> QED BY <1>1, <1>2, <1>3, <2>1, <2>2
<1>6. CASE AnySendFragment
    <2>1. Sending /\ pendingQueue' = Append(pendingQueue, p) /\ UNCHANGED holdingQueue
        BY <1>6 DEF AnySendFragment, SendFragment, p
    <2> QED BY <1>2, <1>4, <2>1, JoinRight
<1>7. CASE ClearAcknowledged
    <2>1. pendingQueue # <<>> /\ pendingQueue' = Tail(pendingQueue) /\ UNCHANGED holdingQueue
        BY <1>7 DEF ClearAcknowledged, Acknowledged
    <2>2. \A i \in 1..Len(pendingQueue') : /\ i + 1 \in 1..Len(pendingQueue)
                                           /\ pendingQueue'[i] = pendingQueue[i + 1]
        BY <1>1, <2>1, HeadTailProperties, LenProperties
    <2>3. GapAckedArrived'
        BY <2>2 DEF SentInv, GapAckedArrived
    <2> QED BY <1>4, <2>1, <2>3
<1>8. CASE FlushOne
    <2>1. /\ holdingQueue # <<>> /\ holdingQueue' = Tail(holdingQueue)
          /\ pendingQueue' = Append(pendingQueue, Head(holdingQueue))
        BY <1>8 DEF FlushOne, CanFlush
    <2>2. /\ Head(holdingQueue) \in Packet /\ Head(holdingQueue) = holdingQueue[1]
          /\ 1 \in 1..Len(holdingQueue)
          /\ \A i \in 1..Len(holdingQueue') : /\ i + 1 \in 1..Len(holdingQueue)
                                              /\ holdingQueue'[i] = holdingQueue[i + 1]
        BY <1>1, <2>1, HeadTailProperties, LenProperties
    <2>3. GapAckedArrived'
        BY <1>1, <2>1, <2>2, JoinRight
    <2> QED BY <1>1, <2>2, <2>3
<1>9. CASE GapAcknowledge
    <2>1. /\ Covered /\ ~Missing /\ frame.entry <= Len(pendingQueue)
          /\ pendingQueue' = Mark(pendingQueue, frame.entry, GapAcked)
          /\ UNCHANGED holdingQueue
        BY <1>9 DEF GapAcknowledge, NextEntry, Covered, Walking
    <2>2. frame.entry \in 1..Len(pendingQueue) /\ pendingQueue[frame.entry].tsn \in arrived
        BY <2>1, CurrentFact, CoveredArrived DEF Current
    <2>3. GapAcked \in 0..255
        BY DEF GapAcked
    <2> QED BY <1>4, <2>1, <2>2, <2>3, MarkRight
<1>10. CASE Marking /\ ~GapAcknowledge
    <2>1. /\ UNCHANGED holdingQueue /\ frame.entry \in 1..Len(pendingQueue)
          /\ Counter \in 0..255
        BY <1>10, MarkingFact, CurrentFact
    <2>2. 0 \in 0..255 /\ 0 # GapAcked /\ Retransmit \in 0..255 /\ Retransmit # GapAcked
        BY DEF GapAcked, Retransmit
    <2>3. \/ UNCHANGED pendingQueue
          \/ \E g \in 0..255 : /\ g # GapAcked
                              /\ pendingQueue' = Mark(pendingQueue, frame.entry, g)
        <3>1. CASE CountMissing
            <4>1. Counter < FastRetryGap
                  /\ pendingQueue' = Mark(pendingQueue, frame.entry, Counter)
                BY <3>1 DEF CountMissing, NextEntry
            <4>2. Counter # GapAcked
                BY <2>1, <4>1, CountsAssumption DEF GapAcked
            <4> QED BY <2>1, <4>1, <4>2
        <3>2. CASE FastRetransmit \/ MarkLost \/ RetransmitMarked
            <4>1. pendingQueue' = Mark(pendingQueue, frame.entry, Retransmit)
                BY <3>2 DEF FastRetransmit, MarkLost, RetransmitMarked, NextEntry
            <4> QED BY <2>2, <4>1
        <3>3. CASE ResendOne
            <4>1. \/ UNCHANGED pendingQueue
                  \/ pendingQueue' = Mark(pendingQueue, frame.entry, 0)
                  \/ pendingQueue' = Mark(pendingQueue, frame.entry, Retransmit)
                BY <3>3 DEF ResendOne
            <4> QED BY <2>2, <4>1
        <3> QED BY <1>10, <3>1, <3>2, <3>3 DEF Marking
    <2>4. CASE UNCHANGED pendingQueue
        BY <1>3, <1>4, <2>1, <2>4
    <2>5. ASSUME NEW g \in 0..255, g # GapAcked,
                 pendingQueue' = Mark(pendingQueue, frame.entry, g)
          PROVE  GapAckedArrived'
        BY <2>1, <2>5, MarkRight
    <2> QED BY <1>4, <2>1, <2>3, <2>4, <2>5
<1>11. CASE QuietStep \/ CreditAcknowledged
    <2>1. UNCHANGED <<pendingQueue, holdingQueue>>
        BY <1>11, QuietStepFact DEF CreditAcknowledged, queues
    <2> QED BY <1>3, <1>4, <2>1
<1> QED BY <1>5, <1>6, <1>7, <1>8, <1>9, <1>10, <1>11
        DEF SenderStep, UserStep, SackStep, TimerStep, AnySendFragment, Marking, QuietStep

LEMMA SenderKeeps ==
  ASSUME TypeOK, ConsecutiveTsns, SentInv, SenderStep, arrived' = arrived
  PROVE  TypeOK' /\ ConsecutiveTsns' /\ SentInv'
<1>1. [Next]_vars
    BY SenderStepNext
<1>2. TypeOK' /\ ConsecutiveTsns'
    BY <1>1, TypeNext, ConsecutiveNext
<1>3. /\ outtsn' + Len(fragments') - 1 <= MaxTsn
      /\ wire' \subseteq Numbers' /\ rpacket' \subseteq Numbers' /\ arrived' \subseteq Numbers'
    <2>1. outtsn \in Nat /\ outtsn' \in {outtsn, outtsn + 1} /\ arrived \subseteq 1..(outtsn - 1)
        BY SentNumbers DEF TypeOK, QueuesType, SentInv, Numbers
    <2>2. 1..(outtsn - 1) \subseteq 1..(outtsn' - 1)
        BY <2>1, NumbersGrow
    <2> QED BY <2>1, <2>2, SentNumbers DEF Numbers
<1> QED BY <1>2, <1>3, SentFrame, SentMarks DEF SentInv

-----------------------------------------------------------------------------
(* The peer's steps are steps of the receiver proved about. *)
LEMMA PeerMin == \A S : Peer!Min(S) = PP!Min(S)
BY DEF Peer!Min, PP!Min
LEMMA PeerSum == \A f, S : Peer!SumFunctionOnSet(f, S) = PP!SumFunctionOnSet(f, S)
BY DEF Peer!SumFunctionOnSet, PP!SumFunctionOnSet, Peer!FoldFunctionOnSet,
       PP!FoldFunctionOnSet, Peer!MapThenFoldSet, PP!MapThenFoldSet
LEMMA PeerForward == \A n, hold : Peer!Forward(n, hold) = PP!Forward(n, hold)
BY DEF Peer!Forward, PP!Forward
LEMMA PeerMoveTsn == \A n, hold : Peer!MoveTsn(n, hold) = PP!MoveTsn(n, hold)
BY PeerMin, PeerForward DEF Peer!MoveTsn, PP!MoveTsn
LEMMA PeerSack == \A cum, user, hold : Peer!Sack(cum, user, hold) = PP!Sack(cum, user, hold)
<1> SUFFICES ASSUME NEW cum, NEW user, NEW hold
             PROVE  Peer!Sack(cum, user, hold) = PP!Sack(cum, user, hold)
  OBVIOUS
<1> DEFINE length == [t \in 1..MaxTsn |-> 1]
           beyond == {t \in hold : t > user}
           starts == {t \in beyond : t - 1 \notin beyond}
           twice1 == IF starts = {} THEN {} ELSE starts \ {Peer!Min(starts)}
           twice2 == IF starts = {} THEN {} ELSE starts \ {PP!Min(starts)}
           bytes1 == Peer!SumFunctionOnSet(length, beyond)
                       + Peer!SumFunctionOnSet(length, twice1)
           bytes2 == PP!SumFunctionOnSet(length, beyond)
                       + PP!SumFunctionOnSet(length, twice2)
           blocks1 == {[first |-> Peer!Offset(s, cum),
                        last  |-> Peer!Offset(Peer!Forward(s, beyond), cum)] : s \in starts}
           blocks2 == {[first |-> PP!Offset(s, cum),
                        last  |-> PP!Offset(PP!Forward(s, beyond), cum)] : s \in starts}
<1>1. Peer!Sack(cum, user, hold) =
        [cum |-> cum, blocks |-> blocks1, rwnd |-> Capacity - Peer!Min({bytes1, Capacity})]
  BY DEF Peer!Sack
<1>2. PP!Sack(cum, user, hold) =
        [cum |-> cum, blocks |-> blocks2, rwnd |-> Capacity - PP!Min({bytes2, Capacity})]
  BY DEF PP!Sack
<1>3. twice1 = twice2
  BY PeerMin
<1>4. bytes1 = bytes2
  <2> HIDE DEF length, beyond, twice1, twice2
  <2> QED BY <1>3, PeerSum
<1>5. blocks1 = blocks2
  <2> DEFINE block1(s) == [first |-> Peer!Offset(s, cum),
                           last  |-> Peer!Offset(Peer!Forward(s, beyond), cum)]
             block2(s) == [first |-> PP!Offset(s, cum),
                           last  |-> PP!Offset(PP!Forward(s, beyond), cum)]
  <2>1. \A s : block1(s) = block2(s)
    BY PeerForward DEF Peer!Offset, PP!Offset, Peer!Word, PP!Word
  <2>2. blocks1 = {block1(s) : s \in starts} /\ blocks2 = {block2(s) : s \in starts}
    OBVIOUS
  <2> HIDE DEF block1, block2, starts, blocks1, blocks2
  <2> QED BY <2>1, <2>2
<1>6. Peer!Min({bytes1, Capacity}) = PP!Min({bytes2, Capacity})
  <2> HIDE DEF bytes1, bytes2
  <2> QED BY <1>4, PeerMin
<1> HIDE DEF blocks1, blocks2, bytes1, bytes2
<1> QED BY <1>1, <1>2, <1>5, <1>6
LEMMA PeerAcknowledge == \A hold : Peer!Acknowledge(hold) <=> PP!Acknowledge(hold)
BY PeerSack DEF Peer!Acknowledge, PP!Acknowledge
LEMMA PeerHolds ==
  \A t : Peer!AddPacketToHoldingQueue(t) <=> PP!AddPacketToHoldingQueue(t)
BY PeerAcknowledge DEF Peer!AddPacketToHoldingQueue, PP!AddPacketToHoldingQueue,
   Peer!Full, PP!Full, Peer!ChargeOnce, PP!ChargeOnce

LEMMA PeerIsReceiver ==
  /\ Peer!Init <=> PP!Init
  /\ Peer!ChunkStep <=> PP!ChunkStep
  /\ \A packet : Peer!ReceivePacket(packet) <=> PP!ReceivePacket(packet)
  /\ \A cum, block : Peer!Reported(cum, block) = PP!Reported(cum, block)
<1>1. Peer!Init <=> PP!Init
  BY DEF Peer!Init, PP!Init, Peer!NoSack, PP!NoSack
<1>2. \A packet : Peer!ReceivePacket(packet) <=> PP!ReceivePacket(packet)
  BY DEF Peer!ReceivePacket, PP!ReceivePacket, Peer!ChainRuns, PP!ChainRuns,
         Peer!NoSack, PP!NoSack, Peer!Range, PP!Range, Peer!receive,
         PP!receive, Peer!resume, PP!resume
<1>3. \A cum, block : Peer!Reported(cum, block) = PP!Reported(cum, block)
  BY DEF Peer!Reported, PP!Reported, Peer!Tsn, PP!Tsn
<1>4. Peer!ChunkStep <=> PP!ChunkStep
  <2>1. Peer!TossDuplicate <=> PP!TossDuplicate
    BY PeerAcknowledge DEF 
           Peer!TossDuplicate, PP!TossDuplicate, Peer!Parsing, PP!Parsing,
           Peer!ChainRuns, PP!ChainRuns, Peer!NextChunk, PP!NextChunk,
           Peer!receive, PP!receive, Peer!resume, PP!resume, Peer!history,
           PP!history
  <2>2. Peer!BufferOutOfOrder <=> PP!BufferOutOfOrder
    BY PeerHolds DEF 
           Peer!BufferOutOfOrder, PP!BufferOutOfOrder, Peer!Parsing,
           PP!Parsing, Peer!ChainRuns, PP!ChainRuns, Peer!NextChunk,
           PP!NextChunk, Peer!resume, PP!resume, Peer!history, PP!history
  <2>3. Peer!BufferInOrder <=> PP!BufferInOrder
    BY PeerHolds, PeerMoveTsn DEF 
           Peer!BufferInOrder, PP!BufferInOrder, Peer!Parsing, PP!Parsing,
           Peer!ChainRuns, PP!ChainRuns, Peer!NextChunk, PP!NextChunk,
           Peer!resume, PP!resume, Peer!history, PP!history, Peer!MustBuffer,
           PP!MustBuffer
  <2>4. Peer!AcceptInOrder <=> PP!AcceptInOrder
    BY PeerAcknowledge, PeerMoveTsn DEF 
           Peer!AcceptInOrder, PP!AcceptInOrder, Peer!Parsing, PP!Parsing,
           Peer!ChainRuns, PP!ChainRuns, Peer!resume, PP!resume, Peer!history,
           PP!history, Peer!MustBuffer, PP!MustBuffer
  <2>5. Peer!Deliver <=> PP!Deliver
    BY DEF Peer!Deliver, PP!Deliver, Peer!ChainRuns, PP!ChainRuns,
           Peer!receive, PP!receive, Peer!resume, PP!resume
  <2>6. Peer!Return <=> PP!Return
    BY DEF Peer!Return, PP!Return, Peer!ChainRuns, PP!ChainRuns,
           Peer!NextChunk, PP!NextChunk, Peer!receive, PP!receive,
           Peer!resume, PP!resume, Peer!history, PP!history
  <2>7. Peer!PullNext <=> PP!PullNext
    BY PeerMin DEF 
           Peer!PullNext, PP!PullNext, Peer!ChainRuns, PP!ChainRuns,
           Peer!CanPull, PP!CanPull, Peer!resume, PP!resume, Peer!history,
           PP!history
  <2>8. Peer!PullReturn <=> PP!PullReturn
    BY DEF Peer!PullReturn, PP!PullReturn, Peer!ChainRuns, PP!ChainRuns,
           Peer!resume, PP!resume
  <2>9. Peer!EndPull <=> PP!EndPull
    BY PeerMin DEF 
           Peer!EndPull, PP!EndPull, Peer!ChainRuns, PP!ChainRuns,
           Peer!CanPull, PP!CanPull, Peer!NextChunk, PP!NextChunk,
           Peer!resume, PP!resume, Peer!history, PP!history
  <2>10. Peer!EndPacket <=> PP!EndPacket
    BY DEF Peer!EndPacket, PP!EndPacket, Peer!ChainRuns, PP!ChainRuns,
           Peer!receive, PP!receive, Peer!resume, PP!resume, Peer!NoSack,
           PP!NoSack
  <2> QED BY <2>1, <2>2, <2>3, <2>4, <2>5, <2>6, <2>7, <2>8, <2>9, <2>10
          DEF Peer!ChunkStep, PP!ChunkStep
<1> QED BY <1>1, <1>2, <1>3, <1>4

LEMMA PeerKeeps ==
  ASSUME PeerInv, PP!ChainOnly
  PROVE  /\ PeerInv'
         /\ \/ UNCHANGED delivered
            \/ /\ Len(delivered) + 1 \in arrived
               /\ delivered' = Append(delivered, Len(delivered) + 1)
<1>1. [PP!Next]_(PP!vars)
  BY DEF PP!ChainOnly, PP!Next
<1>2. PP!TypeInv /\ PP!ArrivedInv /\ PP!GapsInv /\ PP!OrderInv
  BY DEF PeerInv
<1>3. PP!TypeInv' /\ PP!ArrivedInv'
  BY <1>1, <1>2, PP!StepType, PP!StepArrived, PeerAssumption
     DEF PP!ReceiverAssumption
<1>4. PP!GapsInv' /\ PP!OrderInv'
  BY <1>1, <1>2, <1>3, PP!StepGaps, PP!StepOrder, PeerAssumption
     DEF PP!ReceiverAssumption
<1>5. \/ UNCHANGED delivered
      \/ /\ Len(delivered) + 1 \in arrived
         /\ delivered' = Append(delivered, Len(delivered) + 1)
  BY <1>2, PP!NextDelivered, PeerAssumption
     DEF PP!ReceiverAssumption
<1> QED BY <1>3, <1>4, <1>5 DEF PeerInv

LEMMA PeerSackGone ==
  ASSUME PeerInv, sacked' \subseteq sacked,
         UNCHANGED <<intsn, userTSN, receiveHoldBuffer, used, paused, pAt, chunks,
                     payload, pulled, sentsack, answer, rAt, rPayload, rPulled, heap,
                     arrived, delivered>>
  PROVE  PeerInv'
<1>1. UNCHANGED <<PP!receive, PP!chain, PP!resume, heap, arrived, delivered>>
  BY DEF PP!receive, PP!chain, PP!resume
<1>2. PP!TypeInv' /\ PP!ArrivedInv' /\ PP!GapsInv' /\ PP!OrderInv'
  BY <1>1, PP!SackGone, PeerAssumption DEF PeerInv, PP!ReceiverAssumption
<1> QED BY <1>2 DEF PeerInv

-----------------------------------------------------------------------------
(* A SACK of the peer, its blocks in a row. *)
LEMMA PairsFinite ==
  ASSUME NEW D, IsFiniteSet(D)
  PROVE  IsFiniteSet([first: D, last: D])
<1> DEFINE B == [first: D, last: D]
           f == [x \in D \X D |-> [first |-> x[1], last |-> x[2]]]
<1>1. IsFiniteSet(D \X D)
  BY FS_Product
<1>2. f \in [D \X D -> B]
  OBVIOUS
<1>3. ASSUME NEW b \in B PROVE \E x \in D \X D : f[x] = b
  <2>1. b.first \in D /\ b.last \in D /\ b = [first |-> b.first, last |-> b.last]
    BY <1>3
  <2>2. <<b.first, b.last>> \in D \X D
    BY <2>1
  <2>3. \A y, z \in D : f[<<y, z>>] = [first |-> y, last |-> z]
    OBVIOUS
  <2>4. f[<<b.first, b.last>>] = b
    BY <2>1, <2>3
  <2> QED BY <2>2, <2>4
<1> HIDE DEF B, f
<1>4. f \in Surjection(D \X D, B)
  BY <1>2, <1>3 DEF Surjection
<1>5. IsFiniteSet(B)
  BY <1>1, <1>4, FS_Surjection
<1> QED BY <1>5 DEF B

LEMMA BlocksFinite == \A blocks \in SUBSET Block : IsFiniteSet(blocks)
<1>1. \A a, b \in Int : IsFiniteSet(a..b)
  BY FS_Interval
<1>2. PICK k \in Nat : Block = [first: 0..k, last: 0..k]
  BY BlockIs
<1>3. IsFiniteSet(Block)
  <2>1. IsFiniteSet(0..k)
    BY <1>1
  <2> QED BY <1>2, <2>1, PairsFinite
<1> QED BY <1>3, FS_Subset

LEMMA SackBlocks ==
  ASSUME PeerInv, NEW sack \in sacked, NEW gaps \in InOrderOf(sack.blocks)
  PROVE  /\ sack.cum \in Nat /\ gaps \in Seq(Block)
         /\ \A i \in 1..Len(gaps) : Reports(sack.cum, gaps[i])
<1>1. sack.cum \in Nat /\ sack.blocks \in SUBSET Block
  <2>1. sack \in PP!SackType
    BY DEF PeerInv, PP!TypeInv, PP!TypeOK
  <2>2. sack.cum \in 0..MaxTsn
        /\ sack.blocks \in SUBSET [first: PP!Offsets, last: PP!Offsets]
    BY <2>1 DEF PP!SackType
  <2>3. Block = [first: PP!Offsets, last: PP!Offsets]
    BY BlockIs
  <2> QED BY <2>2, <2>3, CountsAssumption
<1>2. Cardinality(sack.blocks) \in Nat
  BY <1>1, BlocksFinite, FS_CardinalityType
<1>3. gaps \in [1..Cardinality(sack.blocks) -> sack.blocks]
  BY DEF InOrderOf
<1>4. gaps \in Seq(sack.blocks)
  BY <1>2, <1>3
<1>5. gaps \in Seq(Block) /\ \A i \in 1..Len(gaps) : gaps[i] \in sack.blocks
  BY <1>1, <1>4, ElementOfSeq, SeqMonotonic
<1>6. \A block \in sack.blocks : Reports(sack.cum, block)
  BY PeerIsReceiver DEF PeerInv, PP!GapsInv, PP!GapsArrived, Reports
<1> QED BY <1>1, <1>5, <1>6

LEMMA ReceiveSackKeeps ==
  ASSUME TypeOK, ConsecutiveTsns, SentInv, NEW cum \in Nat, NEW gaps \in Seq(Block),
         \A i \in 1..Len(gaps) : Reports(cum, gaps[i]),
         ReceiveSack(cum, gaps), arrived' = arrived
  PROVE  TypeOK' /\ ConsecutiveTsns' /\ SentInv'
<1>1. TypeOK'
  BY TypeReceiveSack
<1>2. ConsecutiveTsns'
  BY DEF ReceiveSack, queues, ConsecutiveTsns, TsnRun
<1>3. /\ UNCHANGED <<outtsn, fragments, wire, rpacket, arrived, pendingQueue, holdingQueue>>
      /\ frame'.cum = cum /\ frame'.gaps = gaps
  BY DEF ReceiveSack, NoFrame, queues, output
<1>4. \A i \in 1..Len(frame'.gaps) : Reports(frame.cum, frame.gaps[i])'
  BY <1>3 DEF Reports, Peer!Reported
<1> QED BY <1>1, <1>2, <1>3, <1>4 DEF SentInv, Numbers, GapAckedArrived

(* A datagram leaves the wire: it is lost, or it arrives. *)
LEMMA WireKeeps ==
  ASSUME TypeOK, ConsecutiveTsns, SentInv, wire' \subseteq wire,
         arrived \subseteq arrived', arrived' \subseteq arrived \union wire,
         UNCHANGED <<outtsn, queues, credits, congestion, timers, control, callback,
                     rpacket, toldToWait>>
  PROVE  TypeOK' /\ ConsecutiveTsns' /\ SentInv'
<1>1. TypeOK'
  BY DEF TypeOK, QueuesType, WindowsType, TimersType, ControlType, OutputType, Sending,
         queues, credits, congestion, timers, control
<1>2. ConsecutiveTsns'
  BY DEF queues, ConsecutiveTsns, TsnRun
<1>3. \A i \in 1..Len(frame'.gaps) : Reports(frame.cum, frame.gaps[i])'
  BY DEF SentInv, Reports, Peer!Reported, control
<1> QED BY <1>1, <1>2, <1>3 DEF SentInv, Numbers, GapAckedArrived, queues, control

-----------------------------------------------------------------------------
(* The steps of the association, and what each writes or reads. *)
Written == /\ UNCHANGED delivered
           /\ outtsn' \in {outtsn, outtsn + 1}
Taken == /\ UNCHANGED outtsn
         /\ \/ UNCHANGED delivered
            \/ /\ Len(delivered) + 1 \in arrived
               /\ delivered' = Append(delivered, Len(delivered) + 1)

LEMMA AssociationInit == InitAssociation => AssociationInv
<1> SUFFICES ASSUME InitAssociation PROVE AssociationInv
  OBVIOUS
<1>1. Init /\ PP!Init
  BY PeerIsReceiver DEF InitAssociation
<1>2. TypeOK /\ ConsecutiveTsns /\ PeerInv
  <2>1. TypeOK /\ ConsecutiveTsns
    BY <1>1, TypeInit, ConsecutiveInit
  <2>2. PP!TypeInv /\ PP!ArrivedInv /\ PP!GapsInv /\ PP!OrderInv
    BY <1>1, PP!InitType, PP!InitArrived, PP!InitGaps, PP!InitOrder, PeerAssumption
       DEF PP!ReceiverAssumption
  <2> QED BY <2>1, <2>2 DEF PeerInv
<1>3. /\ outtsn = 1 /\ Len(fragments) = 0 /\ wire = {} /\ rpacket = {} /\ arrived = {}
      /\ Len(holdingQueue) = 0 /\ Len(pendingQueue) = 0 /\ Len(frame.gaps) = 0
  BY <1>1 DEF Init, NoFrame, PP!Init
<1> QED BY <1>2, <1>3, CountsAssumption DEF AssociationInv, SentInv, GapAckedArrived

LEMMA AssociationStep ==
  ASSUME AssociationInv, [NextAssociation]_everything
  PROVE  AssociationInv' /\ (Written \/ Taken)
<1>1. TypeOK /\ ConsecutiveTsns /\ SentInv /\ PeerInv
  BY DEF AssociationInv
<1>2. ASSUME UNCHANGED peerVars PROVE PeerInv' /\ UNCHANGED <<arrived, delivered>>
  BY <1>1, <1>2, PeerSackGone DEF peerVars
<1>3. CASE Send \/ HeartbeatAnswered \/ HeartbeatTick \/ T3Expires
  <2>1. SenderStep /\ UNCHANGED peerVars
    BY <1>3 DEF Send, HeartbeatAnswered, HeartbeatTick, T3Expires, SenderStep, TimerStep
  <2>2. PeerInv' /\ UNCHANGED <<arrived, delivered>>
    BY <1>2, <2>1
  <2>3. TypeOK' /\ ConsecutiveTsns' /\ SentInv' /\ outtsn' \in {outtsn, outtsn + 1}
    BY <1>1, <2>1, <2>2, SenderKeeps, SentNumbers
  <2> QED BY <2>2, <2>3 DEF AssociationInv, Written
<1>4. ASSUME NEW t \in 1..MaxTsn, PacketArrives(t)
      PROVE  AssociationInv' /\ Taken
  <2>1. /\ t \in wire /\ wire' = wire \ {t} /\ PP!ReceivePacket(<<t>>)
        /\ UNCHANGED <<outtsn, queues, credits, congestion, timers, control, callback,
                       rpacket, toldToWait>>
    BY <1>4, PeerIsReceiver DEF PacketArrives
  <2>2. PP!ChainOnly
    BY <2>1 DEF PP!ChainOnly
  <2>3. PeerInv' /\ (UNCHANGED delivered)
    BY <1>1, <2>1, <2>2, PeerKeeps DEF PP!ReceivePacket
  <2>4. arrived' = arrived \union {t}
    BY <2>1 DEF PP!ReceivePacket, PP!Range
  <2>5. TypeOK' /\ ConsecutiveTsns' /\ SentInv'
    BY <1>1, <2>1, <2>4, WireKeeps
  <2> QED BY <2>1, <2>3, <2>5 DEF AssociationInv, Taken
<1>5. CASE PeerRuns
  <2>1. PP!ChunkStep /\ UNCHANGED vars
    BY <1>5, PeerIsReceiver DEF PeerRuns
  <2>2. PP!ChainOnly
    BY <2>1 DEF PP!ChainOnly
  <2>3. UNCHANGED arrived
    BY <2>1 DEF PP!ChunkStep, PP!TossDuplicate, PP!BufferOutOfOrder, PP!BufferInOrder,
       PP!AcceptInOrder, PP!Deliver, PP!Return, PP!PullNext, PP!PullReturn, PP!EndPull,
       PP!EndPacket, PP!history
  <2>4. UNCHANGED <<outtsn, queues, credits, congestion, timers, control, callback,
                    rpacket, toldToWait, wire>>
    BY <2>1 DEF vars, output
  <2>5. TypeOK' /\ ConsecutiveTsns' /\ SentInv'
    BY <1>1, <2>3, <2>4, WireKeeps
  <2> QED BY <1>1, <2>2, <2>4, <2>5, PeerKeeps DEF AssociationInv, Taken
<1>6. ASSUME NEW sack \in sacked, SackArrives(sack)
      PROVE  AssociationInv' /\ Taken
  <2>1. PICK gaps \in InOrderOf(sack.blocks) : ReceiveSack(sack.cum, gaps)
    BY <1>6 DEF SackArrives
  <2>2. /\ sacked' \subseteq sacked
        /\ UNCHANGED <<intsn, userTSN, receiveHoldBuffer, used, paused, pAt, chunks,
                       payload, pulled, sentsack, answer, rAt, rPayload, rPulled, heap,
                       arrived, delivered>>
    BY <1>6 DEF SackArrives
  <2>3. TypeOK' /\ ConsecutiveTsns' /\ SentInv'
    BY <1>1, <2>1, <2>2, SackBlocks, ReceiveSackKeeps
  <2>4. UNCHANGED outtsn
    BY <2>1 DEF ReceiveSack
  <2> QED BY <1>1, <2>2, <2>3, <2>4, PeerSackGone DEF AssociationInv, Taken
<1>7. CASE Lose
  <2>1. /\ wire' \subseteq wire /\ sacked' \subseteq sacked
        /\ UNCHANGED <<outtsn, queues, credits, congestion, timers, control, callback,
                       rpacket, toldToWait>>
        /\ UNCHANGED <<intsn, userTSN, receiveHoldBuffer, used, paused, pAt, chunks,
                       payload, pulled, sentsack, answer, rAt, rPayload, rPulled, heap,
                       arrived, delivered>>
    BY <1>7 DEF Lose
  <2>2. TypeOK' /\ ConsecutiveTsns' /\ SentInv'
    BY <1>1, <2>1, WireKeeps
  <2> QED BY <1>1, <2>1, <2>2, PeerSackGone DEF AssociationInv, Taken
<1>8. CASE UNCHANGED everything
  <2>1. UNCHANGED <<outtsn, queues, credits, congestion, timers, control, callback,
                    rpacket, toldToWait, wire>> /\ UNCHANGED peerVars
    BY <1>8 DEF everything, vars, output
  <2>2. TypeOK' /\ ConsecutiveTsns' /\ SentInv'
    BY <1>1, <1>2, <2>1, WireKeeps
  <2> QED BY <1>2, <2>1, <2>2 DEF AssociationInv, Taken
<1> QED BY <1>3, <1>4, <1>5, <1>6, <1>7, <1>8 DEF NextAssociation, SomeSackArrives

LEMMA AssociationInvariant == SpecAssociation => []AssociationInv
BY AssociationInit, AssociationStep, PTL DEF SpecAssociation

(* A packet counted as received out of order did arrive, however its SACK  *)
(* was delayed, the offsets wrapped and the gap blocks were walked         *)
(* (ILibWebRTC.c:3964-4105).                                               *)
THEOREM GapAckedTheorem == SpecAssociation => []GapAckedArrived
<1>1. AssociationInv => GapAckedArrived
  BY DEF AssociationInv, SentInv
<1> QED BY <1>1, AssociationInvariant, PTL
-----------------------------------------------------------------------------
(* REFINEMENT.  Numbering a fragment writes a chunk, the peer's Deliver    *)
(* reads one, every other step is a stutter.                               *)
Chunks(n) == [t \in 1..(n - 1) |-> t]

LEMMA WriteChunk ==
  ASSUME NEW n \in Nat \ {0}
  PROVE  /\ Len(Chunks(n)) = n - 1
         /\ \A i \in 1..(n - 1) : Chunks(n)[i] = i
         /\ SubSeq(Chunks(n + 1), 1, Len(Chunks(n + 1)) - 1) = Chunks(n)
<1>1. \A m \in Nat \ {0} : /\ Chunks(m) \in Seq(Nat) /\ Len(Chunks(m)) = m - 1
                           /\ \A i \in 1..(m - 1) : Chunks(m)[i] = i
  BY DEF Chunks
<1>2. n + 1 \in Nat \ {0} /\ Len(Chunks(n + 1)) = n
  BY <1>1
<1> DEFINE s == SubSeq(Chunks(n + 1), 1, n - 1)
<1>3. /\ s \in Seq(Nat) /\ Len(s) = n - 1
      /\ \A i \in 1..(n - 1) : s[i] = i
  <2> DEFINE k == n - 1
  <2>1. k \in Nat /\ k \in Int /\ 1 \in Int /\ k - 1 + 1 = k /\ k <= n
    OBVIOUS
  <2>2. \A i \in 1..n : Chunks(n + 1)[i] = i
    <3>1. n + 1 - 1 = n
      OBVIOUS
    <3> QED BY <1>1, <1>2, <3>1
  <2> HIDE DEF k
  <2>3. \A i \in 1..k : Chunks(n + 1)[i] = i /\ i \in Nat /\ 1 + i - 1 = i
    BY <2>1, <2>2
  <2>4. \A t : (\A i \in 1..k : t[i] \in Nat)
               => /\ SubSeq(t, 1, k) \in Seq(Nat)
                  /\ Len(SubSeq(t, 1, k)) = IF 1 <= k THEN k - 1 + 1 ELSE 0
                  /\ \A i \in 1..(k - 1 + 1) : SubSeq(t, 1, k)[i] = t[1 + i - 1]
    BY <2>1, SubSeqProperties
  <2>5. /\ SubSeq(Chunks(n + 1), 1, k) \in Seq(Nat)
        /\ Len(SubSeq(Chunks(n + 1), 1, k)) = k
        /\ \A i \in 1..k : SubSeq(Chunks(n + 1), 1, k)[i] = i
    BY <2>1, <2>3, <2>4
  <2> QED BY <2>5 DEF k
<1> HIDE DEF s
<1>4. s = Chunks(n)
  BY <1>1, <1>3, SeqEqual
<1> QED BY <1>1, <1>2, <1>4 DEF s

LEMMA WrittenMaps ==
  ASSUME AssociationInv, Written
  PROVE  [Stream!Write \/ Stream!Read]_<<Chunks(outtsn), delivered>>
<1>1. outtsn \in Nat \ {0}
  BY DEF AssociationInv, TypeOK, QueuesType
<1>2. CASE outtsn' = outtsn
  BY <1>2 DEF Written, Chunks
<1>3. CASE outtsn' = outtsn + 1
  <2>1. /\ Len(Chunks(outtsn')) = outtsn
        /\ SubSeq(Chunks(outtsn'), 1, Len(Chunks(outtsn')) - 1) = Chunks(outtsn)
    BY <1>1, <1>3, WriteChunk
  <2>2. \E k \in 1..Len(Chunks(outtsn')) :
           SubSeq(Chunks(outtsn'), 1, Len(Chunks(outtsn')) - k) = Chunks(outtsn)
    BY <1>1, <2>1
  <2>3. Stream!Write
    BY <2>2 DEF Stream!Write, Written, Chunks
  <2> QED BY <2>3
<1> QED BY <1>2, <1>3 DEF Written

LEMMA TakenMaps ==
  ASSUME AssociationInv, Taken
  PROVE  [Stream!Write \/ Stream!Read]_<<Chunks(outtsn), delivered>>
<1>1. outtsn \in Nat \ {0} /\ arrived \subseteq 1..(outtsn - 1)
  BY DEF AssociationInv, TypeOK, QueuesType, SentInv, Numbers
<1>2. CASE UNCHANGED delivered
  BY <1>2 DEF Taken, Chunks
<1>3. CASE /\ Len(delivered) + 1 \in arrived
           /\ delivered' = Append(delivered, Len(delivered) + 1)
  <2>0. Len(delivered) \in Nat
    BY LenProperties DEF AssociationInv, PeerInv, PP!TypeInv, PP!TypeOK
  <2>1. Len(delivered) < Len(Chunks(outtsn))
        /\ Chunks(outtsn)[Len(delivered) + 1] = Len(delivered) + 1
    <3>1. /\ Len(Chunks(outtsn)) = outtsn - 1
          /\ \A i \in 1..(outtsn - 1) : Chunks(outtsn)[i] = i
      BY <1>1, WriteChunk
    <3>2. Len(delivered) + 1 \in 1..(outtsn - 1)
      BY <1>1, <1>3, Zenon
    <3>3. Len(delivered) < outtsn - 1
      BY <1>1, <2>0, <3>2
    <3> QED BY <3>1, <3>2, <3>3
  <2>2. Chunks(outtsn') = Chunks(outtsn)
    BY DEF Taken
  <2>3. Stream!Read
    BY <1>3, <2>1, <2>2 DEF Stream!Read, Chunks
  <2> QED BY <2>3
<1> QED BY <1>2, <1>3 DEF Taken

(* The association gives the peer's application what was sent, in order,   *)
(* each chunk once and none left out, over a network that loses and        *)
(* reorders, for any messages, windows and sizes of the hold buffer.       *)
THEOREM StreamTheorem == SpecAssociation => StreamSpec
<1>1. InitAssociation => Stream!Init
  <2> SUFFICES ASSUME InitAssociation PROVE Stream!Init
    OBVIOUS
  <2>1. outtsn = 1 /\ delivered = <<>>
    BY PeerIsReceiver DEF InitAssociation, Init, PP!Init
  <2> QED BY <2>1 DEF Stream!Init
<1>2. AssociationInv /\ [NextAssociation]_everything
        => [Stream!Write \/ Stream!Read]_<<Chunks(outtsn), delivered>>
  BY AssociationStep, WrittenMaps, TakenMaps
<1>3. Chunks(outtsn) = [t \in 1..(outtsn - 1) |-> t]
  BY DEF Chunks
<1>4. AssociationInv /\ [NextAssociation]_everything
        => [Stream!Write \/ Stream!Read]_<<[t \in 1..(outtsn - 1) |-> t], delivered>>
  BY <1>2 DEF Chunks
<1> QED BY <1>1, <1>4, AssociationInvariant, PTL DEF SpecAssociation, StreamSpec, Stream!Spec
=============================================================================
