---------------------------- MODULE SctpReceiver ----------------------------
(***************************************************************************)
(* The receiving half of an SCTP association, as ILibWebRTC.c keeps it in  *)
(* struct ILibStun_dTlsSession: intsn, the TSN up to which everything has  *)
(* arrived; userTSN, the TSN up to which the application has been given    *)
(* everything; the receive hold buffer for what lies between or beyond,    *)
(* and the pause flag.                                                     *)
(*                                                                         *)
(* The chain thread runs the DATA chunks of ILibStun_ProcessSctpPacket;    *)
(* ILibSCTP_Pause and ILibSCTP_Resume are called by the application, from  *)
(* a callback or, if UserResume, from a thread of its own.  Both give the  *)
(* Lock back around ILibStun_SctpProcessStreamData, which calls the        *)
(* application: each action is what one thread does between two of those   *)
(* points, 'at' and 'rAt' say where the chain thread and ILibSCTP_Resume   *)
(* stand.                                                                  *)
(*                                                                         *)
(* A DATA chunk is its TSN; TSNs start at 1 and do not wrap.  The hold     *)
(* buffer is a list sorted by TSN without duplicates, here a set.          *)
(***************************************************************************)
EXTENDS Integers, Sequences, FiniteSets, FiniteSetsExt, Functions

CONSTANTS
  MaxTsn,      \* TSNs the peer uses
  Packets,     \* the SCTP packets that may arrive: a few DATA chunks each
  Length,      \* Length[t]: the length of chunk t, in bytes
  Charge,      \* Charge[t]: what chunk t counts for in the hold buffer
  Capacity,    \* ILibSCTP_MaxReceiverCredits
  UserResume,  \* TRUE if the application resumes from its own thread
  MayPause,    \* TRUE if the application pauses
  MaxCalls     \* bound on the chunks given to the application

Tsn == 1..MaxTsn

ASSUME ReceiverAssumption ==
  /\ MaxTsn \in Nat /\ MaxTsn < 65536 /\ Capacity \in Nat /\ MaxCalls \in Nat
  /\ Packets \subseteq Seq(Tsn)
  /\ Length \in [Tsn -> Nat \ {0}] /\ Charge \in [Tsn -> Nat]
  /\ UserResume \in BOOLEAN /\ MayPause \in BOOLEAN

VARIABLES
  intsn, userTSN,
  receiveHoldBuffer,  \* TSNs held
  used,               \* ReceiveHoldBuffer_Used: bytes charged for them
  paused,             \* DTLS_PAUSE_FLAG
  at, chunks,         \* the chain thread, and the chunks left in its packet
  payload, pulled,    \* its chunk in hand, and bytes it took from the buffer
  sentsack, answer,   \* state of the answer, and the SACK in it
  rAt, rPayload, rPulled, \* ILibSCTP_Resume: control, chunk, bytes taken
  heap,               \* "corrupt" once a payload is used or freed after free
  arrived,            \* every TSN that reached this side
  delivered,          \* the TSNs given to the application, in order
  sacked              \* the SACKs sent

receive == <<intsn, userTSN, receiveHoldBuffer, used, paused>>
chain   == <<at, chunks, payload, pulled, sentsack, answer>>
resume  == <<rAt, rPayload, rPulled>>
history == <<heap, arrived, delivered, sacked>>
vars == <<receive, chain, resume, history>>

NoSack == [cum |-> 0, blocks |-> {}, rwnd |-> Capacity]

Init ==
  /\ intsn = 0 /\ userTSN = 0
  /\ receiveHoldBuffer = {} /\ used = 0 /\ paused = FALSE
  /\ at = "idle" /\ chunks = <<>> /\ payload = 0 /\ pulled = 0
  /\ sentsack = "NotSent" /\ answer = NoSack
  /\ rAt = "none" /\ rPayload = 0 /\ rPulled = 0
  /\ heap = "ok" /\ arrived = {} /\ delivered = <<>> /\ sacked = {}

-----------------------------------------------------------------------------
(* The TSN up to which everything has arrived once n has. *)
Forward(n, hold) ==
  CHOOSE m \in n..MaxTsn : (n + 1)..m \subseteq hold /\ m + 1 \notin hold

(* MOVED TSN: the head of the buffer is the next one, or nothing moves.    *)
(* (Fault: the last one held counts, whatever is missing before it.)       *)
MoveTsnBeyond(n, hold) ==
  IF hold # {} /\ Max(hold) > n THEN Max(hold) ELSE n
MoveTsn(n, hold) ==
  IF hold # {} /\ Min(hold) = n + 1 THEN Forward(n, hold) ELSE n

(* A gap block's 16 bit offset.  (Faults: it keeps its width; it counts    *)
(* from the TSN before.)                                                   *)
Word == 65536
WideOffset(t, cum) == t - cum
OffsetByOne(t, cum) == (t - cum + 1) % Word
Offset(t, cum) == (t - cum) % Word

(* ILibStun_SctpAddSackChunk.  Held chunks beyond userTSN form the gap     *)
(* blocks, as 16 bit offsets from the cumulative TSN; the first chunk of   *)
(* each block but the first is counted twice in the bytes held.            *)
Sack(cum, user, hold) ==
  LET beyond  == {t \in hold : t > user}
      starts  == {t \in beyond : t - 1 \notin beyond}
      end(s)  == Forward(s, beyond)
      twice   == IF starts = {} THEN {} ELSE starts \ {Min(starts)}
      bytes   == SumFunctionOnSet(Length, beyond) + SumFunctionOnSet(Length, twice)
  IN  [cum    |-> cum,
       blocks |-> {[first |-> Offset(s, cum), last |-> Offset(end(s), cum)] : s \in starts},
       rwnd   |-> Capacity - Min({bytes, Capacity})]

(* One SACK per packet, for what is true at the first chunk that asks. *)
Acknowledge(hold) ==
  IF sentsack = "NotSent"
  THEN sentsack' = "Sent" /\ answer' = Sack(intsn', userTSN', hold)
  ELSE UNCHANGED <<sentsack, answer>>

(* The hold buffer: whether a chunk is too much, what it is charged for.   *)
(* (Fault: a duplicate is charged.)                                        *)
Full(t) == used + Charge[t] > Capacity
ChargeAlways(t) == Charge[t]
ChargeOnce(t) == IF t \in receiveHoldBuffer THEN 0 ELSE Charge[t]

(* ILibSCTP_AddPacketToHoldingQueue. *)
AddPacketToHoldingQueue(t) ==
  IF Full(t)
  THEN /\ sentsack' = "Skip"
       /\ UNCHANGED <<receiveHoldBuffer, used, answer>>
  ELSE /\ receiveHoldBuffer' = receiveHoldBuffer \union {t}
       /\ used' = used + ChargeOnce(t)
       /\ Acknowledge(receiveHoldBuffer')

-----------------------------------------------------------------------------
(* The chain thread.  A Resume called in one of its callbacks runs to its  *)
(* end first; one on another thread only excludes it by the Lock.          *)
ChainRuns == heap = "ok" /\ (UserResume \/ rAt = "none")

ReceivePacket(packet) ==
  /\ ChainRuns /\ at = "idle" /\ Len(delivered) < MaxCalls
  /\ at' = "parsing" /\ chunks' = packet
  /\ sentsack' = "NotSent" /\ answer' = NoSack
  /\ arrived' = arrived \union Range(packet)
  /\ UNCHANGED <<receive, payload, pulled, resume, heap, delivered, sacked>>

Parsing == ChainRuns /\ at = "parsing" /\ chunks # <<>>

NextChunk == at' = "parsing" /\ chunks' = Tail(chunks)

TossDuplicate ==
  /\ Parsing /\ Head(chunks) <= intsn
  /\ NextChunk
  /\ UNCHANGED <<receive, payload, pulled, resume, history>>
  /\ Acknowledge(receiveHoldBuffer)

BufferOutOfOrder ==
  /\ Parsing /\ Head(chunks) > intsn + 1
  /\ NextChunk
  /\ UNCHANGED <<intsn, userTSN, paused, payload, pulled, resume, history>>
  /\ AddPacketToHoldingQueue(Head(chunks))

(* The next chunk moves intsn; it is held if the application paused or has *)
(* not been given everything before it.  (Fault: only if it paused.)       *)
BufferIfPaused == paused
MustBuffer == paused \/ userTSN < intsn' - 1

BufferInOrder ==
  /\ Parsing /\ Head(chunks) = intsn + 1
  /\ intsn' = MoveTsn(Head(chunks), receiveHoldBuffer)
  /\ MustBuffer
  /\ NextChunk
  /\ UNCHANGED <<userTSN, paused, payload, pulled, resume, history>>
  /\ AddPacketToHoldingQueue(Head(chunks))

AcceptInOrder ==
  /\ Parsing /\ Head(chunks) = intsn + 1
  /\ intsn' = MoveTsn(Head(chunks), receiveHoldBuffer)
  /\ ~MustBuffer
  /\ userTSN' = intsn'
  /\ payload' = Head(chunks) /\ at' = "deliver"
  /\ UNCHANGED <<receiveHoldBuffer, used, paused, chunks, pulled, resume, history>>
  /\ Acknowledge(receiveHoldBuffer)

(* ILibStun_SctpProcessStreamData gives the chunk to the application. *)
Deliver ==
  /\ ChainRuns /\ at \in {"deliver", "pullDeliver"}
  /\ at' = IF at = "deliver" THEN "inApp" ELSE "pullInApp"
  /\ delivered' = Append(delivered, payload)
  /\ heap' = IF at = "pullDeliver" /\ payload \notin receiveHoldBuffer
             THEN "corrupt" ELSE heap
  /\ UNCHANGED <<receive, chunks, payload, pulled, sentsack, answer, resume,
                 arrived, sacked>>

Return ==
  /\ ChainRuns /\ at = "inApp"
  /\ IF paused THEN NextChunk ELSE at' = "pull" /\ UNCHANGED chunks
  /\ pulled' = 0
  /\ UNCHANGED <<receive, payload, sentsack, answer, resume, history>>

(* Pull as many packets as we can out of the receive hold queue.  (Fault:  *)
(* the bound is off by one.)                                               *)
CanPullBeyond == /\ receiveHoldBuffer # {}
                 /\ Min(receiveHoldBuffer) <= intsn + 2
                 /\ Min(receiveHoldBuffer) <= userTSN + 2
CanPull == /\ receiveHoldBuffer # {}
           /\ Min(receiveHoldBuffer) <= intsn + 1
           /\ Min(receiveHoldBuffer) <= userTSN + 1

PullNext ==
  /\ ChainRuns /\ at = "pull" /\ CanPull
  /\ payload' = Min(receiveHoldBuffer)
  /\ pulled' = pulled + Charge[payload']
  /\ intsn' = payload' /\ userTSN' = payload'
  /\ at' = "pullDeliver"
  /\ UNCHANGED <<receiveHoldBuffer, used, paused, chunks, sentsack, answer,
                 resume, history>>

PullReturn ==
  /\ ChainRuns /\ at = "pullInApp"
  /\ IF payload \in receiveHoldBuffer
     THEN receiveHoldBuffer' = receiveHoldBuffer \ {payload} /\ UNCHANGED heap
     ELSE heap' = "corrupt" /\ UNCHANGED receiveHoldBuffer
  /\ at' = IF paused THEN "pulled" ELSE "pull"
  /\ UNCHANGED <<intsn, userTSN, used, paused, chunks, payload, pulled, sentsack,
                 answer, resume, arrived, delivered, sacked>>

EndPull ==
  /\ ChainRuns
  /\ at = "pulled" \/ (at = "pull" /\ ~CanPull)
  /\ used' = used - pulled
  /\ NextChunk
  /\ UNCHANGED <<intsn, userTSN, receiveHoldBuffer, paused, payload, pulled,
                 sentsack, answer, resume, history>>

EndPacket ==
  /\ ChainRuns /\ at = "parsing" /\ chunks = <<>>
  /\ at' = "idle"
  /\ sacked' = IF sentsack = "NotSent" \/ answer = NoSack THEN sacked
               ELSE sacked \union {answer}
  /\ sentsack' = "NotSent" /\ answer' = NoSack
  /\ UNCHANGED <<receive, chunks, payload, pulled, resume, heap, arrived, delivered>>

-----------------------------------------------------------------------------
(* The application may call while the chain thread does not hold the Lock, *)
(* or, on the chain thread, between packets and in a callback.             *)
LockFree == at \in {"idle", "deliver", "inApp", "pullDeliver", "pullInApp"}
Callable == heap = "ok" /\ IF UserResume THEN LockFree
                           ELSE at \in {"idle", "inApp", "pullInApp"}

Pause ==
  /\ Callable /\ MayPause /\ ~paused /\ rAt \in {"none", "inApp"}
  /\ paused' = TRUE
  /\ UNCHANGED <<intsn, userTSN, receiveHoldBuffer, used, chain, resume, history>>

Deliverable(hold) == hold # {} /\ Min(hold) = userTSN + 1

(* One turn of the loop of ILibSCTP_Resume, the buffer and the bytes taken *)
(* so far given: the head is the next chunk for the application, or done.  *)
ResumeLoop(hold, bytes) ==
  IF Deliverable(hold)
  THEN /\ userTSN' = userTSN + 1
       /\ rPayload' = userTSN + 1 /\ rPulled' = bytes + Charge[userTSN + 1]
       /\ rAt' = "deliver"
       /\ UNCHANGED used
  ELSE /\ used' = used - bytes
       /\ rAt' = "none" /\ rPayload' = 0 /\ rPulled' = 0
       /\ UNCHANGED userTSN

Resume ==
  /\ Callable /\ rAt = "none"
  /\ paused' = FALSE
  /\ ResumeLoop(receiveHoldBuffer, 0)
  /\ UNCHANGED <<intsn, receiveHoldBuffer, chain, history>>

ResumeDeliver ==
  /\ heap = "ok" /\ rAt = "deliver"
  /\ rAt' = "inApp"
  /\ delivered' = Append(delivered, rPayload)
  /\ heap' = IF rPayload \in receiveHoldBuffer THEN heap ELSE "corrupt"
  /\ UNCHANGED <<receive, chain, rPayload, rPulled, arrived, sacked>>

(* Resume called again from the callback: the chunk in hand is still the   *)
(* head of the buffer, nothing is delivered.                               *)
ResumeAgain ==
  /\ Callable /\ rAt = "inApp" /\ paused
  /\ ~Deliverable(receiveHoldBuffer)
  /\ paused' = FALSE
  /\ UNCHANGED <<intsn, userTSN, receiveHoldBuffer, used, chain, resume, history>>

(* The payload is freed and its node removed, whoever did so meanwhile. *)
ResumeReturn ==
  /\ Callable /\ rAt = "inApp"
  /\ IF rPayload \in receiveHoldBuffer
     THEN receiveHoldBuffer' = receiveHoldBuffer \ {rPayload} /\ UNCHANGED heap
     ELSE heap' = "corrupt" /\ UNCHANGED receiveHoldBuffer
  /\ ResumeLoop(receiveHoldBuffer', rPulled)
  /\ UNCHANGED <<intsn, paused, chain, arrived, delivered, sacked>>

-----------------------------------------------------------------------------
ChunkStep == \/ TossDuplicate \/ BufferOutOfOrder \/ BufferInOrder \/ AcceptInOrder
             \/ Deliver \/ Return \/ PullNext \/ PullReturn \/ EndPull \/ EndPacket

ResumeStep == Resume \/ ResumeDeliver \/ ResumeAgain \/ ResumeReturn

Next == \/ \E packet \in Packets : ReceivePacket(packet)
        \/ ChunkStep \/ Pause \/ ResumeStep

Spec == Init /\ [][Next]_vars

-----------------------------------------------------------------------------
Offsets == 0..(Word - 1)
SackType == [cum: 0..MaxTsn, blocks: SUBSET [first: Offsets, last: Offsets],
             rwnd: 0..Capacity]

(* TYPE: the variables keep the shape of the session structure. *)
TypeOK ==
  /\ intsn \in 0..MaxTsn /\ userTSN \in 0..MaxTsn
  /\ receiveHoldBuffer \subseteq Tsn /\ used \in Int /\ paused \in BOOLEAN
  /\ at \in {"idle", "parsing", "deliver", "inApp", "pull", "pullDeliver",
             "pullInApp", "pulled"}
  /\ chunks \in Seq(Tsn) /\ payload \in 0..MaxTsn /\ pulled \in Nat
  /\ sentsack \in {"NotSent", "Sent", "Skip"} /\ answer \in SackType
  /\ rAt \in {"none", "deliver", "inApp"} /\ rPayload \in 0..MaxTsn /\ rPulled \in Nat
  /\ heap \in {"ok", "corrupt"} /\ arrived \subseteq Tsn
  /\ delivered \in Seq(Tsn) /\ sacked \subseteq SackType

OnItsWay == (IF at \in {"deliver", "pullDeliver"} THEN {payload} ELSE {})
              \union (IF rAt = "deliver" THEN {rPayload} ELSE {})

(* Whatever the pauses, the threads and the chunks a full buffer drops, none *)
(* is passed over for good: each one up to userTSN, and each one before a    *)
(* chunk that was given or is on its way, was given, is on its way or held.  *)
(* (Not in this order, see InOrder.)                                         *)
Given == Range(delivered) \union OnItsWay
NoneLost ==
  /\ 1..userTSN \subseteq Given \union receiveHoldBuffer
  /\ \A t \in Given : 1..t \subseteq Given \union receiveHoldBuffer

(* "We expect all packets to be in order now", as a comment in             *)
(* ILibStun_SctpProcessStreamData says: in order, none of them twice.      *)
InOrder == \A i \in 1..Len(delivered) : delivered[i] = i

(* The bytes charged to the buffer are those of the chunks in it, and of   *)
(* the ones freed since the loop that pulls them began, in both threads.   *)
Unreturned ==
  (CASE at \in {"pullDeliver", "pullInApp"} -> pulled - Charge[payload]
     [] at \in {"pull", "pulled"} -> pulled
     [] OTHER -> 0)
  + (IF rAt = "none" THEN 0 ELSE rPulled - Charge[rPayload])
AccountingExact ==
  heap = "ok" => used = SumFunctionOnSet(Charge, receiveHoldBuffer) + Unreturned

(* A SACK never covers what has not arrived: not by its cumulative TSN,    *)
(* nor by its gap blocks as the sender reads them.  An offset that wrapped *)
(* below zero, of a chunk held at or below intsn, covers nothing.          *)
Reported(cum, block) == {t \in Tsn : cum + block.first <= t /\ t <= cum + block.last}
CumulativeArrived == \A s \in sacked : 1..s.cum \subseteq arrived
GapsArrived ==
  \A s \in sacked : \A block \in s.blocks : Reported(s.cum, block) \subseteq arrived
AckedArrived == CumulativeArrived /\ GapsArrived

(* "Pull as many packets as we can out of the receive hold queue": with no *)
(* pause and nothing going on, no chunk waits that the application could   *)
(* be given.                                                               *)
NothingStuck ==
  at = "idle" /\ rAt = "none" /\ ~paused => userTSN + 1 \notin receiveHoldBuffer
=============================================================================
