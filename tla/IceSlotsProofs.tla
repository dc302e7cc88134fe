--------------------------- MODULE IceSlotsProofs ---------------------------
(***************************************************************************)
(* Proofs about IceSlots: the two tables point at each other for as long   *)
(* as they have not come apart, the slot of an own offer is kept for its   *)
(* answer, checks under way have their timer and no offer loses its slot   *)
(* early, for any slots, connections, candidates and offers.               *)
(***************************************************************************)
EXTENDS IceSlots, DataLemmas

-----------------------------------------------------------------------------
(* The inductive invariant.                                                *)

(* The allowed candidates of an answered offer are its own; an own offer   *)
(* is attached to no session that could end.                               *)
Sound(o) ==
  /\ o \in Offers
  /\ o.answered => o.allowed \subseteq Range(Candidates[o.conn])
  /\ ~o.answered => o.session = Attached

Table(i) == DOMAIN i \subseteq Slots /\ \A s \in DOMAIN i : Sound(i[s])
Entries(t) == DOMAIN t \subseteq Slots /\ \A k \in DOMAIN t : t[k] \in Sessions

(* LinkKept, and the way back from an offer to the session it names.       *)
LinkOut(i, t) ==
  \A k \in DOMAIN t :
    /\ t[k].ice \in DOMAIN i /\ i[t[k].ice].answered
    /\ i[t[k].ice].session = k /\ t[k].remote \in i[t[k].ice].allowed
LinkBack(i, t) ==
  \A s \in DOMAIN i : i[s].answered /\ i[s].session >= 0 =>
    i[s].session \in DOMAIN t /\ t[i[s].session].ice = s
Linked(i, t) == LinkOut(i, t) /\ LinkBack(i, t)

Counters ==
  /\ next \in 0..MaxSlots /\ finals \subseteq 0..FinalDelay
  /\ offers \in 0..MaxOffers /\ permits \in [Slots -> 0..offers]
Wrapper ==
  /\ phase \in [Conns -> {"new", "offered", "set", "connected", "closing", "gone"}]
  /\ own \in [Conns -> Slots] /\ theirs \in [Conns -> Slots] /\ talks \subseteq Conns
  /\ apart \in {"no", "answered", "replaced", "twice", "other", "foreign", "cleared"}
  /\ heap \in {"ok", "corrupt"}

IceInv ==
  /\ Table(ices) /\ Entries(sessions) /\ Counters /\ Wrapper
  /\ apart = "no" => Linked(ices, sessions)
  /\ AnswerAwaited /\ ChecksEnd

-----------------------------------------------------------------------------
(* The slot that ILibStun_GetFreeIceStateSlot finds.                       *)
LEMMA FreeSlotFree ==
  ASSUME Counters, \E i \in Slots : Reusable(i)
  PROVE  FreeSlot \in Slots /\ (FreeSlot \in DOMAIN ices => Expired(ices[FreeSlot]))
<1> DEFINE F == {i \in Slots : Reusable(i)}
<1>0. MaxSlots \in Nat \ {0} /\ next \in Nat
    BY IceAssumption DEF Counters
<1>1. F \subseteq Nat /\ F # {}
    BY DEF Slots
<1>2. Min(F) \in F
    BY <1>1, MinIsLeast
<1> HIDE DEF F
<1>3. Reusable(Min(F)) /\ Min(F) \in Nat
    BY <1>1, <1>2 DEF F
<1>4. FreeSlot = (next + Min(F)) % MaxSlots
    BY DEF FreeSlot, F
<1>5. FreeSlot \in Slots
    BY <1>0, <1>3, <1>4 DEF Slots
<1> QED BY <1>3, <1>4, <1>5 DEF Reusable

(* The parts of a record of the table. *)
LEMMA OfferParts ==
  ASSUME NEW o \in Offers
  PROVE  /\ o.conn \in Conns /\ o.answered \in BOOLEAN /\ o.session \in Slots \union {-1}
         /\ o.session \in Int /\ o.age \in 0..(MaxAge + 1) /\ o.allowed \subseteq Addresses
<1> QED BY IceAssumption DEF Offers, Slots

(* What a step leaves of an entry that it changes only in part: it may     *)
(* allow more candidates.                                                  *)
Same(o, p) ==
  /\ p.conn = o.conn /\ p.answered = o.answered /\ p.session = o.session
  /\ o.allowed \subseteq p.allowed
Touched(o, p) == Sound(p) /\ Same(o, p)

(* A step that writes offer o into slot s and touches the others at most.  *)
PutAt(s, o) ==
  /\ DOMAIN ices' = DOMAIN ices \union {s}
  /\ Touched(o, ices'[s])
  /\ \A x \in DOMAIN ices \ {s} : Touched(ices[x], ices'[x])

LEMMA PutTable ==
  ASSUME Table(ices), NEW s \in Slots, NEW o, PutAt(s, o)
  PROVE  Table(ices')
<1> QED BY DEF Table, PutAt, Touched

(* An offer that has no session is written where none is named. *)
LEMMA PutLinked ==
  ASSUME Table(ices), Entries(sessions), Linked(ices, sessions), NEW s \in Slots, NEW o, PutAt(s, o),
         UNCHANGED sessions, ~UnderSession({s}), ~o.answered \/ o.session < 0
  PROVE  Linked(ices', sessions')
<1>1. LinkOut(ices', sessions')
    <2> SUFFICES ASSUME NEW k \in DOMAIN sessions
                 PROVE  LET x == sessions[k].ice IN
                          /\ x \in DOMAIN ices' /\ ices'[x].answered
                          /\ ices'[x].session = k /\ sessions[k].remote \in ices'[x].allowed
        BY DEF LinkOut
    <2>1. sessions[k].ice \in DOMAIN ices \ {s}
        BY DEF Linked, LinkOut, UnderSession
    <2> QED BY <2>1 DEF Linked, LinkOut, PutAt, Touched, Same
<1>2. LinkBack(ices', sessions')
    <2> SUFFICES ASSUME NEW x \in DOMAIN ices', ices'[x].answered, ices'[x].session >= 0
                 PROVE  ices'[x].session \in DOMAIN sessions /\ sessions[ices'[x].session].ice = x
        BY DEF LinkBack
    <2>1. x # s
        <3>1. ices'[s].answered = o.answered /\ ices'[s].session = o.session
              /\ ices'[s].session \in Int
            BY OfferParts DEF PutAt, Touched, Same, Sound
        <3> QED BY <3>1
    <2>2. x \in DOMAIN ices \ {s}
        BY <2>1 DEF PutAt
    <2> QED BY <2>2 DEF Linked, LinkBack, PutAt, Touched, Same
<1> QED BY <1>1, <1>2 DEF Linked

(* An entry changed in part. *)
LEMMA TouchLinked ==
  ASSUME NEW i, NEW j, NEW t, Linked(i, t), DOMAIN j = DOMAIN i,
         \A x \in DOMAIN i : Touched(i[x], j[x])
  PROVE  Linked(j, t)
<1>1. LinkOut(j, t)
    BY DEF Linked, LinkOut, Touched, Same
<1>2. LinkBack(j, t)
    BY DEF Linked, LinkBack, Touched, Same
<1> QED BY <1>1, <1>2 DEF Linked

(* Session k begins for the offer in slot s. *)
LEMMA BeginLinked ==
  ASSUME NEW i, NEW t, Entries(t), Linked(i, t), NEW s \in DOMAIN i, NEW k \in Slots \ DOMAIN t,
         i[s].session < 0, NEW j, NEW u,
         DOMAIN j = DOMAIN i, \A x \in DOMAIN i \ {s} : j[x] = i[x],
         j[s].answered, j[s].session = k,
         DOMAIN u = DOMAIN t \union {k}, \A l \in DOMAIN t : u[l] = t[l],
         u[k].ice = s, u[k].remote \in j[s].allowed
  PROVE  Linked(j, u)
<1>1. ASSUME NEW l \in DOMAIN t
      PROVE  /\ u[l].ice \in DOMAIN j /\ j[u[l].ice].answered
             /\ j[u[l].ice].session = l /\ u[l].remote \in j[u[l].ice].allowed
    <2>1. /\ t[l].ice \in DOMAIN i /\ i[t[l].ice].answered
          /\ i[t[l].ice].session = l /\ t[l].remote \in i[t[l].ice].allowed
        BY DEF Linked, LinkOut
    <2>2. l \in Nat
        BY DEF Entries, Slots
    <2>3. ASSUME t[l].ice = s PROVE FALSE
        <3>1. i[s].session = l
            BY <2>1, <2>3
        <3> QED BY <2>2, <3>1
    <2> QED BY <2>1, <2>3
<1>2. LinkOut(j, u)
    BY <1>1 DEF LinkOut
<1>3. LinkBack(j, u)
    BY DEF Linked, LinkBack
<1> QED BY <1>2, <1>3 DEF Linked

(* ILibStun_PeriodicStunCheck only notes that requests went out. *)
LEMMA PeriodicTouches ==
  ASSUME NEW t, \A s \in DOMAIN t : Sound(t[s]), PeriodicStunCheck(t)
  PROVE  /\ DOMAIN ices' = DOMAIN t
         /\ \A s \in DOMAIN t : Touched(t[s], ices'[s]) /\ ices'[s].checking = t[s].checking
<1>1. DOMAIN ices' = DOMAIN t
      /\ \A s \in DOMAIN t : ices'[s] = [t[s] EXCEPT !.asked = t[s].asked \/ s \in Live(t)]
    BY DEF PeriodicStunCheck
<1>2. ASSUME NEW s \in DOMAIN t, NEW b \in BOOLEAN
      PROVE  /\ Touched(t[s], [t[s] EXCEPT !.asked = b])
             /\ [t[s] EXCEPT !.asked = b].checking = t[s].checking
    BY DEF Sound, Touched, Same, Offers
<1>3. \A s \in DOMAIN t : (t[s].asked \/ s \in Live(t)) \in BOOLEAN
    OBVIOUS
<1> QED BY <1>1, <1>2, <1>3

(* ILibStun_ICE_Start. *)
LEMMA StartPuts ==
  ASSUME Table(ices), NEW s \in Slots, NEW o, Sound(o), ICE_Start(s, o),
         finals \subseteq 0..FinalDelay, ChecksEnd, o.checking => finals # {}
  PROVE  PutAt(s, o) /\ finals' \subseteq 0..FinalDelay /\ ChecksEnd'
<1>1. CASE /\ ices' = Put(ices, s, [o EXCEPT !.checking = TRUE, !.asked = o.session < 0])
           /\ finals' = FinalStarted
    <2> DEFINE p == [o EXCEPT !.checking = TRUE, !.asked = o.session < 0]
    <2>1. Touched(o, p)
        <3>1. ASSUME NEW b \in BOOLEAN
              PROVE  Touched(o, [o EXCEPT !.checking = TRUE, !.asked = b])
            BY DEF Sound, Touched, Same, Offers
        <3>2. (o.session < 0) \in BOOLEAN
            OBVIOUS
        <3> QED BY <3>1, <3>2
    <2>2. \A x \in DOMAIN ices : Touched(ices[x], ices[x])
        BY DEF Table, Touched, Same
    <2> HIDE DEF p
    <2>3. DOMAIN ices' = DOMAIN ices \union {s} /\ ices'[s] = p
          /\ \A x \in DOMAIN ices \ {s} : ices'[x] = ices[x]
        BY <1>1 DEF Put, p
    <2>4. PutAt(s, o)
        BY <2>1, <2>2, <2>3 DEF PutAt
    <2>5. finals' \subseteq 0..FinalDelay /\ finals' # {}
        BY <1>1, IceAssumption DEF FinalStarted
    <2> QED BY <2>4, <2>5 DEF ChecksEnd
<1>2. CASE PeriodicStunCheck(Put(ices, s, o)) /\ UNCHANGED finals
    <2> DEFINE t == Put(ices, s, o)
    <2>1. DOMAIN t = DOMAIN ices \union {s} /\ t[s] = o /\ \A x \in DOMAIN ices \ {s} : t[x] = ices[x]
        BY DEF Put
    <2> HIDE DEF t
    <2>2. \A x \in DOMAIN t : Sound(t[x])
        BY <2>1 DEF Table
    <2>3. /\ DOMAIN ices' = DOMAIN t
          /\ \A x \in DOMAIN t : Touched(t[x], ices'[x]) /\ ices'[x].checking = t[x].checking
        BY <1>2, <2>2, PeriodicTouches DEF t
    <2>4. PutAt(s, o)
        BY <2>1, <2>3 DEF PutAt
    <2>5. ChecksEnd'
        BY <1>2, <2>1, <2>3 DEF ChecksEnd
    <2> QED BY <1>2, <2>4, <2>5
<1> QED BY <1>1, <1>2 DEF ICE_Start

-----------------------------------------------------------------------------
(* What NoSteal says of a step. *)
Steals ==
  \E s \in DOMAIN ices \intersect DOMAIN ices' :
    ices'[s].conn # ices[s].conn /\ apart' = "no" /\ ~(ices[s].session < 0 /\ ices[s].age > MaxAge)

(* A step that changes entries in part only. *)
LEMMA TouchKeeps ==
  ASSUME IceInv, Running, DOMAIN ices' = DOMAIN ices,
         \A x \in DOMAIN ices : Touched(ices[x], ices'[x]),
         UNCHANGED <<sessions, wrapper, talks, apart>>, heap' \in {"ok", "corrupt"},
         Counters', ChecksEnd'
  PROVE  IceInv' /\ ~Steals
<1>1. Table(ices') /\ Entries(sessions')
    BY DEF IceInv, Table, Entries, Touched
<1>2. Wrapper'
    BY DEF IceInv, Wrapper, wrapper
<1>3. apart' = "no" => Linked(ices', sessions')
    BY TouchLinked DEF IceInv
<1>4. AnswerAwaited'
    BY DEF IceInv, AnswerAwaited, Running, wrapper, Touched, Same
<1>5. ~Steals
    BY DEF Steals, Touched, Same
<1> QED BY <1>1, <1>2, <1>3, <1>4, <1>5 DEF IceInv

(* A step that writes an offer where no other connection waits for an      *)
(* answer.                                                                 *)
LEMMA PutKeeps ==
  ASSUME IceInv, Running, NEW c \in Conns, NEW s \in Slots, NEW o, o.conn = c, PutAt(s, o),
         UNCHANGED <<sessions, theirs, heap>>, Counters', Wrapper', ChecksEnd',
         ~o.answered \/ o.session < 0,
         own' = [own EXCEPT ![c] = s], phase' = [phase EXCEPT ![c] = phase'[c]],
         phase'[c] = "offered" => ~o.answered,
         apart' = "no" =>
           /\ ~UnderSession({s})
           /\ \A d \in Conns \ {c} : phase[d] = "offered" => own[d] # s
           /\ s \in DOMAIN ices => ices[s].conn = c \/ Expired(ices[s])
  PROVE  IceInv' /\ ~Steals
<1>1. Table(ices') /\ Entries(sessions')
    BY PutTable DEF IceInv
<1>2. apart' = "no" => Linked(ices', sessions')
    BY PutLinked DEF IceInv, Running
<1>3. ASSUME Running', NEW d \in Conns, phase'[d] = "offered"
      PROVE  own'[d] \in DOMAIN ices' /\ ices'[own'[d]].conn = d /\ ~ices'[own'[d]].answered
    <2>0. apart' = "no" /\ own \in [Conns -> Slots] /\ DOMAIN phase = Conns
        BY <1>3 DEF Running, IceInv, Wrapper
    <2>1. CASE d = c
        <3>1. own'[d] = s
            BY <2>0, <2>1
        <3> QED BY <1>3, <2>1, <3>1 DEF PutAt, Touched, Same
    <2>2. CASE d # c
        <3>1. phase[d] = "offered" /\ own'[d] = own[d] /\ own[d] # s
            BY <1>3, <2>0, <2>2
        <3>2. own[d] \in DOMAIN ices /\ ices[own[d]].conn = d /\ ~ices[own[d]].answered
            BY <3>1 DEF IceInv, AnswerAwaited
        <3> QED BY <3>1, <3>2 DEF PutAt, Touched, Same
    <2> QED BY <2>1, <2>2
<1>4. AnswerAwaited'
    BY <1>3 DEF AnswerAwaited
<1>5. ~Steals
    BY DEF Steals, PutAt, Touched, Same, Expired
<1> QED BY <1>1, <1>2, <1>4, <1>5 DEF IceInv

(* The rest of ILibStun_SetIceOffer2. *)
LEMMA AnsweredKeeps ==
  ASSUME IceInv, Running, offers < MaxOffers, NEW c \in Conns, NEW s \in Slots,
         NEW initiator \in BOOLEAN, NEW others, Answered(c, s, initiator, others),
         next' \in 0..MaxSlots,
         others = {} => \A d \in Conns \ {c} : phase[d] = "offered" => own[d] # s,
         others = {} => (s \in DOMAIN ices => ices[s].conn = c \/ Expired(ices[s]))
  PROVE  IceInv' /\ ~Steals
<1> DEFINE o == [conn |-> c, answered |-> TRUE, session |-> -1, controlling |-> initiator,
                 initiator |-> initiator, checking |-> FALSE, asked |-> c \in Asked(s),
                 allowed |-> Already(s) \intersect Range(Candidates[c]), age |-> 0]
<1>1. Sound(o)
    <2>1. Already(s) \intersect Range(Candidates[c]) \subseteq Addresses
        BY DEF Addresses
    <2>2. ASSUME NEW A \in SUBSET Addresses, NEW b \in BOOLEAN
          PROVE  [conn |-> c, answered |-> TRUE, session |-> -1, controlling |-> initiator,
                  initiator |-> initiator, checking |-> FALSE, asked |-> b,
                  allowed |-> A, age |-> 0] \in Offers
        BY IceAssumption DEF Offers
    <2>3. (c \in Asked(s)) \in BOOLEAN
        OBVIOUS
    <2>4. o \in Offers
        BY <2>1, <2>2, <2>3
    <2> QED BY <2>4 DEF Sound
<1>2. o.conn = c /\ o.session < 0 /\ o.answered /\ o.checking = FALSE
    OBVIOUS
<1>3. /\ offers' = offers + 1 /\ own' = [own EXCEPT ![c] = s]
      /\ phase' = [phase EXCEPT ![c] = IF phase[c] = "connected" THEN "connected" ELSE "set"]
      /\ talks' = IF initiator THEN talks ELSE talks \union {c}
      /\ apart' = IF others # {} THEN "answered"
                  ELSE IF UnderSession({s}) THEN "replaced" ELSE apart
      /\ UNCHANGED <<sessions, theirs, heap>>
      /\ \/ /\ ices' = Put(ices, s, o)
            /\ permits' = [permits EXCEPT ![s] = permits[s] + 1]
            /\ UNCHANGED finals
         \/ ICE_Start(s, o) /\ UNCHANGED permits
    BY DEF Answered
<1> HIDE DEF o
<1>4. PutAt(s, o) /\ finals' \subseteq 0..FinalDelay /\ ChecksEnd'
    <2>1. CASE ICE_Start(s, o)
        BY <1>1, <1>2, <2>1, StartPuts DEF IceInv, Counters
    <2>2. CASE ices' = Put(ices, s, o) /\ UNCHANGED finals
        <3>1. DOMAIN ices' = DOMAIN ices \union {s} /\ ices'[s] = o
              /\ \A x \in DOMAIN ices \ {s} : ices'[x] = ices[x]
            BY <2>2 DEF Put
        <3>2. PutAt(s, o)
            BY <1>1, <3>1 DEF PutAt, Touched, Same, IceInv, Table
        <3>3. ChecksEnd'
            BY <1>2, <2>2, <3>1 DEF ChecksEnd, IceInv
        <3> QED BY <2>2, <3>2, <3>3 DEF IceInv, Counters
    <2> QED BY <1>3, <2>1, <2>2
<1>5. Counters'
    <2>1. offers' \in 0..MaxOffers /\ offers \in Nat
        BY <1>3, IceAssumption DEF IceInv, Counters
    <2>2. permits' \in [Slots -> 0..offers']
        <3>1. permits \in [Slots -> 0..offers]
            BY DEF IceInv, Counters
        <3>2. permits \in [Slots -> 0..(offers + 1)] /\ permits[s] + 1 \in 0..(offers + 1)
            BY <2>1, <3>1
        <3> QED BY <1>3, <3>2
    <2> QED BY <1>4, <2>1, <2>2 DEF Counters
<1>6. Wrapper'
    BY <1>3 DEF IceInv, Wrapper
<1>7. phase' = [phase EXCEPT ![c] = phase'[c]] /\ phase'[c] # "offered"
    BY <1>3 DEF IceInv, Wrapper
<1>8. apart' = "no" => others = {} /\ ~UnderSession({s})
    BY <1>3
<1> QED BY <1>1, <1>2, <1>3, <1>4, <1>5, <1>6, <1>7, <1>8, PutKeeps

LEMMA SetAnswerKeeps ==
  ASSUME IceInv, NEW c \in Conns, NEW b \in BOOLEAN, SetAnswer(c, b)
  PROVE  IceInv' /\ ~Steals
<1>1. /\ Running /\ offers < MaxOffers /\ next' = next
      /\ Answered(c, own[c], b, Foreign({own[c]}, c))
    BY DEF SetAnswer
<1>2. own[c] \in Slots /\ next' \in 0..MaxSlots
    BY <1>1 DEF IceInv, Wrapper, Counters
<1> DEFINE others == Foreign({own[c]}, c)
<1>3. own[c] \in DOMAIN ices /\ ices[own[c]].conn # c => others # {}
    BY DEF Foreign
<1>4. others = {} => \A d \in Conns \ {c} : phase[d] = "offered" => own[d] # own[c]
    BY <1>1, <1>3 DEF IceInv, AnswerAwaited
<1> HIDE DEF others
<1> QED BY <1>1, <1>2, <1>3, <1>4, AnsweredKeeps DEF others

(* The slot that is taken holds no offer that waits for its answer, and    *)
(* none with a session.                                                    *)
LEMMA FreeSlotTaken ==
  ASSUME IceInv, Running, \E i \in Slots : Reusable(i)
  PROVE  /\ FreeSlot \in Slots /\ FreeSlot + 1 \in 0..MaxSlots /\ ~UnderSession({FreeSlot})
         /\ \A d \in Conns : phase[d] = "offered" => own[d] # FreeSlot
         /\ FreeSlot \in DOMAIN ices => Expired(ices[FreeSlot])
<1> DEFINE s == FreeSlot
<1>1. s \in Slots /\ (s \in DOMAIN ices => Expired(ices[s]))
    BY FreeSlotFree DEF IceInv
<1> HIDE DEF s
<1>2. s + 1 \in 0..MaxSlots
    BY <1>1, IceAssumption DEF Slots
<1>3. ~UnderSession({s})
    <2> SUFFICES ASSUME NEW k \in DOMAIN sessions, sessions[k].ice = s PROVE FALSE
        BY DEF UnderSession
    <2>1. s \in DOMAIN ices /\ ices[s].session = k /\ k \in Nat
        BY DEF IceInv, Running, Linked, LinkOut, Entries, Slots
    <2> QED BY <1>1, <2>1 DEF Expired
<1>4. ASSUME NEW d \in Conns, phase[d] = "offered", own[d] = s PROVE FALSE
    <2>1. s \in DOMAIN ices /\ ~ices[s].answered
        BY <1>4 DEF IceInv, AnswerAwaited
    <2>2. ices[s].session = 0
        BY <2>1 DEF IceInv, Table, Sound, Attached
    <2> QED BY <1>1, <2>1, <2>2 DEF Expired
<1> QED BY <1>1, <1>2, <1>3, <1>4 DEF s

LEMMA SetOfferKeeps ==
  ASSUME IceInv, NEW c \in Conns, NEW b \in BOOLEAN, SetOffer(c, b)
  PROVE  IceInv' /\ ~Steals
<1>0. Running /\ offers < MaxOffers
    BY DEF SetOffer
<1>1. CASE /\ SameRemote(c) # {} /\ Answered(c, Min(SameRemote(c)), b, {})
           /\ UNCHANGED next
    <2> DEFINE s == Min(SameRemote(c))
    <2>1. SameRemote(c) \subseteq Nat
        BY DEF SameRemote, IceInv, Table, Slots
    <2>2. s \in SameRemote(c)
        BY <1>1, <2>1, MinIsLeast
    <2>3. s \in DOMAIN ices /\ ices[s].answered /\ ices[s].conn = c
        BY <2>2 DEF SameRemote
    <2> HIDE DEF s
    <2>4. s \in Slots /\ next' \in 0..MaxSlots
        BY <1>1, <2>3 DEF IceInv, Table, Counters
    <2>5. \A d \in Conns \ {c} : phase[d] = "offered" => own[d] # s
        BY <1>0, <2>3 DEF IceInv, AnswerAwaited
    <2> QED BY <1>0, <1>1, <2>3, <2>4, <2>5, AnsweredKeeps DEF s
<1>2. CASE /\ \E i \in Slots : Reusable(i)
           /\ Answered(c, FreeSlot, b, {}) /\ next' = FreeSlot + 1
    BY <1>0, <1>2, FreeSlotTaken, AnsweredKeeps
<1> QED BY <1>1, <1>2 DEF SetOffer

LEMMA GenerateKeeps ==
  ASSUME IceInv, NEW c \in Conns, GenerateOffer(c)
  PROVE  IceInv' /\ ~Steals
<1> DEFINE s == FreeSlot
           o == [conn |-> c, answered |-> FALSE, session |-> Attached,
                 controlling |-> TRUE, initiator |-> TRUE, checking |-> FALSE, asked |-> FALSE,
                 allowed |-> {}, age |-> 0]
<1>1. /\ Running /\ phase[c] = "new" /\ \E i \in Slots : Reusable(i)
      /\ ices' = Put(ices, s, o) /\ next' = s + 1
      /\ phase' = [phase EXCEPT ![c] = "offered"] /\ own' = [own EXCEPT ![c] = s]
      /\ UNCHANGED <<sessions, timers, theirs, offers, talks, apart, heap>>
    BY DEF GenerateOffer
<1>2. /\ s \in Slots /\ s + 1 \in 0..MaxSlots /\ ~UnderSession({s})
      /\ \A d \in Conns : phase[d] = "offered" => own[d] # s
      /\ s \in DOMAIN ices => Expired(ices[s])
    BY <1>1, FreeSlotTaken
<1>3. Sound(o) /\ o.conn = c /\ ~o.answered /\ o.checking = FALSE
    BY IceAssumption DEF Sound, Offers, Attached, Slots
<1> HIDE DEF s, o
<1>4. DOMAIN ices' = DOMAIN ices \union {s} /\ ices'[s] = o
      /\ \A x \in DOMAIN ices \ {s} : ices'[x] = ices[x]
    BY <1>1 DEF Put
<1>5. PutAt(s, o)
    BY <1>3, <1>4 DEF PutAt, Touched, Same, IceInv, Table
<1>6. ChecksEnd'
    BY <1>1, <1>3, <1>4 DEF ChecksEnd, IceInv, timers
<1>7. Counters' /\ Wrapper'
    BY <1>1, <1>2 DEF IceInv, Counters, Wrapper, timers
<1>8. phase' = [phase EXCEPT ![c] = phase'[c]]
    BY <1>1 DEF IceInv, Wrapper
<1> QED BY <1>1, <1>2, <1>3, <1>5, <1>6, <1>7, <1>8, PutKeeps

-----------------------------------------------------------------------------
(* Steps that change one entry in part. *)
LEMMA EntryTouched ==
  ASSUME Table(ices), ChecksEnd, UNCHANGED finals, NEW s \in DOMAIN ices, NEW p,
         Touched(ices[s], p), p.checking = ices[s].checking, ices' = Put(ices, s, p)
  PROVE  /\ DOMAIN ices' = DOMAIN ices /\ ChecksEnd'
         /\ \A x \in DOMAIN ices : Touched(ices[x], ices'[x])
<1>1. DOMAIN ices' = DOMAIN ices /\ ices'[s] = p /\ \A x \in DOMAIN ices \ {s} : ices'[x] = ices[x]
    BY DEF Put
<1> QED BY <1>1 DEF ChecksEnd, Table, Touched, Same

LEMMA StartTouches ==
  ASSUME Table(ices), NEW s \in DOMAIN ices, NEW p, Touched(ices[s], p), PutAt(s, p)
  PROVE  /\ DOMAIN ices' = DOMAIN ices
         /\ \A x \in DOMAIN ices : Touched(ices[x], ices'[x])
<1> QED BY DEF PutAt, Touched, Same

LEMMA RequestKeeps ==
  ASSUME IceInv, NEW c \in Conns, NEW a \in Addresses, NEW b \in BOOLEAN, Request(c, a, b)
  PROVE  IceInv' /\ ~Steals
<1> DEFINE s == own[c]
           i == ices[s]
           A == i.allowed \union (IF i.answered THEN {a} \intersect Range(ListOf(i)) ELSE {a})
           o == [i EXCEPT !.allowed = A]
<1>1. /\ Running /\ s \in DOMAIN ices
      /\ UNCHANGED <<next, sessions, permits, wrapper, talks, apart, heap>>
      /\ \/ ices' = Put(ices, s, [o EXCEPT !.asked = o.answered /\ o.session < 0]) /\ UNCHANGED finals
         \/ ices' = Put(ices, s, o) /\ UNCHANGED finals
         \/ ICE_Start(s, [o EXCEPT !.controlling = ~o.controlling])
    BY DEF Request
<1>2. Sound(i) /\ s \in Slots /\ (i.checking => finals # {})
    BY <1>1 DEF IceInv, Table, ChecksEnd
<1>3. /\ A \subseteq Addresses /\ i.allowed \subseteq A
      /\ i.answered => A \subseteq Range(Candidates[i.conn])
    BY <1>2, OfferParts DEF Sound, ListOf
<1> HIDE DEF A, i, s
<1>4. Touched(i, o) /\ o.checking = i.checking
    BY <1>2, <1>3 DEF Sound, Touched, Same, Offers
<1> HIDE DEF o
<1>5. ASSUME NEW e \in BOOLEAN
      PROVE  /\ Touched(i, [o EXCEPT !.asked = e]) /\ [o EXCEPT !.asked = e].checking = i.checking
             /\ Touched(i, [o EXCEPT !.controlling = e]) /\ [o EXCEPT !.controlling = e].checking = i.checking
    BY <1>4 DEF Sound, Touched, Same, Offers
<1>6. /\ DOMAIN ices' = DOMAIN ices /\ ChecksEnd' /\ finals' \subseteq 0..FinalDelay
      /\ \A x \in DOMAIN ices : Touched(ices[x], ices'[x])
    <2>0. Table(ices) /\ ChecksEnd /\ finals \subseteq 0..FinalDelay /\ ices[s] = i
        BY DEF IceInv, Counters, i
    <2>1. CASE ices' = Put(ices, s, o) /\ UNCHANGED finals
        BY <1>1, <1>4, <2>0, <2>1, EntryTouched
    <2>2. CASE ices' = Put(ices, s, [o EXCEPT !.asked = o.answered /\ o.session < 0]) /\ UNCHANGED finals
        <3> DEFINE p == [o EXCEPT !.asked = o.answered /\ o.session < 0]
        <3>1. Touched(i, p) /\ p.checking = i.checking
            <4>1. (o.answered /\ o.session < 0) \in BOOLEAN
                OBVIOUS
            <4> QED BY <1>5, <4>1
        <3> HIDE DEF p
        <3> QED BY <1>1, <2>0, <2>2, <3>1, EntryTouched DEF p
    <2>3. CASE ICE_Start(s, [o EXCEPT !.controlling = ~o.controlling])
        <3> DEFINE p == [o EXCEPT !.controlling = ~o.controlling]
        <3>1. Touched(i, p) /\ p.checking = i.checking
            <4>1. (~o.controlling) \in BOOLEAN
                OBVIOUS
            <4> QED BY <1>5, <4>1
        <3> HIDE DEF p
        <3>2. Sound(p) /\ ICE_Start(s, p)
            BY <2>3, <3>1 DEF Touched, p
        <3>3. PutAt(s, p) /\ finals' \subseteq 0..FinalDelay /\ ChecksEnd'
            BY <1>2, <2>0, <3>1, <3>2, StartPuts
        <3> QED BY <1>1, <2>0, <3>1, <3>3, StartTouches
    <2> QED BY <1>1, <2>1, <2>2, <2>3
<1>7. Counters'
    BY <1>1, <1>6 DEF IceInv, Counters, wrapper
<1>8. heap' \in {"ok", "corrupt"}
    BY <1>1 DEF IceInv, Wrapper
<1> QED BY <1>1, <1>6, <1>7, <1>8, TouchKeeps

LEMMA ResponseKeeps ==
  ASSUME IceInv, NEW s \in Slots, NEW a \in Addresses, Response(s, a)
  PROVE  IceInv' /\ ~Steals
<1> DEFINE i == ices[s]
           p == [i EXCEPT !.allowed = i.allowed \union {a}]
<1>1. /\ Running /\ s \in DOMAIN ices /\ i.answered /\ a \in Range(ListOf(i))
      /\ UNCHANGED <<next, sessions, timers, wrapper, talks, apart, heap>>
      /\ ices' = [ices EXCEPT ![s].allowed = i.allowed \union {a}]
    BY DEF Response
<1>2. DOMAIN ices' = DOMAIN ices /\ ices'[s] = p /\ \A x \in DOMAIN ices \ {s} : ices'[x] = ices[x]
    BY <1>1
<1>3. Sound(i)
    BY <1>1 DEF IceInv, Table
<1> HIDE DEF i
<1>4. Touched(i, p) /\ p.checking = i.checking
    BY <1>1, <1>3 DEF Sound, Touched, Same, Offers, ListOf
<1> HIDE DEF p
<1>5. \A x \in DOMAIN ices : Touched(ices[x], ices'[x]) /\ ices'[x].checking = ices[x].checking
    BY <1>2, <1>4 DEF IceInv, Table, Touched, Same, i
<1>6. ChecksEnd'
    BY <1>1, <1>2, <1>5 DEF IceInv, ChecksEnd, timers
<1>7. Counters' /\ heap' \in {"ok", "corrupt"}
    BY <1>1 DEF IceInv, Counters, Wrapper, wrapper, timers
<1> QED BY <1>1, <1>2, <1>5, <1>6, <1>7, TouchKeeps

LEMMA PermissionKeeps ==
  ASSUME IceInv, NEW s \in Slots, PermissionAnswered(s)
  PROVE  IceInv' /\ ~Steals
<1>1. /\ Running /\ permits[s] > 0 /\ permits' = [permits EXCEPT ![s] = permits[s] - 1]
      /\ \/ s \in DOMAIN ices /\ ICE_Start(s, ices[s]) /\ UNCHANGED heap
         \/ UNCHANGED <<ices, finals>> /\ heap' \in {heap, "corrupt"}
      /\ UNCHANGED <<next, sessions, wrapper, talks, apart>>
    BY DEF PermissionAnswered
<1>2. permits' \in [Slots -> 0..offers]
    BY <1>1, IceAssumption DEF IceInv, Counters
<1>3. /\ DOMAIN ices' = DOMAIN ices /\ ChecksEnd' /\ finals' \subseteq 0..FinalDelay
      /\ \A x \in DOMAIN ices : Touched(ices[x], ices'[x])
    <2>0. /\ Table(ices) /\ ChecksEnd /\ finals \subseteq 0..FinalDelay
          /\ \A x \in DOMAIN ices : Touched(ices[x], ices[x])
        BY DEF IceInv, Counters, Table, Touched, Same
    <2>1. CASE s \in DOMAIN ices /\ ICE_Start(s, ices[s])
        <3>1. Sound(ices[s]) /\ (ices[s].checking => finals # {})
            BY <2>0, <2>1 DEF Table, ChecksEnd
        <3>2. PutAt(s, ices[s]) /\ finals' \subseteq 0..FinalDelay /\ ChecksEnd'
            BY <2>0, <2>1, <3>1, StartPuts
        <3> QED BY <2>0, <2>1, <3>2, StartTouches
    <2>2. CASE UNCHANGED <<ices, finals>>
        BY <2>0, <2>2 DEF ChecksEnd
    <2> QED BY <1>1, <2>1, <2>2
<1>4. Counters' /\ heap' \in {"ok", "corrupt"}
    BY <1>1, <1>2, <1>3 DEF IceInv, Counters, Wrapper, wrapper
<1> QED BY <1>1, <1>3, <1>4, TouchKeeps

LEMMA PeriodicKeeps ==
  ASSUME IceInv, PeriodicTimer
  PROVE  IceInv' /\ ~Steals
<1>1. /\ Running /\ PeriodicStunCheck(ices)
      /\ UNCHANGED <<next, sessions, finals, permits, wrapper, talks, apart, heap>>
    BY DEF PeriodicTimer
<1>2. /\ DOMAIN ices' = DOMAIN ices
      /\ \A x \in DOMAIN ices : Touched(ices[x], ices'[x]) /\ ices'[x].checking = ices[x].checking
    BY <1>1, PeriodicTouches DEF IceInv, Table
<1>3. ChecksEnd'
    BY <1>1, <1>2 DEF IceInv, ChecksEnd
<1>4. Counters' /\ heap' \in {"ok", "corrupt"}
    BY <1>1 DEF IceInv, Counters, Wrapper, wrapper
<1> QED BY <1>1, <1>2, <1>3, <1>4, TouchKeeps

LEMMA ClockKeeps ==
  ASSUME IceInv, Clock
  PROVE  IceInv' /\ ~Steals
<1>1. /\ Running /\ 0 \notin finals /\ finals' = {t - 1 : t \in finals}
      /\ DOMAIN ices' = DOMAIN ices
      /\ \A x \in DOMAIN ices : ices'[x] = [ices[x] EXCEPT !.age = Older(ices[x])]
      /\ UNCHANGED <<next, sessions, permits, wrapper, talks, apart, heap>>
    BY DEF Clock
<1>2. ASSUME NEW x \in DOMAIN ices
      PROVE  Touched(ices[x], ices'[x]) /\ ices'[x].checking = ices[x].checking
    <2>1. Sound(ices[x]) /\ ices[x].age \in 0..(MaxAge + 1) /\ ices[x].session \in Int
        BY OfferParts DEF IceInv, Table, Sound
    <2>2. Older(ices[x]) \in 0..(MaxAge + 1)
        BY <2>1, IceAssumption DEF Older
    <2>3. \A n \in 0..(MaxAge + 1) : /\ Touched(ices[x], [ices[x] EXCEPT !.age = n])
                                     /\ [ices[x] EXCEPT !.age = n].checking = ices[x].checking
        BY <2>1 DEF Sound, Touched, Same, Offers
    <2> QED BY <1>1, <2>2, <2>3
<1>3. ChecksEnd'
    BY <1>1, <1>2 DEF IceInv, ChecksEnd
<1>4. finals' \subseteq 0..FinalDelay
    BY <1>1, IceAssumption DEF IceInv, Counters
<1>5. Counters' /\ heap' \in {"ok", "corrupt"}
    BY <1>1, <1>4 DEF IceInv, Counters, Wrapper, wrapper
<1> QED BY <1>1, <1>2, <1>3, <1>5, TouchKeeps

LEMMA PassingKeeps ==
  ASSUME IceInv, PassingBy
  PROVE  IceInv' /\ ~Steals
<1>1. /\ Running /\ next' = FreeSlot + 1 /\ \E i \in Slots : Reusable(i)
      /\ UNCHANGED <<ices, sessions, timers, wrapper, talks, apart, heap>>
    BY DEF PassingBy
<1>2. FreeSlot + 1 \in 0..MaxSlots
    BY <1>1, FreeSlotTaken
<1>3. \A x \in DOMAIN ices : Touched(ices[x], ices'[x])
    BY <1>1 DEF IceInv, Table, Touched, Same
<1>4. Counters' /\ heap' \in {"ok", "corrupt"} /\ ChecksEnd'
    BY <1>1, <1>2 DEF IceInv, Counters, Wrapper, ChecksEnd, wrapper, timers
<1> QED BY <1>1, <1>3, <1>4, TouchKeeps

-----------------------------------------------------------------------------
(* Sessions that begin, are told and end. *)
LEMMA ConnectedKeeps ==
  ASSUME IceInv, NEW k \in Slots, Connected(k)
  PROVE  IceInv' /\ ~Steals
<1> DEFINE c == ices[sessions[k].ice].conn
<1>1. /\ Running /\ k \in DOMAIN sessions /\ sessions[k].ice \in DOMAIN ices
      /\ sessions' = [sessions EXCEPT ![k].told = TRUE]
      /\ phase' = [phase EXCEPT ![c] = "connected"]
      /\ UNCHANGED <<ices, next, timers, own, theirs, offers, talks, apart, heap>>
    BY DEF Connected
<1>2. /\ DOMAIN sessions' = DOMAIN sessions
      /\ \A x \in DOMAIN sessions : /\ sessions'[x] \in Sessions /\ sessions'[x].ice = sessions[x].ice
                                    /\ sessions'[x].remote = sessions[x].remote
    BY <1>1 DEF IceInv, Entries, Sessions
<1>3. Table(ices') /\ Entries(sessions') /\ Counters'
    BY <1>1, <1>2 DEF IceInv, Entries, Counters, timers
<1>4. apart' = "no" => Linked(ices', sessions')
    BY <1>1, <1>2 DEF IceInv, Linked, LinkOut, LinkBack
<1> HIDE DEF c
<1>5. Wrapper' /\ \A d \in Conns : phase'[d] = "offered" => phase[d] = "offered"
    BY <1>1 DEF IceInv, Wrapper
<1>6. AnswerAwaited' /\ ChecksEnd'
    BY <1>1, <1>5 DEF IceInv, AnswerAwaited, ChecksEnd, Running, timers
<1>7. ~Steals
    BY <1>1 DEF Steals
<1> QED BY <1>3, <1>4, <1>5, <1>6, <1>7 DEF IceInv

(* What is left of the table when the slots of S are cleared and no session *)
(* but that of K had its ICE state there.                                  *)
LEMMA CutKeeps ==
  ASSUME IceInv, Running, NEW S, NEW K, ices' = Without(ices, S), DOMAIN sessions' = DOMAIN sessions \ K,
         \A k \in DOMAIN sessions' : sessions'[k] = sessions[k], UNCHANGED <<timers, offers, next>>, Wrapper', own' = own,
         apart' = "no" =>
           /\ \A k \in DOMAIN sessions : sessions[k].ice \in S <=> k \in K
           /\ \A d \in Conns : phase'[d] = "offered" => phase[d] = "offered" /\ own[d] \notin S
  PROVE  IceInv' /\ ~Steals
<1>1. /\ DOMAIN ices' = DOMAIN ices \ S /\ \A x \in DOMAIN ices' : ices'[x] = ices[x]
      /\ DOMAIN sessions' = DOMAIN sessions \ K
      /\ \A k \in DOMAIN sessions' : sessions'[k] = sessions[k]
    BY DEF Without, Restrict
<1>2. Table(ices') /\ Entries(sessions') /\ Counters' /\ ChecksEnd'
    BY <1>1 DEF IceInv, Table, Entries, Counters, ChecksEnd, timers
<1>3. ASSUME apart' = "no" PROVE Linked(ices', sessions')
    <2>1. Linked(ices, sessions)
        BY DEF IceInv, Running
    <2>2. LinkOut(ices', sessions')
        BY <1>1, <1>3, <2>1 DEF Linked, LinkOut
    <2>3. LinkBack(ices', sessions')
        BY <1>1, <1>3, <2>1 DEF Linked, LinkBack
    <2> QED BY <2>2, <2>3 DEF Linked
<1>4. AnswerAwaited'
    BY <1>1 DEF IceInv, AnswerAwaited, Running
<1>5. ~Steals
    BY <1>1 DEF Steals
<1> QED BY <1>2, <1>3, <1>4, <1>5 DEF IceInv

LEMMA EndKeeps ==
  ASSUME IceInv, NEW k \in Slots, End(k)
  PROVE  IceInv' /\ ~Steals
<1> DEFINE x == sessions[k].ice
<1>1. /\ Running /\ k \in DOMAIN sessions
      /\ sessions' = Without(sessions, {k}) /\ ices' = Without(ices, {x})
      /\ phase' = [c \in Conns |-> IF sessions[k].told /\ x \in DOMAIN ices /\ ices[x].conn = c
                                   THEN "gone" ELSE phase[c]]
      /\ apart' = IF \E s \in {x} \intersect DOMAIN ices : ices[s].session # k
                  THEN "cleared" ELSE apart
      /\ UNCHANGED <<next, timers, own, theirs, offers, talks, heap>>
    BY DEF End, ClearIce
<1>2. Linked(ices, sessions)
    BY <1>1 DEF IceInv, Running
<1> HIDE DEF x
<1>3. \A l \in DOMAIN sessions : sessions[l].ice \in {x} <=> l \in {k}
    BY <1>1, <1>2 DEF Linked, LinkOut, x
<1>4. x \in DOMAIN ices /\ ices[x].answered
    BY <1>1, <1>2 DEF Linked, LinkOut, x
<1>5. \A d \in Conns : phase'[d] = "offered" => phase[d] = "offered" /\ own[d] \notin {x}
    BY <1>1, <1>4 DEF IceInv, AnswerAwaited
<1>6. DOMAIN sessions' = DOMAIN sessions \ {k} /\ \A l \in DOMAIN sessions' : sessions'[l] = sessions[l]
    BY <1>1 DEF Without, Restrict
<1>7. Wrapper'
    <2>1. phase' \in [Conns -> {"new", "offered", "set", "connected", "closing", "gone"}]
        BY <1>1 DEF IceInv, Wrapper
    <2> QED BY <1>1, <2>1 DEF IceInv, Wrapper
<1> QED BY <1>1, <1>3, <1>5, <1>6, <1>7, CutKeeps

LEMMA ClearKeeps ==
  ASSUME IceInv, Running, NEW S, NEW c \in Conns, Clear(S, c), NEW p \in {"closing", "gone"},
         phase' = [phase EXCEPT ![c] = p], theirs' \in [Conns -> Slots], heap' \in {"ok", "corrupt"}
  PROVE  IceInv' /\ ~Steals
<1>1. /\ ices' = Without(ices, S) /\ UNCHANGED <<next, sessions, timers, own, offers, talks>>
      /\ apart' = IF Foreign(S, c) # {} THEN "foreign"
                  ELSE IF UnderSession(S) THEN "cleared" ELSE apart
    BY DEF Clear
<1>2. DOMAIN sessions' = DOMAIN sessions \ {} /\ \A k \in DOMAIN sessions' : sessions'[k] = sessions[k]
    BY <1>1
<1>3. Wrapper'
    BY <1>1 DEF IceInv, Wrapper
<1>4. ASSUME apart' = "no"
      PROVE  /\ \A k \in DOMAIN sessions : sessions[k].ice \in S <=> k \in {}
             /\ \A d \in Conns : phase'[d] = "offered" => phase[d] = "offered" /\ own[d] \notin S
    <2>1. Foreign(S, c) = {} /\ ~UnderSession(S)
        BY <1>1, <1>4
    <2>2. \A k \in DOMAIN sessions : sessions[k].ice \notin S
        BY <2>1 DEF UnderSession
    <2>3. ASSUME NEW d \in Conns, phase'[d] = "offered" PROVE phase[d] = "offered" /\ own[d] \notin S
        <3>1. d # c /\ phase[d] = "offered"
            BY <2>3 DEF IceInv, Wrapper
        <3>2. own[d] \in DOMAIN ices /\ ices[own[d]].conn = d
            BY <3>1 DEF IceInv, AnswerAwaited
        <3> QED BY <2>1, <3>1, <3>2 DEF Foreign
    <2> QED BY <2>2, <2>3
<1> DEFINE K == {}
<1>5. /\ DOMAIN sessions' = DOMAIN sessions \ K
      /\ apart' = "no" =>
           /\ \A k \in DOMAIN sessions : sessions[k].ice \in S <=> k \in K
           /\ \A d \in Conns : phase'[d] = "offered" => phase[d] = "offered" /\ own[d] \notin S
    BY <1>2, <1>4
<1> HIDE DEF K
<1> QED BY <1>1, <1>2, <1>3, <1>5, CutKeeps

LEMMA DisconnectKeeps ==
  ASSUME IceInv, NEW c \in Conns, Disconnect(c)
  PROVE  IceInv' /\ ~Steals
<1>1. own[c] \in Slots /\ theirs \in [Conns -> Slots]
    BY DEF IceInv, Wrapper
<1>2. PICK t \in Slots :
        /\ Running /\ phase' = [phase EXCEPT ![c] = "closing"]
        /\ \/ /\ theirs' = [theirs EXCEPT ![c] = t] /\ Clear({own[c], t}, c)
              /\ heap' = heap
           \/ theirs' = theirs /\ Clear({own[c]}, c) /\ heap' = "corrupt"
    BY <1>1 DEF Disconnect
<1>3. theirs' \in [Conns -> Slots] /\ heap' \in {"ok", "corrupt"}
    BY <1>1, <1>2 DEF Running
<1>4. CASE Clear({own[c], t}, c)
    BY <1>2, <1>3, <1>4, ClearKeeps
<1>5. CASE Clear({own[c]}, c)
    BY <1>2, <1>3, <1>5, ClearKeeps
<1> QED BY <1>2, <1>4, <1>5

LEMMA DestroyKeeps ==
  ASSUME IceInv, NEW c \in Conns, DestroyConnection(c)
  PROVE  IceInv' /\ ~Steals
<1>1. /\ Running /\ phase' = [phase EXCEPT ![c] = "gone"]
      /\ theirs' = [theirs EXCEPT ![c] = 0] /\ Clear({own[c], theirs[c]}, c)
      /\ heap' = heap
    BY DEF DestroyConnection
<1>2. theirs' \in [Conns -> Slots] /\ heap' \in {"ok", "corrupt"}
    BY <1>1, IceAssumption DEF IceInv, Wrapper, Slots, Running
<1> QED BY <1>1, <1>2, ClearKeeps

(* A packet of a peer finds its session or begins one. *)
LEMMA OnUDPKeeps ==
  ASSUME IceInv, NEW c \in Conns, NEW a \in Addresses, OnUDP(c, a)
  PROVE  IceInv' /\ ~Steals
<1>1. /\ Running /\ UNCHANGED <<next, timers, wrapper, talks, heap>>
      /\ Linked(ices, sessions)
    BY DEF OnUDP, IceInv, Running
<1>2. \A s \in DOMAIN ices : a \in Range(ListOf(ices[s])) => ices[s].answered
    <2>1. Range(<<>>) = {}
        BY DEF Range
    <2> QED BY <2>1 DEF ListOf
<1>3. DOMAIN ices \subseteq Nat
    BY DEF IceInv, Table, Slots
<1>4. CASE /\ AtCandidate(a) # {} /\ UNCHANGED <<ices, apart>>
           /\ sessions' = [sessions EXCEPT ![ices[Min(AtCandidate(a))].session].remote = a]
    <2> DEFINE s == Min(AtCandidate(a))
               k == ices[s].session
    <2>1. s \in AtCandidate(a)
        BY <1>3, <1>4, MinIsLeast DEF AtCandidate
    <2>2. s \in DOMAIN ices /\ k \in DOMAIN sessions /\ ices[s].answered /\ a \in ices[s].allowed
        BY <1>2, <2>1 DEF AtCandidate, HasSession
    <2>3. k >= 0
        BY <2>2 DEF IceInv, Entries, Slots
    <2>4. sessions[k].ice = s
        BY <1>1, <2>2, <2>3 DEF Linked, LinkBack
    <2>5. sessions' = [sessions EXCEPT ![k].remote = a]
        BY <1>4
    <2> HIDE DEF k, s
    <2>6. /\ DOMAIN sessions' = DOMAIN sessions
          /\ \A l \in DOMAIN sessions : /\ sessions'[l] \in Sessions /\ sessions'[l].ice = sessions[l].ice
                                        /\ sessions'[l].remote = IF l = k THEN a ELSE sessions[l].remote
        BY <2>5 DEF IceInv, Entries, Sessions
    <2>7. LinkOut(ices', sessions')
        BY <1>1, <1>4, <2>2, <2>4, <2>6 DEF Linked, LinkOut
    <2>8. LinkBack(ices', sessions')
        BY <1>1, <1>4, <2>6 DEF Linked, LinkBack
    <2>9. Table(ices') /\ Entries(sessions') /\ Counters' /\ Wrapper'
        BY <1>1, <1>4, <2>6 DEF IceInv, Entries, Counters, Wrapper, timers, wrapper
    <2>10. AnswerAwaited' /\ ChecksEnd' /\ ~Steals
        BY <1>1, <1>4 DEF IceInv, AnswerAwaited, ChecksEnd, Running, Steals, wrapper, timers
    <2> QED BY <2>7, <2>8, <2>9, <2>10 DEF IceInv, Linked
<1>5. CASE /\ Listed(a) # {}
           /\ LET s == Min(Listed(a)) IN
              /\ a \in ices[s].allowed /\ FreeSession # {}
              /\ ices' = [ices EXCEPT ![s].session = Min(FreeSession), ![s].age = 0,
                                     ![s].asked = FALSE]
              /\ sessions' = Put(sessions, Min(FreeSession), NewSession(s, a))
              /\ apart' = IF ices[s].conn = c THEN apart ELSE "other"
    <2> DEFINE s == Min(Listed(a))
               k == Min(FreeSession)
               p == [ices[s] EXCEPT !.session = k, !.age = 0, !.asked = FALSE]
    <2>1. s \in Listed(a)
        BY <1>3, <1>5, MinIsLeast DEF Listed
    <2>2. k \in Slots /\ k \notin DOMAIN sessions /\ k >= 0
        <3>1. FreeSession \subseteq Nat /\ FreeSession # {}
            BY <1>5 DEF FreeSession, Slots
        <3>2. k \in FreeSession
            BY <3>1, MinIsLeast
        <3> HIDE DEF k
        <3> QED BY <3>2 DEF FreeSession, Slots
    <2>3. s \in DOMAIN ices /\ ices[s].session < 0 /\ ices[s].answered /\ a \in ices[s].allowed
        BY <1>2, <1>5, <2>1 DEF Listed
    <2>4. /\ ices' = [ices EXCEPT ![s].session = k, ![s].age = 0, ![s].asked = FALSE]
          /\ sessions' = Put(sessions, k, NewSession(s, a)) /\ apart' \in {apart, "other"}
        BY <1>5
    <2> HIDE DEF s, k
    <2>5. /\ DOMAIN ices' = DOMAIN ices /\ ices'[s] = p
          /\ \A x \in DOMAIN ices \ {s} : ices'[x] = ices[x]
        BY <2>3, <2>4
    <2>6. /\ p \in Offers /\ p.conn = ices[s].conn /\ p.answered = ices[s].answered /\ p.session = k
          /\ p.allowed = ices[s].allowed /\ p.checking = ices[s].checking
        <3>1. ices[s] \in Offers
            BY <2>3 DEF IceInv, Table, Sound
        <3>2. k \in Slots \union {-1} /\ 0 \in 0..(MaxAge + 1)
            BY <2>2, IceAssumption
        <3>3. \A i \in Offers :
                LET q == [i EXCEPT !.session = k, !.age = 0, !.asked = FALSE] IN
                  /\ q \in Offers /\ q.conn = i.conn /\ q.answered = i.answered /\ q.session = k
                  /\ q.allowed = i.allowed /\ q.checking = i.checking
            BY <3>2 DEF Offers
        <3> QED BY <3>1, <3>3
    <2> HIDE DEF p
    <2>7. Sound(p)
        BY <2>3, <2>6 DEF IceInv, Table, Sound
    <2>8. /\ DOMAIN sessions' = DOMAIN sessions \union {k}
          /\ sessions'[k] = NewSession(s, a)
          /\ \A l \in DOMAIN sessions : sessions'[l] = sessions[l]
        BY <2>2, <2>4 DEF Put
    <2>9. NewSession(s, a) \in Sessions /\ NewSession(s, a).ice = s /\ NewSession(s, a).remote = a
        BY <2>3 DEF NewSession, Sessions, IceInv, Table
    <2>10. sessions'[k].ice = s /\ sessions'[k].remote \in ices'[s].allowed
        BY <2>3, <2>5, <2>6, <2>8, <2>9
    <2>11. Linked(ices', sessions')
        <3>1. Entries(sessions) /\ k \in Slots \ DOMAIN sessions /\ sessions'[k].ice = s
              /\ sessions'[k].remote \in ices'[s].allowed /\ ices'[s].answered /\ ices'[s].session = k
            BY <2>2, <2>3, <2>5, <2>6, <2>10 DEF IceInv
        <3> QED BY <1>1, <2>3, <2>5, <2>8, <3>1, BeginLinked
    <2>12. Table(ices') /\ Entries(sessions')
        BY <2>2, <2>5, <2>7, <2>8, <2>9 DEF IceInv, Table, Entries
    <2>13. Counters' /\ Wrapper' /\ ChecksEnd'
        BY <1>1, <2>4, <2>5, <2>6 DEF IceInv, Counters, Wrapper, ChecksEnd, timers, wrapper
    <2>14. AnswerAwaited' /\ ~Steals
        BY <1>1, <2>5, <2>6 DEF IceInv, AnswerAwaited, Running, Steals, wrapper
    <2> QED BY <2>11, <2>12, <2>13, <2>14 DEF IceInv
<1> QED BY <1>4, <1>5 DEF OnUDP

-----------------------------------------------------------------------------
(* The pass of ILibStun_ICE_FinalizeConnectivityChecks, slot by slot.      *)
Pass(f, n) ==
  /\ f[0] = [ices |-> ices, sessions |-> sessions]
  /\ \A i \in 1..n : f[i] = FinalizeSlot(f[i - 1], i - 1)
Passes(f) ==
  f = [n \in 0..MaxSlots |->
         IF n = 0 THEN [ices |-> ices, sessions |-> sessions] ELSE FinalizeSlot(f[n - 1], n - 1)]

LEMMA PassExists == \E f : Passes(f)
<1> DEFINE A == {n \in Nat : \E f : Pass(f, n)}
<1>1. 0 \in A
    <2> DEFINE f == [i \in 0..0 |-> [ices |-> ices, sessions |-> sessions]]
    <2>1. Pass(f, 0)
        BY DEF Pass
    <2> QED BY <2>1
<1>2. ASSUME NEW n \in Nat, n \in A PROVE n + 1 \in A
    <2>1. PICK f : Pass(f, n)
        BY <1>2
    <2> DEFINE last == FinalizeSlot(f[n], n)
               g == [i \in 0..(n + 1) |-> IF i = n + 1 THEN last ELSE f[i]]
    <2>2. g[0] = f[0] /\ g[n + 1] = last
        OBVIOUS
    <2>3. \A i \in 0..n : g[i] = f[i]
        OBVIOUS
    <2> HIDE DEF g
    <2>4. ASSUME NEW i \in 1..(n + 1) PROVE g[i] = FinalizeSlot(g[i - 1], i - 1)
        <3>1. CASE i = n + 1
            <4>1. i - 1 = n /\ g[n] = f[n]
                BY <2>3, <3>1
            <4> QED BY <2>2, <3>1, <4>1
        <3>2. CASE i # n + 1
            <4>1. i \in 1..n /\ i \in 0..n /\ i - 1 \in 0..n
                BY <3>2
            <4>2. f[i] = FinalizeSlot(f[i - 1], i - 1)
                BY <2>1, <4>1 DEF Pass
            <4>3. g[i] = f[i] /\ g[i - 1] = f[i - 1]
                BY <2>3, <4>1
            <4> QED BY <4>2, <4>3
        <3> QED BY <3>1, <3>2
    <2>5. Pass(g, n + 1)
        BY <2>1, <2>2, <2>4 DEF Pass
    <2> QED BY <2>5
<1> HIDE DEF A
<1>3. MaxSlots \in A
    BY <1>1, <1>2, Induction, IceAssumption
<1>4. PICK f : Pass(f, MaxSlots)
    BY <1>3 DEF A
<1> DEFINE g == [n \in 0..MaxSlots |-> f[n]]
<1>5. ASSUME NEW n \in 0..MaxSlots
      PROVE  f[n] = IF n = 0 THEN [ices |-> ices, sessions |-> sessions]
                    ELSE FinalizeSlot(g[n - 1], n - 1)
    <2>1. CASE n = 0
        BY <1>4, <2>1 DEF Pass
    <2>2. CASE n # 0
        <3>1. n \in 1..MaxSlots /\ n - 1 \in 0..MaxSlots
            BY <2>2, IceAssumption
        <3>2. g[n - 1] = f[n - 1]
            BY <3>1
        <3>3. f[n] = FinalizeSlot(f[n - 1], n - 1)
            BY <1>4, <3>1 DEF Pass
        <3> QED BY <2>2, <3>2, <3>3
    <2> QED BY <2>1, <2>2
<1>6. Passes(g)
    BY <1>5 DEF Passes
<1> QED BY <1>6

LEMMA FinalizedIsPass ==
  \E f : Pass(f, MaxSlots) /\ Finalized = f[MaxSlots]
<1>1. PICK f : Passes(f) /\ Finalized = f[MaxSlots]
    <2>1. Finalized = (CHOOSE f : Passes(f))[MaxSlots]
        BY DEF Finalized, Passes
    <2> QED BY <2>1, PassExists
<1>2. \A n \in 0..MaxSlots :
        f[n] = IF n = 0 THEN [ices |-> ices, sessions |-> sessions] ELSE FinalizeSlot(f[n - 1], n - 1)
    <2> DEFINE body(n) == IF n = 0 THEN [ices |-> ices, sessions |-> sessions]
                          ELSE FinalizeSlot(f[n - 1], n - 1)
    <2>1. f = [n \in 0..MaxSlots |-> body(n)]
        BY <1>1 DEF Passes
    <2> HIDE DEF body
    <2>2. \A n \in 0..MaxSlots : f[n] = body(n)
        BY <2>1
    <2> QED BY <2>2 DEF body
<1>3. 0 \in 0..MaxSlots /\ \A n \in 1..MaxSlots : n \in 0..MaxSlots /\ n # 0
    BY IceAssumption
<1>4. Pass(f, MaxSlots)
    BY <1>2, <1>3 DEF Pass
<1> QED BY <1>1, <1>4

LEMMA NomineeAllowed ==
  ASSUME NEW o, Sound(o), o.answered, o.allowed # {}
  PROVE  Nominee(o) \in o.allowed
<1> DEFINE l == Candidates[o.conn]
           D == {i \in DOMAIN l : l[i] \in o.allowed}
<1>1. l \in Seq(Range(l)) /\ o.allowed \subseteq Range(l)
    BY OfferParts, IceAssumption DEF Sound
<1>2. D \subseteq Nat /\ D # {}
    <2>1. DOMAIN l = 1..Len(l) /\ Len(l) \in Nat
        BY <1>1, LenProperties
    <2>2. \A x \in Range(l) : \E i \in DOMAIN l : l[i] = x
        BY DEF Range
    <2> QED BY <1>1, <2>1, <2>2
<1>3. Min(D) \in D
    BY <1>2, MinIsLeast
<1>4. Nominee(o) = l[Min(D)]
    BY DEF Nominee, ListOf
<1> QED BY <1>3, <1>4

(* What the pass has made of the tables when it gets to slot n: the slots  *)
(* from n on are as they were, and the tables are linked unless a session  *)
(* was replaced.                                                           *)
PassInv(t, n) ==
  /\ DOMAIN t.ices = DOMAIN ices
  /\ \A s \in DOMAIN ices :
       /\ Sound(t.ices[s]) /\ t.ices[s].conn = ices[s].conn /\ t.ices[s].answered = ices[s].answered
       /\ IF s < n THEN ~t.ices[s].checking ELSE t.ices[s] = ices[s]
  /\ Entries(t.sessions) /\ DOMAIN sessions \subseteq DOMAIN t.sessions
  /\ \A k \in DOMAIN t.sessions \ DOMAIN sessions : t.sessions[k].ice \in DOMAIN ices
  /\ (\A s \in DOMAIN ices : ices[s].session >= 0 => t.ices[s].session = ices[s].session)
       => Linked(t.ices, t.sessions)

LEMMA PassBegins ==
  ASSUME IceInv, Running
  PROVE  PassInv([ices |-> ices, sessions |-> sessions], 0)
<1>1. \A s \in DOMAIN ices : ~(s < 0)
    BY DEF IceInv, Table, Slots
<1> QED BY <1>1 DEF PassInv, IceInv, Table, Running

LEMMA PassStep ==
  ASSUME IceInv, Running, NEW n \in Slots, NEW t, PassInv(t, n)
  PROVE  PassInv(FinalizeSlot(t, n), n + 1)
<1>0. /\ n \in Nat /\ DOMAIN t.ices = DOMAIN ices
      /\ \A s \in DOMAIN ices : s \in Nat /\ (s < n + 1 <=> s < n \/ s = n)
    BY DEF PassInv, IceInv, Table, Slots
<1>1. CASE n \notin DOMAIN t.ices \/ ~t.ices[n].checking
    <2>1. FinalizeSlot(t, n) = t
        BY <1>1 DEF FinalizeSlot
    <2> QED BY <1>0, <1>1, <2>1 DEF PassInv
<1>2. CASE n \in DOMAIN t.ices /\ t.ices[n].checking
    <2> DEFINE i == ices[n]
               o == [i EXCEPT !.checking = FALSE]
               free == Slots \ DOMAIN t.sessions
               k == Min(free)
               p == [o EXCEPT !.session = k, !.age = 0, !.asked = FALSE]
    <2>1. t.ices[n] = i /\ Sound(i)
        BY <1>0, <1>2 DEF PassInv
    <2>2. FinalizeSlot(t, n) =
            IF Nominates(i) /\ o.initiator /\ free # {}
            THEN [ices |-> Put(t.ices, n, p), sessions |-> Put(t.sessions, k, NewSession(n, Nominee(o)))]
            ELSE [ices |-> Put(t.ices, n, o), sessions |-> t.sessions]
        BY <1>2, <2>1 DEF FinalizeSlot
    <2> HIDE DEF i
    <2>3. /\ Sound(o) /\ o.conn = i.conn /\ o.answered = i.answered /\ o.session = i.session
          /\ o.allowed = i.allowed /\ ~o.checking
        BY <2>1 DEF Sound, Offers
    <2> HIDE DEF o
    <2>4. CASE Nominates(i) /\ free # {} /\
               FinalizeSlot(t, n) = [ices |-> Put(t.ices, n, p),
                                     sessions |-> Put(t.sessions, k, NewSession(n, Nominee(o)))]
        <3> DEFINE j == Put(t.ices, n, p)
                   e == NewSession(n, Nominee(o))
                   u == Put(t.sessions, k, e)
        <3>1. k \in Slots \ DOMAIN t.sessions
            <4>1. free \subseteq Nat
                BY DEF Slots
            <4> QED BY <2>4, <4>1, MinIsLeast
        <3> HIDE DEF k, free
        <3>2. i.answered /\ i.allowed # {}
            BY <2>4 DEF Nominates
        <3>3. Nominee(o) \in o.allowed
            BY <2>3, <3>2, NomineeAllowed
        <3>4. /\ Sound(p) /\ p.conn = i.conn /\ p.answered = i.answered /\ p.session = k
              /\ p.allowed = o.allowed /\ ~p.checking
            <4>1. k \in Slots \union {-1} /\ 0 \in 0..(MaxAge + 1)
                BY <3>1, IceAssumption
            <4> QED BY <2>3, <3>2, <4>1 DEF Sound, Offers
        <3>5. /\ e \in Sessions /\ e.ice = n /\ e.remote = Nominee(o)
            <4>1. o.allowed \subseteq Addresses
                BY <2>3, OfferParts DEF Sound
            <4> QED BY <3>3, <4>1 DEF NewSession, Sessions
        <3> HIDE DEF p, e
        <3>6. /\ DOMAIN j = DOMAIN ices /\ j[n] = p /\ \A x \in DOMAIN ices \ {n} : j[x] = t.ices[x]
              /\ DOMAIN u = DOMAIN t.sessions \union {k} /\ u[k] = e
              /\ \A l \in DOMAIN t.sessions : u[l] = t.sessions[l]
            BY <1>0, <1>2, <3>1 DEF Put
        <3>7. FinalizeSlot(t, n).ices = j /\ FinalizeSlot(t, n).sessions = u
            BY <2>4 DEF e
        <3> HIDE DEF j, u
        <3>8. ASSUME \A s \in DOMAIN ices : ices[s].session >= 0 => j[s].session = ices[s].session
              PROVE  Linked(j, u)
            <4>1. Linked(t.ices, t.sessions)
                <5>1. \A s \in DOMAIN ices : ices[s].session >= 0 => t.ices[s].session = ices[s].session
                    BY <2>1, <3>6, <3>8 DEF i
                <5> QED BY <5>1 DEF PassInv
            <4>2. i.session \in Int
                BY <2>1, OfferParts DEF Sound
            <4>3. i.session < 0
                <5> SUFFICES ASSUME i.session >= 0 PROVE FALSE
                    BY <4>2
                <5>1. i.session \in DOMAIN t.sessions
                    BY <1>2, <2>1, <3>2, <4>1 DEF Linked, LinkBack
                <5>2. p.session = i.session
                    BY <1>0, <1>2, <3>6, <3>8 DEF i
                <5> QED BY <3>1, <3>4, <5>1, <5>2
            <4>4. Entries(t.sessions)
                BY DEF PassInv
            <4>5. u[k].ice = n /\ u[k].remote \in j[n].allowed /\ j[n].answered /\ j[n].session = k
                BY <3>2, <3>3, <3>4, <3>5, <3>6
            <4> QED BY <1>0, <1>2, <2>1, <3>1, <3>6, <4>1, <4>3, <4>4, <4>5, BeginLinked
        <3>9. \A s \in DOMAIN ices :
                /\ Sound(j[s]) /\ j[s].conn = ices[s].conn /\ j[s].answered = ices[s].answered
                /\ IF s < n + 1 THEN ~j[s].checking ELSE j[s] = ices[s]
            BY <1>0, <3>4, <3>6 DEF PassInv, i
        <3>10. /\ Entries(u) /\ DOMAIN sessions \subseteq DOMAIN u
               /\ \A l \in DOMAIN u \ DOMAIN sessions : u[l].ice \in DOMAIN ices
            BY <1>0, <1>2, <3>1, <3>5, <3>6 DEF PassInv, Entries
        <3> QED BY <3>6, <3>7, <3>8, <3>9, <3>10 DEF PassInv
    <2>5. CASE FinalizeSlot(t, n) = [ices |-> Put(t.ices, n, o), sessions |-> t.sessions]
        <3> DEFINE j == Put(t.ices, n, o)
        <3>1. DOMAIN j = DOMAIN ices /\ j[n] = o /\ \A x \in DOMAIN ices \ {n} : j[x] = t.ices[x]
            BY <1>0, <1>2 DEF Put
        <3>2. FinalizeSlot(t, n).ices = j /\ FinalizeSlot(t, n).sessions = t.sessions
            BY <2>5
        <3> HIDE DEF j
        <3>3. ASSUME \A s \in DOMAIN ices : ices[s].session >= 0 => j[s].session = ices[s].session
              PROVE  Linked(j, t.sessions)
            <4>1. Linked(t.ices, t.sessions)
                <5>1. \A s \in DOMAIN ices : ices[s].session >= 0 => t.ices[s].session = ices[s].session
                    BY <2>1, <3>1, <3>3 DEF i
                <5> QED BY <5>1 DEF PassInv
            <4>2. \A x \in DOMAIN t.ices : Touched(t.ices[x], j[x])
                BY <1>0, <2>1, <2>3, <3>1 DEF PassInv, Touched, Same
            <4> QED BY <1>0, <3>1, <4>1, <4>2, TouchLinked
        <3>4. \A s \in DOMAIN ices :
                /\ Sound(j[s]) /\ j[s].conn = ices[s].conn /\ j[s].answered = ices[s].answered
                /\ IF s < n + 1 THEN ~j[s].checking ELSE j[s] = ices[s]
            BY <1>0, <2>3, <3>1 DEF PassInv, i
        <3> QED BY <3>1, <3>2, <3>3, <3>4 DEF PassInv
    <2> QED BY <2>2, <2>4, <2>5
<1> QED BY <1>1, <1>2

LEMMA PassDone ==
  ASSUME IceInv, Running
  PROVE  PassInv(Finalized, MaxSlots)
<1>1. PICK f : Pass(f, MaxSlots) /\ Finalized = f[MaxSlots]
    BY FinalizedIsPass
<1> DEFINE A == {n \in Nat : n <= MaxSlots => PassInv(f[n], n)}
<1>2. 0 \in A
    BY <1>1, PassBegins DEF Pass
<1>3. ASSUME NEW n \in Nat, n \in A PROVE n + 1 \in A
    <2> SUFFICES ASSUME n + 1 <= MaxSlots PROVE PassInv(f[n + 1], n + 1)
        OBVIOUS
    <2>1. n \in Slots /\ n + 1 \in 1..MaxSlots /\ (n + 1) - 1 = n /\ PassInv(f[n], n)
        BY <1>3, IceAssumption DEF Slots
    <2>2. f[n + 1] = FinalizeSlot(f[n], n)
        <3>1. f[n + 1] = FinalizeSlot(f[(n + 1) - 1], (n + 1) - 1)
            BY <1>1, <2>1 DEF Pass
        <3> QED BY <2>1, <3>1
    <2> QED BY <2>1, <2>2, PassStep
<1> HIDE DEF A
<1>4. MaxSlots \in A
    BY <1>2, <1>3, Induction, IceAssumption
<1> QED BY <1>1, <1>4, IceAssumption DEF A

LEMMA FinalizeKeeps ==
  ASSUME IceInv, FinalizeConnectivityChecks
  PROVE  IceInv' /\ ~Steals
<1> DEFINE t == Finalized
<1>1. /\ Running /\ finals' = finals \ {0}
      /\ ices' = t.ices /\ sessions' = t.sessions
      /\ talks' = talks \union {ices[t.sessions[k].ice].conn : k \in DOMAIN t.sessions \ DOMAIN sessions}
      /\ apart' = IF \E s \in DOMAIN ices : /\ ices[s].session >= 0
                                            /\ t.ices[s].session # ices[s].session
                  THEN "twice" ELSE apart
      /\ UNCHANGED <<next, permits, wrapper, heap>>
    BY DEF FinalizeConnectivityChecks
<1>2. PassInv(t, MaxSlots)
    BY <1>1, PassDone
<1> HIDE DEF t
<1>3. Table(ices') /\ Entries(sessions')
    BY <1>1, <1>2 DEF PassInv, IceInv, Table
<1>4. apart' = "no" => Linked(ices', sessions')
    BY <1>1, <1>2 DEF PassInv
<1>5. ChecksEnd'
    <2>1. \A s \in DOMAIN ices : s < MaxSlots
        BY IceAssumption DEF IceInv, Table, Slots
    <2>2. \A s \in DOMAIN ices' : ~ices'[s].checking
        BY <1>1, <1>2, <2>1 DEF PassInv
    <2> QED BY <2>2 DEF ChecksEnd
<1>6. AnswerAwaited' /\ ~Steals
    BY <1>1, <1>2 DEF PassInv, IceInv, AnswerAwaited, Running, Steals, wrapper
<1>7. Counters'
    BY <1>1 DEF IceInv, Counters, wrapper
<1>8. Wrapper'
    <2>1. \A s \in DOMAIN ices : ices[s].conn \in Conns
        BY OfferParts DEF IceInv, Table, Sound
    <2>2. talks' \subseteq Conns
        BY <1>1, <1>2, <2>1 DEF PassInv, IceInv, Wrapper
    <2> QED BY <1>1, <2>2 DEF IceInv, Wrapper, wrapper
<1> QED BY <1>3, <1>4, <1>5, <1>6, <1>7, <1>8 DEF IceInv

-----------------------------------------------------------------------------
LEMMA InitIce == Init => IceInv
<1> SUFFICES ASSUME Init PROVE IceInv
    OBVIOUS
<1>1. DOMAIN ices = {} /\ DOMAIN sessions = {}
    BY DEF Init
<1>2. Table(ices) /\ Entries(sessions) /\ Linked(ices, sessions)
    BY <1>1 DEF Table, Entries, Linked, LinkOut, LinkBack
<1>3. Counters /\ Wrapper
    BY IceAssumption DEF Init, Counters, Wrapper, Slots
<1>4. AnswerAwaited /\ ChecksEnd
    BY <1>1 DEF Init, AnswerAwaited, ChecksEnd
<1> QED BY <1>2, <1>3, <1>4 DEF IceInv

LEMMA StepIce ==
  ASSUME IceInv, Next
  PROVE  IceInv' /\ ~Steals
<1>1. ASSUME NEW c \in Conns, GenerateOffer(c) \/ Disconnect(c) \/ DestroyConnection(c)
      PROVE  IceInv' /\ ~Steals
    BY <1>1, GenerateKeeps, DisconnectKeeps, DestroyKeeps
<1>2. ASSUME NEW c \in Conns, NEW b \in BOOLEAN, SetAnswer(c, b) \/ SetOffer(c, b)
      PROVE  IceInv' /\ ~Steals
    BY <1>2, SetAnswerKeeps, SetOfferKeeps
<1>3. ASSUME NEW c \in Conns, NEW a \in Addresses, OnUDP(c, a) \/ \E b \in BOOLEAN : Request(c, a, b)
      PROVE  IceInv' /\ ~Steals
    BY <1>3, OnUDPKeeps, RequestKeeps
<1>4. ASSUME NEW s \in Slots, PermissionAnswered(s) \/ Connected(s) \/ End(s)
      PROVE  IceInv' /\ ~Steals
    BY <1>4, PermissionKeeps, ConnectedKeeps, EndKeeps
<1>5. ASSUME NEW s \in Slots, NEW a \in Addresses, Response(s, a)
      PROVE  IceInv' /\ ~Steals
    BY <1>5, ResponseKeeps
<1>6. CASE PassingBy \/ FinalizeConnectivityChecks \/ PeriodicTimer \/ Clock
    BY <1>6, PassingKeeps, FinalizeKeeps, PeriodicKeeps, ClockKeeps
<1> QED BY <1>1, <1>2, <1>3, <1>4, <1>5, <1>6 DEF Next

LEMMA NextIce == IceInv /\ [Next]_vars => IceInv'
<1> SUFFICES ASSUME IceInv, [Next]_vars PROVE IceInv'
    OBVIOUS
<1>1. CASE Next
    BY <1>1, StepIce
<1>2. CASE UNCHANGED vars
    BY <1>2 DEF IceInv, Table, Entries, Counters, Wrapper, Linked, LinkOut, LinkBack, AnswerAwaited,
                ChecksEnd, Running, vars, tables, timers, wrapper
<1> QED BY <1>1, <1>2

LEMMA IceTypes == IceInv => TypeOK
<1> SUFFICES ASSUME IceInv PROVE TypeOK
    OBVIOUS
<1>1. permits \in [Slots -> 0..MaxOffers]
    BY IceAssumption DEF IceInv, Counters
<1> QED BY <1>1 DEF IceInv, Table, Entries, Counters, Wrapper, Sound, TypeOK

LEMMA IceLinks == IceInv => LinkKept
<1> QED BY DEF IceInv, Linked, LinkOut, LinkBack, LinkKept

(* The tables keep the shape of struct ILibStun_Module, whatever comes     *)
(* late (ILibWebRTC.c:1060-1144).                                          *)
THEOREM TypeTheorem == Spec => []TypeOK
<1> QED BY InitIce, NextIce, IceTypes, PTL DEF Spec

(* The ICE states and the DTLS sessions point at each other until an offer *)
(* replaces one with a session, or a slot is cleared under it              *)
(* (ILibWebRTC.c:2266-2306, 3176-3201, 4780-4911).                         *)
THEOREM LinkTheorem == Spec => []LinkKept
<1> QED BY InitIce, NextIce, IceLinks, PTL DEF Spec

(* No other offer takes the slot of an own offer before its answer         *)
(* (ILibWebRTC.c:1073-1128, 2223-2259).                                    *)
THEOREM AnswerTheorem == Spec => []AnswerAwaited
<1>1. IceInv => AnswerAwaited
    BY DEF IceInv
<1> QED BY <1>1, InitIce, NextIce, PTL DEF Spec

(* Checks under way have the timer that ends them, whatever started them   *)
(* (ILibWebRTC.c:2261-2394).                                               *)
THEOREM ChecksTheorem == Spec => []ChecksEnd
<1>1. IceInv => ChecksEnd
    BY DEF IceInv
<1> QED BY <1>1, InitIce, NextIce, PTL DEF Spec

(* An offer gives way only when it is too old and has no session           *)
(* (ILibWebRTC.c:1116-1128).                                               *)
THEOREM NoStealTheorem == Spec => NoSteal
<1> DEFINE A == \A s \in DOMAIN ices \intersect DOMAIN ices' :
                  ices'[s].conn # ices[s].conn /\ apart' = "no" =>
                    ices[s].session < 0 /\ ices[s].age > MaxAge
<1>1. IceInv /\ [Next]_vars => [A]_vars
    <2> SUFFICES ASSUME IceInv, Next PROVE A
        OBVIOUS
    <2> QED BY StepIce DEF Steals
<1> QED BY <1>1, InitIce, NextIce, PTL DEF Spec, NoSteal

=============================================================================
