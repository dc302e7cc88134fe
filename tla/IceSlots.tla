-------------------------------- MODULE IceSlots --------------------------------
(***************************************************************************)
(* The tables IceStates and dTlsSessions of ILibWebRTC.c and what fills    *)
(* and empties their slots: offers and answers of the wrapper's            *)
(* connections, connectivity checks, requests and answers of peers, DTLS   *)
(* packets, the ends of sessions, abandoned connections.                   *)
(*                                                                         *)
(* The two tables are partial functions: the slots in their domains are in *)
(* use.  A slot number travels outside: it is the first letter of the user *)
(* name in an offer and the first byte of a STUN transaction.  What comes  *)
(* back may be late and find another connection's offer in the slot.       *)
(***************************************************************************)
EXTENDS Integers, Sequences, FiniteSets, SequencesExt, FiniteSetsExt, Functions, TLC

CONSTANTS
  Conns,       \* connections of the wrapper
  Candidates,  \* of each connection's peer: addresses, best first
  Relayed,     \* connections that may be answered while TURN is in use
  MaxSlots,    \* ILibSTUN_MaxSlots
  MaxAge,      \* ILibSTUN_MaxOfferAgeSeconds, in ticks
  FinalDelay,  \* 3 s before the connectivity checks are final, in ticks
  MaxOffers    \* bound on the calls of ILibStun_SetIceOffer2

ASSUME IceAssumption ==
  /\ MaxSlots \in Nat \ {0} /\ MaxAge \in Nat /\ FinalDelay \in Nat \ {0}
  /\ MaxOffers \in Nat /\ DOMAIN Candidates = Conns /\ Relayed \subseteq Conns
  /\ \A c \in Conns : Candidates[c] \in Seq(Range(Candidates[c]))

VARIABLES
  ices,      \* IceStates
  next,      \* IceStatesNextSlot
  sessions,  \* dTlsSessions
  finals,    \* timers of ILibStun_ICE_FinalizeConnectivityChecks, ticks left
  permits,   \* of each slot, CreatePermission requests not answered yet
  phase,     \* of a connection of the wrapper
  own,       \* slot in the user name of the connection's own offer
  theirs,    \* slot in the user name of the peer's offer, asked when it closes
  offers,    \* calls of ILibStun_SetIceOffer2 so far
  talks,     \* connections whose peer may send DTLS packets
  apart,     \* how the tables came apart, "no" if they did not
  heap       \* "corrupt" once NULL, or memory past a table, was used

tables == <<ices, next, sessions>>
timers == <<finals, permits>>
wrapper == <<phase, own, theirs, offers>>
vars == <<tables, timers, wrapper, talks, apart, heap>>

(* What happens after that, or once the tables came apart, is not looked at. *)
Running == heap = "ok" /\ apart = "no"
Slots == 0..(MaxSlots - 1)
Addresses == UNION {Range(Candidates[c]) : c \in Conns}
Offers == [conn: Conns, answered: BOOLEAN, session: Slots \union {-1},
           controlling: BOOLEAN, initiator: BOOLEAN, checking: BOOLEAN, asked: BOOLEAN,
           allowed: SUBSET Addresses, age: 0..(MaxAge + 1)]
Sessions == [ice: Slots, remote: Addresses, told: BOOLEAN]

Init ==
  /\ ices = <<>> /\ next = 0 /\ sessions = <<>>
  /\ finals = {} /\ permits = [s \in Slots |-> 0]
  /\ phase = [c \in Conns |-> "new"] /\ own = [c \in Conns |-> 0]
  /\ theirs = [c \in Conns |-> 0] /\ offers = 0
  /\ talks = {}
  /\ apart = "no" /\ heap = "ok"

-----------------------------------------------------------------------------
ListOf(o) == IF o.answered THEN Candidates[o.conn] ELSE <<>>
Put(table, s, entry) == [x \in DOMAIN table \union {s} |-> IF x = s THEN entry ELSE table[x]]
Without(table, S) == Restrict(table, DOMAIN table \ S)

(* An offer may be taken over when it has no session and is too old.       *)
(* (Fault: its age does not matter.)                                       *)
ExpiredAtOnce(o) == o.session < 0
Expired(o) == o.session < 0 /\ o.age > MaxAge

(* The end of ILibStun_GetFreeIceStateSlot.  (Fault: not modulo the slots.) *)
Reusable(i) ==
  LET s == (next + i) % MaxSlots IN s \in DOMAIN ices => Expired(ices[s])
FreeSlotBeyond == next + Min({i \in Slots : Reusable(i)})
FreeSlot == (next + Min({i \in Slots : Reusable(i)})) % MaxSlots

(* A new offer of the same peer replaces the one without a session; there  *)
(* is no answer for one with a session.                                    *)
Updates(o) == o.session < 0
SameRemote(c) == {s \in DOMAIN ices : ices[s].answered /\ ices[s].conn = c}

FreeSession == Slots \ DOMAIN sessions
NewSession(s, a) == [ice |-> s, remote |-> a, told |-> FALSE]

(* Slots of S with an offer of another connection than c. *)
Foreign(S, c) == {s \in S \intersect DOMAIN ices : ices[s].conn # c}

(* The entries of these slots go away under a session. *)
UnderSession(S) == \E k \in DOMAIN sessions : sessions[k].ice \in S

-----------------------------------------------------------------------------
(* ILibStun_PeriodicStunCheck, now and every 15 to 30 seconds: two requests *)
(* to each candidate of the live offers.                                   *)
Live(table) ==
  {s \in DOMAIN table : table[s].answered /\ table[s].session < 0
                        /\ table[s].age < MaxAge}
PeriodicStunCheck(table) ==
  ices' = [s \in DOMAIN table |-> [table[s] EXCEPT !.asked = @ \/ s \in Live(table)]]

(* ILibStun_ICE_Start with the offer o in slot s: the controlling side     *)
(* checks the candidates.  (Fault: the timer is forgotten.)                *)
NoFinal == finals
FinalStarted == finals \union {FinalDelay}
ICE_Start(s, o) ==
  \/ /\ o.controlling
     /\ ices' = Put(ices, s, [o EXCEPT !.checking = TRUE, !.asked = o.session < 0])
     /\ finals' = FinalStarted
  \/ /\ ~o.controlling
     /\ PeriodicStunCheck(Put(ices, s, o))
     /\ UNCHANGED finals

(* The rest of ILibStun_SetIceOffer2 once the slot is known: the candidates *)
(* an own offer already heard from are allowed, and TURN, which may be set *)
(* at any time, needs a permission.                                        *)
Already(s) ==
  IF s \in DOMAIN ices /\ ~ices[s].answered THEN ices[s].allowed ELSE {}

(* Answers to the requests of this connection's earlier offer may come.    *)
Asked(s) == {ices[x].conn : x \in {y \in {s} \intersect DOMAIN ices : ices[y].asked}}

Answered(c, s, initiator, others) ==
  LET o == [conn |-> c, answered |-> TRUE, session |-> -1, controlling |-> initiator,
            initiator |-> initiator, checking |-> FALSE, asked |-> c \in Asked(s),
            allowed |-> Already(s) \intersect Range(Candidates[c]), age |-> 0] IN
  /\ offers' = offers + 1
  /\ own' = [own EXCEPT ![c] = s]
  /\ phase' = [phase EXCEPT ![c] = IF phase[c] = "connected" THEN "connected" ELSE "set"]
  /\ talks' = IF initiator THEN talks ELSE talks \union {c}
  /\ apart' = IF others # {} THEN "answered"
              ELSE IF UnderSession({s}) THEN "replaced" ELSE apart
  /\ \/ /\ c \in Relayed
        /\ ices' = Put(ices, s, o)
        /\ permits' = [permits EXCEPT ![s] = permits[s] + 1]
        /\ UNCHANGED finals
     \/ \* without TURN
        ICE_Start(s, o) /\ UNCHANGED permits
  /\ UNCHANGED <<sessions, theirs, heap>>

(* ILibStun_GenerateIceOffer: a placeholder, whose dtlsSession is 0.       *)
(* (Fault: it is not attached.)                                            *)
Unattached == -1
Attached == 0
GenerateOffer(c) ==
  /\ Running /\ phase[c] = "new"
  /\ \E i \in Slots : Reusable(i)
  /\ ices' = Put(ices, FreeSlot,
                 [conn |-> c, answered |-> FALSE, session |-> Attached,
                  controlling |-> TRUE, initiator |-> TRUE, checking |-> FALSE, asked |-> FALSE,
                  allowed |-> {}, age |-> 0])
  /\ next' = FreeSlot + 1
  /\ phase' = [phase EXCEPT ![c] = "offered"]
  /\ own' = [own EXCEPT ![c] = FreeSlot]
  /\ UNCHANGED <<sessions, timers, theirs, offers, talks, apart, heap>>

(* A connection that is not looked at: an own offer, given up at once, of  *)
(* which only IceStatesNextSlot is left.                                   *)
PassingBy ==
  /\ Running /\ \E i \in Slots : Reusable(i)
  /\ FreeSlot \notin DOMAIN ices
  /\ next' = FreeSlot + 1
  /\ UNCHANGED <<ices, sessions, timers, wrapper, talks, apart, heap>>

(* ILibStun_SetIceOffer2 with the user name of an own offer: into the slot *)
(* the name tells, whatever is there.                                      *)
SetAnswer(c, initiator) ==
  /\ Running /\ offers < MaxOffers /\ phase[c] \in {"offered", "set", "connected"}
  /\ Answered(c, own[c], initiator, Foreign({own[c]}, c))
  /\ UNCHANGED next

(* Without it: an update of what the peer offered before, or a free slot.  *)
SetOffer(c, initiator) ==
  /\ Running /\ offers < MaxOffers /\ phase[c] \in {"new", "set"}
  /\ \/ /\ SameRemote(c) # {} /\ Updates(ices[Min(SameRemote(c))])
        /\ Answered(c, Min(SameRemote(c)), initiator, {})
        /\ UNCHANGED next
     \/ /\ SameRemote(c) = {} /\ \E i \in Slots : Reusable(i)
        /\ Answered(c, FreeSlot, initiator, {})
        /\ next' = FreeSlot + 1

-----------------------------------------------------------------------------
(* ILibStun_SetIceOffer2_TURN_CreatePermissionResponse: for the slot,      *)
(* whatever is in it by now.                                               *)
PermissionAnswered(s) ==
  /\ Running /\ permits[s] > 0
  /\ permits' = [permits EXCEPT ![s] = permits[s] - 1]
  /\ \/ /\ s \in DOMAIN ices
        /\ ICE_Start(s, ices[s])
        /\ UNCHANGED heap
     \/ /\ s \notin DOMAIN ices
        /\ heap' = "corrupt"
        /\ UNCHANGED <<ices, finals>>
     \/ \* refused
        UNCHANGED <<ices, finals, heap>>
  /\ UNCHANGED <<next, sessions, wrapper, talks, apart>>

(* One slot of ILibStun_ICE_FinalizeConnectivityChecks: the best candidate *)
(* that was heard is nominated and, on the initiating side, DTLS started.  *)
Nominee(o) == LET l == ListOf(o) IN l[Min({i \in DOMAIN l : l[i] \in o.allowed})]
Nominates(o) == o.checking /\ o.controlling /\ o.allowed # {} /\ o.answered
FinalizeSlot(t, s) ==
  IF s \notin DOMAIN t.ices \/ ~t.ices[s].checking THEN t
  ELSE
    LET o == [t.ices[s] EXCEPT !.checking = FALSE]
        free == Slots \ DOMAIN t.sessions IN
    IF Nominates(t.ices[s]) /\ o.initiator /\ free # {}
    THEN [ices |-> Put(t.ices, s, [o EXCEPT !.session = Min(free), !.age = 0,
                                     !.asked = FALSE]),
          sessions |-> Put(t.sessions, Min(free), NewSession(s, Nominee(o)))]
    ELSE [ices |-> Put(t.ices, s, o), sessions |-> t.sessions]
Finalized ==
  LET upTo[n \in 0..MaxSlots] ==
        IF n = 0 THEN [ices |-> ices, sessions |-> sessions] ELSE FinalizeSlot(upTo[n - 1], n - 1)
  IN  upTo[MaxSlots]

FinalizeConnectivityChecks ==
  /\ Running /\ 0 \in finals
  /\ finals' = finals \ {0}
  /\ ices' = Finalized.ices /\ sessions' = Finalized.sessions
  /\ talks' = talks \union {ices[Finalized.sessions[k].ice].conn :
                              k \in DOMAIN Finalized.sessions \ DOMAIN sessions}
  /\ apart' = IF \E s \in DOMAIN ices : /\ ices[s].session >= 0
                                        /\ Finalized.ices[s].session # ices[s].session
              THEN "twice" ELSE apart
  /\ UNCHANGED <<next, permits, wrapper, heap>>

PeriodicTimer ==
  /\ Running /\ Live(ices) # {}
  /\ PeriodicStunCheck(ices)
  /\ UNCHANGED <<next, sessions, finals, permits, wrapper, talks, apart, heap>>

-----------------------------------------------------------------------------
(* A binding request of the peer of connection c from address a: the user  *)
(* name it was given tells the slot, and its key is derived from the name. *)
(* The candidate is allowed, or remembered until the answer is set; then   *)
(* the request is answered, refused for its role, or changes ours.         *)
Request(c, a, controls) ==
  LET s == own[c] IN
  /\ Running /\ phase[c] # "new" /\ a \in Range(Candidates[c])
  /\ s \in DOMAIN ices
  /\ LET o == [ices[s] EXCEPT !.allowed = @ \union
                 (IF ices[s].answered THEN {a} \intersect Range(ListOf(ices[s])) ELSE {a})] IN
     \/ /\ ~o.answered \/ o.controlling # controls
        /\ ices' = Put(ices, s, [o EXCEPT !.asked = o.answered /\ o.session < 0])
        /\ UNCHANGED finals
     \/ /\ o.answered /\ o.controlling = controls
        /\ ices' = Put(ices, s, o) \* role conflict
        /\ UNCHANGED finals
     \/ /\ o.answered /\ o.controlling = controls
        /\ ICE_Start(s, [o EXCEPT !.controlling = ~o.controlling])
  /\ UNCHANGED <<next, sessions, permits, wrapper, talks, apart, heap>>

(* An answer from candidate a, with the key of the offer that is in the    *)
(* slot by then: those of earlier connections do not have it.              *)
Response(s, a) ==
  /\ Running /\ s \in DOMAIN ices /\ ices[s].asked
  /\ ices[s].answered /\ a \in Range(ListOf(ices[s]))
  /\ ices[s].controlling /\ ices[s].session < 0
  /\ ices' = [ices EXCEPT ![s].allowed = @ \union {a}]
  /\ UNCHANGED <<next, sessions, timers, wrapper, talks, apart, heap>>

(* ILibStun_OnUDP on a packet of c's peer: it belongs to the first session *)
(* with that remote address, or with an allowed candidate of that address, *)
(* or it opens a session for the first offer with that candidate.  The     *)
(* code asks no more: that c's peer talks DTLS only once it has c's offer  *)
(* or answer (talks) is assumed of the peer.                               *)
HasSession(s) == ices[s].session \in DOMAIN sessions
AtRemote(a) == {s \in DOMAIN ices : HasSession(s) /\ sessions[ices[s].session].remote = a}
AtCandidate(a) ==
  {s \in DOMAIN ices : HasSession(s) /\ a \in Range(ListOf(ices[s])) /\ a \in ices[s].allowed}
Listed(a) == {s \in DOMAIN ices : ices[s].session < 0 /\ a \in Range(ListOf(ices[s]))}
OnUDP(c, a) ==
  /\ Running /\ c \in talks /\ a \in Range(Candidates[c])
  /\ AtRemote(a) = {}
  /\ \/ /\ AtCandidate(a) # {}
        /\ sessions' = [sessions EXCEPT ![ices[Min(AtCandidate(a))].session].remote = a]
        /\ UNCHANGED <<ices, apart>>
     \/ /\ AtCandidate(a) = {} /\ Listed(a) # {}
        /\ LET s == Min(Listed(a)) IN
           /\ a \in ices[s].allowed /\ FreeSession # {}
           /\ ices' = [ices EXCEPT ![s].session = Min(FreeSession), ![s].age = 0,
                                  ![s].asked = FALSE]
           /\ sessions' = Put(sessions, Min(FreeSession), NewSession(s, a))
           /\ apart' = IF ices[s].conn = c THEN apart ELSE "other"
  /\ UNCHANGED <<next, timers, wrapper, talks, heap>>

-----------------------------------------------------------------------------
(* OnConnect(1): the wrapper finds the connection through the ICE state.   *)
Connected(k) ==
  /\ Running /\ k \in DOMAIN sessions /\ ~sessions[k].told
  /\ sessions[k].ice \in DOMAIN ices
  /\ ices[sessions[k].ice].answered
  /\ sessions' = [sessions EXCEPT ![k].told = TRUE]
  /\ phase' = [phase EXCEPT ![ices[sessions[k].ice].conn] = "connected"]
  /\ UNCHANGED <<ices, next, timers, own, theirs, offers, talks, apart, heap>>

(* The end of a session, with its ICE state: whatever is in that slot.     *)
(* (Fault: the ICE state stays.)                                           *)
KeepIce(k) == {}
ClearIce(k) == {sessions[k].ice}
End(k) ==
  /\ Running /\ k \in DOMAIN sessions
  /\ sessions' = Without(sessions, {k})
  /\ ices' = Without(ices, ClearIce(k))
  /\ phase' = [c \in Conns |-> IF sessions[k].told /\ sessions[k].ice \in DOMAIN ices
                                  /\ ices[sessions[k].ice].conn = c
                               THEN "gone" ELSE phase[c]]
  /\ apart' = IF \E s \in {sessions[k].ice} \intersect DOMAIN ices : ices[s].session # k
              THEN "cleared" ELSE apart
  /\ UNCHANGED <<next, timers, own, theirs, offers, talks, heap>>

(* ILibWrapper_WebRTC_Connection_Disconnect without a session: the ICE     *)
(* states "for the local Offer" and "for the remote Offer" are cleared.    *)
Clear(S, c) ==
  /\ ices' = Without(ices, S)
  /\ apart' = IF Foreign(S, c) # {} THEN "foreign"
              ELSE IF UnderSession(S) THEN "cleared" ELSE apart
  /\ UNCHANGED <<next, sessions, timers, own, offers, talks>>

(* The letter of the remote offer is the peer's: it may name no slot here, *)
(* which nobody asks.                                                      *)
Disconnect(c) ==
  /\ Running /\ phase[c] \in {"offered", "set"}
  /\ phase' = [phase EXCEPT ![c] = "closing"]
  /\ \/ \E t \in IF phase[c] = "set" THEN Slots ELSE {own[c]} :
          theirs' = [theirs EXCEPT ![c] = t] /\ Clear({own[c], t}, c) /\ UNCHANGED heap
     \/ phase[c] = "set" /\ Clear({own[c]}, c) /\ heap' = "corrupt" /\ UNCHANGED theirs

(* OnConnected(0) has returned: ILibWrapper_WebRTC_Connection_             *)
(* DestroyConnection clears them once more (a connection with a session    *)
(* closes that instead, which comes to its End).  Late answers carry the   *)
(* wrong key from now on.                                                  *)
DestroyConnection(c) ==
  /\ Running /\ phase[c] = "closing"
  /\ phase' = [phase EXCEPT ![c] = "gone"]
  /\ theirs' = [theirs EXCEPT ![c] = 0]
  /\ Clear({own[c], theirs[c]}, c) /\ UNCHANGED heap

(* Of an offer with a session neither the age nor an answer counts. *)
Older(o) == IF o.session >= 0 \/ o.age > MaxAge THEN o.age ELSE o.age + 1
Clock ==
  /\ Running /\ 0 \notin finals
  /\ finals' = {t - 1 : t \in finals}
  /\ ices' = [s \in DOMAIN ices |-> [ices[s] EXCEPT !.age = Older(ices[s])]]
  /\ UNCHANGED <<next, sessions, permits, wrapper, talks, apart, heap>>

Next ==
  \/ \E c \in Conns :
       \/ GenerateOffer(c) \/ Disconnect(c) \/ DestroyConnection(c)
       \/ \E b \in BOOLEAN : SetAnswer(c, b) \/ SetOffer(c, b)
       \/ \E a \in Addresses : OnUDP(c, a) \/ \E b \in BOOLEAN : Request(c, a, b)
  \/ \E s \in Slots : PermissionAnswered(s) \/ Connected(s) \/ End(s)
  \/ \E s \in Slots, a \in Addresses : Response(s, a)
  \/ PassingBy \/ FinalizeConnectivityChecks \/ PeriodicTimer \/ Clock

Spec == Init /\ [][Next]_vars

-----------------------------------------------------------------------------
(* TYPE: the variables keep the shape of struct ILibStun_Module. *)
TypeOK ==
  /\ DOMAIN ices \subseteq Slots /\ \A s \in DOMAIN ices : ices[s] \in Offers
  /\ DOMAIN sessions \subseteq Slots /\ \A k \in DOMAIN sessions : sessions[k] \in Sessions
  /\ next \in 0..MaxSlots /\ finals \subseteq 0..FinalDelay
  /\ permits \in [Slots -> 0..MaxOffers]
  /\ phase \in [Conns -> {"new", "offered", "set", "connected", "closing", "gone"}]
  /\ own \in [Conns -> Slots] /\ theirs \in [Conns -> Slots] /\ offers \in 0..MaxOffers
  /\ talks \subseteq Conns
  /\ apart \in {"no", "answered", "replaced", "twice", "other", "foreign", "cleared"}
  /\ heap \in {"ok", "corrupt"}

(* The two tables point at each other: a session's ICE state is there, is   *)
(* an answered offer that names this session, and allows the address the   *)
(* session talks to; an answered offer with a session names one that is    *)
(* there.  They come apart only when an offer replaces the one of a        *)
(* session, when the ICE state of a session or of another connection is    *)
(* cleared, or when late packets open a session.                           *)
LinkKept ==
  apart = "no" =>
    /\ \A k \in DOMAIN sessions :
         /\ sessions[k].ice \in DOMAIN ices
         /\ LET o == ices[sessions[k].ice] IN
            o.answered /\ o.session = k /\ sessions[k].remote \in o.allowed
    /\ \A s \in DOMAIN ices :
         ices[s].answered /\ ices[s].session >= 0 => ices[s].session \in DOMAIN sessions

(* An offer gives way to another connection's only when it is too old and  *)
(* has no session, or when a connection whose offer had to give way is     *)
(* answered once more.                                                     *)
NoSteal ==
  [][\A s \in DOMAIN ices \intersect DOMAIN ices' :
       ices'[s].conn # ices[s].conn /\ apart' = "no" =>
         ices[s].session < 0 /\ ices[s].age > MaxAge]_vars

(* The slot of an own offer is kept until the answer comes, however long   *)
(* that takes, and the answer goes there.                                  *)
AnswerAwaited ==
  \A c \in Conns : Running /\ phase[c] = "offered" =>
    own[c] \in DOMAIN ices /\ ices[own[c]].conn = c /\ ~ices[own[c]].answered

(* Connectivity checks under way have a timer that ends them, whatever     *)
(* started them, TURN's answer and role conflicts included.                *)
ChecksEnd == \A s \in DOMAIN ices : ices[s].checking => finals # {}

(* A connection that is given up clears its own ICE states only, those     *)
(* "for the local Offer" and "for the remote Offer".                       *)
ClearsOwn == apart # "foreign"
=============================================================================
