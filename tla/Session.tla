-------------------------------- MODULE Session --------------------------------
(***************************************************************************)
(* The life of the DTLS sessions of one slot of dTlsSessions, from         *)
(* ILibStun_CreateDtlsSession to ILibStun_SctpDisconnect_Final, with the   *)
(* timers that carry pointers to them, the callbacks into the application  *)
(* and consent freshness (ILibWebRTC.c).                                   *)
(*                                                                         *)
(* The chain thread takes turns: ILibLifeTime_Check moves the due timers   *)
(* to a batch and fires them, then packets are handled.  It runs the       *)
(* application's callbacks without the session's Lock, and they may close  *)
(* the session.  Another thread of the application closes it or sends on   *)
(* it at any moment.  Sessions are numbered: a pointer is the number, and  *)
(* it dangles once it is not the session in the slot.  What the program    *)
(* does after it used one is undefined, so everything stops there.         *)
(***************************************************************************)
EXTENDS Integers, Sequences, FiniteSets, Functions, SequencesExt, Keeping

CONSTANTS
  MaxSessions, \* bound on the sessions created
  Freshness,   \* ILibStun_MaxConsentFreshnessTimeoutSeconds, in ticks
  Probe,       \* 500 ms between two probes, in ticks
  Beat,        \* between two runs of ILibStun_SctpOnTimeout, in ticks
  GiveUp,      \* 80, runs of ILibStun_SctpOnTimeout without an answer
  Retry,       \* between two RECONFIG chunks, in ticks
  MaxCloses,   \* bound on the closes of other threads that are queued at once
  Turns        \* values of useTurn

ASSUME SessionAssumption ==
  /\ MaxSessions \in Nat \ {0} /\ Freshness \in Nat \ {0} /\ Probe \in Nat \ {0}
  /\ Beat \in Nat \ {0} /\ GiveUp \in Nat \ {0} /\ Retry \in Nat \ {0}
  /\ MaxCloses \in Nat
  /\ Turns \subseteq BOOLEAN

VARIABLES
  session,       \* dTlsSessions[slot], 0 if NULL
  created,       \* sessions created so far
  state,         \* of the session in the slot
  ice,           \* IceStates[iceStateSlot]: NULL, an offer, or the session's
  role,          \* dtlsInitiator and useTurn of that offer
  timervalue,    \* runs of SctpOnTimeout since the peer was heard
  pendingReconfig, \* pendingReconfigPacket waits for its answer
  waiting,       \* timers in the list of ILibLifeTime, soonest first
  batch,         \* timers the Check under way still fires
  stack,         \* callbacks under way on the chain thread, innermost first
  user,          \* the session another thread is calling into, 0 if none
  binding,       \* outstanding ILibTURN_CreateChannelBinding requests
  told,          \* what OnConnect last said of the session
  freshnessAge,  \* ticks since freshnessTimestampStart
  consentAge,    \* ticks since the peer last consented
  leftover,      \* what still referred to a session when it was freed
  heap,          \* "corrupt" once freed memory or NULL was used
  run            \* the chain: "runs", "stopping", "stopped"

slot    == <<session, created, state, ice, role, timervalue, pendingReconfig>>
chain   == <<batch, stack, run>>
history == <<told, consentAge, leftover>>
vars == <<slot, chain, waiting, user, binding, freshnessAge, history, heap>>

States == {"free", "setup", "connected", "disconnecting", "handshake"}
(* What a timer is for is an address inside the session: o, o + 1 for both *)
(* kinds of consent freshness, o + 5 and 16 bytes into o.                  *)
AtFreshness == {"start", "probe"}
Kinds == AtFreshness \union {"heartbeat", "disconnect", "reconfig"}
Timer == [kind: Kinds, id: 1..MaxSessions, left: Nat]

Init ==
  /\ session = 0 /\ created = 0 /\ state = "free" /\ ice = "none"
  /\ role = [initiator |-> FALSE, turn |-> FALSE]
  /\ timervalue = 0 /\ pendingReconfig = FALSE
  /\ waiting = <<>> /\ batch = <<>> /\ stack = <<>> /\ run = "runs"
  /\ user = 0 /\ binding = 0
  /\ told = "nothing" /\ freshnessAge = 0 /\ consentAge = 0
  /\ leftover = {} /\ heap = "ok"

-----------------------------------------------------------------------------
(* ILibLifeTime_AddEx and ILibLifeTime_Remove on the list. *)
With(timers, kind, left) ==
  LET at == CHOOSE i \in 1..(Len(timers) + 1) :
              /\ \A j \in 1..(i - 1) : timers[j].left < left
              /\ i <= Len(timers) => left <= timers[i].left
  IN InsertAt(timers, at, [kind |-> kind, id |-> session, left |-> left])
Without(timers, kinds) ==
  Keep(timers, {t \in Range(timers) : t.id # session \/ t.kind \notin kinds})

(* How many timers of the session and of these kinds wait or fire. *)
Of(kinds) == {t \in Timer : t.id = session /\ t.kind \in kinds}
Count(kinds) == Len(Keep(batch \o waiting, Of(kinds)))

Corrupt ==
  /\ heap' = "corrupt"
  /\ UNCHANGED <<slot, chain, waiting, user, binding, freshnessAge, history>>
Running == heap = "ok" /\ run # "stopped"
Idle == Running /\ run = "runs" /\ stack = <<>> /\ batch = <<>>
Due(t) == t.left = 0
Handling == Idle /\ ~\E t \in Range(waiting) : Due(t)

(* What refers to the session and is not taken away with it. *)
References(timers, frames) ==
  {"queued" : t \in {x \in Range(timers) : x.id = session /\ x.kind = "disconnect"}}
  \union {"batch" : t \in {x \in Range(batch') : x.id = session}}
  \union {"thread" : u \in {session} \intersect {user}}
  \union {"callback" : f \in {x \in Range(frames) : x = "channel"}}
  \union {"binding" : b \in 1..binding}

(* The end of ILibStun_SctpDisconnect_Continue and _Final: the timers go,  *)
(* the ICE state, the slot and the session.                                *)
Finish(timers, frames) ==
  /\ waiting' = Without(timers, AtFreshness \union {"heartbeat", "reconfig"})
  /\ ice' = "none" /\ session' = 0 /\ state' = "free"
  /\ timervalue' = 0 /\ pendingReconfig' = FALSE /\ freshnessAge' = 0
  /\ consentAge' = 0 /\ told' = "nothing"
  /\ leftover' = leftover \union References(timers, frames)
  /\ stack' = frames
  /\ UNCHANGED <<created, role>>

(* A session is taken down in the states Setup and Connected only: not     *)
(* while it is disconnecting, and not in its handshake.  (Fault: not once  *)
(* it is connected.)                                                       *)
TakesSetup(s) == s = "setup"
Takes(s) == s \in {"setup", "connected"}

(* The application hears of the end if it heard of the connection.  (Fault: *)
(* the states are mixed up.)                                               *)
AnnouncesSetup(s) == s = "setup"
Announces(s) == s = "connected"

(* ILibStun_SctpDisconnect_Continue up to its callback OnConnect(0), with  *)
(* the RECONFIG that ILibWebRTC_CloseDataChannel_ALL sends to a peer that  *)
(* supports it.                                                            *)
Continue(timers, frames) ==
  LET closing == state = "connected" /\ ~pendingReconfig
      closed == IF closing THEN With(timers, "reconfig", Retry) ELSE timers IN
  \/ /\ Takes(state) /\ Announces(state)
     /\ state' = "disconnecting" /\ told' = "disconnected"
     /\ waiting' = closed /\ pendingReconfig' = TRUE
     /\ stack' = <<"closing">> \o frames
     /\ UNCHANGED <<session, created, ice, role, timervalue, freshnessAge,
                    consentAge, leftover>>
  \/ Takes(state) /\ ~Announces(state) /\ Finish(closed, frames)
  \/ /\ ~Takes(state)
     /\ waiting' = closed /\ pendingReconfig' = (pendingReconfig \/ closing)
     /\ stack' = frames
     /\ UNCHANGED <<session, created, state, ice, role, timervalue, freshnessAge, history>>

(* ILibStun_SctpDisconnect on the chain thread. *)
Disconnect(frames) == Continue(Without(waiting, {"heartbeat"}), frames)

-----------------------------------------------------------------------------
(* ILibLifeTime_Check begins: the due timers become the batch. *)
Check ==
  /\ Idle /\ \E t \in Range(waiting) : Due(t)
  /\ batch' = Keep(waiting, {t \in Range(waiting) : Due(t)})
  /\ waiting' = Keep(waiting, {t \in Range(waiting) : ~Due(t)})
  /\ UNCHANGED <<slot, stack, run, user, binding, freshnessAge, history, heap>>

Firing(kind) ==
  /\ Running /\ run = "runs" /\ stack = <<>>
  /\ batch # <<>> /\ Head(batch).kind = kind
Fired(kind) == Firing(kind) /\ Head(batch).id = session /\ batch' = Tail(batch)

(* Every callback of ILibLifeTime begins by reading the session. *)
FireDangling ==
  /\ \E kind \in Kinds : Firing(kind)
  /\ Head(batch).id # session
  /\ Corrupt

(* ILibStun_SctpOnTimeout; the peer was heard lately enough.  (Fault: off  *)
(* by one.)                                                                *)
HeardOnceMore(value) == value <= GiveUp
Heard(value) == value < GiveUp

SctpOnTimeout ==
  /\ Fired("heartbeat")
  /\ \/ /\ state \notin {"setup", "connected"}
        /\ UNCHANGED <<slot, stack, waiting, freshnessAge, history>>
     \/ /\ state \in {"setup", "connected"} /\ Heard(timervalue + 1)
        /\ timervalue' = timervalue + 1
        /\ waiting' = With(waiting, "heartbeat", Beat)
        /\ UNCHANGED <<session, created, state, ice, role, pendingReconfig, stack,
                       freshnessAge, history>>
     \/ /\ state \in {"setup", "connected"} /\ ~Heard(timervalue + 1)
        /\ Disconnect(<<>>)
  /\ UNCHANGED <<run, user, binding, heap>>

(* ILibStun_WebRTC_ConsentFreshness_Start. *)
ConsentFreshness_Start ==
  /\ Fired("start")
  /\ \/ ice = "none" /\ UNCHANGED <<waiting, freshnessAge>>
     \/ /\ ice # "none"
        /\ freshnessAge' = 0
        /\ waiting' = With(waiting, "probe", Probe)
  /\ UNCHANGED <<slot, stack, run, user, binding, history, heap>>

(* ILibStun_WebRTC_ConsentFreshness_Continue: the time without an answer   *)
(* is up.                                                                  *)
Expired == freshnessAge >= Freshness

ConsentFreshness_Continue ==
  /\ Fired("probe")
  /\ \/ Expired /\ Disconnect(<<>>) /\ UNCHANGED heap
     \/ /\ ~Expired
        /\ waiting' = With(waiting, "probe", Probe)
        /\ heap' = IF ice = "none" THEN "corrupt" ELSE heap
        /\ UNCHANGED <<slot, stack, freshnessAge, history>>
  /\ UNCHANGED <<run, user, binding>>

(* The disconnect another thread asked for, on the chain thread. *)
DisconnectQueued ==
  /\ Fired("disconnect")
  /\ Continue(waiting, <<>>)
  /\ UNCHANGED <<run, user, binding, heap>>

(* ILibWebRTC_CloseDataChannel_Timeout: once more, or never mind; then the *)
(* application is told of the channel, if it was open, with the Lock       *)
(* released, and the session is not used again.                            *)
CloseDataChannel_Timeout ==
  /\ Fired("reconfig")
  /\ \/ waiting' = With(waiting, "reconfig", Retry) /\ UNCHANGED <<pendingReconfig, stack>>
     \/ /\ pendingReconfig' = FALSE /\ UNCHANGED waiting
        /\ stack' \in {<<>>, <<"gaveup">>}
  /\ UNCHANGED <<session, created, state, ice, role, timervalue, run, user,
                 binding, freshnessAge, history, heap>>

FireTimer == \/ FireDangling \/ SctpOnTimeout \/ ConsentFreshness_Start
             \/ ConsentFreshness_Continue \/ DisconnectQueued \/ CloseDataChannel_Timeout

-----------------------------------------------------------------------------
(* An offer takes the ICE state slot. *)
Offer ==
  /\ Handling /\ ice = "none"
  /\ ice' = "offer"
  /\ role' \in [initiator: BOOLEAN, turn: Turns]
  /\ UNCHANGED <<session, created, state, timervalue, pendingReconfig, chain, waiting,
                 user, binding, freshnessAge, history, heap>>

(* ILibWrapper_WebRTC_Connection_Disconnect of a connection that has not   *)
(* connected clears the ICE state, whether its session exists or not.      *)
Abandon ==
  /\ Handling /\ ice # "none" /\ told = "nothing"
  /\ ice' = "none"
  /\ leftover' = leftover \union (IF ice = "attached" THEN {"ice"} ELSE {})
  /\ UNCHANGED <<session, created, state, role, timervalue, pendingReconfig, chain,
                 waiting, user, binding, freshnessAge, told, consentAge, heap>>

(* ILibStun_CreateDtlsSession, called by ILibStun_OnUDP for an allowed     *)
(* candidate and by ILibStun_InitiateDTLS.                                 *)
CreateDtlsSession ==
  /\ Handling /\ ice = "offer" /\ session = 0 /\ created < MaxSessions
  /\ created' = created + 1 /\ session' = created + 1
  /\ state' = "handshake" /\ ice' = "attached"
  /\ timervalue' = 0 /\ pendingReconfig' = FALSE
  /\ told' = "nothing" /\ freshnessAge' = 0 /\ consentAge' = 0
  /\ UNCHANGED <<role, chain, waiting, user, binding, leftover, heap>>

(* The two timers of ILibStun_DTLS_Success.                                *)
ConsentStarted(timers) == With(timers, "start", Freshness)
HeartbeatStarted(timers) ==
  IF role.initiator THEN timers ELSE With(timers, "heartbeat", Beat)

(* SSL_do_handshake is done: ILibStun_DTLS_Success. *)
HandshakeDone ==
  /\ Handling /\ session # 0 /\ state = "handshake" /\ ice = "attached"
  /\ state' = "setup" /\ consentAge' = 0
  /\ IF role.turn
     THEN binding' = binding + 1 /\ waiting' = ConsentStarted(waiting)
     ELSE waiting' = ConsentStarted(HeartbeatStarted(waiting)) /\ UNCHANGED binding
  /\ UNCHANGED <<session, created, ice, role, timervalue, pendingReconfig, chain,
                 user, told, freshnessAge, leftover, heap>>

(* ILibStun_DTLS_Success_OnCreateTURNChannelBinding: by the channel number *)
(* alone, whatever happened to the session meanwhile.                      *)
ChannelBindingAnswered ==
  /\ Handling /\ binding > 0
  /\ \/ /\ session = 0 \/ ice = "none"
        /\ Corrupt
     \/ /\ session # 0 /\ ice # "none"
        /\ binding' = binding - 1
        /\ waiting' = HeartbeatStarted(waiting)
        /\ UNCHANGED <<slot, chain, user, freshnessAge, history, heap>>
     \/ \* refused
        /\ binding' = binding - 1
        /\ UNCHANGED <<slot, chain, waiting, user, freshnessAge, history, heap>>

Established == session # 0 /\ ice = "attached" /\ state \in {"setup", "connected"}

(* COOKIEECHO or COOKIEACK: OnConnect(1). *)
SctpEstablished ==
  /\ Handling /\ Established /\ state = "setup"
  /\ state' = "connected" /\ told' = "connected"
  /\ stack' = <<"connected">>
  /\ UNCHANGED <<session, created, ice, role, timervalue, pendingReconfig, batch, run,
                 waiting, user, binding, freshnessAge, consentAge, leftover, heap>>

(* A packet that calls the application: OnData or OnSendOK, after which    *)
(* the session is looked up again, or one of the data channel callbacks,   *)
(* after which it is not.                                                  *)
Data ==
  /\ Handling /\ Established /\ state = "connected"
  /\ timervalue' = 0
  /\ stack' \in {<<"data">>, <<"channel">>}
  /\ UNCHANGED <<session, created, state, ice, role, pendingReconfig, batch, run,
                 waiting, user, binding, freshnessAge, history, heap>>

(* HEARTBEAT or HEARTBEATACK: the peer is heard, the application is not    *)
(* called.                                                                 *)
Heartbeat ==
  /\ Handling /\ Established
  /\ timervalue' = 0
  /\ UNCHANGED <<session, created, state, ice, role, pendingReconfig, chain,
                 waiting, user, binding, freshnessAge, history, heap>>

(* SSL_read ends, ABORT, SHUTDOWN, ERROR. *)
PeerCloses ==
  /\ Handling /\ Established
  /\ UNCHANGED <<batch, run, user, binding, heap>>
  /\ Disconnect(<<>>)

(* The answer to a probe, in ILibStun_ProcessStunPacket.  The peer sends   *)
(* one only for a probe, which it gets once the session is set up, and     *)
(* signs it (the code does not ask for that).  The key to check it with is *)
(* that of the ICE state: there may be none, and with that of a later      *)
(* offer the answer is dropped.  (Fault: the timer that waits is left.)    *)
KeepFreshness(timers) == timers
RemoveFreshness(timers) == Without(timers, AtFreshness)

Consent ==
  /\ Handling /\ session # 0 /\ state \in {"setup", "connected"}
  /\ \/ ice = "none" /\ Corrupt
     \/ /\ ice = "attached"
        /\ waiting' = With(RemoveFreshness(waiting), "start", Freshness)
        /\ consentAge' = 0
        /\ UNCHANGED <<slot, chain, user, binding, freshnessAge, told, leftover, heap>>

Packet == \/ HandshakeDone \/ ChannelBindingAnswered \/ SctpEstablished
          \/ Data \/ Heartbeat \/ PeerCloses \/ Consent

-----------------------------------------------------------------------------
(* ILibWebRTC_CloseDataChannel on any thread: a RECONFIG is sent. *)
CloseChannel ==
  /\ Running /\ run = "runs" /\ session # 0 /\ told = "connected"
  /\ state = "connected" /\ ~pendingReconfig
  /\ pendingReconfig' = TRUE
  /\ waiting' = With(waiting, "reconfig", Retry)
  /\ UNCHANGED <<session, created, state, ice, role, timervalue, chain, user, binding,
                 freshnessAge, history, heap>>

(* The application closes the session in a callback. *)
CloseInCallback ==
  /\ Running /\ stack # <<>> /\ session # 0
  /\ UNCHANGED <<batch, run, user, binding, heap>>
  /\ Disconnect(stack)

(* Is the session still there after the callback?  (Fault: not asked.)     *)
NeverGone == FALSE
Gone == session = 0

(* A callback returns to its handler. *)
CallbackReturns ==
  /\ Running /\ stack # <<>>
  /\ UNCHANGED <<batch, run, user, binding>>
  /\ \/ /\ Head(stack) = "closing"
        /\ Finish(waiting, Tail(stack))
        /\ UNCHANGED heap
     \/ /\ Head(stack) \in {"connected", "data"}
        /\ stack' = Tail(stack)
        /\ heap' = IF session = 0 /\ ~Gone THEN "corrupt" ELSE heap
        /\ UNCHANGED <<slot, waiting, freshnessAge, history>>
     \/ /\ Head(stack) = "gaveup"
        /\ stack' = Tail(stack)
        /\ UNCHANGED <<slot, waiting, freshnessAge, history, heap>>
     \/ /\ Head(stack) = "channel"
        /\ stack' = Tail(stack)
        /\ heap' = IF session = 0 THEN "corrupt" ELSE heap
        /\ UNCHANGED <<slot, waiting, freshnessAge, history>>

(* Another thread of the application, between OnConnect(1) and OnConnect(0), *)
(* calls ILibSCTP_Close or ILibSCTP_Send with the pointer it was given.    *)
UserCalls ==
  /\ Running /\ user = 0 /\ told = "connected"
  /\ user' = session
  /\ UNCHANGED <<slot, chain, waiting, binding, freshnessAge, history, heap>>

UserRuns ==
  /\ Running /\ user # 0
  /\ \/ user # session /\ Corrupt
     \/ /\ user = session
        /\ Count({"disconnect"}) < MaxCloses
        /\ waiting' = With(Without(waiting, {"heartbeat"}), "disconnect", 0)
        /\ user' = 0
        /\ UNCHANGED <<slot, chain, binding, freshnessAge, history, heap>>
     \/ /\ user = session
        /\ user' = 0
        /\ UNCHANGED <<slot, chain, waiting, binding, freshnessAge, history, heap>>

-----------------------------------------------------------------------------
(* ILibStun_OnDestroy, when the chain ends: the session is disconnected;   *)
(* what is left of it, and the ICE state, are freed.                       *)
Destroy ==
  /\ Handling
  /\ run' = "stopping" /\ UNCHANGED <<batch, user, binding, heap>>
  /\ \/ session # 0 /\ Disconnect(<<>>)
     \/ session = 0 /\ UNCHANGED <<slot, stack, waiting, freshnessAge, history>>

Destroyed ==
  /\ Running /\ run = "stopping" /\ stack = <<>>
  /\ run' = "stopped"
  /\ session' = 0 /\ ice' = "none" /\ waiting' = <<>>
  /\ UNCHANGED <<created, state, role, timervalue, pendingReconfig, batch, stack,
                 user, binding, freshnessAge, history, heap>>

Older(age, most) == IF age < most THEN age + 1 ELSE age
(* Consent is given up at the latest this many ticks after it was given. *)
ConsentBound == Freshness + Freshness + Probe

(* Time passes while the chain sleeps; it is woken for the timers due. *)
Clock ==
  /\ Handling
  /\ waiting' = [i \in DOMAIN waiting |->
                   [waiting[i] EXCEPT !.left = waiting[i].left - 1]]
  /\ freshnessAge' = Older(freshnessAge, Freshness)
  /\ consentAge' = IF Established THEN Older(consentAge, ConsentBound + 1) ELSE 0
  /\ UNCHANGED <<slot, chain, user, binding, told, leftover, heap>>

ChainStep == Check \/ FireTimer \/ CallbackReturns \/ Clock
Next == \/ ChainStep \/ Offer \/ Abandon \/ CreateDtlsSession \/ Packet
        \/ CloseChannel \/ CloseInCallback \/ UserCalls \/ UserRuns
        \/ Destroy \/ Destroyed

Spec == Init /\ [][Next]_vars

(* The chain thread runs, its callbacks return, other threads go on. *)
FairSpec == Spec /\ WF_vars(Check) /\ WF_vars(FireTimer) /\ WF_vars(CallbackReturns)
                 /\ WF_vars(UserRuns) /\ WF_vars(Destroyed)

-----------------------------------------------------------------------------
(* TYPE: the variables keep the shape of struct ILibStun_dTlsSession. *)
TypeOK ==
  /\ session \in 0..created /\ created \in 0..MaxSessions /\ state \in States
  /\ ice \in {"none", "offer", "attached"} /\ role \in [initiator: BOOLEAN, turn: BOOLEAN]
  /\ timervalue \in 0..(GiveUp - 1) /\ pendingReconfig \in BOOLEAN
  /\ waiting \in Seq(Timer) /\ batch \in Seq(Timer)
  /\ stack \in Seq({"connected", "data", "channel", "gaveup", "closing"})
  /\ user \in 0..created /\ binding \in 0..created
  /\ told \in {"nothing", "connected", "disconnected"}
  /\ freshnessAge \in 0..Freshness /\ consentAge \in 0..(ConsentBound + 1)
  /\ leftover \subseteq {"queued", "batch", "thread", "callback", "binding", "ice"}
  /\ heap \in {"ok", "corrupt"} /\ run \in {"runs", "stopping", "stopped"}

(* Freed memory is used only through what the teardown leaves: a timer     *)
(* already in the batch, a queued second disconnect, a call of another     *)
(* thread, a data channel callback, an outstanding channel binding; or the *)
(* application cleared the ICE state under it.  Without these nothing runs *)
(* on a session once it is freed: no timer of it waits, and every other    *)
(* handler looks it up again.                                              *)
CorruptOnlyByLeftover == heap = "corrupt" => leftover # {}

(* The application that was told of a connection is told of its end before *)
(* the session goes, and only once, whoever closes it and however closing  *)
(* it in the callbacks is nested.                                          *)
EndIsTold ==
  [][/\ session' # session => told # "connected"
     /\ Len(stack') > Len(stack) /\ Head(stack') = "closing" => told = "connected"]_vars

(* A peer that no longer consents is cut off within twice the freshness    *)
(* time and a probe, "15 Seconds or less to be spec compliant" each: from  *)
(* the end of the handshake to the end of the session exactly one timer    *)
(* watches, across probes, answers and calls to close.                     *)
ConsentLost ==
  heap = "ok" =>
    /\ consentAge <= ConsentBound
    /\ run = "runs" /\ Established => Count(AtFreshness) = 1

(* LIVENESS: a session another thread closed ends. *)
CloseCompletes ==
  \A i \in 1..MaxSessions :
    (session = i /\ Count({"disconnect"}) > 0)
      ~> (session # i \/ heap = "corrupt" \/ run = "stopped")
=============================================================================
