----------------------------- MODULE SessionProofs -----------------------------
(***************************************************************************)
(* Proofs about Session for any number of sessions and closes, and for any *)
(* lengths of the timers.                                                  *)
(***************************************************************************)
EXTENDS Session, DataLemmas

(* The timers that fire or wait. *)
Timers == Range(batch) \union Range(waiting)
Frame == {"connected", "data", "channel", "gaveup", "closing"}

(* The session in the slot, what the application knows of it, and the one  *)
(* callback that tells of its end.                                         *)
Slots ==
  /\ session = 0 /\ run # "stopped" => state = "free"
  /\ session # 0 /\ state = "handshake" => binding < created
  /\ told = "connected" <=> state = "connected"
  /\ run # "runs" => state # "connected"
  /\ \A i \in 1..Len(stack) : stack[i] = "closing" => state = "disconnecting"
  /\ \A i, j \in 1..Len(stack) : stack[i] = "closing" /\ stack[j] = "closing" => i = j

(* While nothing was left behind, whatever refers to a session refers to   *)
(* the one in the slot.                                                    *)
Referred ==
  /\ CorruptOnlyByLeftover
  /\ run # "stopped" /\ leftover = {} =>
       /\ \A t \in Timers : t.id = session
       /\ session # 0 => ice = "attached"
       /\ binding > 0 => session # 0
       /\ "channel" \in Range(stack) => session # 0
       /\ user # 0 => user = session

(* The timer that watches over consent goes off in time. *)
InTime(t) ==
  /\ t.kind = "start" => consentAge + t.left <= Freshness
  /\ t.kind = "probe" =>
       /\ t.left <= Probe
       /\ IF freshnessAge < Freshness THEN consentAge <= Freshness + freshnessAge
                                      ELSE consentAge + t.left <= ConsentBound

Watched ==
  /\ \A t \in Timers : t.id <= created
  /\ state = "handshake" => \A t \in Timers : t.id = session => t.kind \notin AtFreshness
  /\ consentAge <= ConsentBound
  /\ run = "runs" /\ Established =>
       /\ Count(AtFreshness) = 1
       /\ \A t \in Timers : t.id = session => InTime(t)

SessionInv == TypeOK /\ Slots /\ Referred /\ Watched

-----------------------------------------------------------------------------
(* The lists of timers, and one for the session. *)
Alarm(kind, left) == [kind |-> kind, id |-> session, left |-> left]

LEMMA WithTimer ==
  ASSUME SessionAssumption, session \in 1..MaxSessions, NEW timers \in Seq(Timer),
         NEW kind \in Kinds, NEW left \in Nat
  PROVE  /\ Alarm(kind, left) \in Timer /\ With(timers, kind, left) \in Seq(Timer)
         /\ Range(With(timers, kind, left)) = Range(timers) \union {Alarm(kind, left)}
         /\ \A K : Len(Keep(With(timers, kind, left), K))
                     = Len(Keep(timers, K)) + (IF Alarm(kind, left) \in K THEN 1 ELSE 0)
<1> DEFINE e == Alarm(kind, left)
           P(i) == /\ \A j \in 1..(i - 1) : timers[j].left < left
                   /\ i <= Len(timers) => left <= timers[i].left
           at == CHOOSE i \in 1..(Len(timers) + 1) : P(i)
           A == {i \in 1..(Len(timers) + 1) : i <= Len(timers) => left <= timers[i].left}
<1>0. Len(timers) \in Nat
    BY LenProperties
<1>1. e \in Timer
    BY DEF Timer, Alarm
<1>2. at \in 1..(Len(timers) + 1)
    <2>1. A \subseteq Nat /\ A # {}
        <3>1. Len(timers) + 1 \in A
            BY <1>0
        <3> QED BY <3>1
    <2>2. PICK i \in A : \A j \in A : i <= j
        <3> HIDE DEF A
        <3> QED BY <2>1, LeastElement
    <2>3. i \in 1..(Len(timers) + 1) /\ (i <= Len(timers) => left <= timers[i].left)
        OBVIOUS
    <2>4. ASSUME NEW j \in 1..(i - 1) PROVE timers[j].left < left
        <3>1. j \in 1..Len(timers) /\ j < i
            BY <1>0, <2>3
        <3>2. timers[j] \in Timer
            BY <3>1, ElementOfSeq
        <3>3. j \in 1..(Len(timers) + 1) /\ ~(i <= j)
            BY <1>0, <2>3, <3>1
        <3>4. j \notin A
            <4> HIDE DEF A
            <4> QED BY <2>2, <3>3
        <3>5. ~(left <= timers[j].left)
            BY <3>1, <3>3, <3>4
        <3>6. timers[j].left \in Nat
            BY <3>2 DEF Timer
        <3> QED BY <3>5, <3>6
    <2>5. P(i)
        BY <2>3, <2>4
    <2> HIDE DEF P
    <2> QED BY <2>3, <2>5
<1>3. With(timers, kind, left) = InsertAt(timers, at, e)
    BY DEF With, Alarm
<1> HIDE DEF at, e
<1>4. /\ InsertAt(timers, at, e) \in Seq(Timer)
      /\ Range(InsertAt(timers, at, e)) = Range(timers) \union {e}
    BY <1>1, <1>2, InsertAtProperties
<1>5. \A K : Len(Keep(InsertAt(timers, at, e), K))
               = Len(Keep(timers, K)) + (IF e \in K THEN 1 ELSE 0)
    BY <1>1, <1>2, KeepInserted
<1> QED BY <1>1, <1>3, <1>4, <1>5 DEF e

LEMMA WithoutTimers ==
  ASSUME NEW timers \in Seq(Timer), NEW kinds
  PROVE  /\ Without(timers, kinds) \in Seq(Timer)
         /\ Range(Without(timers, kinds))
              = {t \in Range(timers) : t.id # session \/ t.kind \notin kinds}
         /\ Without(timers, kinds)
              = Keep(timers, {t \in Range(timers) : t.id # session \/ t.kind \notin kinds})
<1> DEFINE K == {t \in Range(timers) : t.id # session \/ t.kind \notin kinds}
<1>1. Without(timers, kinds) = Keep(timers, K)
    BY DEF Without
<1>2. Keep(timers, K) \in Seq(Timer) /\ Range(Keep(timers, K)) = Range(timers) \intersect K
    <2> HIDE DEF K
    <2> QED BY KeepProperties
<1>3. Range(timers) \intersect K = K
    OBVIOUS
<1> QED BY <1>1, <1>2, <1>3

(* A list with no such timer. *)
LEMMA NoneOf ==
  ASSUME NEW timers \in Seq(Timer), NEW K, \A t \in Range(timers) : t \notin K
  PROVE  Len(Keep(timers, K)) = 0
<1>1. Range(timers) = {timers[i] : i \in 1..Len(timers)}
    BY RangeEquality
<1>2. \A i \in 1..Len(timers) : timers[i] \notin K
    BY <1>1
<1>3. Keep(timers, K) = <<>>
    BY <1>2, KeepAllOrNone
<1> QED BY <1>3, EmptySeq

(* Timers that do not count, taken away. *)
LEMMA OthersGone ==
  ASSUME NEW timers \in Seq(Timer), NEW J, NEW K, \A t \in Range(timers) : t \in K => t \in J
  PROVE  Len(Keep(Keep(timers, J), K)) = Len(Keep(timers, K))
<1>1. Keep(Keep(timers, J), K) = Keep(timers, J \intersect K)
    BY KeepTwice
<1>2. Range(timers) = {timers[i] : i \in 1..Len(timers)}
    BY RangeEquality
<1>3. \A i \in 1..Len(timers) : timers[i] \in J \intersect K <=> timers[i] \in K
    BY <1>2
<1> DEFINE B == J \intersect K
<1>4. \A i \in 1..Len(timers) : timers[i] \in B <=> timers[i] \in K
    BY <1>3
<1> HIDE DEF B
<1>5. Len(Keep(timers, B)) = Len(Keep(timers, K))
    BY <1>4, KeepSame
<1> QED BY <1>1, <1>5 DEF B

LEMMA CountOfBoth ==
  ASSUME NEW first \in Seq(Timer), NEW second \in Seq(Timer), NEW K
  PROVE  /\ Len(Keep(first \o second, K)) = Len(Keep(first, K)) + Len(Keep(second, K))
         /\ Len(Keep(first, K)) \in Nat /\ Len(Keep(second, K)) \in Nat
<1>1. Keep(first \o second, K) = Keep(first, K) \o Keep(second, K)
    BY KeepConcat
<1>2. Keep(first, K) \in Seq(Timer) /\ Keep(second, K) \in Seq(Timer)
    BY KeepProperties
<1>3. Len(Keep(first, K) \o Keep(second, K)) = Len(Keep(first, K)) + Len(Keep(second, K))
    BY <1>2, ConcatProperties
<1> QED BY <1>1, <1>2, <1>3, LenProperties

(* The callback of the end, called. *)
LEMMA Pushed ==
  ASSUME NEW frame \in Frame, NEW frames \in Seq(Frame)
  PROVE  LET s == <<frame>> \o frames IN
         /\ s \in Seq(Frame) /\ Len(frames) \in Nat /\ Len(s) = Len(frames) + 1
         /\ s[1] = frame /\ \A i \in 2..Len(s) : i - 1 \in 1..Len(frames) /\ s[i] = frames[i - 1]
         /\ Range(s) = Range(frames) \union {frame}
<1> DEFINE one == <<frame>>
           s == one \o frames
<1>1. one \in Seq(Frame) /\ Len(one) = 1 /\ one[1] = frame
    OBVIOUS
<1>2. Len(frames) \in Nat
    BY LenProperties
<1> HIDE DEF one
<1>3. /\ s \in Seq(Frame) /\ Len(s) = Len(one) + Len(frames)
      /\ \A i \in 1..(Len(one) + Len(frames)) :
           s[i] = IF i <= Len(one) THEN one[i] ELSE frames[i - Len(one)]
    BY <1>1, ConcatProperties
<1> HIDE DEF s
<1>4. Len(s) = Len(frames) + 1
    BY <1>1, <1>2, <1>3
<1>5. \A i \in 1..(1 + Len(frames)) : s[i] = IF i <= 1 THEN one[i] ELSE frames[i - 1]
    BY <1>1, <1>3
<1>6. /\ s[1] = frame
      /\ \A i \in 2..Len(s) : i - 1 \in 1..Len(frames) /\ s[i] = frames[i - 1]
    BY <1>1, <1>2, <1>4, <1>5
<1>7. Range(s) = {s[i] : i \in 1..Len(s)} /\ Range(frames) = {frames[i] : i \in 1..Len(frames)}
    BY <1>3, RangeEquality
<1>8. Range(s) = Range(frames) \union {frame}
    <2>1. \A i \in 1..Len(s) : i = 1 \/ i \in 2..Len(s)
        BY <1>2, <1>4
    <2>2. 1 \in 1..Len(s) /\ \A i \in 1..Len(frames) : i + 1 \in 2..Len(s) /\ i + 1 \in 1..Len(s) /\ (i + 1) - 1 = i
        BY <1>2, <1>4
    <2>3. \A i \in 1..Len(frames) : s[i + 1] = frames[i]
        BY <1>6, <2>2
    <2>4. Range(s) \subseteq Range(frames) \union {frame}
        BY <1>6, <1>7, <2>1
    <2>5. frame \in Range(s)
        BY <1>6, <1>7, <2>2
    <2>6. Range(frames) \subseteq Range(s)
        BY <1>7, <2>2, <2>3
    <2> QED BY <2>4, <2>5, <2>6
<1> QED BY <1>2, <1>3, <1>4, <1>6, <1>8 DEF s, one
-----------------------------------------------------------------------------
(* The end of a session, and what closing it comes to. *)
LEMMA NothingLeft ==
  ASSUME NEW timers, NEW frames, References(timers, frames) = {}
  PROVE  /\ \A t \in Range(timers) : t.id = session => t.kind # "disconnect"
         /\ \A t \in Range(batch') : t.id # session
         /\ user # session /\ "channel" \notin Range(frames) /\ 1..binding = {}
<1> DEFINE queued == {x \in Range(timers) : x.id = session /\ x.kind = "disconnect"}
           firing == {x \in Range(batch') : x.id = session}
           inside == {session} \intersect {user}
           called == {x \in Range(frames) : x = "channel"}
<1>1. queued = {} /\ firing = {} /\ inside = {} /\ called = {} /\ 1..binding = {}
    <2>1. \A D, x : {x : d \in D} = {} => D = {}
        OBVIOUS
    <2> HIDE DEF queued, firing, inside, called
    <2>2. {"queued" : t \in queued} = {} /\ {"batch" : t \in firing} = {} /\ {"thread" : u \in inside} = {}
          /\ {"callback" : f \in called} = {} /\ {"binding" : b \in 1..binding} = {}
        BY Zenon DEF References, queued, firing, inside, called
    <2> QED BY <2>1, <2>2
<1> QED BY <1>1

LEMMA ReferencesTyped ==
  ASSUME NEW timers, NEW frames
  PROVE  References(timers, frames) \subseteq {"queued", "batch", "thread", "callback", "binding"}
BY DEF References

(* Closing a session that is connected, that is not yet, or that is going  *)
(* or not set up: the last does nothing.                                   *)
LEMMA Closing ==
  ASSUME SessionAssumption, TypeOK, session # 0,
         NEW timers \in Seq(Timer), NEW frames \in Seq(Frame), Continue(timers, frames)
  PROVE  /\ waiting' \in Seq(Timer) /\ pendingReconfig' \in BOOLEAN
         /\ created' = created /\ role' = role
         /\ \/ /\ state = "connected" /\ state' = "disconnecting" /\ told' = "disconnected"
               /\ stack' = <<"closing">> \o frames
               /\ Range(waiting') \subseteq
                    Range(timers) \union {Alarm("reconfig", Retry)}
               /\ UNCHANGED <<session, ice, timervalue, freshnessAge, consentAge, leftover>>
            \/ state = "setup" /\ Finish(timers, frames)
            \/ /\ state \notin {"setup", "connected"} /\ waiting' = timers /\ stack' = frames
               /\ UNCHANGED <<session, state, ice, timervalue, freshnessAge, history>>
<1>0. session \in 1..MaxSessions /\ pendingReconfig \in BOOLEAN /\ Retry \in Nat
      /\ "reconfig" \in Kinds
    BY DEF TypeOK, SessionAssumption, Kinds
<1>1. /\ With(timers, "reconfig", Retry) \in Seq(Timer)
      /\ Range(With(timers, "reconfig", Retry))
           = Range(timers) \union {Alarm("reconfig", Retry)}
    BY <1>0, WithTimer
<1> DEFINE open == state = "connected" /\ ~pendingReconfig
           closed == IF open THEN With(timers, "reconfig", Retry) ELSE timers
<1>2. closed \in Seq(Timer)
    BY <1>1
<1>3. CASE /\ Takes(state) /\ Announces(state)
           /\ state' = "disconnecting" /\ told' = "disconnected"
           /\ waiting' = closed /\ pendingReconfig' = TRUE
           /\ stack' = <<"closing">> \o frames
           /\ UNCHANGED <<session, created, ice, role, timervalue, freshnessAge,
                          consentAge, leftover>>
    <2>1. Range(closed) \subseteq
            Range(timers) \union {Alarm("reconfig", Retry)}
        BY <1>1
    <2> HIDE DEF closed
    <2>2. state = "connected"
        BY <1>3 DEF Announces
    <2> QED BY <1>2, <1>3, <2>1, <2>2
<1>4. CASE Takes(state) /\ ~Announces(state) /\ Finish(closed, frames)
    <2>1. state = "setup" /\ closed = timers
        BY <1>4 DEF Takes, Announces
    <2> HIDE DEF closed
    <2>2. Finish(timers, frames)
        BY <1>4, <2>1
    <2>3. waiting' \in Seq(Timer)
        BY <2>2, WithoutTimers DEF Finish
    <2> QED BY <2>1, <2>2, <2>3 DEF Finish
<1>5. CASE /\ ~Takes(state)
           /\ waiting' = closed /\ pendingReconfig' = (pendingReconfig \/ open)
           /\ stack' = frames
           /\ UNCHANGED <<session, created, state, ice, role, timervalue, freshnessAge, history>>
    <2>1. state \notin {"setup", "connected"} /\ closed = timers /\ ~open
        BY <1>5 DEF Takes
    <2> HIDE DEF closed
    <2>2. pendingReconfig' \in BOOLEAN
        BY <1>5
    <2> QED BY <1>2, <1>5, <2>1, <2>2
<1> HIDE DEF closed, open
<1> QED BY <1>3, <1>4, <1>5 DEF Continue, closed, open
LEMMA Finishing ==
  ASSUME SessionAssumption, SessionInv, run # "stopped",
         run' \in {"runs", "stopping"}, UNCHANGED <<user, binding, heap>>,
         batch' \in Seq(Timer), Range(batch') \subseteq Range(batch),
         NEW timers \in Seq(Timer), Range(timers) \subseteq Range(waiting),
         NEW frames \in Seq(Frame), \A i \in 1..Len(frames) : frames[i] # "closing",
         Finish(timers, frames)
  PROVE  SessionInv'
<1>1. /\ waiting' \in Seq(Timer)
      /\ Range(waiting') = {t \in Range(timers) :
                              t.id # session \/ t.kind \notin AtFreshness \union {"heartbeat", "reconfig"}}
    BY WithoutTimers DEF Finish
<1>2. Timers' \subseteq Timers
    BY <1>1 DEF Timers
<1>3. \A t \in Timers : t \in Timer
    BY RangeOfSeq DEF Timers, SessionInv, TypeOK
<1>4. TypeOK'
    <2>1. stack' \in Seq(Frame) /\ leftover' \subseteq {"queued", "batch", "thread", "callback", "binding", "ice"}
        BY ReferencesTyped DEF Finish, SessionInv, TypeOK
    <2>2. /\ session' = 0 /\ state' \in States /\ ice' \in {"none", "offer", "attached"}
          /\ told' \in {"nothing", "connected", "disconnected"} /\ pendingReconfig' \in BOOLEAN
          /\ timervalue' = 0 /\ freshnessAge' = 0 /\ consentAge' = 0
          /\ created' = created /\ role' = role
        BY DEF Finish, States
    <2>3. /\ created \in 0..MaxSessions /\ role \in [initiator: BOOLEAN, turn: BOOLEAN]
          /\ user \in 0..created /\ binding \in 0..created /\ heap \in {"ok", "corrupt"}
        BY DEF SessionInv, TypeOK
    <2>4. /\ 0 \in 0..(GiveUp - 1) /\ 0 \in 0..Freshness /\ 0 \in 0..(ConsentBound + 1)
          /\ 0 \in 0..created
        BY <2>3 DEF SessionAssumption, ConsentBound
    <2> QED BY <1>1, <2>1, <2>2, <2>3, <2>4 DEF TypeOK, Frame, ConsentBound
<1>5. Slots'
    BY DEF Finish, Slots
<1>6. Referred'
    <2>1. leftover \subseteq leftover' /\ References(timers, frames) \subseteq leftover'
        BY DEF Finish
    <2>2. CorruptOnlyByLeftover'
        BY <2>1 DEF SessionInv, Referred, CorruptOnlyByLeftover
    <2>3. ASSUME leftover' = {}
          PROVE  Timers' = {} /\ ~(binding > 0) /\ "channel" \notin Range(frames) /\ user = 0
        <3>1. References(timers, frames) = {} /\ leftover = {}
            BY <2>1, <2>3
        <3>2. /\ \A t \in Range(timers) : t.id = session => t.kind # "disconnect"
              /\ \A t \in Range(batch') : t.id # session
              /\ user # session /\ "channel" \notin Range(frames) /\ 1..binding = {}
            BY <3>1, NothingLeft
        <3>3. (\A t \in Timers : t.id = session) /\ (user # 0 => user = session)
            BY <3>1 DEF SessionInv, Referred
        <3>4. Range(batch') = {}
            BY <3>2, <3>3 DEF Timers
        <3>5. ASSUME NEW t \in Range(waiting') PROVE FALSE
            <4>1. t \in Range(timers) /\ t \in Timers /\ t.id = session
                BY <1>1, <3>3 DEF Timers
            <4>2. t.kind \in Kinds /\ t.kind # "disconnect"
                  /\ t.kind \notin AtFreshness \union {"heartbeat", "reconfig"}
                BY <1>1, <1>3, <3>2, <4>1 DEF Timer
            <4> QED BY <4>2 DEF Kinds
        <3>6. binding \in Nat /\ ~(binding > 0)
            <4>1. binding \in Int /\ binding >= 0
                BY DEF SessionInv, TypeOK, SessionAssumption
            <4>2. binding > 0 => 1 \in 1..binding
                BY <4>1
            <4> QED BY <3>2, <4>1, <4>2
        <3>7. Timers' = {}
            BY <3>4, <3>5 DEF Timers
        <3> QED BY <3>2, <3>3, <3>6, <3>7
    <2> QED BY <2>2, <2>3 DEF Referred, Finish
<1>7. Watched'
    <2>1. /\ created' = created /\ session' = 0 /\ consentAge' = 0 /\ state' = "free"
          /\ Freshness \in Nat /\ Probe \in Nat
        BY DEF Finish, SessionAssumption
    <2>2. \A t \in Timers' : t.id <= created'
        BY <1>2, <2>1 DEF SessionInv, Watched
    <2>3. consentAge' <= ConsentBound
        BY <2>1 DEF ConsentBound
    <2>4. ~Established'
        BY <2>1 DEF Established
    <2> QED BY <2>1, <2>2, <2>3, <2>4 DEF Watched, ConsentBound
<1> QED BY <1>4, <1>5, <1>6, <1>7 DEF SessionInv

LEMMA ClosingKeeps ==
  ASSUME SessionAssumption, SessionInv, run # "stopped", session # 0,
         run' \in {run, "stopping"}, UNCHANGED <<user, binding, heap>>,
         batch' \in Seq(Timer), Range(batch') \subseteq Range(batch),
         NEW timers \in Seq(Timer), Range(timers) \subseteq Range(waiting),
         Continue(timers, stack)
  PROVE  SessionInv'
<1> DEFINE again == Alarm("reconfig", Retry)
<1>0. /\ stack \in Seq(Frame) /\ session \in 1..MaxSessions /\ session <= created
      /\ TypeOK /\ run' \in {"runs", "stopping"}
    BY DEF SessionInv, TypeOK, Frame
<1>1. \A t \in Timers : t \in Timer /\ t.id <= created
    BY RangeOfSeq DEF Timers, SessionInv, TypeOK, Watched
<1>c. /\ waiting' \in Seq(Timer) /\ pendingReconfig' \in BOOLEAN
      /\ created' = created /\ role' = role
      /\ \/ /\ state = "connected" /\ state' = "disconnecting" /\ told' = "disconnected"
            /\ stack' = <<"closing">> \o stack
            /\ Range(waiting') \subseteq Range(timers) \union {again}
            /\ UNCHANGED <<session, ice, timervalue, freshnessAge, consentAge, leftover>>
         \/ state = "setup" /\ Finish(timers, stack)
         \/ /\ state \notin {"setup", "connected"} /\ waiting' = timers /\ stack' = stack
            /\ UNCHANGED <<session, state, ice, timervalue, freshnessAge, history>>
    BY <1>0, Closing
<1>a. again.id = session /\ again.kind = "reconfig"
    BY DEF Alarm
<1> HIDE DEF again
<1>2. CASE /\ state = "connected" /\ state' = "disconnecting" /\ told' = "disconnected"
           /\ stack' = <<"closing">> \o stack
           /\ Range(waiting') \subseteq Range(timers) \union {again}
           /\ UNCHANGED <<session, ice, timervalue, freshnessAge, consentAge, leftover>>
    <2>1. /\ stack' \in Seq(Frame) /\ Len(stack) \in Nat /\ Len(stack') = Len(stack) + 1
          /\ \A i \in 2..Len(stack') : i - 1 \in 1..Len(stack) /\ stack'[i] = stack[i - 1]
          /\ Range(stack') = Range(stack) \union {"closing"}
        BY <1>0, <1>2, Pushed DEF Frame
    <2>2. \A t \in Timers' : t \in Timers \/ t = again
        BY <1>2 DEF Timers
    <2>3. TypeOK'
        BY <1>0, <1>c, <1>2, <2>1 DEF TypeOK, States, Frame
    <2>4. Slots'
        <3>1. \A i \in 1..Len(stack) : stack[i] # "closing"
            BY <1>2 DEF SessionInv, Slots
        <3>2. \A i \in 1..Len(stack') : i = 1 \/ i \in 2..Len(stack')
            BY <2>1
        <3>3. \A i \in 1..Len(stack') : stack'[i] = "closing" => i = 1
            BY <2>1, <3>1, <3>2
        <3> QED BY <1>0, <1>2, <3>3 DEF SessionInv, Slots
    <2>5. Referred'
        <3>1. CorruptOnlyByLeftover'
            BY <1>2 DEF SessionInv, Referred, CorruptOnlyByLeftover
        <3>2. ASSUME leftover = {} PROVE \A t \in Timers' : t.id = session
            BY <1>a, <2>2, <3>2 DEF SessionInv, Referred
        <3> QED BY <1>2, <2>1, <3>1, <3>2 DEF SessionInv, Referred
    <2>6. Watched'
        <3>1. \A t \in Timers' : t.id <= created'
            BY <1>0, <1>c, <1>1, <1>a, <2>2
        <3>2. ~Established'
            BY <1>2 DEF Established
        <3>3. (consentAge <= ConsentBound)'
            BY <1>2 DEF SessionInv, Watched, ConsentBound
        <3> QED BY <1>2, <3>1, <3>2, <3>3 DEF Watched
    <2> QED BY <2>3, <2>4, <2>5, <2>6 DEF SessionInv
<1>3. CASE state = "setup" /\ Finish(timers, stack)
    <2>1. \A i \in 1..Len(stack) : stack[i] # "closing"
        BY <1>3 DEF SessionInv, Slots
    <2> QED BY <1>0, <1>3, <2>1, Finishing
<1>4. CASE /\ state \notin {"setup", "connected"} /\ waiting' = timers /\ stack' = stack
           /\ UNCHANGED <<session, state, ice, timervalue, freshnessAge, history>>
    <2>1. Timers' \subseteq Timers
        BY <1>4 DEF Timers
    <2>2. TypeOK'
        BY <1>0, <1>c, <1>4 DEF TypeOK, history
    <2>3. Slots'
        BY <1>0, <1>c, <1>4 DEF SessionInv, Slots, history
    <2>4. Referred'
        <3>1. CorruptOnlyByLeftover'
            BY <1>4 DEF SessionInv, Referred, CorruptOnlyByLeftover, history
        <3> QED BY <1>4, <2>1, <3>1 DEF SessionInv, Referred, history
    <2>5. Watched'
        <3>1. ~Established'
            BY <1>4 DEF Established
        <3>2. (consentAge <= ConsentBound)'
            BY <1>4 DEF SessionInv, Watched, ConsentBound, history
        <3>3. \A t \in Timers' : t \in Timers
            BY <2>1
        <3> QED BY <1>c, <1>4, <3>1, <3>2, <3>3 DEF SessionInv, Watched
    <2> QED BY <2>2, <2>3, <2>4, <2>5 DEF SessionInv
<1> QED BY <1>c, <1>2, <1>3, <1>4
-----------------------------------------------------------------------------
(* The first timer of the batch. *)
LEMMA FirstTimer ==
  ASSUME NEW timers \in Seq(Timer), timers # <<>>
  PROVE  /\ Head(timers) \in Timer /\ Tail(timers) \in Seq(Timer)
         /\ Range(timers) = Range(Tail(timers)) \union {Head(timers)}
         /\ \A K : Len(Keep(timers, K))
                     = Len(Keep(Tail(timers), K)) + (IF Head(timers) \in K THEN 1 ELSE 0)
<1> DEFINE e == Head(timers)
           rest == Tail(timers)
<1>1. /\ e \in Timer /\ e = timers[1] /\ rest \in Seq(Timer)
      /\ Len(timers) \in Nat /\ Len(timers) >= 1 /\ Len(rest) = Len(timers) - 1
      /\ \A i \in 1..Len(rest) : rest[i] = timers[i + 1]
      /\ Range(timers) = Range(rest) \union {e}
    BY HeadTailRange
<1> HIDE DEF e, rest
<1>2. 1 \in 1..(Len(rest) + 1)
    BY <1>1
<1> DEFINE u == InsertAt(rest, 1, e)
<1>3. /\ u \in Seq(Timer) /\ Len(u) = Len(rest) + 1
      /\ \A j \in 1..(Len(rest) + 1) :
           u[j] = IF j < 1 THEN rest[j] ELSE IF j = 1 THEN e ELSE rest[j - 1]
    <2>1. \A i \in 1..(Len(rest) + 1) :
            /\ InsertAt(rest, i, e) \in Seq(Timer) /\ Len(InsertAt(rest, i, e)) = Len(rest) + 1
            /\ \A j \in 1..(Len(rest) + 1) :
                 InsertAt(rest, i, e)[j] = IF j < i THEN rest[j] ELSE IF j = i THEN e ELSE rest[j - 1]
        <3>1. \A s \in Seq(Timer), x \in Timer : \A i \in 1..(Len(s) + 1) :
                /\ InsertAt(s, i, x) \in Seq(Timer) /\ Len(InsertAt(s, i, x)) = Len(s) + 1
                /\ \A j \in 1..(Len(s) + 1) :
                     InsertAt(s, i, x)[j] = IF j < i THEN s[j] ELSE IF j = i THEN x ELSE s[j - 1]
            BY InsertAtProperties
        <3>2. rest \in Seq(Timer) /\ e \in Timer
            BY <1>1
        <3> QED BY <3>1, <3>2
    <2> QED BY <1>2, <2>1
<1>4. \A K : Len(Keep(u, K)) = Len(Keep(rest, K)) + (IF e \in K THEN 1 ELSE 0)
    BY <1>1, <1>2, KeepInserted
<1> HIDE DEF u
<1>5. \A j \in 1..Len(timers) : u[j] = timers[j]
    <2> TAKE j \in 1..Len(timers)
    <2>1. j \in 1..(Len(rest) + 1) /\ ~(j < 1)
        BY <1>1
    <2>2. CASE j = 1
        BY <1>1, <1>3, <2>1, <2>2
    <2>3. CASE j # 1
        <3>1. j - 1 \in 1..Len(rest) /\ (j - 1) + 1 = j
            BY <1>1, <2>1, <2>3
        <3> QED BY <1>1, <1>3, <2>1, <2>3, <3>1
    <2> QED BY <2>2, <2>3
<1>6. u = timers
    BY <1>1, <1>3, <1>5, SeqEqual
<1> QED BY <1>1, <1>4, <1>6 DEF e, rest

(* Nothing happens to the timers. *)
LEMMA SameTimers ==
  ASSUME UNCHANGED <<session, batch, waiting>>
  PROVE  Timers' = Timers /\ Count(AtFreshness)' = Count(AtFreshness)
BY DEF Timers, Count, Of

LEMMA CorruptKeeps ==
  ASSUME SessionInv, leftover # {}, Corrupt
  PROVE  SessionInv'
<1> USE DEF Corrupt, slot, chain, history
<1>1. Timers' = Timers /\ Count(AtFreshness)' = Count(AtFreshness)
    BY SameTimers
<1>2. TypeOK'
    BY DEF SessionInv, TypeOK
<1>3. Slots'
    BY DEF SessionInv, Slots
<1>4. Referred'
    BY <1>1 DEF SessionInv, Referred, CorruptOnlyByLeftover
<1>5. Watched'
    BY <1>1 DEF SessionInv, Watched, Established, InTime, ConsentBound
<1> QED BY <1>2, <1>3, <1>4, <1>5 DEF SessionInv

LEMMA StutterKeeps ==
  ASSUME SessionInv, UNCHANGED vars
  PROVE  SessionInv'
<1> USE DEF vars, slot, chain, history
<1>1. Timers' = Timers /\ Count(AtFreshness)' = Count(AtFreshness)
    BY SameTimers
<1>2. TypeOK'
    BY DEF SessionInv, TypeOK
<1>3. Slots'
    BY DEF SessionInv, Slots
<1>4. Referred'
    BY <1>1 DEF SessionInv, Referred, CorruptOnlyByLeftover
<1>5. Watched'
    BY <1>1 DEF SessionInv, Watched, Established, InTime, ConsentBound
<1> QED BY <1>2, <1>3, <1>4, <1>5 DEF SessionInv

LEMMA NoTimers == Range(<<>>) = {} /\ <<>> \in Seq(Timer) /\ Len(<<>>) = 0
<1>1. <<>> \in Seq(Timer) /\ Len(<<>>) = 0 /\ 1..0 = {}
    BY EmptySeq
<1>2. 1..Len(<<>>) = {}
    BY <1>1
<1>3. Range(<<>>) = {<<>>[i] : i \in 1..Len(<<>>)}
    BY <1>1, RangeEquality
<1> QED BY <1>1, <1>2, <1>3

LEMMA InitKeeps ==
  ASSUME SessionAssumption, Init
  PROVE  SessionInv
<1>1. Range(<<>>) = {} /\ <<>> \in Seq(Timer) /\ <<>> \in Seq(Frame) /\ Len(<<>>) = 0
    BY NoTimers
<1>2. Timers = {}
    BY <1>1 DEF Timers, Init
<1>3. TypeOK
    <2>1. /\ 0 \in 0..(GiveUp - 1) /\ 0 \in 0..Freshness /\ 0 \in 0..(ConsentBound + 1)
          /\ 0 \in 0..MaxSessions /\ 0 \in 0..0
        BY DEF SessionAssumption, ConsentBound
    <2> QED BY <1>1, <2>1 DEF TypeOK, Init, States, Frame
<1>4. Slots
    BY <1>1 DEF Slots, Init
<1>5. Referred
    BY <1>1, <1>2 DEF Referred, CorruptOnlyByLeftover, Init
<1>6. Watched
    BY <1>2 DEF Watched, Established, Init, ConsentBound, SessionAssumption
<1> QED BY <1>3, <1>4, <1>5, <1>6 DEF SessionInv
-----------------------------------------------------------------------------
(* The lists as the invariant has them. *)
LEMMA Lists ==
  ASSUME TypeOK
  PROVE  /\ batch \in Seq(Timer) /\ waiting \in Seq(Timer)
         /\ \A t \in Timers : t \in Timer /\ t.kind \in Kinds /\ t.id \in 1..MaxSessions /\ t.left \in Nat
         /\ \A K : /\ Len(Keep(batch \o waiting, K)) = Len(Keep(batch, K)) + Len(Keep(waiting, K))
                   /\ Len(Keep(batch, K)) \in Nat /\ Len(Keep(waiting, K)) \in Nat
<1>1. batch \in Seq(Timer) /\ waiting \in Seq(Timer)
    BY DEF TypeOK
<1>2. \A t \in Timers : t \in Timer
    BY <1>1, RangeOfSeq DEF Timers
<1>3. \A t \in Timers : t.kind \in Kinds /\ t.id \in 1..MaxSessions /\ t.left \in Nat
    BY <1>2 DEF Timer
<1> QED BY <1>1, <1>2, <1>3, CountOfBoth

LEMMA NoneLeft ==
  ASSUME NEW timers \in Seq(Timer), NEW K, Len(Keep(timers, K)) = 0
  PROVE  \A t \in Range(timers) : t \notin K
<1>1. Keep(timers, K) \in Seq(Timer) /\ Range(Keep(timers, K)) = Range(timers) \intersect K
    BY KeepProperties
<1>2. Keep(timers, K) = <<>>
    BY <1>1, EmptySeq
<1> QED BY <1>1, <1>2, NoTimers

(* A step that concerns other timers than those that watch over consent. *)
Elsewhere == {"heartbeat", "disconnect", "reconfig"}
LEMMA OtherTimer ==
  ASSUME SessionAssumption, session \in 1..MaxSessions, NEW timers \in Seq(Timer),
         NEW kind \in Elsewhere, NEW left \in Nat
  PROVE  /\ With(timers, kind, left) \in Seq(Timer)
         /\ \A t \in Range(With(timers, kind, left)) :
              t \in Range(timers) \/ (t.id = session /\ t.kind \in Elsewhere)
         /\ Len(Keep(With(timers, kind, left), Of(AtFreshness)))
              = Len(Keep(timers, Of(AtFreshness)))
<1> DEFINE e == Alarm(kind, left)
<1>1. kind \in Kinds
    BY DEF Elsewhere, Kinds
<1>2. /\ With(timers, kind, left) \in Seq(Timer)
      /\ Range(With(timers, kind, left)) = Range(timers) \union {e}
      /\ \A K : Len(Keep(With(timers, kind, left), K))
                  = Len(Keep(timers, K)) + (IF e \in K THEN 1 ELSE 0)
    BY <1>1, WithTimer
<1>3. e \notin Of(AtFreshness) /\ e.id = session /\ e.kind \in Elsewhere
    BY DEF Of, AtFreshness, Elsewhere, Alarm
<1>4. Len(Keep(timers, Of(AtFreshness))) \in Nat
    BY CountOfBoth
<1> HIDE DEF e
<1> QED BY <1>2, <1>3, <1>4

LEMMA OtherTimers ==
  ASSUME SessionAssumption, SessionInv,
         UNCHANGED <<session, created, state, ice, run, told, leftover, heap,
                     freshnessAge, consentAge>>,
         \/ stack' = stack
         \/ "channel" \notin Range(stack') /\ \A i \in 1..Len(stack') : stack'[i] # "closing",
         \A t \in Timers' : t \in Timers \/ (session # 0 /\ t.id = session /\ t.kind \in Elsewhere),
         Established => Count(AtFreshness)' = Count(AtFreshness),
         user' \in {user, 0}, binding' \in {binding, binding - 1}
  PROVE  Slots' /\ Referred' /\ Watched'
<1>0. /\ session \in 0..created /\ created \in Nat /\ binding \in Int /\ binding' <= binding
      /\ binding' \in Int
    BY DEF SessionInv, TypeOK, SessionAssumption
<1>1. Slots'
    BY <1>0 DEF SessionInv, Slots
<1>2. Referred'
    <2>1. CorruptOnlyByLeftover'
        BY DEF SessionInv, Referred, CorruptOnlyByLeftover
    <2>2. ASSUME leftover = {}, run # "stopped" PROVE \A t \in Timers' : t.id = session
        BY <2>2 DEF SessionInv, Referred
    <2> QED BY <1>0, <2>1, <2>2 DEF SessionInv, Referred
<1>3. Watched'
    <2>1. \A t \in Timers' : t.id <= created
        BY <1>0 DEF SessionInv, Watched
    <2>2. ASSUME NEW t \in Timers', t.id = session, state = "handshake" PROVE t.kind \notin AtFreshness
        BY <2>2 DEF SessionInv, Watched, AtFreshness, Elsewhere
    <2>3. ASSUME NEW t \in Timers', t.id = session, run = "runs", Established PROVE InTime(t)'
        <3>1. CASE t \in Timers
            BY <2>3, <3>1 DEF SessionInv, Watched, InTime, ConsentBound
        <3>2. CASE t.kind \in Elsewhere
            BY <3>2 DEF Elsewhere, InTime
        <3> QED BY <3>1, <3>2
    <2>4. Established' = Established
        BY DEF Established
    <2>5. Established /\ run = "runs" => Count(AtFreshness)' = 1
        BY DEF SessionInv, Watched
    <2>6. consentAge' <= ConsentBound
        BY DEF SessionInv, Watched
    <2> QED BY <2>1, <2>2, <2>3, <2>4, <2>5, <2>6 DEF Watched, ConsentBound
<1> QED BY <1>1, <1>2, <1>3

LEMMA CheckKeeps ==
  ASSUME SessionAssumption, SessionInv, Check
  PROVE  SessionInv'
<1> DEFINE D == {t \in Range(waiting) : Due(t)}
           N == {t \in Range(waiting) : ~Due(t)}
           W == Of(AtFreshness)
<1>1. batch = <<>> /\ waiting \in Seq(Timer) /\ batch' = Keep(waiting, D) /\ waiting' = Keep(waiting, N)
    BY DEF Check, Idle, SessionInv, TypeOK
<1>d. /\ \A t \in Range(waiting) : (t \in D \/ t \in N) /\ ~(t \in D /\ t \in N)
      /\ D \subseteq Range(waiting) /\ N \subseteq Range(waiting)
    OBVIOUS
<1> HIDE DEF D, N
<1>2. /\ batch' \in Seq(Timer) /\ Range(batch') = Range(waiting) \intersect D
      /\ waiting' \in Seq(Timer) /\ Range(waiting') = Range(waiting) \intersect N
    BY <1>1, KeepProperties
<1>3. Timers' \subseteq Timers
    BY <1>2 DEF Timers
<1>4. TypeOK'
    BY <1>2 DEF Check, SessionInv, TypeOK, slot, history
<1>5. Count(AtFreshness)' = Count(AtFreshness)
    <2>1. Count(AtFreshness)' = Len(Keep(batch' \o waiting', W))
        BY DEF Check, Count, Of, slot
    <2>2. Count(AtFreshness) = Len(Keep(batch, W)) + Len(Keep(waiting, W))
        BY Lists DEF Count, SessionInv
    <2> HIDE DEF W
    <2>3. Len(Keep(batch' \o waiting', W)) = Len(Keep(batch', W)) + Len(Keep(waiting', W))
        BY <1>2, CountOfBoth
    <2>4. Keep(batch', W) = Keep(waiting, D \intersect W) /\ Keep(waiting', W) = Keep(waiting, N \intersect W)
        BY <1>1, KeepTwice
    <2>5. Len(Keep(batch, W)) = 0 /\ Len(Keep(waiting, W)) \in Nat
        <3>1. \A t \in Range(<<>>) : t \notin W
            BY NoTimers
        <3> QED BY <1>1, <3>1, NoTimers, NoneOf, CountOfBoth
    <2> DEFINE DW == D \intersect W
               NW == N \intersect W
    <2>6. Range(waiting) = {waiting[i] : i \in 1..Len(waiting)}
        BY <1>1, RangeEquality
    <2>7. \A i \in 1..Len(waiting) : /\ waiting[i] \in W <=> (waiting[i] \in DW \/ waiting[i] \in NW)
                                     /\ ~(waiting[i] \in DW /\ waiting[i] \in NW)
        BY <1>d, <2>6
    <2> HIDE DEF DW, NW
    <2>8. Len(Keep(waiting, W)) = Len(Keep(waiting, DW)) + Len(Keep(waiting, NW))
        BY <1>1, <2>7, KeepParts
    <2> QED BY <2>1, <2>2, <2>3, <2>4, <2>5, <2>8 DEF DW, NW
<1>6. Slots' /\ Referred' /\ Watched'
    BY <1>3, <1>5, OtherTimers DEF Check, slot, history
<1> QED BY <1>4, <1>6 DEF SessionInv

(* The timer that fires. *)
LEMMA FiredTimer ==
  ASSUME SessionInv, NEW kind \in Kinds, Fired(kind)
  PROVE  /\ session \in 1..MaxSessions /\ session # 0 /\ run = "runs" /\ stack = <<>>
         /\ batch' \in Seq(Timer) /\ Range(batch') \subseteq Range(batch)
         /\ Head(batch) \in Timers /\ Head(batch) \in Timer
         /\ Head(batch).id = session /\ Head(batch).kind = kind
         /\ \A K : Len(Keep(batch, K))
                     = Len(Keep(batch', K)) + (IF Head(batch) \in K THEN 1 ELSE 0)
<1>1. /\ batch \in Seq(Timer) /\ batch # <<>> /\ batch' = Tail(batch)
      /\ run = "runs" /\ stack = <<>> /\ Head(batch).kind = kind /\ Head(batch).id = session
    BY DEF Fired, Firing, SessionInv, TypeOK
<1>2. /\ Head(batch) \in Timer /\ Tail(batch) \in Seq(Timer)
      /\ Range(batch) = Range(Tail(batch)) \union {Head(batch)}
      /\ \A K : Len(Keep(batch, K))
                  = Len(Keep(Tail(batch), K)) + (IF Head(batch) \in K THEN 1 ELSE 0)
    BY <1>1, FirstTimer
<1>3. Head(batch).id \in 1..MaxSessions
    BY <1>2 DEF Timer
<1> QED BY <1>1, <1>2, <1>3 DEF Timers
LEMMA FireDanglingKeeps ==
  ASSUME SessionAssumption, SessionInv, FireDangling
  PROVE  SessionInv'
<1>1. batch \in Seq(Timer) /\ batch # <<>> /\ Head(batch).id # session /\ run # "stopped"
    BY DEF FireDangling, Firing, SessionInv, TypeOK, Running
<1>2. Head(batch) \in Timers
    BY <1>1, FirstTimer DEF Timers
<1>3. leftover # {}
    BY <1>1, <1>2 DEF SessionInv, Referred
<1> QED BY <1>3, CorruptKeeps DEF FireDangling

LEMMA SctpOnTimeoutKeeps ==
  ASSUME SessionAssumption, SessionInv, SctpOnTimeout
  PROVE  SessionInv'
<1> DEFINE W == Of(AtFreshness)
<1>0. "heartbeat" \in Kinds /\ "heartbeat" \in Elsewhere /\ Beat \in Nat /\ TypeOK
    BY DEF Kinds, Elsewhere, SessionAssumption, SessionInv
<1>1. /\ session \in 1..MaxSessions /\ session # 0 /\ run = "runs" /\ stack = <<>>
      /\ batch' \in Seq(Timer) /\ Range(batch') \subseteq Range(batch)
      /\ Head(batch) \in Timers /\ Head(batch).kind = "heartbeat"
      /\ Len(Keep(batch, W)) = Len(Keep(batch', W)) + (IF Head(batch) \in W THEN 1 ELSE 0)
    BY <1>0, FiredTimer DEF SctpOnTimeout
<1>2. Head(batch) \notin W
    BY <1>1 DEF Of, AtFreshness
<1>3. UNCHANGED <<run, user, binding, heap>>
    BY DEF SctpOnTimeout
<1>w. /\ waiting \in Seq(Timer) /\ Len(Keep(batch, W)) \in Nat /\ Len(Keep(waiting, W)) \in Nat
      /\ Count(AtFreshness) = Len(Keep(batch, W)) + Len(Keep(waiting, W))
    BY <1>0, Lists DEF Count
<1>c. ASSUME waiting' \in Seq(Timer), session' = session
      PROVE  /\ Count(AtFreshness)' = Len(Keep(batch', W)) + Len(Keep(waiting', W))
             /\ Len(Keep(batch', W)) \in Nat
    <2>1. Count(AtFreshness)' = Len(Keep(batch' \o waiting', W))
        BY <1>c DEF Count, Of
    <2> HIDE DEF W
    <2> QED BY <1>1, <1>c, <2>1, CountOfBoth
<1>4. CASE UNCHANGED <<slot, stack, waiting, freshnessAge, history>>
    <2>1. \A t \in Timers' : t \in Timers
        BY <1>1, <1>4 DEF Timers
    <2>2. Count(AtFreshness)' = Count(AtFreshness)
        <3>1. session' = session /\ waiting' = waiting
            BY <1>4 DEF slot
        <3> QED BY <1>1, <1>2, <1>w, <1>c, <3>1
    <2>3. TypeOK'
        BY <1>0, <1>1, <1>3, <1>4 DEF TypeOK, slot, history
    <2>4. Slots' /\ Referred' /\ Watched'
        BY <1>3, <1>4, <2>1, <2>2, OtherTimers DEF slot, history
    <2> QED BY <2>3, <2>4 DEF SessionInv
<1>5. CASE /\ Heard(timervalue + 1) /\ timervalue' = timervalue + 1
           /\ waiting' = With(waiting, "heartbeat", Beat)
           /\ UNCHANGED <<session, created, state, ice, role, pendingReconfig, stack,
                          freshnessAge, history>>
    <2>1. /\ waiting' \in Seq(Timer)
          /\ \A t \in Range(waiting') :
               t \in Range(waiting) \/ (t.id = session /\ t.kind \in Elsewhere)
          /\ Len(Keep(waiting', W)) = Len(Keep(waiting, W))
        BY <1>0, <1>1, <1>5, <1>w, OtherTimer
    <2>3. \A t \in Timers' : t \in Timers \/ (session # 0 /\ t.id = session /\ t.kind \in Elsewhere)
        BY <1>1, <2>1 DEF Timers
    <2>4. Count(AtFreshness)' = Count(AtFreshness)
        <3>1. /\ Count(AtFreshness)' = Len(Keep(batch', W)) + Len(Keep(waiting', W))
              /\ Len(Keep(batch', W)) \in Nat
            BY <1>5, <1>c, <2>1
        <3>2. Len(Keep(batch, W)) = Len(Keep(batch', W)) + 0
            BY <1>1, <1>2
        <3> HIDE DEF W
        <3> QED BY <1>w, <2>1, <3>1, <3>2
    <2>5. TypeOK'
        <3>1. timervalue' \in 0..(GiveUp - 1)
            BY <1>0, <1>5 DEF TypeOK, Heard, SessionAssumption
        <3> QED BY <1>0, <1>1, <1>3, <1>5, <2>1, <3>1 DEF TypeOK, history
    <2>6. Slots' /\ Referred' /\ Watched'
        BY <1>3, <1>5, <2>3, <2>4, OtherTimers DEF history
    <2> QED BY <2>5, <2>6 DEF SessionInv
<1>6. CASE Disconnect(<<>>)
    <2> DEFINE timers == Without(waiting, {"heartbeat"})
    <2>1. timers \in Seq(Timer) /\ Range(timers) \subseteq Range(waiting)
        BY <1>w, WithoutTimers
    <2>2. Continue(timers, stack)
        BY <1>1, <1>6 DEF Disconnect
    <2> HIDE DEF timers
    <2> QED BY <1>1, <1>3, <2>1, <2>2, ClosingKeeps
<1> QED BY <1>4, <1>5, <1>6 DEF SctpOnTimeout

LEMMA DisconnectQueuedKeeps ==
  ASSUME SessionAssumption, SessionInv, DisconnectQueued
  PROVE  SessionInv'
<1>1. "disconnect" \in Kinds /\ waiting \in Seq(Timer)
    BY DEF Kinds, SessionInv, TypeOK
<1>2. /\ session # 0 /\ run = "runs" /\ stack = <<>>
      /\ batch' \in Seq(Timer) /\ Range(batch') \subseteq Range(batch)
    BY <1>1, FiredTimer DEF DisconnectQueued
<1>3. Continue(waiting, stack) /\ UNCHANGED <<run, user, binding, heap>>
    BY <1>2 DEF DisconnectQueued
<1> QED BY <1>1, <1>2, <1>3, ClosingKeeps

LEMMA OneFrame ==
  ASSUME NEW frame \in Frame
  PROVE  /\ <<frame>> \in Seq(Frame) /\ Len(<<frame>>) = 1 /\ Range(<<frame>>) = {frame}
         /\ \A i \in 1..Len(<<frame>>) : <<frame>>[i] = frame /\ i = 1
<1> DEFINE one == <<frame>>
<1>1. one \in Seq(Frame) /\ Len(one) = 1 /\ one[1] = frame
    OBVIOUS
<1> HIDE DEF one
<1>2. Range(one) = {one[i] : i \in 1..Len(one)}
    BY <1>1, RangeEquality
<1>3. 1..Len(one) = {1}
    BY <1>1
<1>4. Range(one) = {frame}
    BY <1>1, <1>2, <1>3
<1> QED BY <1>1, <1>3, <1>4 DEF one

LEMMA NoFrames ==
  /\ <<>> \in Seq(Frame) /\ "channel" \notin Range(<<>>)
  /\ \A i \in 1..Len(<<>>) : <<>>[i] # "closing"
<1>1. <<>> \in Seq(Frame) /\ 1..Len(<<>>) = {}
    BY EmptySeq
<1> QED BY <1>1, NoTimers

LEMMA CloseDataChannel_TimeoutKeeps ==
  ASSUME SessionAssumption, SessionInv, CloseDataChannel_Timeout
  PROVE  SessionInv'
<1> DEFINE W == Of(AtFreshness)
<1>0. "reconfig" \in Kinds /\ "reconfig" \in Elsewhere /\ Retry \in Nat /\ TypeOK
    BY DEF Kinds, Elsewhere, SessionAssumption, SessionInv
<1>1. /\ session \in 1..MaxSessions /\ session # 0
      /\ batch' \in Seq(Timer) /\ Range(batch') \subseteq Range(batch)
      /\ Head(batch).kind = "reconfig"
      /\ Len(Keep(batch, W)) = Len(Keep(batch', W)) + (IF Head(batch) \in W THEN 1 ELSE 0)
    BY <1>0, FiredTimer DEF CloseDataChannel_Timeout
<1>2. Head(batch) \notin W
    BY <1>1 DEF Of, AtFreshness
<1>3. UNCHANGED <<session, created, state, ice, role, timervalue, run, user,
                  binding, freshnessAge, history, heap>>
    BY DEF CloseDataChannel_Timeout
<1>5. /\ stack' \in Seq(Frame)
      /\ "channel" \notin Range(stack') /\ \A i \in 1..Len(stack') : stack'[i] # "closing"
    <2>1. stack = <<>> /\ (stack' = stack \/ stack' \in {<<>>, <<"gaveup">>})
        BY DEF CloseDataChannel_Timeout, Fired, Firing
    <2>2. CASE stack' = <<>>
        BY <2>2, NoFrames
    <2>3. CASE stack' = <<"gaveup">>
        <3>1. "gaveup" \in Frame
            BY DEF Frame
        <3> QED BY <2>3, <3>1, OneFrame
    <2> QED BY <2>1, <2>2, <2>3
<1>w. /\ waiting \in Seq(Timer) /\ Len(Keep(batch, W)) \in Nat /\ Len(Keep(waiting, W)) \in Nat
      /\ Count(AtFreshness) = Len(Keep(batch, W)) + Len(Keep(waiting, W))
    BY <1>0, Lists DEF Count
<1>4. /\ waiting' \in Seq(Timer) /\ pendingReconfig' \in BOOLEAN
      /\ \A t \in Range(waiting') :
           t \in Range(waiting) \/ (t.id = session /\ t.kind \in Elsewhere)
      /\ Len(Keep(waiting', W)) = Len(Keep(waiting, W))
    <2> DEFINE after == With(waiting, "reconfig", Retry)
    <2>1. /\ after \in Seq(Timer)
          /\ \A t \in Range(after) :
               t \in Range(waiting) \/ (t.id = session /\ t.kind \in Elsewhere)
          /\ Len(Keep(after, W)) = Len(Keep(waiting, W))
        BY <1>0, <1>1, <1>w, OtherTimer
    <2>2. pendingReconfig \in BOOLEAN
        BY <1>0 DEF TypeOK
    <2>3. /\ waiting' = after \/ waiting' = waiting
          /\ pendingReconfig' = pendingReconfig \/ pendingReconfig' = FALSE
        BY DEF CloseDataChannel_Timeout
    <2> HIDE DEF W, after
    <2> QED BY <1>w, <2>1, <2>2, <2>3
<1>6. \A t \in Timers' : t \in Timers \/ (session # 0 /\ t.id = session /\ t.kind \in Elsewhere)
    BY <1>1, <1>4 DEF Timers
<1>7. Count(AtFreshness)' = Count(AtFreshness)
    <2>1. Count(AtFreshness)' = Len(Keep(batch' \o waiting', W))
        BY <1>3 DEF Count, Of
    <2> HIDE DEF W
    <2>2. /\ Len(Keep(batch' \o waiting', W)) = Len(Keep(batch', W)) + Len(Keep(waiting', W))
          /\ Len(Keep(batch', W)) \in Nat
        BY <1>1, <1>4, CountOfBoth
    <2> QED BY <1>1, <1>2, <1>4, <1>w, <2>1, <2>2
<1>8. TypeOK'
    BY <1>0, <1>1, <1>3, <1>4, <1>5 DEF TypeOK, history, Frame
<1>9. Slots' /\ Referred' /\ Watched'
    BY <1>3, <1>5, <1>6, <1>7, OtherTimers DEF history
<1> QED BY <1>8, <1>9 DEF SessionInv

LEMMA WatchTimer ==
  ASSUME SessionAssumption, session \in 1..MaxSessions, NEW timers \in Seq(Timer),
         NEW kind \in AtFreshness, NEW left \in Nat
  PROVE  /\ With(timers, kind, left) \in Seq(Timer)
         /\ \A t \in Range(With(timers, kind, left)) :
              t \in Range(timers) \/ (t.id = session /\ t.kind = kind /\ t.left = left)
         /\ Len(Keep(With(timers, kind, left), Of(AtFreshness)))
              = Len(Keep(timers, Of(AtFreshness))) + 1
<1> DEFINE e == Alarm(kind, left)
<1>1. kind \in Kinds
    BY DEF Kinds
<1>2. /\ With(timers, kind, left) \in Seq(Timer)
      /\ Range(With(timers, kind, left)) = Range(timers) \union {e}
      /\ \A K : Len(Keep(With(timers, kind, left), K))
                  = Len(Keep(timers, K)) + (IF e \in K THEN 1 ELSE 0)
    BY <1>1, WithTimer
<1>3. e \in Of(AtFreshness) /\ e.id = session /\ e.kind = kind /\ e.left = left
    BY <1>1 DEF Of, Timer, Alarm
<1> HIDE DEF e
<1> QED BY <1>2, <1>3

(* A timer that watches over consent takes the place of the one that fires. *)
LEMMA NextWatch ==
  ASSUME SessionAssumption, SessionInv, NEW kind \in AtFreshness, Fired(kind),
         waiting' = With(waiting, "probe", Probe), session' = session
  PROVE  /\ waiting' \in Seq(Timer) /\ batch' \in Seq(Timer)
         /\ \A t \in Timers' :
              t \in Timers \/ (t.id = session /\ t.kind = "probe" /\ t.left = Probe)
         /\ Established /\ run = "runs" =>
              /\ Count(AtFreshness)' = 1
              /\ \A t \in Timers' : t.id = session /\ t.kind \in AtFreshness =>
                                      t.kind = "probe" /\ t.left = Probe
<1> DEFINE W == Of(AtFreshness)
<1>0. /\ kind \in Kinds /\ "probe" \in Kinds /\ "probe" \in AtFreshness
      /\ Probe \in Nat /\ TypeOK
    BY DEF Kinds, AtFreshness, SessionAssumption, SessionInv
<1>1. /\ session \in 1..MaxSessions
      /\ batch' \in Seq(Timer) /\ Range(batch') \subseteq Range(batch)
      /\ Head(batch) \in Timer /\ Head(batch).id = session /\ Head(batch).kind = kind
      /\ \A K : Len(Keep(batch, K)) = Len(Keep(batch', K)) + (IF Head(batch) \in K THEN 1 ELSE 0)
    BY <1>0, FiredTimer
<1>2. /\ waiting \in Seq(Timer)
      /\ Len(Keep(batch, W)) \in Nat /\ Len(Keep(waiting, W)) \in Nat
      /\ Count(AtFreshness) = Len(Keep(batch, W)) + Len(Keep(waiting, W))
    BY <1>0, Lists DEF Count
<1>3. /\ waiting' \in Seq(Timer)
      /\ \A t \in Range(waiting') :
           t \in Range(waiting) \/ (t.id = session /\ t.kind = "probe" /\ t.left = Probe)
      /\ Len(Keep(waiting', W)) = Len(Keep(waiting, W)) + 1
    BY <1>0, <1>1, <1>2, WatchTimer
<1>5. Head(batch) \in W /\ \A t \in Timer : t.id = session /\ t.kind \in AtFreshness => t \in W
    BY <1>0, <1>1 DEF Of
<1>6. Count(AtFreshness)' = Len(Keep(batch' \o waiting', W))
    BY DEF Count, Of
<1> HIDE DEF W
<1>7. /\ Count(AtFreshness)' = Len(Keep(batch', W)) + Len(Keep(waiting', W))
      /\ Len(Keep(batch', W)) \in Nat
    BY <1>1, <1>3, <1>6, CountOfBoth
<1>8. Len(Keep(batch, W)) = Len(Keep(batch', W)) + 1
    BY <1>1, <1>5
<1>9. \A t \in Timers' : \/ t \in Range(batch') \/ t \in Range(waiting)
                         \/ (t.id = session /\ t.kind = "probe" /\ t.left = Probe)
    BY <1>3 DEF Timers
<1>10. \A t \in Timers' :
         t \in Timers \/ (t.id = session /\ t.kind = "probe" /\ t.left = Probe)
    BY <1>1, <1>9 DEF Timers
<1>11. ASSUME Established, run = "runs"
       PROVE  /\ Count(AtFreshness)' = 1
              /\ \A t \in Timers' : t.id = session /\ t.kind \in AtFreshness =>
                                      t.kind = "probe" /\ t.left = Probe
    <2>1. Count(AtFreshness) = 1
        BY <1>11 DEF SessionInv, Watched
    <2>2. Len(Keep(batch', W)) = 0 /\ Len(Keep(waiting, W)) = 0 /\ Count(AtFreshness)' = 1
        BY <1>2, <1>3, <1>7, <1>8, <2>1
    <2>3. (\A t \in Range(batch') : t \notin W) /\ (\A t \in Range(waiting) : t \notin W)
        BY <1>1, <1>2, <2>2, NoneLeft
    <2>4. \A t \in Range(batch') \union Range(waiting) : t \in Timer
        BY <1>1, <1>2, RangeOfSeq
    <2>5. ASSUME NEW t \in Timers', t.id = session, t.kind \in AtFreshness
          PROVE  t.kind = "probe" /\ t.left = Probe
        BY <1>5, <1>9, <2>3, <2>4, <2>5
    <2> QED BY <2>2, <2>5
<1> QED BY <1>1, <1>3, <1>10, <1>11

(* With such a timer that is in time, the invariant goes on. *)
LEMMA WatchGoesOn ==
  ASSUME SessionAssumption, SessionInv, TypeOK', run = "runs", session # 0,
         UNCHANGED <<session, created, state, ice, run, stack, told, leftover, user,
                     binding, consentAge>>,
         heap' = "corrupt" => heap = "corrupt" \/ ice = "none",
         state # "handshake",
         \A t \in Timers' : t \in Timers \/ t.id = session,
         Established => /\ Count(AtFreshness)' = 1
                        /\ \A t \in Timers' : t.id = session => InTime(t)'
  PROVE  SessionInv'
<1>1. Slots'
    BY DEF SessionInv, Slots
<1>2. Referred'
    <2>1. ASSUME heap' = "corrupt" PROVE leftover # {}
        BY <2>1 DEF SessionInv, Referred, CorruptOnlyByLeftover
    <2>2. ASSUME leftover = {} PROVE \A t \in Timers' : t.id = session
        BY <2>2 DEF SessionInv, Referred
    <2> QED BY <2>1, <2>2 DEF SessionInv, Referred, CorruptOnlyByLeftover
<1>3. Watched'
    <2>1. session <= created /\ \A t \in Timers' : t.id <= created
        <3>1. session <= created
            BY DEF SessionInv, TypeOK, SessionAssumption
        <3> QED BY <3>1 DEF SessionInv, Watched
    <2>2. Established' = Established
        BY DEF Established
    <2>3. consentAge' <= ConsentBound
        BY DEF SessionInv, Watched
    <2> QED BY <2>1, <2>2, <2>3 DEF Watched, ConsentBound
<1> QED BY <1>1, <1>2, <1>3 DEF SessionInv

LEMMA ConsentFreshness_StartKeeps ==
  ASSUME SessionAssumption, SessionInv, ConsentFreshness_Start
  PROVE  SessionInv'
<1>0. /\ "start" \in Kinds /\ "start" \in AtFreshness /\ TypeOK /\ Freshness \in Nat /\ Probe \in Nat
      /\ Freshness > 0
    BY DEF Kinds, AtFreshness, SessionInv, SessionAssumption
<1>1. /\ session \in 1..MaxSessions /\ session # 0 /\ run = "runs" /\ stack = <<>>
      /\ batch' \in Seq(Timer) /\ Range(batch') \subseteq Range(batch)
      /\ Head(batch) \in Timers /\ Head(batch) \in Timer
      /\ Head(batch).id = session /\ Head(batch).kind = "start"
    BY <1>0, FiredTimer DEF ConsentFreshness_Start
<1>2. UNCHANGED <<slot, stack, run, user, binding, history, heap>>
    BY DEF ConsentFreshness_Start
<1>3. CASE ice = "none" /\ UNCHANGED <<waiting, freshnessAge>>
    <2>1. \A t \in Timers' : t \in Timers
        BY <1>1, <1>3 DEF Timers
    <2>2. ~Established
        BY <1>3 DEF Established
    <2>3. TypeOK'
        BY <1>0, <1>1, <1>2, <1>3 DEF TypeOK, slot, history
    <2>4. Slots' /\ Referred' /\ Watched'
        BY <1>2, <1>3, <2>1, <2>2, OtherTimers DEF slot, history
    <2> QED BY <2>3, <2>4 DEF SessionInv
<1>4. CASE freshnessAge' = 0 /\ waiting' = With(waiting, "probe", Probe)
    <2>1. Fired("start") /\ session' = session
        BY <1>2 DEF ConsentFreshness_Start, slot
    <2>2. /\ waiting' \in Seq(Timer)
          /\ \A t \in Timers' :
               t \in Timers \/ (t.id = session /\ t.kind = "probe" /\ t.left = Probe)
          /\ Established /\ run = "runs" =>
               /\ Count(AtFreshness)' = 1
               /\ \A t \in Timers' : t.id = session /\ t.kind \in AtFreshness =>
                                       t.kind = "probe" /\ t.left = Probe
        BY <1>0, <1>4, <2>1, NextWatch
    <2>3. TypeOK'
        <3>1. freshnessAge' \in 0..Freshness
            BY <1>0, <1>4
        <3> QED BY <1>0, <1>1, <1>2, <2>2, <3>1 DEF TypeOK, slot, history
    <2>4. ASSUME Established, NEW t \in Timers', t.id = session PROVE InTime(t)'
        <3>1. InTime(Head(batch)) /\ Head(batch).left \in Nat /\ consentAge \in Int
            BY <1>0, <1>1, <2>4 DEF SessionInv, Watched, TypeOK, ConsentBound, Timer
        <3>2. consentAge <= Freshness
            BY <1>0, <1>1, <3>1 DEF InTime
        <3>3. CASE t.kind \notin AtFreshness
            BY <3>3 DEF InTime, AtFreshness
        <3>4. CASE t.kind \in AtFreshness
            <4>1. t.kind = "probe" /\ t.left = Probe
                BY <1>1, <2>2, <2>4, <3>4
            <4>2. consentAge' = consentAge
                BY <1>2 DEF history
            <4> QED BY <1>0, <1>4, <3>1, <3>2, <4>1, <4>2 DEF InTime
        <3> QED BY <3>3, <3>4
    <2>5. state # "handshake"
        BY <1>0, <1>1 DEF SessionInv, Watched
    <2>6. \A t \in Timers' : t \in Timers \/ t.id = session
        BY <2>2
    <2>7. Established => /\ Count(AtFreshness)' = 1
                         /\ \A t \in Timers' : t.id = session => InTime(t)'
        BY <1>1, <2>2, <2>4
    <2> QED BY <1>1, <1>2, <2>3, <2>5, <2>6, <2>7, WatchGoesOn DEF slot, history
<1> QED BY <1>3, <1>4 DEF ConsentFreshness_Start

LEMMA ConsentFreshness_ContinueKeeps ==
  ASSUME SessionAssumption, SessionInv, ConsentFreshness_Continue
  PROVE  SessionInv'
<1>0. /\ "probe" \in Kinds /\ "probe" \in AtFreshness /\ TypeOK /\ Freshness \in Nat /\ Probe \in Nat
    BY DEF Kinds, AtFreshness, SessionInv, SessionAssumption
<1>1. /\ session \in 1..MaxSessions /\ session # 0 /\ run = "runs" /\ stack = <<>>
      /\ batch' \in Seq(Timer) /\ Range(batch') \subseteq Range(batch)
      /\ Head(batch) \in Timers /\ Head(batch) \in Timer
      /\ Head(batch).id = session /\ Head(batch).kind = "probe"
    BY <1>0, FiredTimer DEF ConsentFreshness_Continue
<1>2. UNCHANGED <<run, user, binding>>
    BY DEF ConsentFreshness_Continue
<1>3. CASE Disconnect(<<>>) /\ UNCHANGED heap
    <2> DEFINE timers == Without(waiting, {"heartbeat"})
    <2>1. timers \in Seq(Timer) /\ Range(timers) \subseteq Range(waiting)
        BY <1>0, WithoutTimers DEF TypeOK
    <2>2. Continue(timers, stack)
        BY <1>1, <1>3 DEF Disconnect
    <2> HIDE DEF timers
    <2> QED BY <1>1, <1>2, <1>3, <2>1, <2>2, ClosingKeeps
<1>4. CASE /\ ~Expired /\ waiting' = With(waiting, "probe", Probe)
           /\ heap' = IF ice = "none" THEN "corrupt" ELSE heap
           /\ UNCHANGED <<slot, stack, freshnessAge, history>>
    <2>1. Fired("probe") /\ session' = session
        BY <1>4 DEF ConsentFreshness_Continue, slot
    <2>2. /\ waiting' \in Seq(Timer)
          /\ \A t \in Timers' :
               t \in Timers \/ (t.id = session /\ t.kind = "probe" /\ t.left = Probe)
          /\ Established /\ run = "runs" =>
               /\ Count(AtFreshness)' = 1
               /\ \A t \in Timers' : t.id = session /\ t.kind \in AtFreshness =>
                                       t.kind = "probe" /\ t.left = Probe
        BY <1>0, <1>4, <2>1, NextWatch
    <2>3. TypeOK'
        <3>1. heap' \in {"ok", "corrupt"}
            BY <1>0, <1>4 DEF TypeOK
        <3> QED BY <1>0, <1>1, <1>2, <1>4, <2>2, <3>1 DEF TypeOK, slot, history
    <2>4. ASSUME Established, NEW t \in Timers', t.id = session PROVE InTime(t)'
        <3>1. /\ InTime(Head(batch)) /\ freshnessAge \in Int /\ consentAge \in Int
              /\ ~(freshnessAge >= Freshness)
            BY <1>0, <1>1, <1>4, <2>4 DEF SessionInv, Watched, TypeOK, ConsentBound, Expired
        <3>2. consentAge <= Freshness + freshnessAge /\ freshnessAge < Freshness
            BY <1>0, <1>1, <3>1 DEF InTime
        <3>3. CASE t.kind \notin AtFreshness
            BY <3>3 DEF InTime, AtFreshness
        <3>4. CASE t.kind \in AtFreshness
            <4>1. t.kind = "probe" /\ t.left = Probe
                BY <1>1, <2>2, <2>4, <3>4
            <4>2. consentAge' = consentAge /\ freshnessAge' = freshnessAge
                BY <1>4 DEF history
            <4> QED BY <1>0, <3>1, <3>2, <4>1, <4>2 DEF InTime
        <3> QED BY <3>3, <3>4
    <2>5. state # "handshake"
        BY <1>0, <1>1 DEF SessionInv, Watched
    <2>6. \A t \in Timers' : t \in Timers \/ t.id = session
        BY <2>2
    <2>7. Established => /\ Count(AtFreshness)' = 1
                         /\ \A t \in Timers' : t.id = session => InTime(t)'
        BY <1>1, <2>2, <2>4
    <2>8. heap' = "corrupt" => heap = "corrupt" \/ ice = "none"
        BY <1>4
    <2> QED BY <1>1, <1>2, <1>4, <2>3, <2>5, <2>6, <2>7, <2>8, WatchGoesOn DEF slot, history
<1> QED BY <1>3, <1>4 DEF ConsentFreshness_Continue
-----------------------------------------------------------------------------
(* The ICE state and the session of the slot. *)
LEMMA OfferKeeps ==
  ASSUME SessionAssumption, SessionInv, Offer
  PROVE  SessionInv'
<1> USE DEF Offer, chain, history
<1>1. Timers' = Timers /\ Count(AtFreshness)' = Count(AtFreshness)
    BY SameTimers
<1>2. TypeOK'
    <2>1. role' \in [initiator: BOOLEAN, turn: BOOLEAN]
        BY DEF SessionAssumption
    <2> QED BY <2>1 DEF SessionInv, TypeOK
<1>3. Slots'
    BY DEF SessionInv, Slots
<1>4. Referred'
    BY <1>1 DEF SessionInv, Referred, CorruptOnlyByLeftover
<1>5. Watched'
    BY <1>1 DEF SessionInv, Watched, Established, InTime, ConsentBound
<1> QED BY <1>2, <1>3, <1>4, <1>5 DEF SessionInv

LEMMA AbandonKeeps ==
  ASSUME SessionAssumption, SessionInv, Abandon
  PROVE  SessionInv'
<1> USE DEF Abandon, chain
<1>1. Timers' = Timers /\ Count(AtFreshness)' = Count(AtFreshness)
    BY SameTimers
<1>2. TypeOK'
    BY DEF SessionInv, TypeOK
<1>3. Slots'
    BY DEF SessionInv, Slots
<1>4. Referred'
    BY <1>1 DEF SessionInv, Referred, CorruptOnlyByLeftover, TypeOK
<1>5. Watched'
    BY <1>1 DEF SessionInv, Watched, Established, InTime, ConsentBound
<1> QED BY <1>2, <1>3, <1>4, <1>5 DEF SessionInv

LEMMA CreateDtlsSessionKeeps ==
  ASSUME SessionAssumption, SessionInv, CreateDtlsSession
  PROVE  SessionInv'
<1> USE DEF CreateDtlsSession, chain
<1>0. /\ TypeOK /\ session = 0 /\ created \in Nat /\ created < MaxSessions /\ created' = created + 1
      /\ session' = created + 1 /\ MaxSessions \in Nat /\ binding \in 0..created /\ user \in 0..created
    BY DEF SessionInv, TypeOK, SessionAssumption
<1>1. Timers' = Timers
    BY DEF Timers
<1>2. TypeOK'
    <2>1. /\ session' \in 0..created' /\ created' \in 0..MaxSessions
          /\ binding' \in 0..created' /\ user' \in 0..created'
        BY <1>0
    <2>2. 0 \in 0..(GiveUp - 1) /\ 0 \in 0..Freshness /\ 0 \in 0..(ConsentBound + 1)
        BY DEF SessionAssumption, ConsentBound
    <2>3. state' \in States
        BY DEF States
    <2> QED BY <1>0, <2>1, <2>2, <2>3 DEF TypeOK, ConsentBound
<1>3. Slots'
    <2>1. Len(stack') = 0
        BY NoTimers DEF Handling, Idle
    <2>2. told' = "nothing" /\ state' = "handshake" /\ session' # 0 /\ binding' < created'
          /\ run' = "runs"
        BY <1>0 DEF Handling, Idle
    <2> QED BY <2>1, <2>2 DEF Slots
<1>a. \A t \in Timers : t.id \in 1..MaxSessions /\ t.id <= created
    BY <1>0, Lists DEF SessionInv, Watched
<1>4. Referred'
    <2>1. CorruptOnlyByLeftover'
        BY DEF SessionInv, Referred, CorruptOnlyByLeftover
    <2>2. ASSUME leftover = {} PROVE Timers = {} /\ ~(binding > 0) /\ user = 0
        <3>1. run # "stopped"
            BY DEF Handling, Idle
        <3>2. \A t \in Timers : t.id = 0
            BY <1>0, <2>2, <3>1 DEF SessionInv, Referred
        <3>3. ~(binding > 0) /\ user = 0
            BY <1>0, <2>2, <3>1 DEF SessionInv, Referred
        <3>4. Timers = {}
            BY <1>a, <3>2
        <3> QED BY <3>3, <3>4
    <2>3. session' # 0
        BY <1>0
    <2> QED BY <1>1, <2>1, <2>2, <2>3 DEF Referred
<1>5. Watched'
    <2>1. \A t \in Timers' : t.id <= created' /\ t.id # session'
        BY <1>0, <1>1, <1>a
    <2>2. ~Established' /\ consentAge' = 0
        BY DEF Established
    <2>3. (consentAge <= ConsentBound)'
        BY <2>2 DEF ConsentBound, SessionAssumption
    <2> QED BY <2>1, <2>2, <2>3 DEF Watched
<1> QED BY <1>2, <1>3, <1>4, <1>5 DEF SessionInv

(* The heartbeat is not of the timers that watch over consent. *)
LEMMA HeartbeatAlarm ==
  ASSUME SessionAssumption, session \in 1..MaxSessions, NEW timers \in Seq(Timer)
  PROVE  /\ HeartbeatStarted(timers) \in Seq(Timer)
         /\ \A t \in Range(HeartbeatStarted(timers)) :
              t \in Range(timers) \/ (t.id = session /\ t.kind \in Elsewhere)
         /\ Len(Keep(HeartbeatStarted(timers), Of(AtFreshness)))
              = Len(Keep(timers, Of(AtFreshness)))
<1>1. "heartbeat" \in Elsewhere /\ Beat \in Nat
    BY DEF Elsewhere, SessionAssumption
<1> DEFINE after == With(timers, "heartbeat", Beat)
<1>2. /\ after \in Seq(Timer)
      /\ \A t \in Range(after) :
           t \in Range(timers) \/ (t.id = session /\ t.kind \in Elsewhere)
      /\ Len(Keep(after, Of(AtFreshness))) = Len(Keep(timers, Of(AtFreshness)))
    BY <1>1, OtherTimer
<1>3. HeartbeatStarted(timers) = timers \/ HeartbeatStarted(timers) = after
    BY DEF HeartbeatStarted
<1> HIDE DEF after
<1> QED BY <1>2, <1>3

LEMMA HandshakeDoneKeeps ==
  ASSUME SessionAssumption, SessionInv, HandshakeDone
  PROVE  SessionInv'
<1> DEFINE W == Of(AtFreshness)
           timers == IF role.turn THEN waiting ELSE HeartbeatStarted(waiting)
<1>0. /\ TypeOK /\ session # 0 /\ session \in 1..MaxSessions /\ state = "handshake" /\ ice = "attached"
      /\ "start" \in AtFreshness /\ Freshness \in Nat /\ batch = <<>> /\ stack = <<>> /\ run = "runs"
    BY DEF HandshakeDone, Handling, Idle, SessionInv, TypeOK, AtFreshness, SessionAssumption
<1>1. /\ timers \in Seq(Timer) /\ Len(Keep(timers, W)) = Len(Keep(waiting, W))
      /\ \A t \in Range(timers) :
           t \in Range(waiting) \/ (t.id = session /\ t.kind \in Elsewhere)
    <2>1. waiting \in Seq(Timer)
        BY <1>0 DEF TypeOK
    <2>2. /\ HeartbeatStarted(waiting) \in Seq(Timer)
          /\ \A t \in Range(HeartbeatStarted(waiting)) :
               t \in Range(waiting) \/ (t.id = session /\ t.kind \in Elsewhere)
          /\ Len(Keep(HeartbeatStarted(waiting), W)) = Len(Keep(waiting, W))
        BY <1>0, <2>1, HeartbeatAlarm
    <2>3. timers = waiting \/ timers = HeartbeatStarted(waiting)
        OBVIOUS
    <2> HIDE DEF timers, W
    <2> QED BY <2>1, <2>2, <2>3
<1>2. waiting' = With(timers, "start", Freshness)
    BY DEF HandshakeDone, ConsentStarted
<1> HIDE DEF timers
<1>3. /\ waiting' \in Seq(Timer)
      /\ \A t \in Range(waiting') :
           t \in Range(timers) \/ (t.id = session /\ t.kind = "start" /\ t.left = Freshness)
      /\ Len(Keep(waiting', W)) = Len(Keep(timers, W)) + 1
    <2> DEFINE after == With(timers, "start", Freshness)
    <2>1. timers \in Seq(Timer)
        BY <1>1
    <2>2. /\ after \in Seq(Timer)
          /\ \A t \in Range(after) :
               t \in Range(timers) \/ (t.id = session /\ t.kind = "start" /\ t.left = Freshness)
          /\ Len(Keep(after, W)) = Len(Keep(timers, W)) + 1
        BY <1>0, <2>1, WatchTimer
    <2>3. waiting' = after
        BY <1>2
    <2> HIDE DEF after, W
    <2> QED BY <2>2, <2>3
<1>4. /\ UNCHANGED <<session, created, ice, role, timervalue, pendingReconfig, chain,
                     user, told, freshnessAge, leftover, heap>>
      /\ state' = "setup" /\ consentAge' = 0
      /\ binding' = binding \/ binding' = binding + 1
    BY DEF HandshakeDone
<1>5. \A t \in Timers' : \/ t \in Timers \/ (t.id = session /\ t.kind \in Elsewhere)
                         \/ (t.id = session /\ t.kind = "start" /\ t.left = Freshness)
    BY <1>0, <1>1, <1>3, <1>4 DEF Timers, chain
<1>6. binding' \in 0..created /\ created \in Nat
    <2>1. binding < created /\ binding \in 0..created /\ created \in Nat
        BY <1>0 DEF SessionInv, Slots, TypeOK, SessionAssumption
    <2> QED BY <1>4, <2>1
<1>7. TypeOK'
    <2>1. 0 \in 0..(ConsentBound + 1) /\ state' \in States
        BY <1>4 DEF SessionAssumption, ConsentBound, States
    <2> QED BY <1>0, <1>3, <1>4, <1>6, <2>1 DEF TypeOK, chain, ConsentBound
<1>8. Slots'
    <2>1. told # "connected"
        BY <1>0 DEF SessionInv, Slots
    <2>2. Len(stack') = 0
        BY <1>0, <1>4, NoTimers DEF chain
    <2> QED BY <1>0, <1>4, <2>1, <2>2 DEF Slots, chain
<1>9. Referred'
    <2>1. CorruptOnlyByLeftover'
        BY <1>4 DEF SessionInv, Referred, CorruptOnlyByLeftover
    <2>2. ASSUME leftover = {} PROVE (\A t \in Timers' : t.id = session) /\ (user # 0 => user = session)
        BY <1>0, <1>5, <2>2 DEF SessionInv, Referred
    <2> QED BY <1>0, <1>4, <2>1, <2>2 DEF Referred, chain
<1>10. Watched'
    <2>1. session <= created /\ \A t \in Timers : t.id <= created
        BY <1>0 DEF SessionInv, Watched, TypeOK, SessionAssumption
    <2>2. \A t \in Timers' : t.id <= created'
        BY <1>4, <1>5, <2>1
    <2>3. \A t \in Timers : t.id = session => t.kind \notin AtFreshness
        BY <1>0 DEF SessionInv, Watched
    <2>4. Count(AtFreshness)' = 1
        <3>1. \A t \in Range(waiting) : t \notin W
            BY <2>3 DEF Of, Timers
        <3>2. Count(AtFreshness)' = Len(Keep(batch' \o waiting', W))
            BY <1>4 DEF Count, Of
        <3>3. waiting \in Seq(Timer) /\ <<>> \in Seq(Timer) /\ batch' = <<>> /\ \A t \in Range(<<>>) : t \notin W
            BY <1>0, <1>4, NoTimers DEF TypeOK, chain
        <3> HIDE DEF W
        <3>4. Len(Keep(waiting, W)) = 0 /\ Len(Keep(<<>>, W)) = 0
            BY <3>1, <3>3, NoneOf
        <3>5. Len(Keep(<<>> \o waiting', W)) = Len(Keep(<<>>, W)) + Len(Keep(waiting', W))
            BY <1>3, <3>3, CountOfBoth
        <3> QED BY <1>1, <1>3, <3>2, <3>3, <3>4, <3>5
    <2>5. ASSUME NEW t \in Timers', t.id = session PROVE InTime(t)'
        <3>1. CASE t.kind \notin AtFreshness
            BY <3>1 DEF InTime, AtFreshness
        <3>2. CASE t.kind \in AtFreshness
            <4>1. t.kind = "start" /\ t.left = Freshness
                BY <1>5, <2>3, <2>5, <3>2 DEF Elsewhere, AtFreshness
            <4> QED BY <1>0, <1>4, <4>1 DEF InTime
        <3> QED BY <3>1, <3>2
    <2>6. (consentAge <= ConsentBound)'
        BY <1>4 DEF ConsentBound, SessionAssumption
    <2> QED BY <1>4, <2>2, <2>4, <2>5, <2>6 DEF Watched
<1> QED BY <1>7, <1>8, <1>9, <1>10 DEF SessionInv

LEMMA ChannelBindingAnsweredKeeps ==
  ASSUME SessionAssumption, SessionInv, ChannelBindingAnswered
  PROVE  SessionInv'
<1> DEFINE W == Of(AtFreshness)
<1>0. TypeOK /\ binding > 0 /\ binding \in 0..created /\ created \in Nat /\ run # "stopped"
      /\ waiting \in Seq(Timer) /\ batch \in Seq(Timer)
    BY DEF ChannelBindingAnswered, Handling, Idle, SessionInv, TypeOK, SessionAssumption
<1>1. CASE (session = 0 \/ ice = "none") /\ Corrupt
    <2>1. leftover # {}
        BY <1>0, <1>1 DEF SessionInv, Referred
    <2> QED BY <1>1, <2>1, CorruptKeeps
<1>2. CASE /\ session # 0 /\ binding' = binding - 1
           /\ waiting' = HeartbeatStarted(waiting)
           /\ UNCHANGED <<slot, chain, user, freshnessAge, history, heap>>
    <2>1. session \in 1..MaxSessions
        BY <1>0, <1>2 DEF TypeOK, SessionAssumption
    <2>2. /\ waiting' \in Seq(Timer)
          /\ \A t \in Range(waiting') :
               t \in Range(waiting) \/ (t.id = session /\ t.kind \in Elsewhere)
          /\ Len(Keep(waiting', W)) = Len(Keep(waiting, W))
        BY <1>0, <1>2, <2>1, HeartbeatAlarm
    <2>3. \A t \in Timers' : t \in Timers \/ (session # 0 /\ t.id = session /\ t.kind \in Elsewhere)
        BY <1>2, <2>2 DEF Timers, chain
    <2>4. Count(AtFreshness)' = Count(AtFreshness)
        <3>1. Count(AtFreshness)' = Len(Keep(batch \o waiting', W))
            BY <1>2 DEF Count, Of, slot, chain
        <3>2. Count(AtFreshness) = Len(Keep(batch \o waiting, W))
            BY DEF Count
        <3> HIDE DEF W
        <3>3. /\ Len(Keep(batch \o waiting', W)) = Len(Keep(batch, W)) + Len(Keep(waiting', W))
              /\ Len(Keep(batch \o waiting, W)) = Len(Keep(batch, W)) + Len(Keep(waiting, W))
            BY <1>0, <2>2, CountOfBoth
        <3> QED BY <2>2, <3>1, <3>2, <3>3
    <2>5. TypeOK'
        BY <1>0, <1>2, <2>2 DEF TypeOK, slot, chain, history
    <2>6. Slots' /\ Referred' /\ Watched'
        BY <1>2, <2>3, <2>4, OtherTimers DEF slot, chain, history
    <2> QED BY <2>5, <2>6 DEF SessionInv
<1>3. CASE /\ binding' = binding - 1
           /\ UNCHANGED <<slot, chain, waiting, user, freshnessAge, history, heap>>
    <2>1. Timers' = Timers /\ Count(AtFreshness)' = Count(AtFreshness)
        BY <1>3, SameTimers DEF slot, chain
    <2>2. TypeOK'
        BY <1>0, <1>3 DEF TypeOK, slot, chain, history
    <2>3. Slots' /\ Referred' /\ Watched'
        BY <1>3, <2>1, OtherTimers DEF slot, chain, history
    <2> QED BY <2>2, <2>3 DEF SessionInv
<1> QED BY <1>1, <1>2, <1>3 DEF ChannelBindingAnswered
LEMMA SctpEstablishedKeeps ==
  ASSUME SessionAssumption, SessionInv, SctpEstablished
  PROVE  SessionInv'
<1> USE DEF SctpEstablished
<1>0. "connected" \in Frame /\ "connected" \in States /\ run = "runs" /\ session # 0
    BY DEF Frame, States, Handling, Idle, Established
<1>1. Timers' = Timers /\ Count(AtFreshness)' = Count(AtFreshness)
    BY SameTimers
<1>2. /\ stack' \in Seq(Frame) /\ Range(stack') = {"connected"} /\ Len(stack') = 1
      /\ \A i \in 1..Len(stack') : stack'[i] = "connected"
    BY <1>0, OneFrame
<1>3. TypeOK'
    BY <1>0, <1>2 DEF SessionInv, TypeOK, Frame
<1>4. Slots'
    BY <1>0, <1>2 DEF Slots
<1>5. Referred'
    BY <1>0, <1>1, <1>2 DEF SessionInv, Referred, CorruptOnlyByLeftover
<1>6. Watched'
    <2>1. Established' /\ Established
        BY DEF Established
    <2> QED BY <1>1, <2>1 DEF SessionInv, Watched, InTime, ConsentBound
<1> QED BY <1>3, <1>4, <1>5, <1>6 DEF SessionInv

LEMMA DataKeeps ==
  ASSUME SessionAssumption, SessionInv, Data
  PROVE  SessionInv'
<1> USE DEF Data, history
<1>0. "data" \in Frame /\ "channel" \in Frame /\ run = "runs" /\ session # 0
    BY DEF Frame, Handling, Idle, Established
<1>1. Timers' = Timers /\ Count(AtFreshness)' = Count(AtFreshness)
    BY SameTimers
<1>2. /\ stack' \in Seq(Frame) /\ Len(stack') = 1
      /\ \A i \in 1..Len(stack') : stack'[i] # "closing"
    BY <1>0, OneFrame
<1>3. TypeOK'
    <2>1. 0 \in 0..(GiveUp - 1)
        BY DEF SessionAssumption
    <2> QED BY <1>0, <1>2, <2>1 DEF SessionInv, TypeOK, Frame
<1>4. Slots'
    BY <1>0, <1>2 DEF SessionInv, Slots
<1>5. Referred'
    BY <1>0, <1>1, <1>2 DEF SessionInv, Referred, CorruptOnlyByLeftover
<1>6. Watched'
    BY <1>1 DEF SessionInv, Watched, Established, InTime, ConsentBound
<1> QED BY <1>3, <1>4, <1>5, <1>6 DEF SessionInv

LEMMA HeartbeatKeeps ==
  ASSUME SessionAssumption, SessionInv, Heartbeat
  PROVE  SessionInv'
<1> USE DEF Heartbeat, chain, history
<1>1. Timers' = Timers /\ Count(AtFreshness)' = Count(AtFreshness)
    BY SameTimers
<1>2. TypeOK'
    <2>1. 0 \in 0..(GiveUp - 1)
        BY DEF SessionAssumption
    <2> QED BY <2>1 DEF SessionInv, TypeOK
<1>3. binding' \in {binding, binding - 1} /\ \A t \in Timers' : t \in Timers
    BY <1>1
<1>4. Slots' /\ Referred' /\ Watched'
    BY <1>1, <1>3, OtherTimers
<1> QED BY <1>2, <1>4 DEF SessionInv

LEMMA DisconnectKeeps ==
  ASSUME SessionAssumption, SessionInv, run # "stopped", session # 0,
         run' \in {run, "stopping"}, UNCHANGED <<user, binding, heap, batch>>,
         Disconnect(stack)
  PROVE  SessionInv'
<1> DEFINE timers == Without(waiting, {"heartbeat"})
<1>1. waiting \in Seq(Timer) /\ batch \in Seq(Timer)
    BY DEF SessionInv, TypeOK
<1>2. timers \in Seq(Timer) /\ Range(timers) \subseteq Range(waiting)
    BY <1>1, WithoutTimers
<1>3. Continue(timers, stack)
    BY DEF Disconnect
<1> HIDE DEF timers
<1> QED BY <1>1, <1>2, <1>3, ClosingKeeps

LEMMA PeerClosesKeeps ==
  ASSUME SessionAssumption, SessionInv, PeerCloses
  PROVE  SessionInv'
<1>1. stack = <<>> /\ run = "runs" /\ session # 0 /\ UNCHANGED <<batch, run, user, binding, heap>>
    BY DEF PeerCloses, Handling, Idle, Established
<1>2. Disconnect(stack)
    BY <1>1 DEF PeerCloses
<1> QED BY <1>1, <1>2, DisconnectKeeps

LEMMA CloseInCallbackKeeps ==
  ASSUME SessionAssumption, SessionInv, CloseInCallback
  PROVE  SessionInv'
<1>1. run # "stopped" /\ session # 0 /\ UNCHANGED <<batch, run, user, binding, heap>>
    BY DEF CloseInCallback, Running
<1>2. Disconnect(stack)
    BY DEF CloseInCallback
<1> QED BY <1>1, <1>2, DisconnectKeeps

LEMMA DestroyKeeps ==
  ASSUME SessionAssumption, SessionInv, Destroy
  PROVE  SessionInv'
<1>1. /\ stack = <<>> /\ run = "runs" /\ run' = "stopping"
      /\ UNCHANGED <<batch, user, binding, heap>>
    BY DEF Destroy, Handling, Idle
<1>2. CASE session # 0 /\ Disconnect(<<>>)
    <2>1. Disconnect(stack)
        BY <1>1, <1>2
    <2> QED BY <1>1, <1>2, <2>1, DisconnectKeeps
<1>3. CASE session = 0 /\ UNCHANGED <<slot, stack, waiting, freshnessAge, history>>
    <2> USE DEF slot, history
    <2>1. Timers' = Timers
        BY <1>1, <1>3 DEF Timers
    <2>2. TypeOK'
        BY <1>1, <1>3 DEF SessionInv, TypeOK
    <2>3. Slots'
        BY <1>1, <1>3 DEF SessionInv, Slots
    <2>4. Referred'
        BY <1>1, <1>3, <2>1 DEF SessionInv, Referred, CorruptOnlyByLeftover
    <2>5. Watched'
        BY <1>1, <1>3, <2>1 DEF SessionInv, Watched, ConsentBound, Established
    <2> QED BY <2>2, <2>3, <2>4, <2>5 DEF SessionInv
<1> QED BY <1>2, <1>3 DEF Destroy

LEMMA DestroyedKeeps ==
  ASSUME SessionAssumption, SessionInv, Destroyed
  PROVE  SessionInv'
<1> USE DEF Destroyed, history
<1>1. waiting' \in Seq(Timer) /\ Range(waiting') = {}
    BY NoTimers
<1>2. \A t \in Timers' : t \in Timers
    BY <1>1 DEF Timers
<1>3. TypeOK'
    BY <1>1 DEF SessionInv, TypeOK, SessionAssumption
<1>4. Slots'
    BY DEF SessionInv, Slots
<1>5. Referred'
    BY DEF SessionInv, Referred, CorruptOnlyByLeftover
<1>6. Watched'
    <2>1. \A t \in Timers : t.id # 0
        BY Lists DEF SessionInv
    <2>2. ~Established' /\ (consentAge <= ConsentBound)'
        BY DEF SessionInv, Watched, ConsentBound, Established
    <2>3. (\A t \in Timers' : t.id <= created) /\ \A t \in Timers' : t.id # session'
        BY <1>2, <2>1 DEF SessionInv, Watched
    <2> QED BY <2>2, <2>3 DEF Watched
<1> QED BY <1>3, <1>4, <1>5, <1>6 DEF SessionInv

ConsentGiven ==
  /\ Handling /\ session # 0 /\ state \in {"setup", "connected"} /\ ice = "attached"
  /\ waiting' = With(RemoveFreshness(waiting), "start", Freshness)
  /\ consentAge' = 0
  /\ UNCHANGED <<slot, chain, user, binding, freshnessAge, told, leftover, heap>>

LEMMA ConsentGivenKeeps ==
  ASSUME SessionAssumption, SessionInv, ConsentGiven
  PROVE  SessionInv'
<1> DEFINE W == Of(AtFreshness)
           timers == Without(waiting, AtFreshness)
<1>0. /\ TypeOK /\ session # 0 /\ session \in 1..MaxSessions /\ session <= created
      /\ state \in {"setup", "connected"}
      /\ "start" \in AtFreshness /\ Freshness \in Nat /\ batch = <<>> /\ run = "runs"
      /\ waiting \in Seq(Timer)
    BY DEF ConsentGiven, Handling, Idle, Established, SessionInv, TypeOK, AtFreshness, SessionAssumption
<1>1. /\ timers \in Seq(Timer)
      /\ \A t \in Range(timers) : t \in Range(waiting) /\ (t.id = session => t.kind \notin AtFreshness)
    <2>1. waiting \in Seq(Timer)
        BY <1>0
    <2>2. /\ timers \in Seq(Timer)
          /\ Range(timers) = {t \in Range(waiting) : t.id # session \/ t.kind \notin AtFreshness}
        BY <2>1, WithoutTimers
    <2> HIDE DEF timers
    <2> QED BY <2>2
<1>2. waiting' = With(timers, "start", Freshness)
    BY DEF ConsentGiven, RemoveFreshness
<1>3. /\ UNCHANGED <<slot, chain, user, binding, freshnessAge, told, leftover, heap>>
      /\ consentAge' = 0
    BY DEF ConsentGiven
<1>4. \A t \in Range(timers) : t \notin W
    BY <1>1 DEF Of
<1>5. Count(AtFreshness)' = Len(Keep(batch' \o waiting', W))
    BY <1>3 DEF Count, Of, slot
<1>6. /\ waiting' \in Seq(Timer)
      /\ \A t \in Range(waiting') :
           t \in Range(timers) \/ (t.id = session /\ t.kind = "start" /\ t.left = Freshness)
      /\ Len(Keep(waiting', W)) = Len(Keep(timers, W)) + 1
    <2> DEFINE after == With(timers, "start", Freshness)
    <2>1. timers \in Seq(Timer)
        BY <1>1
    <2> HIDE DEF timers
    <2>2. /\ after \in Seq(Timer)
          /\ \A t \in Range(after) :
               t \in Range(timers) \/ (t.id = session /\ t.kind = "start" /\ t.left = Freshness)
          /\ Len(Keep(after, W)) = Len(Keep(timers, W)) + 1
        BY <1>0, <2>1, WatchTimer
    <2>3. waiting' = after
        BY <1>2
    <2> HIDE DEF after, W
    <2> QED BY <2>2, <2>3
<1> HIDE DEF W, timers
<1>7. \A t \in Timers' : \/ t \in Timers /\ (t.id = session => t.kind \notin AtFreshness)
                         \/ (t.id = session /\ t.kind = "start" /\ t.left = Freshness)
    <2>1. Range(batch') = {}
        BY <1>0, <1>3, NoTimers DEF chain
    <2> QED BY <1>1, <1>6, <2>1 DEF Timers
<1>8. Count(AtFreshness)' = 1
    <2>1. batch' = <<>> /\ <<>> \in Seq(Timer) /\ \A t \in Range(<<>>) : t \notin W
        BY <1>0, <1>3, NoTimers DEF chain
    <2>2. Len(Keep(timers, W)) = 0 /\ Len(Keep(<<>>, W)) = 0
        BY <1>1, <1>4, <2>1, NoneOf
    <2>3. Len(Keep(<<>> \o waiting', W)) = Len(Keep(<<>>, W)) + Len(Keep(waiting', W))
        BY <1>6, <2>1, CountOfBoth
    <2> QED BY <1>5, <1>6, <2>1, <2>2, <2>3
<1>9. TypeOK'
    <2>1. 0 \in 0..(ConsentBound + 1)
        BY DEF SessionAssumption, ConsentBound
    <2> QED BY <1>0, <1>3, <1>6, <2>1 DEF TypeOK, slot, chain, ConsentBound
<1>10. Slots'
    BY <1>3 DEF SessionInv, Slots, slot, chain
<1>11. Referred'
    <2>1. CorruptOnlyByLeftover'
        BY <1>3 DEF SessionInv, Referred, CorruptOnlyByLeftover
    <2>2. ASSUME leftover = {} PROVE \A t \in Timers' : t.id = session
        BY <1>0, <1>7, <2>2 DEF SessionInv, Referred
    <2> QED BY <1>0, <1>3, <2>1, <2>2 DEF SessionInv, Referred, slot, chain
<1>12. Watched'
    <2>1. \A t \in Timers' : t.id <= created
        BY <1>0, <1>7 DEF SessionInv, Watched
    <2>2. ASSUME NEW t \in Timers', t.id = session PROVE InTime(t)'
        <3>1. CASE t.kind \notin AtFreshness
            BY <3>1 DEF InTime, AtFreshness
        <3>2. CASE t.kind = "start" /\ t.left = Freshness
            BY <1>0, <1>3, <3>2 DEF InTime
        <3> QED BY <1>7, <2>2, <3>1, <3>2
    <2>3. (consentAge <= ConsentBound)'
        BY <1>3 DEF ConsentBound, SessionAssumption
    <2>4. state' # "handshake" /\ created' = created /\ session' = session
        BY <1>0, <1>3 DEF slot
    <2> QED BY <1>8, <2>1, <2>2, <2>3, <2>4 DEF Watched
<1> QED BY <1>9, <1>10, <1>11, <1>12 DEF SessionInv

LEMMA ConsentKeeps ==
  ASSUME SessionAssumption, SessionInv, Consent
  PROVE  SessionInv'
<1>a. CASE ice = "none" /\ Corrupt
    <2>1. session # 0 /\ run # "stopped"
        BY DEF Consent, Handling, Idle
    <2>2. leftover # {}
        BY <1>a, <2>1 DEF SessionInv, Referred
    <2> QED BY <1>a, <2>2, CorruptKeeps
<1>b. CASE ConsentGiven
    BY <1>b, ConsentGivenKeeps
<1> QED BY <1>a, <1>b DEF Consent, ConsentGiven
-----------------------------------------------------------------------------
(* What the application does. *)
LEMMA CloseChannelKeeps ==
  ASSUME SessionAssumption, SessionInv, CloseChannel
  PROVE  SessionInv'
<1> DEFINE W == Of(AtFreshness)
<1>0. /\ TypeOK /\ "reconfig" \in Elsewhere /\ Retry \in Nat /\ session # 0
      /\ session \in 1..MaxSessions /\ waiting \in Seq(Timer) /\ batch \in Seq(Timer)
    BY DEF CloseChannel, SessionInv, TypeOK, Elsewhere, SessionAssumption
<1>1. /\ UNCHANGED <<session, created, state, ice, role, timervalue, chain, user, binding,
                     freshnessAge, history, heap>>
      /\ pendingReconfig' = TRUE /\ waiting' = With(waiting, "reconfig", Retry)
    BY DEF CloseChannel
<1>2. /\ waiting' \in Seq(Timer)
      /\ \A t \in Range(waiting') :
           t \in Range(waiting) \/ (t.id = session /\ t.kind \in Elsewhere)
      /\ Len(Keep(waiting', W)) = Len(Keep(waiting, W))
    BY <1>0, <1>1, OtherTimer
<1>3. \A t \in Timers' : t \in Timers \/ (session # 0 /\ t.id = session /\ t.kind \in Elsewhere)
    BY <1>0, <1>1, <1>2 DEF Timers, chain
<1>4. Count(AtFreshness)' = Count(AtFreshness)
    <2>1. Count(AtFreshness)' = Len(Keep(batch \o waiting', W))
        BY <1>1 DEF Count, Of, chain
    <2>2. Count(AtFreshness) = Len(Keep(batch \o waiting, W))
        BY DEF Count
    <2> HIDE DEF W
    <2>3. /\ Len(Keep(batch \o waiting', W)) = Len(Keep(batch, W)) + Len(Keep(waiting', W))
          /\ Len(Keep(batch \o waiting, W)) = Len(Keep(batch, W)) + Len(Keep(waiting, W))
        BY <1>0, <1>2, CountOfBoth
    <2> QED BY <1>2, <2>1, <2>2, <2>3
<1>5. TypeOK'
    BY <1>0, <1>1, <1>2 DEF TypeOK, chain, history
<1>6. Slots' /\ Referred' /\ Watched'
    BY <1>1, <1>3, <1>4, OtherTimers DEF chain, history
<1> QED BY <1>5, <1>6 DEF SessionInv

LEMMA CallbackReturnsKeeps ==
  ASSUME SessionAssumption, SessionInv, CallbackReturns
  PROVE  SessionInv'
<1>0. /\ TypeOK /\ stack \in Seq(Frame) /\ stack # <<>> /\ run # "stopped" /\ run \in {"runs", "stopping"}
      /\ UNCHANGED <<batch, run, user, binding>>
      /\ batch \in Seq(Timer) /\ waiting \in Seq(Timer)
    BY DEF CallbackReturns, Running, SessionInv, TypeOK, Frame
<1>1. /\ Head(stack) = stack[1] /\ Tail(stack) \in Seq(Frame)
      /\ Len(stack) \in Nat /\ Len(stack) >= 1 /\ Len(Tail(stack)) = Len(stack) - 1
      /\ \A i \in 1..Len(Tail(stack)) : Tail(stack)[i] = stack[i + 1]
      /\ Range(stack) = Range(Tail(stack)) \union {Head(stack)}
    BY <1>0, HeadTailRange
<1>2. 1 \in 1..Len(stack) /\ \A i \in 1..Len(Tail(stack)) : i + 1 \in 1..Len(stack) /\ i + 1 # 1
    BY <1>1
<1>3. CASE Head(stack) = "closing" /\ Finish(waiting, Tail(stack)) /\ UNCHANGED heap
    <2>1. \A i \in 1..Len(Tail(stack)) : Tail(stack)[i] # "closing"
        BY <1>1, <1>2, <1>3 DEF SessionInv, Slots
    <2> QED BY <1>0, <1>1, <1>3, <2>1, Finishing
<1>4. ASSUME stack' = Tail(stack), heap' = "corrupt" => heap = "corrupt" \/ leftover # {},
             heap' \in {"ok", "corrupt"},
             UNCHANGED <<slot, waiting, freshnessAge, history>>
      PROVE  SessionInv'
    <2> USE DEF slot, history
    <2>1. Timers' = Timers /\ Count(AtFreshness)' = Count(AtFreshness)
        BY <1>0, <1>4, SameTimers
    <2>2. TypeOK'
        BY <1>0, <1>1, <1>4 DEF TypeOK, Frame
    <2>3. Slots'
        <3>1. \A i, j \in 1..Len(Tail(stack)) :
                Tail(stack)[i] = "closing" /\ Tail(stack)[j] = "closing" => i = j
            <4>1. \A i, j \in 1..Len(Tail(stack)) :
                    stack[i + 1] = "closing" /\ stack[j + 1] = "closing" => i + 1 = j + 1
                BY <1>2 DEF SessionInv, Slots
            <4>2. \A i, j \in 1..Len(Tail(stack)) : i + 1 = j + 1 => i = j
                BY <1>1
            <4> QED BY <1>1, <4>1, <4>2
        <3>2. \A i \in 1..Len(Tail(stack)) : Tail(stack)[i] = "closing" => state = "disconnecting"
            BY <1>1, <1>2 DEF SessionInv, Slots
        <3> QED BY <1>0, <1>4, <3>1, <3>2 DEF SessionInv, Slots
    <2>4. Referred'
        BY <1>0, <1>1, <1>4, <2>1 DEF SessionInv, Referred, CorruptOnlyByLeftover
    <2>5. Watched'
        BY <1>0, <1>4, <2>1 DEF SessionInv, Watched, Established, InTime, ConsentBound
    <2> QED BY <2>2, <2>3, <2>4, <2>5 DEF SessionInv
<1>5. CASE /\ Head(stack) \in {"connected", "data"} /\ stack' = Tail(stack)
           /\ heap' = IF session = 0 /\ ~Gone THEN "corrupt" ELSE heap
           /\ UNCHANGED <<slot, waiting, freshnessAge, history>>
    <2>1. heap' = heap /\ heap \in {"ok", "corrupt"}
        BY <1>0, <1>5 DEF Gone, TypeOK
    <2> QED BY <1>4, <1>5, <2>1
<1>6. CASE /\ Head(stack) = "channel" /\ stack' = Tail(stack)
           /\ heap' = IF session = 0 THEN "corrupt" ELSE heap
           /\ UNCHANGED <<slot, waiting, freshnessAge, history>>
    <2>1. heap' \in {"ok", "corrupt"}
        BY <1>0, <1>6 DEF TypeOK
    <2>2. session = 0 => leftover # {}
        BY <1>0, <1>1, <1>6 DEF SessionInv, Referred
    <2>3. heap' = "corrupt" => heap = "corrupt" \/ leftover # {}
        BY <1>6, <2>2
    <2> QED BY <1>4, <1>6, <2>1, <2>3
<1>7. CASE /\ Head(stack) = "gaveup" /\ stack' = Tail(stack)
           /\ UNCHANGED <<slot, waiting, freshnessAge, history, heap>>
    <2>1. heap' = heap /\ heap \in {"ok", "corrupt"}
        BY <1>0, <1>7 DEF TypeOK
    <2> QED BY <1>4, <1>7, <2>1
<1> QED BY <1>3, <1>5, <1>6, <1>7 DEF CallbackReturns

LEMMA UserCallsKeeps ==
  ASSUME SessionAssumption, SessionInv, UserCalls
  PROVE  SessionInv'
<1> USE DEF UserCalls, slot, chain, history
<1>1. Timers' = Timers /\ Count(AtFreshness)' = Count(AtFreshness)
    BY SameTimers
<1>2. TypeOK'
    BY DEF SessionInv, TypeOK
<1>3. Slots'
    BY DEF SessionInv, Slots
<1>4. Referred'
    BY <1>1 DEF SessionInv, Referred, CorruptOnlyByLeftover
<1>5. Watched'
    BY <1>1 DEF SessionInv, Watched, Established, InTime, ConsentBound
<1> QED BY <1>2, <1>3, <1>4, <1>5 DEF SessionInv

LEMMA UserRunsKeeps ==
  ASSUME SessionAssumption, SessionInv, UserRuns
  PROVE  SessionInv'
<1> DEFINE W == Of(AtFreshness)
           timers == Without(waiting, {"heartbeat"})
<1>0. /\ TypeOK /\ user # 0 /\ run # "stopped" /\ user \in 0..created /\ created \in 0..MaxSessions
      /\ "disconnect" \in Elsewhere /\ waiting \in Seq(Timer) /\ batch \in Seq(Timer)
    BY DEF UserRuns, Running, SessionInv, TypeOK, Elsewhere, SessionAssumption
<1>1. CASE user # session /\ Corrupt
    <2>1. leftover # {}
        BY <1>0, <1>1 DEF SessionInv, Referred
    <2> QED BY <1>1, <2>1, CorruptKeeps
<1>2. CASE /\ user = session /\ user' = 0
           /\ waiting' = With(timers, "disconnect", 0)
           /\ UNCHANGED <<slot, chain, binding, freshnessAge, history, heap>>
    <2>1. session \in 1..MaxSessions /\ session # 0
        BY <1>0, <1>2 DEF SessionAssumption
    <2>2. /\ timers \in Seq(Timer) /\ Range(timers) \subseteq Range(waiting)
          /\ timers = Keep(waiting, {t \in Range(waiting) : t.id # session \/ t.kind \notin {"heartbeat"}})
        BY <1>0, WithoutTimers
    <2>3. Len(Keep(timers, W)) = Len(Keep(waiting, W))
        <3> DEFINE J == {t \in Range(waiting) : t.id # session \/ t.kind \notin {"heartbeat"}}
        <3>1. \A t \in Range(waiting) : t \in W => t \in J
            BY DEF Of, AtFreshness
        <3> HIDE DEF J, W, timers
        <3>2. Len(Keep(Keep(waiting, J), W)) = Len(Keep(waiting, W))
            BY <1>0, <3>1, OthersGone
        <3> QED BY <2>2, <3>2 DEF J
    <2> HIDE DEF timers
    <2>4. /\ waiting' \in Seq(Timer)
          /\ \A t \in Range(waiting') :
               t \in Range(timers) \/ (t.id = session /\ t.kind \in Elsewhere)
          /\ Len(Keep(waiting', W)) = Len(Keep(timers, W))
        <3>1. timers \in Seq(Timer) /\ "disconnect" \in Elsewhere /\ 0 \in Nat
            BY <1>0, <2>2
        <3> QED BY <1>2, <2>1, <3>1, OtherTimer
    <2>5. \A t \in Timers' : t \in Timers \/ (session # 0 /\ t.id = session /\ t.kind \in Elsewhere)
        BY <1>2, <2>1, <2>2, <2>4 DEF Timers, chain
    <2>6. Count(AtFreshness)' = Count(AtFreshness)
        <3>1. Count(AtFreshness)' = Len(Keep(batch \o waiting', W))
            BY <1>2 DEF Count, Of, slot, chain
        <3>2. Count(AtFreshness) = Len(Keep(batch \o waiting, W))
            BY DEF Count
        <3> HIDE DEF W
        <3>3. /\ Len(Keep(batch \o waiting', W)) = Len(Keep(batch, W)) + Len(Keep(waiting', W))
              /\ Len(Keep(batch \o waiting, W)) = Len(Keep(batch, W)) + Len(Keep(waiting, W))
            BY <1>0, <2>4, CountOfBoth
        <3> QED BY <2>3, <2>4, <3>1, <3>2, <3>3
    <2>7. TypeOK'
        BY <1>0, <1>2, <2>4 DEF TypeOK, slot, chain, history
    <2>8. Slots' /\ Referred' /\ Watched'
        BY <1>2, <2>5, <2>6, OtherTimers DEF slot, chain, history
    <2> QED BY <2>7, <2>8 DEF SessionInv
<1>3. CASE /\ user' = 0
           /\ UNCHANGED <<slot, chain, waiting, binding, freshnessAge, history, heap>>
    <2>1. Timers' = Timers /\ Count(AtFreshness)' = Count(AtFreshness)
        BY <1>3, SameTimers DEF slot, chain
    <2>2. TypeOK'
        BY <1>0, <1>3 DEF TypeOK, slot, chain, history
    <2>3. Slots' /\ Referred' /\ Watched'
        BY <1>3, <2>1, OtherTimers DEF slot, chain, history
    <2> QED BY <2>2, <2>3 DEF SessionInv
<1> QED BY <1>1, <1>2, <1>3 DEF UserRuns
-----------------------------------------------------------------------------
(* Time passes. *)
LEMMA ClockTimers ==
  ASSUME SessionInv, Clock
  PROVE  /\ batch = <<>> /\ batch' = <<>> /\ waiting' \in Seq(Timer) /\ Len(waiting') = Len(waiting)
         /\ \A i \in 1..Len(waiting) :
              /\ waiting[i] \in Timers /\ waiting[i] \in Timer /\ waiting[i].left >= 1
              /\ waiting'[i] \in Timer
              /\ waiting'[i].id = waiting[i].id /\ waiting'[i].kind = waiting[i].kind
              /\ waiting'[i].left = waiting[i].left - 1
         /\ \A t \in Timers' : \E u \in Timers :
              /\ t.id = u.id /\ t.kind = u.kind /\ t.left = u.left - 1
              /\ u.left \in Nat /\ u.left >= 1
<1>0. /\ batch = <<>> /\ batch' = <<>> /\ waiting \in Seq(Timer) /\ Len(waiting) \in Nat
      /\ \A t \in Range(waiting) : t.left # 0
    BY LenProperties DEF Clock, Handling, Idle, Due, SessionInv, TypeOK, chain
<1>1. waiting' = [i \in DOMAIN waiting |-> [waiting[i] EXCEPT !.left = waiting[i].left - 1]]
    BY DEF Clock
<1>2. DOMAIN waiting = 1..Len(waiting)
    BY <1>0, LenProperties
<1>3. Range(waiting) = {waiting[i] : i \in 1..Len(waiting)}
    BY <1>0, RangeEquality
<1>4. \A i \in 1..Len(waiting) :
        /\ waiting[i] \in Timers /\ waiting[i] \in Timer /\ waiting[i].left >= 1
        /\ waiting'[i] \in Timer
        /\ waiting'[i].id = waiting[i].id /\ waiting'[i].kind = waiting[i].kind
        /\ waiting'[i].left = waiting[i].left - 1
    <2> TAKE i \in 1..Len(waiting)
    <2>1. waiting[i] \in Timer /\ waiting[i].left # 0 /\ waiting[i] \in Timers
        BY <1>0, <1>3, ElementOfSeq DEF Timers
    <2>2. waiting'[i] = [waiting[i] EXCEPT !.left = waiting[i].left - 1]
        BY <1>1, <1>2
    <2>3. waiting[i].left \in Nat /\ waiting[i].left - 1 \in Nat
        BY <2>1 DEF Timer
    <2> QED BY <2>1, <2>2, <2>3 DEF Timer
<1>5. waiting' \in Seq(Timer) /\ Len(waiting') = Len(waiting)
    <2>1. DOMAIN waiting' = 1..Len(waiting)
        BY <1>1, <1>2
    <2>2. \A i \in 1..Len(waiting) : waiting'[i] \in Timer
        BY <1>4
    <2>3. waiting' = [i \in 1..Len(waiting) |-> waiting'[i]]
        BY <1>1, <1>2, <2>1
    <2>4. waiting' \in [1..Len(waiting) -> Timer]
        BY <2>2, <2>3
    <2> QED BY <1>0, <2>4, SeqDef, LenProperties
<1>6. ASSUME NEW t \in Timers'
      PROVE  \E u \in Timers : /\ t.id = u.id /\ t.kind = u.kind /\ t.left = u.left - 1
                               /\ u.left \in Nat /\ u.left >= 1
    <2>1. Range(waiting') = {waiting'[i] : i \in 1..Len(waiting')} /\ Range(batch') = {}
        BY <1>0, <1>5, RangeEquality, NoTimers
    <2>2. PICK i \in 1..Len(waiting) : t = waiting'[i]
        BY <1>5, <2>1 DEF Timers
    <2>3. waiting[i].left \in Nat
        BY <1>4 DEF Timer
    <2> QED BY <1>4, <2>2, <2>3
<1> QED BY <1>0, <1>4, <1>5, <1>6

LEMMA ClockKeeps ==
  ASSUME SessionAssumption, SessionInv, Clock
  PROVE  SessionInv'
<1> DEFINE W == Of(AtFreshness)
<1>0. /\ TypeOK /\ run = "runs" /\ Freshness \in Nat /\ Probe \in Nat /\ Freshness > 0
      /\ freshnessAge \in Nat /\ freshnessAge <= Freshness /\ consentAge \in Nat
      /\ consentAge <= ConsentBound /\ ConsentBound = Freshness + Freshness + Probe
      /\ waiting \in Seq(Timer)
    <2>1. /\ TypeOK /\ run = "runs" /\ Freshness \in Nat /\ Probe \in Nat /\ Freshness # 0
          /\ consentAge <= ConsentBound /\ ConsentBound = Freshness + Freshness + Probe
        BY DEF Clock, Handling, Idle, SessionInv, Watched, SessionAssumption, ConsentBound
    <2>2. /\ freshnessAge \in 0..Freshness /\ consentAge \in 0..(ConsentBound + 1)
          /\ waiting \in Seq(Timer)
        BY <2>1 DEF TypeOK
    <2> QED BY <2>1, <2>2
<1>1. /\ batch = <<>> /\ batch' = <<>> /\ waiting' \in Seq(Timer) /\ Len(waiting') = Len(waiting)
      /\ \A i \in 1..Len(waiting) :
           /\ waiting[i] \in Timer /\ waiting'[i] \in Timer
           /\ waiting'[i].id = waiting[i].id /\ waiting'[i].kind = waiting[i].kind
    BY ClockTimers
<1>2. \A t \in Timers' : \E u \in Timers :
        /\ t.id = u.id /\ t.kind = u.kind /\ t.left = u.left - 1
        /\ u.left \in Nat /\ u.left >= 1
    BY ClockTimers
<1>3. /\ UNCHANGED <<slot, chain, user, binding, told, leftover, heap>>
      /\ freshnessAge' = IF freshnessAge < Freshness THEN freshnessAge + 1 ELSE freshnessAge
      /\ consentAge' = IF Established THEN consentAge + 1 ELSE 0
    BY <1>0 DEF Clock, Older, ConsentBound
<1>4. Count(AtFreshness)' = Count(AtFreshness)
    <2>1. Count(AtFreshness)' = Len(Keep(batch \o waiting', W))
        BY <1>3 DEF Count, Of, slot, chain
    <2>2. Count(AtFreshness) = Len(Keep(batch \o waiting, W))
        BY DEF Count
    <2>3. \A i \in 1..Len(waiting) : waiting[i] \in W <=> waiting'[i] \in W
        BY <1>1 DEF Of
    <2> HIDE DEF W
    <2>4. batch \in Seq(Timer)
        BY <1>0 DEF TypeOK
    <2>5. Len(Keep(waiting, W)) = Len(Keep(waiting', W))
        BY <1>0, <1>1, <2>3, KeepSame
    <2>6. /\ Len(Keep(batch \o waiting', W)) = Len(Keep(batch, W)) + Len(Keep(waiting', W))
          /\ Len(Keep(batch \o waiting, W)) = Len(Keep(batch, W)) + Len(Keep(waiting, W))
        BY <1>0, <1>1, <2>4, CountOfBoth
    <2> QED BY <2>1, <2>2, <2>5, <2>6
<1>5. ASSUME Established PROVE consentAge + 1 <= ConsentBound
    <2>1. Count(AtFreshness) = 1 /\ \A t \in Timers : t.id = session => InTime(t)
        BY <1>0, <1>5 DEF SessionInv, Watched
    <2>2. \E u \in Range(waiting) : u \in W
        <3> SUFFICES ASSUME \A u \in Range(waiting) : u \notin W PROVE FALSE
            OBVIOUS
        <3>1. \A u \in Range(<<>>) : u \notin W
            BY NoTimers
        <3>2. Count(AtFreshness) = Len(Keep(batch, W)) + Len(Keep(waiting, W))
            BY <1>0, Lists DEF Count
        <3> HIDE DEF W
        <3>3. Len(Keep(waiting, W)) = 0 /\ Len(Keep(<<>>, W)) = 0
            BY <1>0, <3>1, NoneOf, NoTimers
        <3> QED BY <1>1, <2>1, <3>2, <3>3
    <2>3. PICK u \in Range(waiting) : u \in W
        BY <2>2
    <2>4. u \in Timers /\ u.id = session /\ u.kind \in AtFreshness /\ InTime(u)
        BY <2>1, <2>3 DEF Of, Timers
    <2>5. u.left \in Nat /\ u.left >= 1
        <3>1. Range(waiting) = {waiting[i] : i \in 1..Len(waiting)}
            BY <1>0, RangeEquality
        <3>2. \A i \in 1..Len(waiting) : waiting[i].left >= 1 /\ waiting[i] \in Timer
            BY ClockTimers
        <3> QED BY <2>3, <3>1, <3>2 DEF Timer
    <2>6. CASE u.kind = "start"
        BY <1>0, <2>4, <2>5, <2>6 DEF InTime
    <2>7. CASE u.kind = "probe"
        BY <1>0, <2>4, <2>5, <2>7 DEF InTime
    <2> QED BY <2>4, <2>6, <2>7 DEF AtFreshness
<1>6. consentAge' \in Nat /\ consentAge' <= ConsentBound
    BY <1>0, <1>3, <1>5
<1>7. TypeOK'
    <2>1. freshnessAge' \in 0..Freshness /\ consentAge' \in 0..(ConsentBound + 1)
        BY <1>0, <1>3, <1>6
    <2>2. batch' \in Seq(Timer)
        BY <1>1, NoTimers
    <2> QED BY <1>0, <1>1, <1>3, <2>1, <2>2 DEF TypeOK, slot, chain, ConsentBound
<1>8. Slots'
    BY <1>3 DEF SessionInv, Slots, slot, chain
<1>9. Referred'
    <2>1. CorruptOnlyByLeftover'
        BY <1>3 DEF SessionInv, Referred, CorruptOnlyByLeftover
    <2>2. ASSUME leftover = {} PROVE \A t \in Timers' : t.id = session
        <3>1. \A t \in Timers : t.id = session
            BY <1>0, <2>2 DEF SessionInv, Referred
        <3> QED BY <1>2, <3>1
    <2> QED BY <1>0, <1>3, <2>1, <2>2 DEF SessionInv, Referred, slot, chain
<1>10. Watched'
    <2>1. \A t \in Timers' : t.id <= created
        BY <1>2 DEF SessionInv, Watched
    <2>2. state = "handshake" => \A t \in Timers' : t.id = session => t.kind \notin AtFreshness
        BY <1>2 DEF SessionInv, Watched
    <2>3. ASSUME Established, NEW t \in Timers', t.id = session PROVE InTime(t)'
        <3>1. PICK u \in Timers : /\ t.id = u.id /\ t.kind = u.kind /\ t.left = u.left - 1
                                  /\ u.left \in Nat /\ u.left >= 1
            BY <1>2
        <3>2. InTime(u) /\ consentAge' = consentAge + 1
            BY <1>0, <1>3, <2>3, <3>1 DEF SessionInv, Watched
        <3>3. t.kind = "start" => consentAge' + t.left <= Freshness
            BY <1>0, <3>1, <3>2 DEF InTime
        <3>4. ASSUME t.kind = "probe"
              PROVE  /\ t.left <= Probe
                     /\ freshnessAge' < Freshness => consentAge' <= Freshness + freshnessAge'
                     /\ ~(freshnessAge' < Freshness) => consentAge' + t.left <= ConsentBound
            <4>1. /\ u.left <= Probe
                  /\ freshnessAge < Freshness => consentAge <= Freshness + freshnessAge
                  /\ ~(freshnessAge < Freshness) => consentAge + u.left <= ConsentBound
                BY <3>1, <3>2, <3>4 DEF InTime
            <4>2. CASE freshnessAge < Freshness
                BY <1>0, <1>3, <3>1, <3>2, <4>1, <4>2
            <4>3. CASE ~(freshnessAge < Freshness)
                BY <1>0, <1>3, <3>1, <3>2, <4>1, <4>3
            <4> QED BY <4>2, <4>3
        <3> QED BY <3>3, <3>4 DEF InTime, ConsentBound
    <2>4. Established' = Established
        BY <1>3 DEF Established, slot
    <2>5. Established /\ run = "runs" => Count(AtFreshness)' = 1
        BY <1>4 DEF SessionInv, Watched
    <2> QED BY <1>3, <1>6, <2>1, <2>2, <2>3, <2>4, <2>5 DEF Watched, slot, chain, ConsentBound
<1> QED BY <1>7, <1>8, <1>9, <1>10 DEF SessionInv

-----------------------------------------------------------------------------
(* The inductive invariant. *)
LEMMA StepKeeps ==
  ASSUME SessionAssumption, SessionInv, [Next]_vars
  PROVE  SessionInv'
<1>1. CASE ChainStep
    <2>1. CASE FireTimer
        BY <2>1, FireDanglingKeeps, SctpOnTimeoutKeeps, ConsentFreshness_StartKeeps,
           ConsentFreshness_ContinueKeeps, DisconnectQueuedKeeps, CloseDataChannel_TimeoutKeeps
           DEF FireTimer
    <2> QED BY <1>1, <2>1, CheckKeeps, CallbackReturnsKeeps, ClockKeeps DEF ChainStep
<1>2. CASE Packet
    BY <1>2, HandshakeDoneKeeps, ChannelBindingAnsweredKeeps, SctpEstablishedKeeps, DataKeeps,
       HeartbeatKeeps, PeerClosesKeeps, ConsentKeeps DEF Packet
<1>3. CASE Offer \/ Abandon \/ CreateDtlsSession
    BY <1>3, OfferKeeps, AbandonKeeps, CreateDtlsSessionKeeps
<1>4. CASE CloseChannel \/ CloseInCallback \/ UserCalls \/ UserRuns
    BY <1>4, CloseChannelKeeps, CloseInCallbackKeeps, UserCallsKeeps, UserRunsKeeps
<1>5. CASE Destroy \/ Destroyed
    BY <1>5, DestroyKeeps, DestroyedKeeps
<1>6. CASE UNCHANGED vars
    BY <1>6, StutterKeeps
<1> QED BY <1>1, <1>2, <1>3, <1>4, <1>5, <1>6 DEF Next

LEMMA SessionInvariant == Spec => []SessionInv
<1>1. Init => SessionInv
    BY SessionAssumption, InitKeeps
<1>2. SessionInv /\ [Next]_vars => SessionInv'
    BY SessionAssumption, StepKeeps
<1> QED BY <1>1, <1>2, PTL DEF Spec

(* The variables keep the shape of struct ILibStun_dTlsSession, and the    *)
(* channel bindings that are outstanding are no more than the sessions.    *)
THEOREM TypeTheorem == Spec => []TypeOK
<1>1. SessionInv => TypeOK
    BY DEF SessionInv
<1> QED BY <1>1, SessionInvariant, PTL

(* Freed memory is used only through what the teardown of the session left *)
(* behind (ILibStun_SctpDisconnect_Final).                                 *)
THEOREM LeftoverTheorem == Spec => []CorruptOnlyByLeftover
<1>1. SessionInv => CorruptOnlyByLeftover
    BY DEF SessionInv, Referred
<1> QED BY <1>1, SessionInvariant, PTL

(* One timer watches over consent, and the peer that does not consent is   *)
(* cut off in time, whatever the lengths of the timers                     *)
(* (ILibStun_WebRTC_ConsentFreshness_Start, _Continue).                    *)
THEOREM ConsentTheorem == Spec => []ConsentLost
<1>1. SessionInv => ConsentLost
    BY DEF SessionInv, Watched, ConsentLost
<1> QED BY <1>1, SessionInvariant, PTL
-----------------------------------------------------------------------------
(* The end that is told. *)
Told ==
  /\ session' # session => told # "connected"
  /\ Len(stack') > Len(stack) /\ Head(stack') = "closing" => told = "connected"

LEMMA ClosingTold ==
  ASSUME SessionAssumption, SessionInv, session # 0, NEW timers \in Seq(Timer),
         Continue(timers, stack)
  PROVE  Told
<1>0. TypeOK /\ stack \in Seq(Frame) /\ Len(stack) \in Nat /\ (told = "connected" <=> state = "connected")
    BY LenProperties DEF SessionInv, TypeOK, Slots, Frame
<1>1. \/ state = "connected" /\ session' = session
      \/ state = "setup" /\ Finish(timers, stack)
      \/ stack' = stack /\ session' = session
    BY <1>0, Closing
<1>2. Finish(timers, stack) => stack' = stack
    BY DEF Finish
<1>3. ~(Len(stack) > Len(stack))
    BY <1>0
<1> QED BY <1>0, <1>1, <1>2, <1>3 DEF Told

LEMMA UntouchedTold ==
  ASSUME SessionInv, session' = session, stack' = stack
  PROVE  Told
<1>1. Len(stack) \in Nat
    BY LenProperties DEF SessionInv, TypeOK
<1> QED BY <1>1 DEF Told

LEMMA FireTold ==
  ASSUME SessionAssumption, SessionInv, FireTimer
  PROVE  Told
<1> USE DEF slot, chain
<1>0. TypeOK /\ waiting \in Seq(Timer)
    BY DEF SessionInv, TypeOK
<1>d. Without(waiting, {"heartbeat"}) \in Seq(Timer)
    BY <1>0, WithoutTimers
<1>f. ASSUME NEW kind \in Kinds, Fired(kind) PROVE session # 0 /\ stack = <<>>
    BY <1>f, FiredTimer
<1>1. CASE FireDangling
    BY <1>1, UntouchedTold DEF FireDangling, Corrupt
<1>2. CASE SctpOnTimeout
    <2>1. session # 0 /\ stack = <<>>
        BY <1>2, <1>f DEF SctpOnTimeout, Kinds
    <2>2. CASE Disconnect(<<>>)
        BY <1>d, <2>1, <2>2, ClosingTold DEF Disconnect
    <2>3. CASE session' = session /\ stack' = stack
        BY <2>3, UntouchedTold
    <2> QED BY <1>2, <2>2, <2>3 DEF SctpOnTimeout
<1>3. CASE ConsentFreshness_Start
    BY <1>3, UntouchedTold DEF ConsentFreshness_Start
<1>4. CASE ConsentFreshness_Continue
    <2>1. session # 0 /\ stack = <<>>
        BY <1>4, <1>f DEF ConsentFreshness_Continue, Kinds, AtFreshness
    <2>2. CASE Disconnect(<<>>)
        BY <1>d, <2>1, <2>2, ClosingTold DEF Disconnect
    <2>3. CASE session' = session /\ stack' = stack
        BY <2>3, UntouchedTold
    <2> QED BY <1>4, <2>2, <2>3 DEF ConsentFreshness_Continue
<1>5. CASE DisconnectQueued
    <2>1. session # 0 /\ stack = <<>>
        BY <1>5, <1>f DEF DisconnectQueued, Kinds
    <2> QED BY <1>0, <1>5, <2>1, ClosingTold DEF DisconnectQueued
<1>6. CASE CloseDataChannel_Timeout
    <2>1. CASE stack' = stack
        BY <1>6, <2>1, UntouchedTold DEF CloseDataChannel_Timeout
    <2>2. CASE stack' = <<>>
        <3>1. stack = <<>>
            BY <1>6 DEF CloseDataChannel_Timeout, Fired, Firing
        <3> QED BY <1>6, <2>2, <3>1, UntouchedTold DEF CloseDataChannel_Timeout
    <2>3. CASE stack' = <<"gaveup">>
        <3>1. Head(stack') # "closing"
            BY <2>3
        <3> QED BY <1>6, <3>1 DEF CloseDataChannel_Timeout, Told
    <2> QED BY <1>6, <2>1, <2>2, <2>3 DEF CloseDataChannel_Timeout
<1> QED BY <1>1, <1>2, <1>3, <1>4, <1>5, <1>6 DEF FireTimer

LEMMA CallbackTold ==
  ASSUME SessionAssumption, SessionInv, CallbackReturns
  PROVE  Told
<1>0. stack \in Seq(Frame) /\ stack # <<>>
    BY DEF CallbackReturns, SessionInv, TypeOK, Frame
<1>1. /\ Head(stack) = stack[1] /\ Len(stack) \in Nat /\ Len(stack) >= 1
      /\ Len(Tail(stack)) = Len(stack) - 1
    BY <1>0, HeadTailRange
<1>2. stack' = Tail(stack)
    BY DEF CallbackReturns, Finish
<1>3. ~(Len(stack') > Len(stack))
    BY <1>1, <1>2
<1>4. Head(stack) = "closing" => told # "connected"
    <2>1. 1 \in 1..Len(stack)
        BY <1>1
    <2> QED BY <1>1, <2>1 DEF SessionInv, Slots
<1>5. Head(stack) # "closing" => session' = session
    BY DEF CallbackReturns, slot
<1> QED BY <1>3, <1>4, <1>5 DEF Told

LEMMA StepTold ==
  ASSUME SessionAssumption, SessionInv, [Next]_vars
  PROVE  Told
<1> USE DEF slot, chain
<1>0. /\ TypeOK /\ waiting \in Seq(Timer) /\ Len(stack) \in Nat
      /\ (told = "connected" <=> state = "connected")
    BY LenProperties DEF SessionInv, TypeOK, Slots
<1>d. Without(waiting, {"heartbeat"}) \in Seq(Timer)
    BY <1>0, WithoutTimers
<1>1. CASE ChainStep
    <2>1. CASE Check \/ Clock
        BY <2>1, UntouchedTold DEF Check, Clock
    <2> QED BY <1>1, <2>1, FireTold, CallbackTold DEF ChainStep
<1>2. CASE Packet
    <2>1. CASE HandshakeDone \/ ChannelBindingAnswered \/ Heartbeat \/ Consent
        BY <2>1, UntouchedTold
           DEF HandshakeDone, ChannelBindingAnswered, Heartbeat, Consent, Corrupt
    <2>2. CASE SctpEstablished \/ Data
        <3>1. session' = session /\ Head(stack') # "closing"
            BY <2>2 DEF SctpEstablished, Data
        <3> QED BY <3>1 DEF Told
    <2>3. CASE PeerCloses
        <3>1. session # 0 /\ stack = <<>> /\ Continue(Without(waiting, {"heartbeat"}), stack)
            BY <2>3 DEF PeerCloses, Handling, Idle, Established, Disconnect
        <3> QED BY <1>d, <3>1, ClosingTold
    <2> QED BY <1>2, <2>1, <2>2, <2>3 DEF Packet
<1>3. CASE Offer \/ Abandon \/ CloseChannel \/ UserCalls \/ UserRuns \/ UNCHANGED vars
    BY <1>3, UntouchedTold DEF Offer, Abandon, CloseChannel, UserCalls, UserRuns, Corrupt, vars
<1>4. CASE CreateDtlsSession
    <2>1. stack' = stack /\ session = 0 /\ run = "runs"
        BY <1>4 DEF CreateDtlsSession, Handling, Idle
    <2>2. told # "connected"
        BY <2>1 DEF SessionInv, Slots
    <2> QED BY <1>0, <2>1, <2>2 DEF Told
<1>5. CASE CloseInCallback
    <2>1. session # 0 /\ Continue(Without(waiting, {"heartbeat"}), stack)
        BY <1>5 DEF CloseInCallback, Disconnect
    <2> QED BY <1>d, <2>1, ClosingTold
<1>6. CASE Destroy
    <2>1. CASE session # 0 /\ Disconnect(<<>>)
        <3>1. Continue(Without(waiting, {"heartbeat"}), stack)
            BY <1>6, <2>1 DEF Destroy, Handling, Idle, Disconnect
        <3> QED BY <1>d, <2>1, <3>1, ClosingTold
    <2>2. CASE session' = session /\ stack' = stack
        BY <2>2, UntouchedTold
    <2> QED BY <1>6, <2>1, <2>2 DEF Destroy
<1>7. CASE Destroyed
    <2>1. told # "connected" /\ stack' = stack
        BY <1>7 DEF Destroyed, SessionInv, Slots
    <2> QED BY <1>0, <2>1 DEF Told
<1> QED BY <1>1, <1>2, <1>3, <1>4, <1>5, <1>6, <1>7 DEF Next

(* The application that was told of a connection is told of its end before *)
(* the session goes, and only once (ILibStun_SctpDisconnect_Continue).     *)
THEOREM EndTheorem == Spec => EndIsTold
<1>1. SessionInv /\ [Next]_vars => Told
    BY SessionAssumption, StepTold
<1>2. [][Told]_vars => EndIsTold
    BY DEF EndIsTold, Told
<1>3. SessionInv /\ [Next]_vars => [Told]_vars
    BY <1>1
<1> QED BY <1>2, <1>3, SessionInvariant, PTL DEF Spec
=============================================================================
