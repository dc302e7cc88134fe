---------------------------- MODULE LifeTimeProofs ----------------------------
(***************************************************************************)
(* Proofs about LifeTime for any number of timers, any delays and waits,   *)
(* and with or without other threads that add and remove timers.           *)
(***************************************************************************)
EXTENDS LifeTime, DataLemmas

(* No timer is twice in a list. *)
Distinct(queue) == \A i, j \in 1..Len(queue) : queue[i].id = queue[j].id => i = j

(* Where the timers are, and what the trigger knows of those that wait.    *)
(* While a batch fires with the trigger unknown, the chain was woken for   *)
(* the timers added since.                                                 *)
Placed ==
  /\ Distinct(ObjectList) /\ Distinct(EventQueue)
  /\ Ids(ObjectList) \intersect Ids(EventQueue) = {}
  /\ Ids(ObjectList) \union Ids(EventQueue) \union fired \union destroyed = 1..added
  /\ (Ids(ObjectList) \union Ids(EventQueue)) \intersect (fired \union destroyed) = {}
  /\ fired \intersect destroyed = {}
  /\ at \notin {"fire", "callback"} => EventQueue = <<>>
  /\ at = "stopped" => ObjectList = <<>>

Triggered ==
  /\ TriggerCovers
  /\ at = "scan" => NextTriggerTick = -1
  /\ at \in {"fire", "callback"} /\ NextTriggerTick = -1 /\ ObjectList # <<>> => unblocked

-----------------------------------------------------------------------------
LEMMA IdsTyped ==
  ASSUME NEW queue \in Seq(Timer)
  PROVE  /\ Ids(queue) \subseteq 1..MaxAdds
         /\ Ids(queue) = {queue[i].id : i \in 1..Len(queue)}
         /\ \A e \in Range(queue) : e \in Timer /\ e.id \in 1..MaxAdds /\ e.expires \in Nat
<1>1. Range(queue) = {queue[i] : i \in 1..Len(queue)} /\ Range(queue) \subseteq Timer
    BY RangeEquality, RangeOfSeq
<1>2. \A e \in Range(queue) : e \in Timer /\ e.id \in 1..MaxAdds /\ e.expires \in Nat
    BY <1>1 DEF Timer
<1> QED BY <1>1, <1>2 DEF Ids

LEMMA IdsEmpty == Ids(<<>>) = {} /\ Distinct(<<>>)
<1>1. Len(<<>>) = 0 /\ 1..0 = {} /\ <<>> \in Seq(Timer)
    BY EmptySeq
<1>2. 1..Len(<<>>) = {}
    BY <1>1
<1>3. Range(<<>>) = {}
    BY <1>1, <1>2, RangeEquality
<1>4. Ids(<<>>) = {}
    BY <1>3, Zenon DEF Ids
<1>5. Distinct(<<>>)
    BY <1>2, Zenon DEF Distinct
<1> QED BY <1>4, <1>5

(* A timer is told by its number. *)
LEMMA IdsTell ==
  ASSUME NEW queue \in Seq(Timer), Distinct(queue),
         NEW d \in Range(queue), NEW e \in Range(queue), d.id = e.id
  PROVE  d = e
<1>1. Range(queue) = {queue[i] : i \in 1..Len(queue)}
    BY RangeEquality
<1> QED BY <1>1 DEF Distinct

LEMMA KeepIds ==
  ASSUME NEW queue \in Seq(Timer), NEW K
  PROVE  /\ Keep(queue, K) \in Seq(Timer)
         /\ Range(Keep(queue, K)) = Range(queue) \intersect K
         /\ Ids(Keep(queue, K)) = {e.id : e \in Range(queue) \intersect K}
         /\ Distinct(queue) => Distinct(Keep(queue, K))
<1> DEFINE kept == Keep(queue, K)
<1>1. /\ kept \in Seq(Timer) /\ Range(kept) = Range(queue) \intersect K
      /\ \A i, j \in 1..Len(kept) :
           i < j => \E k, l \in 1..Len(queue) : k < l /\ kept[i] = queue[k] /\ kept[j] = queue[l]
    BY KeepProperties
<1>2. Len(kept) \in Nat /\ Len(queue) \in Nat
    BY <1>1, LenProperties
<1> HIDE DEF kept
<1>3. ASSUME Distinct(queue) PROVE Distinct(kept)
    <2>1. ASSUME NEW i \in 1..Len(kept), NEW j \in 1..Len(kept), i < j
          PROVE  kept[i].id # kept[j].id
        <3>1. PICK k \in 1..Len(queue), l \in 1..Len(queue) :
                k < l /\ kept[i] = queue[k] /\ kept[j] = queue[l]
            BY <1>1, <2>1
        <3>2. k # l
            BY <3>1
        <3> QED BY <1>3, <3>1, <3>2 DEF Distinct
    <2>2. \A i, j \in 1..Len(kept) : i < j \/ j < i \/ i = j
        BY <1>2
    <2> QED BY <2>1, <2>2 DEF Distinct
<1>4. Ids(kept) = {e.id : e \in Range(queue) \intersect K}
    BY <1>1 DEF Ids
<1> QED BY <1>1, <1>3, <1>4 DEF kept

LEMMA PlaceExists ==
  ASSUME TypeOK, NEW expires \in Nat
  PROVE  Place(expires) \in 1..(Len(ObjectList) + 1)
<1> DEFINE later == {i \in 1..(Len(ObjectList) + 1) :
                       i <= Len(ObjectList) => expires <= ObjectList[i].expires}
<1>1. ObjectList \in Seq(Timer) /\ Len(ObjectList) \in Nat
    BY LenProperties DEF TypeOK
<1>2. Len(ObjectList) + 1 \in later /\ later \subseteq Nat
    BY <1>1
<1>3. PICK i \in later : \A k \in later : i <= k
    BY <1>2, LeastElement
<1>4. i \in 1..(Len(ObjectList) + 1) /\ (i <= Len(ObjectList) => expires <= ObjectList[i].expires)
    OBVIOUS
<1>5. ASSUME NEW j \in 1..(i - 1) PROVE ObjectList[j].expires < expires
    <2>1. j \in 1..Len(ObjectList) /\ j \in 1..(Len(ObjectList) + 1) /\ ~(i <= j)
        BY <1>1, <1>4
    <2>2. ~(expires <= ObjectList[j].expires)
        BY <1>3, <2>1
    <2>3. ObjectList[j].expires \in Nat
        <3>1. ObjectList[j] \in Timer
            BY <1>1, <2>1, ElementOfSeq
        <3> QED BY <3>1 DEF Timer
    <2> QED BY <2>2, <2>3
<1> QED BY <1>4, <1>5 DEF Place

(* The list with a new timer in its place. *)
LEMMA InsertIds ==
  ASSUME TypeOK, Placed, NEW timer \in Timer, timer.id = added + 1,
         NEW place \in 1..(Len(ObjectList) + 1)
  PROVE  LET more == InsertAt(ObjectList, place, timer) IN
         /\ more \in Seq(Timer) /\ Distinct(more)
         /\ Range(more) = Range(ObjectList) \union {timer}
         /\ Ids(more) = Ids(ObjectList) \union {added + 1}
<1> DEFINE more == InsertAt(ObjectList, place, timer)
<1>1. ObjectList \in Seq(Timer) /\ Len(ObjectList) \in Nat /\ added \in Nat
    BY LenProperties DEF TypeOK
<1>2. /\ more \in Seq(Timer) /\ Len(more) = Len(ObjectList) + 1
      /\ \A j \in 1..(Len(ObjectList) + 1) :
           more[j] = IF j < place THEN ObjectList[j]
                     ELSE IF j = place THEN timer ELSE ObjectList[j - 1]
      /\ Range(more) = Range(ObjectList) \union {timer}
    BY <1>1, InsertAtProperties
<1> HIDE DEF more
<1>3. Ids(more) = Ids(ObjectList) \union {added + 1}
    BY <1>2 DEF Ids
<1>4. \A i \in 1..Len(ObjectList) : ObjectList[i].id # added + 1
    <2>1. \A i \in 1..Len(ObjectList) : ObjectList[i].id \in Ids(ObjectList)
        BY <1>1, IdsTyped
    <2>2. Ids(ObjectList) \subseteq 1..added
        BY DEF Placed
    <2> QED BY <1>1, <2>1, <2>2
<1>5. ASSUME NEW i \in 1..Len(more), NEW j \in 1..Len(more), i < j
      PROVE  more[i].id # more[j].id
    <2>1. i \in Nat /\ j \in Nat /\ place \in Nat /\ 1 <= i /\ j <= Len(ObjectList) + 1
        BY <1>1, <1>2, <1>5
    <2>2. CASE i < place /\ j < place
        <3>1. i \in 1..Len(ObjectList) /\ j \in 1..Len(ObjectList) /\ i # j
              /\ more[i] = ObjectList[i] /\ more[j] = ObjectList[j]
            BY <1>1, <1>2, <1>5, <2>1, <2>2
        <3> QED BY <3>1 DEF Placed, Distinct
    <2>3. CASE i < place /\ j = place
        <3>1. i \in 1..Len(ObjectList) /\ more[i] = ObjectList[i] /\ more[j] = timer
            BY <1>1, <1>2, <1>5, <2>1, <2>3
        <3> QED BY <1>4, <3>1
    <2>4. CASE i < place /\ j > place
        <3>1. i \in 1..Len(ObjectList) /\ j - 1 \in 1..Len(ObjectList) /\ i # j - 1
              /\ more[i] = ObjectList[i] /\ more[j] = ObjectList[j - 1]
            BY <1>1, <1>2, <1>5, <2>1, <2>4
        <3> QED BY <3>1 DEF Placed, Distinct
    <2>5. CASE i = place
        <3>1. j - 1 \in 1..Len(ObjectList) /\ more[i] = timer /\ more[j] = ObjectList[j - 1]
            BY <1>1, <1>2, <1>5, <2>1, <2>5
        <3> QED BY <1>4, <3>1
    <2>6. CASE i > place
        <3>1. i - 1 \in 1..Len(ObjectList) /\ j - 1 \in 1..Len(ObjectList) /\ i - 1 # j - 1
              /\ more[i] = ObjectList[i - 1] /\ more[j] = ObjectList[j - 1]
            BY <1>1, <1>2, <1>5, <2>1, <2>6
        <3> QED BY <3>1 DEF Placed, Distinct
    <2> QED BY <2>1, <2>2, <2>3, <2>4, <2>5, <2>6
<1>6. Distinct(more)
    <2>1. \A i, j \in 1..Len(more) : i < j \/ j < i \/ i = j
        BY <1>1, <1>2
    <2> QED BY <1>5, <2>1 DEF Distinct
<1> QED BY <1>2, <1>3, <1>6 DEF more

(* The batch without its head. *)
LEMMA TailIds ==
  ASSUME NEW queue \in Seq(Timer), Distinct(queue), queue # <<>>
  PROVE  /\ Head(queue) \in Timer /\ Tail(queue) \in Seq(Timer) /\ Distinct(Tail(queue))
         /\ Ids(queue) = Ids(Tail(queue)) \union {Head(queue).id}
         /\ Head(queue).id \notin Ids(Tail(queue))
<1> DEFINE rest == Tail(queue)
           first == Head(queue)
<1>1. /\ first \in Timer /\ first = queue[1] /\ rest \in Seq(Timer)
      /\ Len(queue) \in Nat /\ Len(queue) >= 1 /\ Len(rest) = Len(queue) - 1
      /\ \A i \in 1..Len(rest) : rest[i] = queue[i + 1]
      /\ Range(queue) = Range(rest) \union {first}
    BY HeadTailRange
<1> HIDE DEF rest, first
<1>2. \A i \in 1..Len(rest) : i + 1 \in 1..Len(queue) /\ i + 1 # 1
    BY <1>1
<1>3. 1 \in 1..Len(queue)
    BY <1>1
<1>4. \A i \in 1..Len(rest) : rest[i].id # first.id
    BY <1>1, <1>2, <1>3 DEF Distinct
<1>5. Distinct(rest)
    <2>1. ASSUME NEW i \in 1..Len(rest), NEW j \in 1..Len(rest), rest[i].id = rest[j].id
          PROVE  i = j
        <3>1. i + 1 = j + 1
            BY <1>1, <1>2, <2>1 DEF Distinct
        <3> QED BY <1>1, <3>1
    <2> QED BY <2>1 DEF Distinct
<1>6. Ids(queue) = Ids(rest) \union {first.id}
    BY <1>1 DEF Ids
<1>7. first.id \notin Ids(rest)
    BY <1>1, <1>4, IdsTyped
<1> QED BY <1>1, <1>5, <1>6, <1>7 DEF rest, first

-----------------------------------------------------------------------------
LEMMA InitType == Init => TypeOK
<1> SUFFICES ASSUME Init PROVE TypeOK
    OBVIOUS
<1>1. <<>> \in Seq(Timer)
    BY EmptySeq
<1>2. TerminateFlag \in BOOLEAN /\ unblocked \in BOOLEAN
    BY Zenon DEF Init
<1>3. added \in 0..MaxAdds
    BY LifeTimeAssumption DEF Init
<1> QED BY <1>1, <1>2, <1>3, LifeTimeAssumption DEF Init, TypeOK

LEMMA AddTyped ==
  ASSUME TypeOK, NEW data \in Data, NEW ms \in Delays, AddEx(data, ms)
  PROVE  LET timer == [id |-> added + 1, data |-> data, expires |-> now + ms] IN
         /\ timer \in Timer /\ timer.id = added + 1 /\ timer.expires \in Nat
         /\ added + 1 \in 1..MaxAdds
         /\ Place(timer.expires) \in 1..(Len(ObjectList) + 1)
         /\ ObjectList' = InsertAt(ObjectList, Place(timer.expires), timer)
         /\ NextTriggerTick' = IF NextTriggerTick <= timer.expires THEN NextTriggerTick
                               ELSE timer.expires
<1> DEFINE timer == [id |-> added + 1, data |-> data, expires |-> now + ms]
<1>1. added + 1 \in 1..MaxAdds
    BY LifeTimeAssumption DEF AddEx, TypeOK
<1>2. now + ms \in Nat
    BY LifeTimeAssumption DEF TypeOK
<1>3. timer \in Timer /\ timer.id = added + 1 /\ timer.expires \in Nat
    BY <1>1, <1>2 DEF Timer
<1>4. ObjectList' = InsertAt(ObjectList, Place(timer.expires), timer)
      /\ NextTriggerTick' = Sooner(timer.expires)
    BY DEF AddEx
<1> HIDE DEF timer
<1>5. Place(timer.expires) \in 1..(Len(ObjectList) + 1)
    BY <1>3, PlaceExists
<1>6. NextTriggerTick \in Int
    BY DEF TypeOK
<1>7. NextTriggerTick' = IF NextTriggerTick <= timer.expires THEN NextTriggerTick ELSE timer.expires
    BY <1>3, <1>4, <1>6, MinMaxOfTwo DEF Sooner
<1> QED BY <1>1, <1>3, <1>4, <1>5, <1>7 DEF timer

(* The timers that leave with their data. *)
LEMMA FoundTyped ==
  ASSUME TypeOK, NEW data
  PROVE  /\ {e.id : e \in {t \in Range(ObjectList) : t.data = data}} \subseteq Ids(ObjectList)
         /\ {e.id : e \in {t \in Range(EventQueue) : t.data = data}} \subseteq Ids(EventQueue)
BY DEF Ids

LEMMA ScanTyped ==
  ASSUME TypeOK, Scan
  PROVE  /\ EventQueue' \in Seq(Timer) /\ ObjectList' \in Seq(Timer)
         /\ ObjectList' = <<>> => NextTriggerTick' = NextTriggerTick
         /\ ObjectList' # <<>> => /\ NextTriggerTick' \in Nat
                                 /\ \A e \in Range(ObjectList') : NextTriggerTick' <= e.expires
<1>1. /\ EventQueue' = Keep(ObjectList, {e \in Range(ObjectList) : Due(e)})
      /\ ObjectList' = Keep(ObjectList, {e \in Range(ObjectList) : Waits(e)})
      /\ NextTriggerTick' = IF ObjectList' = <<>> THEN NextTriggerTick
                            ELSE Min({e.expires : e \in Range(ObjectList')})
    BY DEF Scan
<1>2. ObjectList \in Seq(Timer)
    BY DEF TypeOK
<1>3. EventQueue' \in Seq(Timer) /\ ObjectList' \in Seq(Timer)
    BY <1>1, <1>2, KeepIds
<1>4. ASSUME ObjectList' # <<>>
      PROVE  /\ NextTriggerTick' \in Nat
             /\ \A e \in Range(ObjectList') : NextTriggerTick' <= e.expires
    <2> DEFINE ends == {e.expires : e \in Range(ObjectList')}
    <2>1. \A e \in Range(ObjectList') : e.expires \in Nat
        <3>1. \A q \in Seq(Timer) : \A e \in Range(q) : e.expires \in Nat
            BY IdsTyped
        <3> QED BY <1>3, <3>1
    <2>2. Range(ObjectList') # {}
        <3>1. \A q \in Seq(Timer) : q # <<>> => Head(q) \in Range(q)
            BY HeadTailRange
        <3> QED BY <1>3, <1>4, <3>1
    <2>3. ends \subseteq Nat /\ ends # {} /\ \A e \in Range(ObjectList') : e.expires \in ends
        BY <2>1, <2>2
    <2>4. NextTriggerTick' = Min(ends)
        BY <1>1, <1>4
    <2> HIDE DEF ends
    <2> QED BY <2>3, <2>4, MinIsLeast
<1> QED BY <1>1, <1>3, <1>4

LEMMA StepType == TypeOK /\ Placed /\ [Next]_vars => TypeOK'
<1> SUFFICES ASSUME TypeOK, Placed, [Next]_vars PROVE TypeOK'
    OBVIOUS
<1>0. Ids(ObjectList) \subseteq 1..added /\ Ids(EventQueue) \subseteq 1..added
    BY DEF Placed
<1>1. ASSUME NEW data \in Data, NEW ms \in Delays, AddEx(data, ms) PROVE TypeOK'
    <2> DEFINE timer == [id |-> added + 1, data |-> data, expires |-> now + ms]
    <2>1. /\ timer \in Timer /\ timer.id = added + 1 /\ timer.expires \in Nat
          /\ added + 1 \in 1..MaxAdds /\ Place(timer.expires) \in 1..(Len(ObjectList) + 1)
          /\ ObjectList' = InsertAt(ObjectList, Place(timer.expires), timer)
          /\ NextTriggerTick' = IF NextTriggerTick <= timer.expires THEN NextTriggerTick
                                ELSE timer.expires
        BY <1>1, AddTyped
    <2> HIDE DEF timer
    <2>2. ObjectList' \in Seq(Timer)
        BY <2>1, InsertIds
    <2>3. NextTriggerTick' \in Nat \union {-1}
        BY <2>1 DEF TypeOK
    <2>4. /\ unblocked' = (unblocked \/ ObjectList = <<>>) /\ added' = added + 1
          /\ UNCHANGED <<now, Reserved, chain, blocktime, slept, fired, destroyed, cancelled>>
        BY <1>1 DEF AddEx
    <2>5. unblocked' \in BOOLEAN
        BY <2>4, Zenon
    <2>6. added' \in 0..MaxAdds /\ 1..added \subseteq 1..added'
        BY <2>1, <2>4 DEF TypeOK
    <2> QED BY <2>2, <2>3, <2>4, <2>5, <2>6 DEF TypeOK, chain
<1>2. ASSUME NEW data \in Data, RemoveData(data) PROVE TypeOK'
    <2> DEFINE found == {e.id : e \in {t \in Range(ObjectList) : t.data = data}}
               batch == {e.id : e \in {t \in Range(EventQueue) : t.data = data}}
    <2>1. found \subseteq 1..added /\ batch \subseteq 1..added
        BY <1>0, FoundTyped
    <2>2. /\ ObjectList' = Keep(ObjectList, {e \in Range(ObjectList) : e.data # data})
          /\ Reserved' \subseteq Reserved \union {data}
          /\ destroyed' = destroyed \union found
          /\ cancelled' = cancelled \union found \union batch
          /\ UNCHANGED <<now, NextTriggerTick, chain, sleep, added, fired>>
        BY <1>2 DEF RemoveData
    <2> HIDE DEF found, batch
    <2>3. ObjectList' \in Seq(Timer)
        BY <2>2, KeepIds DEF TypeOK
    <2> QED BY <2>1, <2>2, <2>3 DEF TypeOK, chain, sleep
<1>3. CASE Stop
    <2>1. TerminateFlag' \in BOOLEAN /\ unblocked' \in BOOLEAN
        BY <1>3, Zenon DEF Stop
    <2> QED BY <1>3, <2>1 DEF Stop, lists, history, TypeOK
<1>4. CASE SkipCheck
    BY <1>4 DEF SkipCheck, NothingDue, lists, history, TypeOK
<1>5. CASE BeginCheck
    BY <1>5 DEF BeginCheck, sleep, history, TypeOK
<1>6. CASE Scan
    <2>1. EventQueue' \in Seq(Timer) /\ ObjectList' \in Seq(Timer)
          /\ NextTriggerTick' \in Nat \union {-1}
        BY <1>6, ScanTyped DEF TypeOK
    <2> QED BY <1>6, <2>1 DEF Scan, sleep, history, TypeOK
<1>7. CASE Fire
    <2>1. /\ Head(EventQueue) \in Timer /\ Tail(EventQueue) \in Seq(Timer)
          /\ Head(EventQueue).id \in 1..added
        BY <1>0, <1>7, TailIds DEF Fire, TypeOK, Placed
    <2>2. <<Head(EventQueue)>> \in Seq(Timer)
        BY <2>1
    <2> QED BY <1>7, <2>1, <2>2 DEF Fire, sleep, TypeOK
<1>8. CASE Return
    <2>1. <<>> \in Seq(Timer)
        BY EmptySeq
    <2> QED BY <1>8, <2>1 DEF Return, lists, sleep, history, TypeOK
<1>9. CASE EndCheck
    <2>1. blocktime' \in Nat
        <3>1. NextTriggerTick - CurrentTick \in Int /\ MinWait \in Nat /\ MaxWait \in Nat
            BY LifeTimeAssumption DEF TypeOK
        <3>2. Max({NextTriggerTick - CurrentTick, MinWait}) \in Nat
            BY <3>1, MinMaxOfTwo
        <3> QED BY <1>9, <3>1, <3>2 DEF EndCheck
    <2> QED BY <1>9, <2>1 DEF EndCheck, lists, history, TypeOK
<1>10. CASE SelectReturns
    <2>1. unblocked' \in BOOLEAN
        BY <1>10, Zenon DEF SelectReturns
    <2> QED BY <1>10, <2>1 DEF SelectReturns, lists, history, TypeOK
<1>11. CASE NextTurn
    BY <1>11, LifeTimeAssumption DEF NextTurn, lists, history, TypeOK
<1>12. CASE Flush
    <2>1. <<>> \in Seq(Timer)
        BY EmptySeq
    <2> QED BY <1>0, <1>12, <2>1 DEF Flush, sleep, TypeOK
<1>13. CASE Clock
    BY <1>13 DEF Clock, lists, chain, sleep, history, TypeOK
<1>14. CASE UNCHANGED vars
    BY <1>14 DEF vars, lists, chain, sleep, history, TypeOK
<1> QED BY <1>1, <1>2, <1>3, <1>4, <1>5, <1>6, <1>7, <1>8, <1>9, <1>10, <1>11, <1>12, <1>13,
           <1>14 DEF Next, ChainStep, Wake, SocketReady

-----------------------------------------------------------------------------
LEMMA InitPlaced == Init => Placed
<1> SUFFICES ASSUME Init PROVE Placed
    OBVIOUS
<1>1. /\ ObjectList = <<>> /\ EventQueue = <<>> /\ fired = {} /\ destroyed = {}
      /\ added = 0 /\ at = "check"
    BY DEF Init
<1>2. 1..0 = {}
    OBVIOUS
<1> QED BY <1>1, <1>2, IdsEmpty DEF Placed

LEMMA StepPlaced == TypeOK /\ Placed /\ [Next]_vars => Placed'
<1> SUFFICES ASSUME TypeOK, Placed, [Next]_vars PROVE Placed'
    OBVIOUS
(* A step that moves no timer. *)
<1>0. ASSUME UNCHANGED <<ObjectList, EventQueue, fired, destroyed, added>>,
             \/ at' = at
             \/ at' # "stopped" /\ (at' \in {"fire", "callback"} \/ at \notin {"fire", "callback"})
             \/ at' # "stopped" /\ EventQueue = <<>>
      PROVE  Placed'
    <2>1. /\ Ids(ObjectList') = Ids(ObjectList) /\ Ids(EventQueue') = Ids(EventQueue)
          /\ Distinct(ObjectList') /\ Distinct(EventQueue')
        BY <1>0 DEF Placed
    <2>2. at' \notin {"fire", "callback"} => EventQueue' = <<>>
        BY <1>0 DEF Placed
    <2>3. at' = "stopped" => ObjectList' = <<>>
        BY <1>0 DEF Placed
    <2> QED BY <1>0, <2>1, <2>2, <2>3 DEF Placed
<1>1. ASSUME NEW data \in Data, NEW ms \in Delays, AddEx(data, ms) PROVE Placed'
    <2> DEFINE timer == [id |-> added + 1, data |-> data, expires |-> now + ms]
    <2>1. /\ timer \in Timer /\ timer.id = added + 1 /\ timer.expires \in Nat
          /\ Place(timer.expires) \in 1..(Len(ObjectList) + 1)
          /\ ObjectList' = InsertAt(ObjectList, Place(timer.expires), timer)
        BY <1>1, AddTyped
    <2> HIDE DEF timer
    <2>2. Distinct(ObjectList') /\ Ids(ObjectList') = Ids(ObjectList) \union {added + 1}
        BY <2>1, InsertIds
    <2>3. /\ added' = added + 1 /\ at # "stopped"
          /\ UNCHANGED <<EventQueue, at, fired, destroyed>>
        BY <1>1 DEF AddEx, Callable, chain
    <2>4. added \in Nat /\ 1..added' = 1..added \union {added + 1} /\ added + 1 \notin 1..added
        BY <2>3 DEF TypeOK
    <2>5. Ids(EventQueue') = Ids(EventQueue) /\ Distinct(EventQueue')
        BY <2>3 DEF Placed
    <2> QED BY <2>2, <2>3, <2>4, <2>5 DEF Placed
<1>2. ASSUME NEW data \in Data, RemoveData(data) PROVE Placed'
    <2> DEFINE found == {e.id : e \in {t \in Range(ObjectList) : t.data = data}}
               others == {e \in Range(ObjectList) : e.data # data}
    <2>1. /\ ObjectList' = Keep(ObjectList, others)
          /\ destroyed' = destroyed \union found
          /\ UNCHANGED <<EventQueue, at, fired, added>> /\ at # "stopped"
        BY <1>2 DEF RemoveData, Callable, chain
    <2>2. ObjectList \in Seq(Timer) /\ Distinct(ObjectList)
        BY DEF TypeOK, Placed
    <2>3. /\ Range(ObjectList') = Range(ObjectList) \intersect others
          /\ Ids(ObjectList') = {e.id : e \in Range(ObjectList) \intersect others}
          /\ Distinct(ObjectList')
        BY <2>1, <2>2, KeepIds
    <2>4. Ids(ObjectList) = Ids(ObjectList') \union found
        BY <2>3 DEF Ids
    <2>5. Ids(ObjectList') \intersect found = {}
        <3> SUFFICES ASSUME NEW d \in Range(ObjectList), d.data = data,
                            NEW e \in Range(ObjectList), e.data # data, d.id = e.id
                     PROVE  FALSE
            BY <2>3
        <3> QED BY <2>2, IdsTell
    <2> HIDE DEF found
    <2>6. Ids(EventQueue') = Ids(EventQueue) /\ Distinct(EventQueue')
        BY <2>1 DEF Placed
    <2> QED BY <2>1, <2>3, <2>4, <2>5, <2>6 DEF Placed
<1>3. CASE Stop
    BY <1>0, <1>3 DEF Stop, lists, history
<1>4. CASE SkipCheck
    BY <1>0, <1>4 DEF SkipCheck, lists, history
<1>5. CASE BeginCheck
    BY <1>0, <1>5 DEF BeginCheck, history
<1>6. CASE Scan
    <2> DEFINE due == {e \in Range(ObjectList) : Due(e)}
               waits == {e \in Range(ObjectList) : Waits(e)}
    <2>1. /\ EventQueue' = Keep(ObjectList, due) /\ ObjectList' = Keep(ObjectList, waits)
          /\ at = "scan" /\ at' = "fire" /\ UNCHANGED <<fired, destroyed, added>>
        BY <1>6 DEF Scan, history
    <2>2. ObjectList \in Seq(Timer) /\ Distinct(ObjectList)
        BY DEF TypeOK, Placed
    <2>3. /\ Range(EventQueue') = Range(ObjectList) \intersect due
          /\ Ids(EventQueue') = {e.id : e \in Range(ObjectList) \intersect due}
          /\ Distinct(EventQueue')
          /\ Range(ObjectList') = Range(ObjectList) \intersect waits
          /\ Ids(ObjectList') = {e.id : e \in Range(ObjectList) \intersect waits}
          /\ Distinct(ObjectList')
        BY <2>1, <2>2, KeepIds
    <2>4. Ids(ObjectList) = Ids(ObjectList') \union Ids(EventQueue')
        BY <2>3 DEF Ids, Waits
    <2>5. Ids(ObjectList') \intersect Ids(EventQueue') = {}
        <3> SUFFICES ASSUME NEW d \in Range(ObjectList), Due(d),
                            NEW e \in Range(ObjectList), Waits(e), d.id = e.id
                     PROVE  FALSE
            BY <2>3
        <3>1. d = e
            BY <2>2, IdsTell
        <3> QED BY <3>1 DEF Waits
    <2>6. EventQueue = <<>>
        BY <2>1 DEF Placed
    <2>7. Ids(EventQueue) = {}
        BY <2>6, IdsEmpty
    <2> QED BY <2>1, <2>3, <2>4, <2>5, <2>7 DEF Placed
<1>7. CASE Fire
    <2> DEFINE timer == Head(EventQueue)
    <2>1. /\ EventQueue # <<>> /\ EventQueue' = Tail(EventQueue) /\ at' \in {"fire", "callback"}
          /\ UNCHANGED <<ObjectList, added>>
          /\ \/ destroyed' = destroyed \union {timer.id} /\ fired' = fired
             \/ fired' = fired \union {timer.id} /\ destroyed' = destroyed
        BY <1>7 DEF Fire
    <2>2. /\ Distinct(EventQueue') /\ Ids(EventQueue) = Ids(EventQueue') \union {timer.id}
          /\ timer.id \notin Ids(EventQueue')
        BY <2>1, TailIds DEF TypeOK, Placed
    <2>3. Distinct(ObjectList') /\ Ids(ObjectList') = Ids(ObjectList)
        BY <2>1 DEF Placed
    <2> HIDE DEF timer
    <2> QED BY <2>1, <2>2, <2>3 DEF Placed
<1>8. CASE Return
    BY <1>0, <1>8 DEF Return, lists, history
<1>9. CASE EndCheck
    BY <1>0, <1>9 DEF EndCheck, lists, history
<1>10. CASE SelectReturns
    BY <1>0, <1>10 DEF SelectReturns, lists, history
<1>11. CASE NextTurn
    BY <1>0, <1>11 DEF NextTurn, lists, history
<1>12. CASE Flush
    <2>1. /\ at = "check" /\ at' = "stopped" /\ ObjectList' = <<>>
          /\ destroyed' = destroyed \union Ids(ObjectList)
          /\ UNCHANGED <<EventQueue, added, fired>>
        BY <1>12 DEF Flush
    <2>2. Ids(ObjectList') = {} /\ Distinct(ObjectList')
        BY <2>1, IdsEmpty
    <2>3. Ids(EventQueue') = Ids(EventQueue) /\ Distinct(EventQueue')
        BY <2>1 DEF Placed
    <2>4. Ids(EventQueue) = {} /\ EventQueue' = <<>>
        BY <2>1, IdsEmpty DEF Placed
    <2> QED BY <2>1, <2>2, <2>3, <2>4 DEF Placed
<1>13. CASE Clock
    BY <1>0, <1>13 DEF Clock, lists, chain, history
<1>14. CASE UNCHANGED vars
    BY <1>0, <1>14 DEF vars, lists, chain, history
<1> QED BY <1>1, <1>2, <1>3, <1>4, <1>5, <1>6, <1>7, <1>8, <1>9, <1>10, <1>11, <1>12, <1>13,
           <1>14 DEF Next, ChainStep, Wake, SocketReady

(* Each timer is in one place: the numbers of those that wait and of those *)
(* in the batch are as many as the timers in both lists.                   *)
LEMMA PlacedOnce == TypeOK /\ Placed => EndsOnce
<1> SUFFICES ASSUME TypeOK, Placed PROVE EndsOnce
    OBVIOUS
<1> DEFINE both == ObjectList \o EventQueue
           n == Len(ObjectList) + Len(EventQueue)
           id == [i \in 1..n |-> both[i].id]
<1>1. /\ ObjectList \in Seq(Timer) /\ Len(ObjectList) \in Nat
      /\ EventQueue \in Seq(Timer) /\ Len(EventQueue) \in Nat /\ n \in Nat
    BY LenProperties DEF TypeOK
<1>2. /\ both \in Seq(Timer) /\ Len(both) = n
      /\ \A i \in 1..n : both[i] = IF i <= Len(ObjectList) THEN ObjectList[i]
                                    ELSE EventQueue[i - Len(ObjectList)]
      /\ Range(both) = Range(ObjectList) \union Range(EventQueue)
    BY <1>1, ConcatProperties, RangeConcatenation
<1>3. Ids(both) = Ids(ObjectList) \union Ids(EventQueue)
    BY <1>2 DEF Ids
<1> HIDE DEF both
<1>4. /\ \A i \in 1..Len(ObjectList) : ObjectList[i].id \in Ids(ObjectList)
      /\ \A i \in 1..Len(EventQueue) : EventQueue[i].id \in Ids(EventQueue)
    BY <1>1, IdsTyped
<1>5. ASSUME NEW i \in 1..n
      PROVE  \/ i <= Len(ObjectList) /\ i \in 1..Len(ObjectList) /\ both[i] = ObjectList[i]
             \/ /\ ~(i <= Len(ObjectList)) /\ i - Len(ObjectList) \in 1..Len(EventQueue)
                /\ both[i] = EventQueue[i - Len(ObjectList)]
    <2>1. i \in Int /\ 1 <= i /\ i <= Len(ObjectList) + Len(EventQueue)
        BY <1>1
    <2>2. CASE i <= Len(ObjectList)
        <3>1. i \in 1..Len(ObjectList)
            BY <1>1, <2>1, <2>2
        <3> QED BY <1>2, <2>2, <3>1
    <2>3. CASE ~(i <= Len(ObjectList))
        <3>1. i - Len(ObjectList) \in 1..Len(EventQueue)
            BY <1>1, <2>1, <2>3
        <3> QED BY <1>2, <2>3, <3>1
    <2> QED BY <2>2, <2>3
<1>6. ASSUME NEW i \in 1..n, NEW j \in 1..n, both[i].id = both[j].id PROVE i = j
    <2>1. CASE i <= Len(ObjectList) /\ j <= Len(ObjectList)
        <3>1. /\ i \in 1..Len(ObjectList) /\ both[i] = ObjectList[i]
              /\ j \in 1..Len(ObjectList) /\ both[j] = ObjectList[j]
            BY <1>5, <2>1
        <3> QED BY <1>6, <3>1 DEF Placed, Distinct
    <2>2. CASE ~(i <= Len(ObjectList)) /\ ~(j <= Len(ObjectList))
        <3>1. i - Len(ObjectList) = j - Len(ObjectList)
            <4>1. /\ i - Len(ObjectList) \in 1..Len(EventQueue)
                  /\ both[i] = EventQueue[i - Len(ObjectList)]
                  /\ j - Len(ObjectList) \in 1..Len(EventQueue)
                  /\ both[j] = EventQueue[j - Len(ObjectList)]
                BY <1>5, <2>2
            <4>2. \A k, l \in 1..Len(EventQueue) : EventQueue[k].id = EventQueue[l].id => k = l
                BY DEF Placed, Distinct
            <4> HIDE DEF n
            <4> QED BY <1>6, <4>1, <4>2
        <3>2. i \in Int /\ j \in Int
            BY <1>1
        <3> QED BY <1>1, <3>1, <3>2
    <2>3. CASE i <= Len(ObjectList) /\ ~(j <= Len(ObjectList))
        <3>1. both[i].id \in Ids(ObjectList) /\ both[j].id \in Ids(EventQueue)
            BY <1>4, <1>5, <2>3
        <3> QED BY <1>6, <3>1 DEF Placed
    <2>4. CASE ~(i <= Len(ObjectList)) /\ j <= Len(ObjectList)
        <3>1. both[i].id \in Ids(EventQueue) /\ both[j].id \in Ids(ObjectList)
            BY <1>4, <1>5, <2>4
        <3> QED BY <1>6, <3>1 DEF Placed
    <2> QED BY <2>1, <2>2, <2>3, <2>4
<1>7. Ids(both) = {both[i].id : i \in 1..n}
    BY <1>2, IdsTyped
<1>8. /\ id \in [1..n -> Ids(both)]
      /\ \A i, j \in 1..n : id[i] = id[j] => i = j
      /\ \A y \in Ids(both) : \E i \in 1..n : id[i] = y
    <2>1. \A i \in 1..n : id[i] \in Ids(both) /\ id[i] = both[i].id
        BY <1>7
    <2> QED BY <1>6, <1>7, <2>1
<1> HIDE DEF id
<1>9. Cardinality(Ids(both)) = n
    <2>1. n \in Nat
        BY <1>1
    <2> HIDE DEF n
    <2> QED BY <1>8, <2>1, CountDistinct
<1>10. at = "stopped" => Ids(both) = {}
    BY <1>3, IdsEmpty DEF Placed
<1> QED BY <1>3, <1>9, <1>10 DEF EndsOnce, Placed, both

(* Every timer waits, is in the batch of one Check, or has ended in one of *)
(* its two callbacks and in no other (ILibParsers.c:4900-5070,             *)
(* 5090-5160), whichever thread adds and removes.                          *)
THEOREM EndsOnceTheorem == Spec => []EndsOnce
<1> QED BY InitType, StepType, InitPlaced, StepPlaced, PlacedOnce, PTL DEF Spec

(* The lists, the batch and the counters keep the shape of the code's      *)
(* structures (struct ILibLifeTime, ILibParsers.c:4880-4900).              *)
THEOREM TypeTheorem == Spec => []TypeOK
<1> QED BY InitType, StepType, InitPlaced, StepPlaced, PTL DEF Spec

-----------------------------------------------------------------------------
LEMMA RangeNonempty ==
  ASSUME NEW queue \in Seq(Timer)
  PROVE  queue # <<>> <=> Range(queue) # {}
<1>1. queue # <<>> => Range(queue) # {}
    BY HeadTailRange
<1>2. Range(<<>>) = {}
    <2>1. <<>> \in Seq(Timer) /\ Len(<<>>) = 0 /\ 1..0 = {}
        BY EmptySeq
    <2> QED BY <2>1, RangeEquality
<1> QED BY <1>1, <1>2

LEMMA InitTriggered == Init => Triggered
<1> SUFFICES ASSUME Init PROVE Triggered
    OBVIOUS
<1>1. ObjectList = <<>> /\ at = "check" /\ <<>> \in Seq(Timer)
    BY EmptySeq DEF Init
<1>2. Range(ObjectList) = {}
    BY <1>1, RangeNonempty
<1> QED BY <1>1, <1>2 DEF Triggered, TriggerCovers

LEMMA StepTriggered ==
  ASSUME TypeOK, Placed, Triggered, [Next]_vars
  PROVE  Triggered'
<1>0. ASSUME UNCHANGED <<ObjectList, NextTriggerTick>>, at' # "scan",
             at' \in {"fire", "callback"} => at \in {"fire", "callback"} /\ (unblocked => unblocked')
      PROVE  Triggered'
    BY <1>0 DEF Triggered, TriggerCovers
<1>1. ASSUME NEW data \in Data, NEW ms \in Delays, AddEx(data, ms) PROVE Triggered'
    <2> DEFINE timer == [id |-> added + 1, data |-> data, expires |-> now + ms]
    <2>1. /\ timer \in Timer /\ timer.id = added + 1 /\ timer.expires \in Nat
          /\ Place(timer.expires) \in 1..(Len(ObjectList) + 1)
          /\ ObjectList' = InsertAt(ObjectList, Place(timer.expires), timer)
          /\ NextTriggerTick' = IF NextTriggerTick <= timer.expires THEN NextTriggerTick
                                ELSE timer.expires
        BY <1>1, AddTyped
    <2>2. at' = at /\ unblocked' = (unblocked \/ ObjectList = <<>>)
        BY <1>1 DEF AddEx, chain
    <2> HIDE DEF timer
    <2>3. Range(ObjectList') = Range(ObjectList) \union {timer}
        BY <2>1, InsertIds
    <2>4. NextTriggerTick \in Nat \union {-1} /\ \A e \in Range(ObjectList) : e.expires \in Nat
        BY IdsTyped DEF TypeOK
    <2>5. /\ NextTriggerTick' <= timer.expires
          /\ \A e \in Range(ObjectList) : NextTriggerTick' <= e.expires
        BY <2>1, <2>4 DEF Triggered, TriggerCovers
    <2>6. TriggerCovers'
        BY <2>3, <2>5 DEF TriggerCovers
    <2>7. NextTriggerTick' = -1 <=> NextTriggerTick = -1
        BY <2>1, <2>4
    <2> QED BY <2>2, <2>6, <2>7 DEF Triggered
<1>2. ASSUME NEW data \in Data, RemoveData(data) PROVE Triggered'
    <2>1. /\ ObjectList' = Keep(ObjectList, {e \in Range(ObjectList) : e.data # data})
          /\ UNCHANGED <<NextTriggerTick, at, unblocked>>
        BY <1>2 DEF RemoveData, chain, sleep
    <2>2. Range(ObjectList') \subseteq Range(ObjectList) /\ ObjectList' \in Seq(Timer)
        BY <2>1, KeepIds DEF TypeOK
    <2>3. ObjectList' # <<>> => ObjectList # <<>>
        <3>1. \A q \in Seq(Timer) : q # <<>> <=> Range(q) # {}
            BY RangeNonempty
        <3> QED BY <2>2, <3>1 DEF TypeOK
    <2> QED BY <2>1, <2>2, <2>3 DEF Triggered, TriggerCovers
<1>3. CASE Stop
    BY <1>3 DEF Stop, lists, Triggered, TriggerCovers
<1>4. CASE SkipCheck
    BY <1>0, <1>4 DEF SkipCheck, lists
<1>5. CASE BeginCheck
    <2>1. \A e \in Range(ObjectList) : e.expires \in Nat
        BY IdsTyped DEF TypeOK
    <2> QED BY <1>5, <2>1 DEF BeginCheck, Triggered, TriggerCovers
<1>6. CASE Scan
    <2>1. /\ ObjectList' \in Seq(Timer)
          /\ ObjectList' # <<>> => /\ NextTriggerTick' \in Nat
                                  /\ \A e \in Range(ObjectList') : NextTriggerTick' <= e.expires
        BY <1>6, ScanTyped
    <2>2. TriggerCovers'
        <3>1. \A q \in Seq(Timer) : q # <<>> <=> Range(q) # {}
            BY RangeNonempty
        <3> QED BY <2>1, <3>1 DEF TriggerCovers
    <2>3. at' = "fire"
        BY <1>6 DEF Scan
    <2> QED BY <2>1, <2>2, <2>3 DEF Triggered
<1>7. CASE Fire
    BY <1>0, <1>7 DEF Fire, sleep
<1>8. CASE Return
    BY <1>0, <1>8 DEF Return, lists, sleep
<1>9. CASE EndCheck
    BY <1>0, <1>9 DEF EndCheck, lists
<1>10. CASE SelectReturns
    BY <1>0, <1>10 DEF SelectReturns, lists
<1>11. CASE NextTurn
    BY <1>0, <1>11 DEF NextTurn, lists
<1>12. CASE Flush
    <2>1. ObjectList' = <<>> /\ at' = "stopped" /\ <<>> \in Seq(Timer)
        BY <1>12, EmptySeq DEF Flush
    <2>2. Range(ObjectList') = {}
        BY <2>1, RangeNonempty
    <2> QED BY <2>1, <2>2 DEF Triggered, TriggerCovers
<1>13. CASE Clock
    BY <1>13 DEF Clock, lists, chain, sleep, Triggered, TriggerCovers
<1>14. CASE UNCHANGED vars
    BY <1>14 DEF vars, lists, chain, sleep, Triggered, TriggerCovers
<1> QED BY <1>1, <1>2, <1>3, <1>4, <1>5, <1>6, <1>7, <1>8, <1>9, <1>10, <1>11, <1>12, <1>13,
           <1>14 DEF Next, ChainStep, Wake, SocketReady

(* A timer that waits never expires before the tick Check compares the     *)
(* clock with, whatever is added around it (ILibParsers.c:4955-5010).      *)
THEOREM TriggerCoversTheorem == Spec => []TriggerCovers
<1>1. Triggered => TriggerCovers
    BY DEF Triggered
<1> QED BY <1>1, InitType, StepType, InitPlaced, StepPlaced, InitTriggered, StepTriggered, PTL
        DEF Spec

LEMMA MaxTyped ==
  \A a, b \in Int : Max({a, b}) = IF a <= b THEN b ELSE a
<1> TAKE a, b \in Int
<1> QED BY MinMaxOfTwo, Zenon

(* How long the chain goes to sleep. *)
LEMMA StepSleeps ==
  ASSUME TypeOK, Triggered, [Next]_vars, at # "select", at' = "select", ~unblocked,
         NEW e \in Range(ObjectList)
  PROVE  CurrentTick' + blocktime' <= Max({e.expires, CurrentTick' + MinWait})
<1>1. /\ e.expires \in Nat /\ NextTriggerTick <= e.expires
      /\ NextTriggerTick \in Nat \union {-1} /\ now \in Nat /\ CurrentTick \in Nat
      /\ MinWait \in Nat /\ MaxWait \in Nat
    BY IdsTyped, LifeTimeAssumption DEF TypeOK, Triggered, TriggerCovers
<1>2. SkipCheck \/ EndCheck
    BY DEF Next, AddEx, RemoveData, Stop, ChainStep, BeginCheck, Scan, Fire, Return, Wake,
           NextTurn, Flush, SocketReady, SelectReturns, Clock, chain, vars
<1>3. CASE SkipCheck
    <2>1. CurrentTick' = now /\ blocktime' = NextTriggerTick - now
        BY <1>3 DEF SkipCheck
    <2>2. Max({e.expires, now + MinWait})
            = IF e.expires <= now + MinWait THEN now + MinWait ELSE e.expires
        BY <1>1, MaxTyped
    <2>3. CurrentTick' + blocktime' = NextTriggerTick
        BY <1>1, <2>1
    <2> QED BY <1>1, <2>1, <2>2, <2>3
<1>4. CASE EndCheck
    <2>1. /\ at = "fire" /\ CurrentTick' = CurrentTick
          /\ blocktime' = IF NextTriggerTick # -1 /\ MaxWait > NextTriggerTick - CurrentTick
                          THEN Max({NextTriggerTick - CurrentTick, MinWait}) ELSE MaxWait
        BY <1>4 DEF EndCheck
    <2>2. ObjectList # <<>>
        <3>1. ObjectList \in Seq(Timer) /\ Range(ObjectList) # {}
            BY DEF TypeOK
        <3> QED BY <3>1, RangeNonempty
    <2>3. NextTriggerTick \in Nat
        BY <1>1, <2>1, <2>2 DEF Triggered
    <2>4. Max({e.expires, CurrentTick + MinWait})
            = IF e.expires <= CurrentTick + MinWait THEN CurrentTick + MinWait ELSE e.expires
        BY <1>1, MaxTyped
    <2>5. CASE MaxWait > NextTriggerTick - CurrentTick
        <3>1. blocktime' = Max({NextTriggerTick - CurrentTick, MinWait})
            BY <2>1, <2>3, <2>5
        <3>2. \A k \in Int : Max({k, MinWait}) = IF k <= MinWait THEN MinWait ELSE k
            BY <1>1, MaxTyped
        <3>3. blocktime' = IF NextTriggerTick - CurrentTick <= MinWait THEN MinWait
                           ELSE NextTriggerTick - CurrentTick
            <4>1. NextTriggerTick - CurrentTick \in Int
                BY <1>1, <2>3
            <4> QED BY <3>1, <3>2, <4>1
        <3> QED BY <1>1, <2>1, <2>3, <2>4, <3>3
    <2>6. CASE ~(MaxWait > NextTriggerTick - CurrentTick)
        BY <1>1, <2>1, <2>3, <2>4, <2>6
    <2> QED BY <2>5, <2>6
<1> QED BY <1>2, <1>3, <1>4

(* The chain thread never goes to sleep beyond the expiration of a timer   *)
(* that waits, a second apart, unless its pipe has a byte already          *)
(* (ILibParsers.c:4955-5010, 5055-5075).                                   *)
THEOREM SleepsInTimeTheorem == Spec => SleepsInTime
<1> DEFINE Inv == TypeOK /\ Placed /\ Triggered
<1>1. Init => Inv
    BY InitType, InitPlaced, InitTriggered
<1>2. Inv /\ [Next]_vars => Inv'
    BY StepType, StepPlaced, StepTriggered
<1>3. Inv /\ [Next]_vars =>
        [at # "select" /\ at' = "select" /\ ~unblocked =>
           \A e \in Range(ObjectList) :
             CurrentTick' + blocktime' <= Max({e.expires, CurrentTick' + MinWait})]_vars
    BY StepSleeps
<1> HIDE DEF Inv
<1> QED BY <1>1, <1>2, <1>3, PTL DEF Spec, SleepsInTime
=============================================================================
