------------------------------- MODULE LifeTime -------------------------------
(***************************************************************************)
(* The timers of the Microstack, ILibLifeTime in ILibParsers.c, and the    *)
(* turns of the chain thread that fire them (ILibStartChain).  Each turn   *)
(* runs ILibLifeTime_Check, sleeps in select for the blocktime it computed *)
(* and then runs the socket handlers.  The due timers of one Check form a  *)
(* batch, EventQueue, on its stack; their callbacks run without a lock.    *)
(*                                                                         *)
(* ILibLifeTime_AddEx and ILibLifeTime_Remove run under the lock of        *)
(* ObjectList, in a callback or a socket handler of the chain thread or,   *)
(* if OtherThreads, at any moment.  A pointer to a timer is the timer's    *)
(* record, a pointer to what it was added for is a member of Data.         *)
(***************************************************************************)
EXTENDS Integers, Sequences, FiniteSets, FiniteSetsExt, Functions, SequencesExt,
        Keeping

CONSTANTS
  Data,         \* what timers are added for; several may be for one
  Delays,       \* the delays asked for
  MinWait,      \* 1000 ms, the least time Check sleeps after a batch
  MaxWait,      \* UPNP_MAX_WAIT
  OtherThreads, \* TRUE if another thread adds and removes timers too
  MaxAdds,      \* bound on the timers added
  MaxTime       \* bound on the clock, except while the chain sleeps on a timer

ASSUME LifeTimeAssumption ==
  /\ Delays \subseteq Nat /\ MinWait \in Nat /\ MaxWait \in Nat
  /\ OtherThreads \in BOOLEAN /\ MaxAdds \in Nat /\ MaxTime \in Nat

VARIABLES
  now,             \* ILibGetUptime
  ObjectList,      \* the timers waiting, by expiration
  NextTriggerTick, \* nothing expires before it; -1: unknown
  Reserved,        \* the pointers ILibLifeTime_Remove did not find
  TerminateFlag,   \* ILibStopChain was called
  at,              \* control point of the chain thread
  CurrentTick,     \* the clock as this Check read it
  EventQueue,      \* the batch still to fire
  firing,          \* the timer whose callback runs
  blocktime,       \* what the chain sleeps, from slept on
  slept,
  unblocked,       \* the pipe of ILibForceUnBlockChain has a byte
  added,           \* timers added so far, they are numbered
  fired,           \* timers whose callback was called
  destroyed,       \* timers given to their Destroy callback instead
  cancelled        \* timers that waited when Remove was called for their data

lists   == <<ObjectList, NextTriggerTick, Reserved>>
chain   == <<TerminateFlag, at, CurrentTick, EventQueue, firing>>
sleep   == <<blocktime, slept, unblocked>>
history == <<added, fired, destroyed, cancelled>>
vars == <<now, lists, chain, sleep, history>>

Timer == [id: 1..MaxAdds, data: Data, expires: Nat]
Ids(queue) == {e.id : e \in Range(queue)}

Init ==
  /\ now = 0
  /\ ObjectList = <<>> /\ NextTriggerTick = 0 /\ Reserved = {}
  /\ TerminateFlag = FALSE /\ at = "check" /\ CurrentTick = 0
  /\ EventQueue = <<>> /\ firing = <<>>
  /\ blocktime = MaxWait /\ slept = 0 /\ unblocked = FALSE
  /\ added = 0 /\ fired = {} /\ destroyed = {} /\ cancelled = {}

-----------------------------------------------------------------------------
Callable == at \in {"callback", "sockets"} \/ (OtherThreads /\ at # "stopped")

(* Before the first timer that does not expire earlier. *)
Place(expires) ==
  CHOOSE i \in 1..(Len(ObjectList) + 1) :
    /\ \A j \in 1..(i - 1) : ObjectList[j].expires < expires
    /\ i <= Len(ObjectList) => expires <= ObjectList[i].expires

(* "If this notification is sooner than the existing one, replace it."      *)
(* (Fault: it is not replaced.)                                            *)
KeepTrigger(expires) == NextTriggerTick
Sooner(expires) == Min({NextTriggerTick, expires})

(* ILibLifeTime_AddEx.  The chain is woken for the first timer only: the   *)
(* test for a new head compares a list node with a timer.                  *)
AddEx(data, ms) ==
  /\ Callable /\ added < MaxAdds
  /\ LET timer == [id |-> added + 1, data |-> data, expires |-> now + ms] IN
       /\ ObjectList' = InsertAt(ObjectList, Place(timer.expires), timer)
       /\ NextTriggerTick' = Sooner(timer.expires)
  /\ unblocked' = (unblocked \/ ObjectList = <<>>)
  /\ added' = added + 1
  /\ UNCHANGED <<now, Reserved, chain, blocktime, slept, fired, destroyed, cancelled>>

(* ILibLifeTime_Remove: the timers for data leave the list; if there is    *)
(* none among others, data is left in Reserved for the Check under way.    *)
RemoveData(data) ==
  /\ Callable
  /\ LET found == {e.id : e \in {t \in Range(ObjectList) : t.data = data}}
         batch == {e.id : e \in {t \in Range(EventQueue) : t.data = data}} IN
       /\ ObjectList' = Keep(ObjectList, {e \in Range(ObjectList) : e.data # data})
       /\ Reserved' = IF ObjectList # <<>> /\ found = {}
                      THEN Reserved \union {data} ELSE Reserved
       /\ destroyed' = destroyed \union found
       /\ cancelled' = cancelled \union found \union batch
  /\ UNCHANGED <<now, NextTriggerTick, chain, sleep, added, fired>>

(* ILibStopChain. *)
Stop ==
  /\ at # "stopped" /\ ~TerminateFlag
  /\ TerminateFlag' = TRUE /\ unblocked' = TRUE
  /\ UNCHANGED <<now, lists, at, CurrentTick, EventQueue, firing, blocktime, slept,
                 history>>

-----------------------------------------------------------------------------
(* The first test of ILibLifeTime_Check: nothing is due yet.  (Fault: the  *)
(* test against the clock is left out.)                                    *)
NothingKnownDue == NextTriggerTick # -1 /\ MaxWait > NextTriggerTick - now
NothingDue ==
  /\ NextTriggerTick > now /\ NextTriggerTick # -1
  /\ MaxWait > NextTriggerTick - now

SkipCheck ==
  /\ at = "check" /\ ~TerminateFlag /\ NothingDue
  /\ CurrentTick' = now
  /\ blocktime' = NextTriggerTick - now
  /\ slept' = now /\ at' = "select"
  /\ UNCHANGED <<now, lists, TerminateFlag, EventQueue, firing, unblocked, history>>

BeginCheck ==
  /\ at = "check" /\ ~TerminateFlag /\ ~NothingDue
  /\ CurrentTick' = now
  /\ NextTriggerTick' = -1
  /\ at' = "scan"
  /\ UNCHANGED <<now, ObjectList, Reserved, TerminateFlag, EventQueue, firing,
                 sleep, history>>

(* Due, and not due.  (Fault: one that expires now is neither.) *)
Due(e) == e.expires < CurrentTick
WaitsLonger(e) == e.expires > CurrentTick
Waits(e) == ~Due(e)

(* Under both locks: the due timers go to the batch. *)
Scan ==
  /\ at = "scan"
  /\ Reserved' = {}
  /\ EventQueue' = Keep(ObjectList, {e \in Range(ObjectList) : Due(e)})
  /\ ObjectList' = Keep(ObjectList, {e \in Range(ObjectList) : Waits(e)})
  /\ NextTriggerTick' = IF ObjectList' = <<>> THEN NextTriggerTick
                        ELSE Min({e.expires : e \in Range(ObjectList')})
  /\ at' = "fire"
  /\ UNCHANGED <<now, TerminateFlag, CurrentTick, firing, sleep, history>>

(* Is the item to be fired in the remove list?  The code looks for the     *)
(* pointer to the timer.                                                   *)
Removed(timer) == timer \in Reserved

Fire ==
  /\ at = "fire" /\ EventQueue # <<>>
  /\ LET timer == Head(EventQueue) IN
       /\ Reserved' = Reserved \ {timer}
       /\ IF Removed(timer)
          THEN /\ destroyed' = destroyed \union {timer.id}
               /\ UNCHANGED <<at, firing, fired>>
          ELSE /\ fired' = fired \union {timer.id}
               /\ at' = "callback" /\ firing' = <<timer>>
               /\ UNCHANGED destroyed
  /\ EventQueue' = Tail(EventQueue)
  /\ UNCHANGED <<now, ObjectList, NextTriggerTick, TerminateFlag, CurrentTick,
                 sleep, added, cancelled>>

Return ==
  /\ at = "callback"
  /\ at' = "fire" /\ firing' = <<>>
  /\ UNCHANGED <<now, lists, TerminateFlag, CurrentTick, EventQueue, sleep, history>>

EndCheck ==
  /\ at = "fire" /\ EventQueue = <<>>
  /\ blocktime' =
       IF NextTriggerTick # -1 /\ MaxWait > NextTriggerTick - CurrentTick
       THEN Max({NextTriggerTick - CurrentTick, MinWait}) ELSE MaxWait
  /\ slept' = now /\ at' = "select"
  /\ UNCHANGED <<now, lists, TerminateFlag, CurrentTick, EventQueue, firing,
                 unblocked, history>>

-----------------------------------------------------------------------------
SelectReturns ==
  /\ at = "select"
  /\ at' = "sockets" /\ unblocked' = FALSE
  /\ UNCHANGED <<now, lists, TerminateFlag, CurrentTick, EventQueue, firing,
                 blocktime, slept, history>>

(* The pipe or the blocktime ends the sleep; a socket may end it sooner. *)
Wake == (unblocked \/ now >= slept + blocktime) /\ SelectReturns
SocketReady == SelectReturns

NextTurn ==
  /\ at = "sockets"
  /\ at' = "check"
  /\ blocktime' = MaxWait /\ slept' = 0 /\ CurrentTick' = 0
  /\ UNCHANGED <<now, lists, TerminateFlag, EventQueue, firing, unblocked, history>>

(* The chain ends: the base timer is destroyed, ILibLifeTime_Flush. *)
Flush ==
  /\ at = "check" /\ TerminateFlag
  /\ at' = "stopped"
  /\ ObjectList' = <<>>
  /\ destroyed' = destroyed \union Ids(ObjectList)
  /\ UNCHANGED <<now, NextTriggerTick, Reserved, TerminateFlag, CurrentTick,
                 EventQueue, firing, sleep, added, fired, cancelled>>

Sleeping == at = "select" /\ ~unblocked /\ now < slept + blocktime

Clock ==
  /\ now < MaxTime \/ (Sleeping /\ ObjectList # <<>>)
  /\ now' = now + 1
  /\ UNCHANGED <<lists, chain, sleep, history>>

ChainStep == \/ SkipCheck \/ BeginCheck \/ Scan \/ Fire \/ Return \/ EndCheck
             \/ Wake \/ NextTurn \/ Flush

Next == \/ \E data \in Data, ms \in Delays : AddEx(data, ms)
        \/ \E data \in Data : RemoveData(data)
        \/ Stop \/ ChainStep \/ SocketReady \/ Clock

Spec == Init /\ [][Next]_vars

(* The chain thread runs and its callbacks return; time passes, however    *)
(* often a socket ends the sleep.                                          *)
FairSpec == Spec /\ WF_vars(ChainStep) /\ SF_vars(Clock)

-----------------------------------------------------------------------------
(* TYPE: the variables keep the shape of struct ILibLifeTime. *)
TypeOK ==
  /\ now \in Nat /\ CurrentTick \in Nat /\ slept \in Nat /\ blocktime \in Nat
  /\ ObjectList \in Seq(Timer) /\ EventQueue \in Seq(Timer) /\ firing \in Seq(Timer)
  /\ NextTriggerTick \in Nat \union {-1} /\ Reserved \subseteq Data
  /\ TerminateFlag \in BOOLEAN /\ unblocked \in BOOLEAN
  /\ at \in {"check", "scan", "fire", "callback", "select", "sockets", "stopped"}
  /\ added \in 0..MaxAdds
  /\ fired \subseteq 1..added /\ destroyed \subseteq 1..added /\ cancelled \subseteq 1..added

(* Every timer added waits, is in the batch, or has ended in exactly one   *)
(* of its two callbacks, which free its data: none is lost, none ends      *)
(* twice, whichever thread adds and removes and when the chain stops.      *)
EndsOnce ==
  LET waiting == Ids(ObjectList \o EventQueue) IN
  /\ Cardinality(waiting) = Len(ObjectList) + Len(EventQueue)
  /\ waiting \union fired \union destroyed = 1..added
  /\ waiting \intersect (fired \union destroyed) = {}
  /\ fired \intersect destroyed = {}
  /\ at = "stopped" => waiting = {}

(* The shortcut of Check hides no timer: none expires before               *)
(* NextTriggerTick, whatever another thread adds or removes around it.     *)
TriggerCovers == \A e \in Range(ObjectList) : NextTriggerTick <= e.expires

(* "Registers a timed callback with millisecond granularity": the chain    *)
(* does not go to sleep beyond the expiration of a timer that waits, a     *)
(* second apart, unless the pipe is about to wake it.                      *)
SleepsInTime ==
  [][at # "select" /\ at' = "select" /\ ~unblocked =>
       \A e \in Range(ObjectList) :
         CurrentTick' + blocktime' <= Max({e.expires, CurrentTick' + MinWait})]_vars

(* "If it is [in the remove list], that means we shouldn't fire this item  *)
(* anymore": a timer removed before its callback started is never fired.   *)
RemovedNotFired == cancelled \intersect fired = {}

(* LIVENESS: every timer ends, fired, removed or flushed. *)
EveryTimerEnds == \A i \in 1..MaxAdds : added >= i ~> i \in fired \union destroyed
=============================================================================
