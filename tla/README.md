# Specifications of the iWebRTC Microstack

iWebRTC is a WebRTC data channel stack in C: STUN and ICE, DTLS over OpenSSL,
SCTP with its streams, a TURN client, and the "Microstack" they run on, one
event loop ("the chain") per process with its sockets and timers. A C# binding
and two samples sit on top. This directory holds TLA+ models of the parts
where its own logic lies, TLC configurations that check them, and TLAPS proofs.

Paths below are relative to `src/WebRTC C Sample/Microstack/`.
`PROJECT.json` lists components, runs, mutations, the source lines behind every
definition, findings, hazards and theorems.

## The system

| part | code | state | interacts with |
|---|---|---|---|
| chain and life timers | `ILibParsers.c` | list of links, termination flag, wake-up pipe; timers by expiration, batch under way | every component's timeouts and socket handlers run on its thread |
| SCTP sender | `ILibWebRTC.c` | pending and holding queue, two windows, slow start, fast recovery, T3 | called by user threads; driven by SACKs and the heartbeat timer; `OnSendOK` to the application |
| SCTP receiver | `ILibWebRTC.c` | `intsn`, `userTSN`, receive hold buffer, pause flag, answer packet | DATA chunks from the chain; `Pause`/`Resume` from the application; gives chunks to it without the Lock |
| SCTP handshake, RECONFIG | `ILibWebRTC.c` | session `state`, tags, request counters, one pending RECONFIG | retries through life timers |
| data channels | `ILibWebRTC.c`, `ILibWrapperWebRTC.c` | sparse arrays of stream attributes, accumulators | DCEP messages in SCTP, closes through RECONFIG |
| DTLS session | `ILibWebRTC.c` | ten session slots, BIOs, the Lock | created by ICE, torn down by timeouts, aborts and any thread |
| STUN, ICE, consent freshness | `ILibWebRTC.c` | ICE state slots, candidates, periodic checks, freshness time | UDP or TURN below, DTLS above |
| TURN client | `ILibWebRTC.c` | allocation, permissions, channels over TCP | `ILibAsyncSocket` |
| sockets | `ILibAsyncSocket.c`, `ILibAsyncServerSocket.c`, `ILibAsyncUDPSocket.c` | pending sends, pause, slots | the chain, user threads |
| HTTP | `ILibWebClient.c`, `ILibWebServer.c` | request queues, idle connections, sessions | sockets, parsers |
| the rest | parsers, digests, logging, process pipes, samples, C# | | pure functions, examples, bindings |

**What is hard in it.** The chain thread holds a session's Lock through an
inbound packet but gives it back around each application callback, in the
middle of loops over queues that another thread, or the callback itself, may
change. Timers carry pointers to sessions that another thread takes down.
Datagrams are lost and overtake each other in both directions. Buffers and
windows run full. Several paths rely on a retry that some other path schedules.

**What makes each part correct.** Timers: each ends once, in time, in order;
none fires after its removal. Sender: windows are neither overrun nor leaked,
no packet leaves its order, what is held back is sent in the end, and an
application told to wait is told to go on. Receiver: everything once and in
order, no SACK for what did not arrive or was thrown away, an exact account of
the buffer. Association: a reliable ordered stream. Lifecycle: a slot and its
timers end together, exactly once. Channels: one close per channel, known to
both sides. ICE: one session per slot, consent lost means closed. TURN and
sockets: replies find their request, `OnSendOK` follows each refusal.

## Modules

`SctpSender` *(open system; sender of one session).* One variable per field of
`struct ILibStun_dTlsSession`, named as there. `at` says which handler holds
the Lock; a handler advances one packet per action and no other starts before
it ends. `SendEx`, `HoldFragment` and `SendFragment` are `ILibSCTP_SendEx` with
its calls; `ReceiveSack` ... `EndSack` the SACK chunk part by part;
`CallOnSendOK`/`ReturnOnSendOK` its callback without the Lock; `OnTimeout...`,
`ResendOne`, `EndResend` are `ILibStun_SctpOnTimeout` and `ILibStun_SctpResent`.
The peer may send any SACK for TSNs that were sent, and take gap reports back.

`SctpReceiver` *(open system; receiver of one session).* The DATA chunk of
`ILibStun_ProcessSctpPacket` (`ReceivePacket` ... `EndPacket`), the SACK it
builds (`Sack`, with its 16 bit offsets and its double count), `Pause`, and
`Resume` in the steps between which it gives the Lock back. Two processes: the
chain thread (`at`) and the caller of Resume (`rAt`). `heap` becomes
"corrupt", and both processes stop, once a payload already freed is used:
what follows in the program is undefined. `Charge` is what a
chunk counts for in the hold buffer: `payload->length` in network byte order,
so a different number from its length.

`SctpAssociation` composes them: it EXTENDS the sender and INSTANCEs the
receiver as `Peer`, with the datagrams between them in two sets, delivered in
any order or lost. It implements `OrderedStream`, the
abstract promise, under `written <- 1..outtsn-1`, `read <- delivered`, for a
peer whose application calls neither Pause nor Resume (see `InOrder` under
Findings for what happens when it does).

`LifeTime` is the timer list of `ILibParsers.c` with the turns of the chain
around it. `AddEx` and `RemoveData` may come at any step if `OtherThreads`,
otherwise in a callback or a socket handler. `BeginCheck`, `Scan`, `Fire`,
`Return`, `EndCheck` are the parts of `ILibLifeTime_Check` between which the
locks are free.

`Session` *(the sessions of one slot of `dTlsSessions`, one after the other).*
`CreateDtlsSession`, `HandshakeDone`, `SctpEstablished`, `Data`, `Heartbeat`,
`PeerCloses` and `Consent` are what packets do; `Check` and the `Fire...` actions are the
chain's timers, with the object of each told apart as in the code (`o` and
`o + 5` here, `o + 1` for both kinds of consent freshness). `Continue` and
`Finish` are `ILibStun_SctpDisconnect_Continue` before and after its callback.
The callbacks of a close that is given up or answered, one stream each, as the
wrapper closes them, run without the Lock too ("gaveup", "channel").
Callbacks run on `stack`, may close the session themselves and return in
`CallbackReturns`; another thread calls in between any two steps (`UserCalls`,
`UserRuns`). A session pointer is a number; using one that is not in the slot
any more makes `heap` "corrupt" and everything stops. `leftover` notes what
still referred to a session when it was freed; of the timers those that stay in
the batch count, the one that fires does not. `Consent` assumes of the peer
that it answers probes only, with its signature; the code renews the consent on
any answer that names the slot, and looks at a signature only where there is
one (1680-1690, 1945-1955).

`IceSlots` *(the tables `IceStates` and `dTlsSessions`).* Both are partial
functions from slots. The wrapper's connections go through `GenerateOffer`,
`SetAnswer`, `SetOffer`, `Disconnect`, `DestroyConnection`; peers send
`Request`, `Response` and, in `OnUDP`, the first packets of a session; timers
run `PeriodicStunCheck`, `FinalizeConnectivityChecks` and age the offers;
TURN's `PermissionAnswered` comes whenever it likes. The offers of connections
outside the model move `IceStatesNextSlot` (`PassingBy`). A slot number travels in user names, transactions and
TURN's user pointers; `own`, `permits` and `theirs` hold those. `apart` notes
when an offer replaced or cleared what was not its own, after which that
behaviour is not followed further. A letter in a peer's offer that names no slot
makes `Disconnect` write past the table (`ILibWebRTC.c:1137`, called at 548 of
the wrapper): `heap` is "corrupt" then. That a peer talks DTLS only once it has
an offer or answer of ours (`talks`) is assumed of it. `DestroyConnection` of a
connection that has a session closes that, and comes to `End`.

`DataChannels` *(the channels of one session, both tables).* The attributes of
the streams are under the session's Lock, the wrapper's objects under the lock of
their table, and the code never holds both, so each is written in a step of its
own. `Create`, `OpenDataChannel` and `SendOpen` are the three parts of
`ILibWrapper_WebRTC_DataChannel_CreateEx` on an application thread. On the chain
thread, `Forget` takes the attributes, in the handler of a reset, a response or
the last retry, and `OnDataChannelClosed` the object; `ProcessStreamData` handles
a DCEP or user message, `OnDataChannel` enters the object of a channel the peer
opens, and `EndMessage` sends the acknowledgement and takes up a deferred reset.
`chain` says which callback the chain thread is in, `creating` how far the call
that creates a channel has come. `ResetNow`, `Defer`, `ResetOutgoing` and
`Respond` are the RECONFIG parameters; the answer to a reset waits for the
callback (`SendAnswer`). User data is in order, RECONFIG chunks are lost and
reordered. The peer follows RFC 6525 and RFC 8831. Only the peer that sends INIT
tells its features, so `supported` may be FALSE of one that knows RECONFIG: a
close then leaves a chunk that nothing was written to, "unwritten", and a
response that matches it reads that memory, after which nothing is followed.

Assumed: operations of a sparse array are atomic (`OpenDataChannel` changes the
attributes without the Lock); one channel is created at a time; the application
does not use an object that was removed or replaced; neither Pause nor Resume is
called (with them `userTSN` runs ahead of what was delivered, 4395); a close
names one stream, as the wrapper's do.

`AsyncSocket` *(one `ILibAsyncSocket` through several connections).* The chain
thread goes through Check, PreSelect, select and the branches of PostSelect
(`at`); `SendLater`, `SendNow`, `SendFails` may come between any two of its
steps, since that is where the SendLock is free. Resume does not take that lock:
it tests `PAUSE` in one step (`Resume`) and writes it in a later one
(`ResumeWrites`), one caller at a time. `Receive`, `OnData`
and `Finish` are `ILibProcessAsyncSocket` with its buffer pointers, and the
bytes are numbered, so that the model knows which the application was given.
Queues hold bytes tagged with the connection they were sent on.

How they meet: `Session` and `IceSlots` share the moment a session is created
and ends. `IceSlots` has many slots and no timers of sessions, `Session` one
slot and all its timers; a session's `ice` stands for the entry of `IceStates`.
`DataChannels` is what happens while `Session` is "connected", and its user
data is the promise of `SctpAssociation`.

`Keeping` holds `Keep` and `KeepCount`, the selection of a sequence's elements as
a recursive function: `SelectSeq` is defined with a LET that no prover opens.
`DataLemmas` proves what the models do with data (below). `...Proofs` holds the
theorems about the module it is named after.

Definitions commented *(Fault: ...)* are deliberate mistakes no specification
uses; each mutation of `PROJECT.json` puts one in the place of the definition
after it, to show that a property notices.

## Runs

| run | configuration | shows |
|---|---|---|
| `sender` | MTU 3, header 1, windows 3 and 4, TSNs to 4, five gap lists | `TypeOK`, `WindowConserved`, `ConsecutiveTsns`, `NoStall`, `WindowFloors`, `SendOKComes` |
| `receiver` | TSNs to 4, the first two alone or in one packet, capacity 3, uneven charges, Pause and Resume in callbacks and on another thread | `TypeOK`, `NoneLost`, `AccountingExact`, `AckedArrived` |
| `timers` | two objects, three timers, two threads, fairness | `TypeOK`, `EndsOnce`, `TriggerCovers`, `SleepsInTime`, `EveryTimerEnds` |
| `association` | TSNs to 4, a loss, reordering, T3 at any tick | `GapAckedArrived`, `StreamSpec` |
| `association_live` | TSNs to 4, a loss, reordering, fairness | `EverythingAcknowledged` |
| `session` | two sessions in one slot, both roles, TURN or not, two queued closes, fairness | `TypeOK`, `CorruptOnlyByLeftover`, `ConsentLost`, `EndIsTold`, `CloseCompletes` |
| `ice_slots` | two connections to one peer, two slots, two addresses, two offers set | `TypeOK`, `LinkKept`, `AnswerAwaited`, `ChecksEnd`, `NoSteal` |
| `data_channels` | a stream of each side, two channels, one message, two resets of the peer, one RECONFIG in flight each way, fairness | `TypeOK`, `RetryArmed`, `OpenHasObject`, `ResetAfterData`, `DeferredServed`, `CloseEnds` |
| `async_socket` | two connections, two sends of two bytes, four bytes received on the second, fairness | `TypeOK`, `OneEnd`, `NothingSkipped`, `InStream`, `SendOKComes`, `Served` |
| `association_kept` | TSNs to 4, a loss, capacity 3 | violation, see Findings |
| `channels_aware` | as `data_channels` | violation, see Findings |
| `socket_leftover` | as `async_socket` | violation, see Findings |

**Bounds, and why they are enough.** In `sender` one message fills more than
half of a window, so holding, flushing, both windows as the limit, merged
answers, fast recovery with and without room, T3 with one packet resent and one
marked, and reneging all occur with four TSNs; `FastRetryGap` 2 (3 in the code)
reaches loss in two SACKs, and `MaxCredits` caps what a reneging peer credits.
Four chunks are what the receiver needs: two holes, a hold buffer that overflows
(capacity 3, the chunks charged 5) and drops a chunk that later ones follow, and chunks that Resume gave out beyond
`intsn` and that come again behind a held one, where `userTSN` goes back or
jumps; five deliveries let one chunk be given twice. In `association` four TSNs
let the window grow, so that one chunk overtakes two, and let one chunk wait in
the holding queue; with a transport that blocks it holds too (5.6 million
states). Three timers make a batch of two with one waiting; a delay is none or
longer than the least sleep.

In `session` the second session is what a pointer to the first may meet; two
closes are one more than a session needs; a freshness time of two ticks with
probes of one lets probes be answered, lost and overtaken by the limit. In
`ice_slots` two slots and two connections make every reuse a contest, and both
connections share an address, so packets may be for either; `c1` may use TURN.
In `data_channels` the second channel is the one that follows the first on its
stream; one message written makes data that a reset overtakes; two requests of
the peer are one deferred and one repeated. With one chunk in flight each way
both loss and overtaking of the data occur, but not two RECONFIG chunks
overtaking each other. In `async_socket` sends of two bytes against a kernel
that takes two are taken whole, in part or not at all; a receive buffer of
three bytes grows by one and is moved, and four bytes go once around it; the
peer writes on the second connection only, where the buffer has been used
before. Only the web server sets a maximum size, which is why that is tied to
`kind`. Deadlock is not checked: every model stops at its bounds, and the
system rests when nobody sends.

**Fairness.** Weak fairness of the steps inside handlers: the threads run and
application callbacks return. Strong fairness of each packet's and each SACK's
arrival: what is sent again and again arrives (losses are bounded). Timers:
`ILibStun_SctpOnTimeout` schedules itself, so a T3 timer that keeps running is
found expired; `SlowTimer` states that a tick comes when nothing is under way
and that the peer answers the heartbeats sent from half the give-up time on,
which the growing interval (100 + 200 n ms, against round trips) allows.
`EverythingAcknowledged` is about acknowledgement: after a reordering the peer's
application may still have to call Resume to see the chunks, or never see one
(`association_kept`). For that reason no liveness is claimed of the receiver.

`Session`: the chain thread takes its turns and callbacks return; nothing is
assumed of the peer or of the passing of time. `CloseCompletes` ends with an
undefined behaviour or the end of the chain as other outcomes.
`DataChannels`: the timer of the chain fires, and callbacks return. Nothing is
assumed of the delivery of user data, which may stop for good when the chunk that
fills a gap is buffered (`NothingStuck` under Findings): that a deferred reset is
taken up is therefore the invariant `DeferredServed`, about what was delivered.
RECONFIG chunks may all be lost; `CloseEnds` then rests on the last retry.
`AsyncSocket`: the chain thread runs, a connection attempt is accepted or
refused (the kernel's own timeout), and a peer that stays up reads.

**SACKs out of order.** A SACK older than another one makes the walk over the
gap blocks count a packet as received or missing against the newer report, and
the T3 timer may be off until the next SACK although a packet is unreported.
`GapAckedArrived` shows, and is proved, that no such SACK marks what did not
arrive; `association_live` shows that acknowledgement still comes.

**Timers and sleep.** `SleepsInTime` speaks of the timers that are in the list
when the chain goes to sleep. One that another thread adds ahead of the list
while it sleeps does not wake it: `ILibParsers.c:4931` compares a list node
with a timer.

**What is freed too early.** `CorruptOnlyByLeftover` is the strongest statement
of this kind that holds of `Session`. Each of the kinds of `leftover` is
reached: a timer of the batch under way, a second queued disconnect, a call of
another thread with the pointer it was given, the data channel callbacks (2910,
2973, 3577), after which the session is not looked up, an outstanding channel
binding, and an ICE state that the wrapper cleared.

## Proofs

Every safety property that a passing run checks is a theorem, and so is the
refinement of `OrderedStream`.

`SctpProofs` proves for all values of the constants of `SctpSender`,
hence for any message sizes, MTU, windows, gap lists and peer:

- `TypeCorrect` Spec => []TypeOK
- `WindowTheorem` Spec => []WindowConserved
- `ConsecutiveTheorem` Spec => []ConsecutiveTsns
- `FloorsTheorem` Spec => []WindowFloors
- `NoStallTheorem` Spec => []NoStall
- `SendOKTheorem` TransportBlocks = FALSE => (Spec => []SendOKComes)

The assumptions are `SizesAssumption`, `CountsAssumption` and
`GapListsAssumption` of the module, which TLC evaluates: among them that a full
fragment and its headers fit in an MTU (1232 + 28 against 1400) and that the
peer's window takes one fragment. The argument: `TypeOK`, `WindowConserved`,
`ConsecutiveTsns` and `WindowFloors` are each inductive given the ones before
it. `NoStall` is not: that the holding queue drains when the pending queue
does follows from full credits, and full credits from the bytes of an empty
pending queue being zero. `IInv` therefore adds `BytesInv` (the sizes of the
pending packets add up to `pendingByteCount`, said with a witness of partial
sums since a recursive sum would need induction) and `StallInv` (with nothing
pending there is room for an MTU, and nothing is held once the SACK is done).
`SendOKInv` follows a promised call through the flush. Without the condition on
`TransportBlocks` the statement is wrong: a packet dropped at
`ILibWebRTC.c:2627` answers INCOMPLETE though nothing is held, as the ToDo on
the next line says.

Of `SctpAssociation`, from these and `LossAssumption`, hence for any hold buffer
and any losses too, it proves

- `GapAckedTheorem` SpecAssociation => []GapAckedArrived
- `StreamTheorem` SpecAssociation => StreamSpec

`LossAssumption` bounds the TSNs of a behaviour by 65536, what the 16 bits of a
gap offset can tell apart; of longer associations nothing is claimed, and with
small chunks a window can hold more than that. `AssociationInv` joins the sender's `TypeOK` and
`ConsecutiveTsns` to `SentInv` and `PeerInv`. `SentInv` says that what is on the
wire or has arrived was numbered, that the gap blocks under examination report
only what arrived, and that the marks are true; hence a SACK may come late, since
what has arrived stays so. `PeerInv` is what `SctpReceiverProofs` has of the
receiver, through an instance of that module (`PP`), whose assumption is itself
a lemma here. For the refinement, a step of the sender that numbers a chunk is
Write, and every other one leaves the stream alone; a step of the peer is Read if
it gives a chunk to the application, which then is the next one: never paused,
the receiver keeps `userTSN` no further than `intsn`, holds nothing at or
below it, and gives chunks from 1 on without a gap (`OrderInv`). That this
chunk was written follows from what has arrived being numbered.

`SctpReceiverProofs` proves, from `ReceiverAssumption` alone, hence for any
packets, lengths, charges, capacity, and with or without a second thread:

- `AckedArrivedTheorem` Spec => []AckedArrived
- `NoneLostTheorem` Spec => []NoneLost
- `TypeTheorem` Spec => []TypeOK
- `AccountingTheorem` Spec => []AccountingExact

`AckedArrived` is not inductive: a SACK is made from `intsn`, which moves over
the hold buffer. `ArrivedInv` adds that the chunks in hand, the ones held and
all up to `intsn` have arrived, and that a chunk is in hand while its
application call runs. For the gap blocks, `GapsInv` adds the SACK in the making.
Their offsets count from `intsn` modulo 2^16 while held chunks may lie at or below
it: one that wraps points beyond all TSNs there are (`OffsetIs`), and a block
that does not wrap covers held chunks only (`BlockReports`).
`NoneLost` needs `KeptInv`: what an application call is
running for has been given, so that taking it out of the buffer loses nothing.
`userTSN` then only ever moves over chunks that are known, thanks to the test
at `ILibWebRTC.c:4272`. That `MinIsLeast` and `ForwardHeld` describe what the two
CHOOSE operators return rests on the well-foundedness of `<` on Nat.
`AccountingExact` needs to know which chunk of the two processes is still in
the buffer while its callback runs (`Held`), since each takes out its own and
pays back its charge (`Balanced`).

`LifeTimeProofs`, from `LifeTimeAssumption`, for any number of objects, timers,
delays and calls of other threads:

- `TypeTheorem` Spec => []TypeOK
- `EndsOnceTheorem` Spec => []EndsOnce
- `TriggerCoversTheorem` Spec => []TriggerCovers
- `SleepsInTimeTheorem` Spec => SleepsInTime

`Placed` says that a timer that was added is in exactly one place: in the list,
in the batch, fired, or destroyed. `Triggered` adds to `TriggerCovers` that
the trigger is unknown while Check scans, and that while a batch fires with the
trigger unknown, whoever added a timer meanwhile has woken the chain.

`SessionProofs`, from `SessionAssumption`, for any number of sessions, queued
closes, calls, and any lengths of the timers:

- `TypeTheorem` Spec => []TypeOK
- `LeftoverTheorem` Spec => []CorruptOnlyByLeftover
- `ConsentTheorem` Spec => []ConsentLost
- `EndTheorem` Spec => EndIsTold

`SessionInv` has three parts on top of the types. `Slots`: what the application
was told agrees with the state and with the callback that runs, and the callback
that tells the end is on the stack once at most. `Referred`: as long as nothing
was left over, every timer, channel binding, callback and call of another thread
points at the session in the slot. That is the claim behind
`CorruptOnlyByLeftover`, and it needs one step per way a pointer is kept.
`Watched`: while a session is up there is exactly one consent timer, and its
time left, the time since the last consent and the age of the probe add up to
less than the bound; the bound in `ConsentLost` comes out of that sum.

`IceSlotsProofs`, from `IceAssumption`, for any number of slots, connections and
candidates:

- `TypeTheorem` Spec => []TypeOK
- `LinkTheorem` Spec => []LinkKept
- `AnswerTheorem` Spec => []AnswerAwaited
- `ChecksTheorem` Spec => []ChecksEnd
- `NoStealTheorem` Spec => NoSteal

`IceInv` adds to the properties the way back (`LinkBack`: the session that an
answered offer names is in the table and has that slot), that an offer is
`Sound` (attached to no session that could end until it is answered, the addresses
allowed being candidates of its connection), and the types of both tables. The links hold
until `apart` says otherwise, as in `LinkKept`; the rest always.

`DataChannelsProofs` proves, from `ChannelAssumption`, for any number of
channels, streams, messages, closes, repetitions and chunks in flight:

- `TypeTheorem` Spec => []TypeOK
- `RetryArmedTheorem` Spec => []RetryArmed
- `OpenHasObjectTheorem` Spec => []OpenHasObject
- `ResetAfterDataTheorem` Spec => []ResetAfterData
- `DeferredServedTheorem` Spec => []DeferredServed

`OpenHasObject` says what separate locks leave: an open channel has its own
object, or is in the step that gives it one, or its stream is being taken by the
next channel, or the close of another channel took the object (`taken`). It
follows from `Tables`, which adds what holds in the middle of each call: what a
close told to the wrapper is about has no attributes any more (`ClosesHeld`), the
channel that is being created has its object or lost it (`CreatesHeld`), a stream
of the peer has no object left over (`TheirsHeld`, `OpeningHeld`). Under it lie
`ObjectInv` (the shapes of the variables, and that open messages name streams of
the side that sends them; `RetryArmed` is a part of it), and `Aims` (what is
pending, and what the peer resets, are streams there are).
`DeferredServed` is inductive given the types: a request is deferred only while
something is missing, and `userTSN` moves only where what is due is taken up
before the message ends. `ResetAfterData` follows`ResetAfterData` follows from `ResetInv`, which says why a
reset that overtakes data cannot be taken for a later one: a channel is
mentioned only once it was opened, and on one stream only; one whose open
message is unheard is unknown to everything else; the TSN in a request bounds
all data of the channels it names; and the peer writes no more to a channel it
asked to reset or was told is. Most steps bring up no new channel and ask for
nothing; the lemma `Quiet` covers those. `TypeOK` rests on both: `Ends` (a TSN
that the peer names is not beyond what it wrote), `Waits` (what is pending is
about a channel that was opened), `Names` and `Counts`.

`AsyncSocketProofs` proves, from `SizesAssumption`, for any number of
connections, sizes and sends:

- `OneEndTheorem` Spec => []OneEnd
- `TypeTheorem` Spec => []TypeOK
- `InStreamTheorem` Spec => []InStream
- `NothingSkippedTheorem` Spec => []NothingSkipped

`LifeInv` adds to `OneEnd` where the chain stands: every connection but the open
one is over; the open one has been told up exactly when `FinConnect` says so;
and in the middle of PostSelect the socket is open, since only the chain thread
closes it. Under `ForeignSpec` that last part fails, and the property with it
(see Findings). `BufferInv` follows the two pointers of the receive buffer
through its growth and its moves and says which bytes of the peer are between
them, from which `InStream` follows. `StreamInv` says that what was sent, then
the queue, is what Send took on, for each connection alone: the bytes of one
connection are kept (`Keep`) out of a queue that may hold two connections' bytes.

`DataLemmas` proves the facts about data that these proofs share. Induction over
Nat is stated for sets (a set of numbers that holds 0 and successors is Nat), as
no installed prover can use a theorem with an operator for a parameter; from it
follow what `Keep` returns and how it meets concatenation, heads, tails and
insertion, sums of a function over a finite set, distinct elements counted by
Cardinality, and prefixes.

Only model-checked: all liveness, since TLAPS does not reach ENABLED, `SendOKComes`
of `AsyncSocket` among it: `EveryTimerEnds`, `EverythingAcknowledged`,
`CloseCompletes`, `CloseEnds`, `Served`.

## Findings

Each of the three is a run that TLC ends with a counterexample, against what a
comment says.

1. `association_kept`: a full hold buffer drops a chunk that `intsn` already
   counts, the next SACK acknowledges it and the sender lets it go ("we need to
   buffer this packet", `ILibWebRTC.c:4274`).
2. `channels_aware`: a response is matched with the number of the last request,
   whatever that was for (`ILibWebRTC.c:3687`). Answers to the peer's resets use
   up numbers too, so the response to one of those ends a close of which the
   peer never heard ("Both sides of the connection are aware", 3689).
3. `socket_leftover`: `ILibAsyncSocket_PrivateShutdown` leaves the queue of a
   connection that failed, and the next connection on the socket sends it
   ("Since the socket is closing, we need to clear the data that is pending to
   be sent", `ILibAsyncSocket.c:661`).

More of the kind are stated in the modules without a run of their own. Naming
them in the configuration given makes TLC show them:

- `InOrder` (`MCSctpReceiver.cfg`): Resume gives out held chunks beyond `intsn`,
  which the scan for the next TSN left behind; they stay unacknowledged and are
  given out again when they are retransmitted (`ILibWebRTC.c:2887`). The chunk
  given twice carries `userTSN` over held ones (4281), so with five TSNs and six
  deliveries a chunk also overtakes one that is held, without a second thread:
  Pause, 3, 1, 2, Resume, 4, 3 again with a Pause in its callback, Resume, 5.
  That is why `NoneLost` claims no order. With a thread of its own calling
  Resume, two chunks may come in either order.
- `NothingStuck` (`MCSctpReceiver.cfg` with `MayPause = FALSE` and
  `UserResume = FALSE`): the chunk that fills a gap moves `intsn` over the held
  ones and is then itself buffered; no delivery until the application calls
  Resume (`ILibWebRTC.c:4272`, 4298).
- `RemovedNotFired` (`MCLifeTime.cfg`): `ILibLifeTime_Remove` leaves the data
  pointer, Check looks for the timer's (`ILibParsers.c:5011`).
- `EverythingAcknowledged` with `HeartbeatTimer = FALSE`
  (`MCSctpAssociationLive.cfg`): the side that initiates DTLS never starts
  `ILibStun_SctpOnTimeout` (`ILibWebRTC.c:2627`).
- `TakesOwnObject` (`MCDataChannels.cfg`): `ILibWrapper_GetNextStreamId` always
  answers with the first id of its side ("using the next available Stream ID",
  `ILibWrapperWebRTC.h:98`; the loop at `ILibWrapperWebRTC.c:154-159`). A channel
  created while the one before it on the stream is being closed loses its object
  to that close (650), may have been used after that, and is open without one
  once the peer acknowledges it (`ILibWebRTC.c:2901-2905`).
- `ClearsOwn` (`MCIceSlots.cfg`): a connection given up clears the slot that the
  user name of the *peer's* offer happens to spell, on our side
  (`ILibWrapperWebRTC.c:487`, 548).
- `OneEnd` under `ForeignSpec` (`MCAsyncSocket.cfg`): a disconnect of another
  thread tells the end after it gave up the SendLock, so a connection accepted
  meanwhile on the slot hears it (`ILibAsyncSocket.c:664-683`).

Read in the code, without a model: an ALREADY_PENDING or NOT_SUPPORTED close is not reported by
the wrapper (996), and the latter keeps `pendingReconfigPacket` for good
(`ILibWebRTC.c:4558`); `ILibTURN_GetStunPacketLength` answers 0 for a complete
packet (5688); an own offer has `dtlsSession` 0 and so never ages out (2231,
against 1122); `ILibLifeTime_Remove` and `_Check` take their two locks in
opposite orders (`ILibParsers.c:5084`, 4983); OnSendOK is called without a check
for NULL (`ILibAsyncSocket.c:1719`).

## Not modelled

In the modelled parts: TSN wrap-around, round trip estimation, stream numbers
and reassembly, unordered streams, the cap on encoded gap blocks, the debug
hooks (`_WEBRTCDEBUG`), memory exhaustion (the program exits). Of the sessions:
the contents of BIOs and packets, the INIT/COOKIE retries, answers to probes that
nobody sent or signed. Of ICE: STUN attributes, integrity, the discovery of the
public address. Of the channels: closes of several streams, two threads creating
channels at once. Of the sockets:
TLS, proxies, datagrams; a socket connected again from inside its own callback;
descriptors that the operating system reuses while `select` still names them;
buffers of length zero; a `connect` that fails at once (taken for one in
progress). Whole parts: see `components` in `PROJECT.json` with the reasons.

The largest files of the repository that no module maps are OpenSSL's headers
and libraries, HTTP client, server and parsers, digests, bindings and samples.
Those are third-party, formatting, or wrappers, which is why the modelled lines
are a small share of all lines although they are the core of `ILibWebRTC.c`,
`ILibAsyncSocket.c`, and of the timers in `ILibParsers.c`.

## Plan

1. `SctpSender`, `SctpReceiver`, `LifeTime`, `Session`, `IceSlots`,
   `DataChannels`, `AsyncSocket` (done), each with its proofs (done): every
   safety property a passing run checks of them is a theorem.
2. `SctpAssociation` implementing `OrderedStream` (done, and proved).
3. Left: the pool of `ILibAsyncServerSocket`, `ILibWebClient`, the TURN
   client's allocation, the INIT/COOKIE exchange with its retries, TSNs of a
   small width.
