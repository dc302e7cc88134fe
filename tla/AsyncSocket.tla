---------------------------- MODULE AsyncSocket ----------------------------
(***************************************************************************)
(* One ILibAsyncSocket: a TCP socket that is connected, used, lost and     *)
(* connected again, either by ConnectTo or by the accept loop of           *)
(* ILibAsyncServerSocket.  The chain thread runs Check, PreSelect, select  *)
(* and PostSelect; any thread may send and resume between the steps that   *)
(* hold the SendLock.  TLS, the proxy and the datagram use of the module   *)
(* are left out.                                                           *)
(***************************************************************************)
EXTENDS Integers, Sequences, SequencesExt, Keeping

CONSTANTS
    MaxConns,   \* bound: connections made on the one socket module
    MaxSends,   \* bound: calls of ILibAsyncSocket_Send
    Sizes,      \* lengths of the buffers sent, in bytes
    MaxBytes,   \* bound: bytes the peer writes on one connection
    Talkers,    \* bound: the connections on which the peer writes
    Room,       \* what the kernel buffers of unacknowledged output
    Initial,    \* InitialSize of the receive buffer
    Slack,      \* the free space below which the buffer is grown (1024)
    Chunk,      \* MEMORYCHUNKSIZE
    MaxBuffer   \* the limit of the receive buffer that the web server sets

ASSUME SizesAssumption ==
    /\ MaxConns \in Nat \ {0} /\ Room \in Nat \ {0}
    /\ {Initial, Slack, Chunk} \subseteq Nat \ {0} /\ Slack <= Initial
    /\ {MaxSends, MaxBytes, MaxBuffer} \subseteq Nat
    /\ Sizes \subseteq Nat \ {0} /\ Talkers \subseteq 1 .. MaxConns

VARIABLES
    kind,     \* "client" (ConnectTo) or "server" (accepted sockets)
    conns,    \* connections made so far; a connection is named by its number
    open,     \* internalSocket: the connection it belongs to, 0 for ~0
    fin,      \* FinConnect: -1, 0 or 1
    user,     \* user: the connection it stands for, 0 for NULL
    pause,    \* PAUSE: 1 paused, -1 resumed, 0 reading
    queue,    \* the bytes of PendingSend_Head .. PendingSend_Tail
    pending,  \* PendingBytesToSend
    timers,   \* ILibLifeTime entries that will call Disconnect
    rx,       \* the receive buffer: begin, end, size, mem and the loop's locals
    at,       \* where the chain thread is
    bits,     \* the fd_sets that select returned
    closing,  \* another thread is between the unlock and the event of Disconnect
    resuming, \* a thread is between the test and the write of Resume
    link,     \* the connection as the kernel sees it
    room,     \* free space in the kernel's send buffer
    arrived,  \* bytes the peer wrote on this connection
    sends,    \* calls of Send so far
    accepted, \* the bytes Send took on, by connection
    wire,     \* the bytes the kernel took, by connection
    eaten,    \* bytes of this connection the application has consumed
    told,     \* what the application was told of each connection (0: of none)
    due       \* the connections that are owed an OnSendOK

output == <<queue, pending, room, sends, accepted, wire, due>>
input  == <<rx, arrived, eaten>>
state  == <<open, fin, user, pause, link, told>>
vars   == <<kind, conns, timers, at, bits, closing, resuming, output, input, state>>

Conns == 1 .. MaxConns
Links == {"none", "connecting", "up", "closed", "error", "dead"}
Nobits == [r |-> FALSE, w |-> FALSE, e |-> FALSE]
Unused == [begin |-> 0, end |-> 0, size |-> Initial, mem |-> <<>>, ptr |-> 0, stop |-> 0]

Least(a, b) == IF a < b THEN a ELSE b

\* The histories of a connection that make sense to the application.
Running == {<<>>, <<"up">>}
Over    == {<<"failed">>, <<"up", "down">>}

Init ==
    /\ kind \in {"client", "server"}
    /\ conns = 0 /\ open = 0 /\ fin = 0 /\ user = 0 /\ pause = 0
    /\ queue = <<>> /\ pending = 0 /\ timers = 0
    /\ rx = Unused /\ at = "idle" /\ bits = Nobits /\ closing = FALSE /\ resuming = FALSE
    /\ link = "none" /\ room = Room /\ arrived = 0 /\ sends = 0
    /\ accepted = [c \in Conns |-> <<>>] /\ wire = [c \in Conns |-> <<>>]
    /\ eaten = 0 /\ told = [c \in 0 .. MaxConns |-> <<>>] /\ due = {}

-----------------------------------------------------------------------------
(* Telling the application.  Events are addressed by the user object.      *)

Tell(t, what) == [t EXCEPT ![user] = Append(@, what)]

\* A data or OnSendOK callback is news only if the connection is over.
Called == IF user = 0 \/ told[user] \in Over THEN Tell(told, "late") ELSE told

\* OnConnect(0) or OnDisconnect, by FinConnect.
EndEvent == IF fin <= 0 THEN "failed" ELSE "down"

\* ILibAsyncSocket_ClearPendingSend.
ClearPendingSend == queue' = <<>> /\ pending' = 0

\* The body of ILibAsyncSocket_Disconnect on an open socket, when the
\* application has been told t.
DisconnectAfter(t) ==
    /\ open' = 0 /\ link' = "none" /\ pause' = 1
    /\ ClearPendingSend
    /\ told' = Tell(t, EndEvent)
    /\ fin' = 0 /\ user' = 0
    /\ due' = due \ {user}
    /\ UNCHANGED <<room, sends, accepted, wire>>

\* (Fault: Disconnect does not look whether there is a socket.)
DisconnectsAlways == TRUE

Disconnects == open # 0

Disconnect ==
    IF Disconnects THEN DisconnectAfter(told) ELSE UNCHANGED <<state, output>>

\* What a callback may do to the socket before it returns.
Callback(t) ==
    \/ told' = t /\ UNCHANGED <<open, fin, user, pause, link, output>>
    \/ Disconnects /\ DisconnectAfter(t)

-----------------------------------------------------------------------------
(* Connecting.                                                             *)

Attach(f, l, t) ==
    /\ open = 0 /\ at = "idle" /\ conns < MaxConns
    /\ conns' = conns + 1 /\ open' = conns + 1 /\ user' = conns + 1
    /\ fin' = f /\ link' = l /\ pause' = 0
    /\ pending' = 0
    /\ rx' = Unused
    /\ room' = Room /\ arrived' = 0 /\ eaten' = 0
    /\ told' = [told EXCEPT ![conns + 1] = t]
    /\ UNCHANGED <<kind, at, bits, closing, resuming, queue, sends, accepted, wire, due>>

\* ILibAsyncSocket_ConnectTo, when connect is in progress on return.
ConnectTo ==
    kind = "client" /\ Attach(0, "connecting", <<>>) /\ UNCHANGED timers

\* The same, when connect succeeds at once: taken for a failure.
ConnectToAtOnce ==
    kind = "client" /\ Attach(-1, "up", <<>>) /\ timers' = timers + 1

\* ILibAsyncServerSocket_PostSelect accepts a client on a free socket and
\* hands it to ILibAsyncSocket_UseThisSocket.
Accept ==
    kind = "server" /\ Attach(1, "up", <<"up">>) /\ UNCHANGED timers

-----------------------------------------------------------------------------
(* Sending, from any thread.                                               *)

Piece(n) == [i \in 1 .. n |-> <<open, sends + 1>>]
Owe == due' = due \cup {open}
Broken == link \in {"error", "dead"}

Sending(n) ==
    /\ open # 0 /\ sends < MaxSends /\ n \in Sizes
    /\ sends' = sends + 1
    /\ UNCHANGED <<kind, conns, at, bits, closing, resuming, input, open, fin, user, told>>

\* (Fault: a send does not wait behind those that are queued.)
MustQueueConnecting == fin = 0

MustQueue == queue # <<>> \/ fin = 0

Take(n) == accepted' = [accepted EXCEPT ![open] = @ \o Piece(n)]
Put(bytes) == wire' = [wire EXCEPT ![open] = @ \o bytes]

SendLater(n) ==
    /\ Sending(n) /\ MustQueue
    /\ queue' = queue \o Piece(n) /\ pending' = pending + n
    /\ Take(n) /\ Owe
    /\ UNCHANGED <<pause, link, timers, room, wire>>

SendNow(n) ==
    LET t == IF link = "connecting" THEN 0 ELSE Least(n, room) IN
    /\ Sending(n) /\ ~MustQueue /\ ~Broken
    /\ Put(SubSeq(Piece(n), 1, t)) /\ room' = room - t
    /\ queue' = SubSeq(Piece(n), t + 1, n) /\ pending' = pending + n - t
    /\ Take(n)
    /\ IF t < n THEN Owe ELSE UNCHANGED due
    /\ UNCHANGED <<pause, link, timers>>

\* The fatal error: Disconnect is left to the chain thread.
SendFails(n) ==
    /\ Sending(n) /\ ~MustQueue /\ Broken
    /\ pause' = 1 /\ link' = "dead"
    /\ ClearPendingSend
    /\ timers' = timers + 1
    /\ UNCHANGED <<room, accepted, wire, due>>

\* ILibAsyncSocket_Resume tests and writes PAUSE without the SendLock.
Resume ==
    /\ pause > 0 /\ ~resuming /\ resuming' = TRUE
    /\ UNCHANGED <<kind, conns, timers, at, bits, closing, output, input, state>>

ResumeWrites ==
    /\ resuming /\ resuming' = FALSE /\ pause' = -1
    /\ UNCHANGED <<kind, conns, timers, at, bits, closing, output, input, open, fin,
                   user, link, told>>

\* ILibAsyncSocket_Disconnect on the chain thread, from a timer or another
\* module's callback.
ChainDisconnects ==
    /\ at = "idle" /\ Disconnects /\ Disconnect
    /\ UNCHANGED <<kind, conns, timers, at, bits, closing, resuming, input>>

\* On another thread: the event comes after the SendLock is given up.
OtherDisconnects ==
    /\ ~closing /\ Disconnects
    /\ closing' = TRUE
    /\ open' = 0 /\ link' = "none" /\ pause' = 1
    /\ ClearPendingSend
    /\ UNCHANGED <<kind, conns, timers, at, bits, resuming, input, fin, user, told,
                   room, sends, accepted, wire, due>>

OtherTells ==
    /\ closing /\ closing' = FALSE
    /\ told' = Tell(told, EndEvent)
    /\ fin' = 0 /\ user' = 0 /\ due' = due \ {user}
    /\ UNCHANGED <<kind, conns, timers, at, bits, resuming, input, open, link,
                   pause, queue, pending, room, sends, accepted, wire>>

-----------------------------------------------------------------------------
(* One turn of the chain: Check fires the timers, PreSelect and select.    *)

Check ==
    /\ at = "idle" /\ at' = "checked"
    /\ timers' = 0
    /\ IF timers > 0 THEN Disconnect ELSE UNCHANGED <<state, output>>
    /\ UNCHANGED <<kind, conns, bits, closing, resuming, input>>

WantsRead  == open # 0 /\ fin # 0 /\ pause = 0
\* (Fault: once connected the socket is not selected for writing.)
WantsWriteConnecting == open # 0 /\ fin = 0

WantsWrite == open # 0 /\ (fin = 0 \/ queue # <<>>)
WantsError == open # 0 /\ (fin = 0 \/ pause = 0)

\* What select finds: end of file and errors are readable, errors writable.
Unread   == arrived - (eaten + rx.end - rx.begin)
Readable == Broken \/ link = "closed" \/ (link = "up" /\ Unread > 0)
Writable == Broken \/ (link \in {"up", "closed"} /\ room > 0)

Select ==
    /\ at = "checked" /\ at' = "post"
    /\ \E e \in {FALSE, WantsError /\ link = "error"} :
          bits' = [r |-> WantsRead /\ Readable, w |-> WantsWrite /\ Writable, e |-> e]
    /\ UNCHANGED <<kind, conns, timers, closing, resuming, input, state, output>>

-----------------------------------------------------------------------------
(* ILibAsyncSocket_PostSelect.                                             *)

\* PostSelect looks at the read and error bits on entry only, and at the
\* write bit until it returns.
Goes(from, to) ==
    /\ at = from /\ at' = to
    /\ bits' = [Nobits EXCEPT !.w = bits.w /\ to # "idle"]
    /\ UNCHANGED <<kind, conns, closing, resuming>>

Ignored == open = 0 \/ fin = -1
Failed  == bits.e \/ link = "error"

PostIgnored ==
    /\ Goes("post", "idle") /\ Ignored
    /\ UNCHANGED <<timers, input, state, output>>

PostError ==
    /\ Goes("post", "shutdown") /\ ~Ignored /\ Failed
    /\ UNCHANGED <<timers, input, state, output>>

PostConnected ==
    /\ Goes("post", "tell") /\ ~Ignored /\ ~Failed
    /\ fin = 0 /\ bits.w
    /\ fin' = 1 /\ pause' = 0
    /\ UNCHANGED <<timers, input, open, user, link, told, output>>

PostRead ==
    /\ Goes("post", "read") /\ ~Ignored /\ ~Failed
    /\ fin # 0 /\ bits.r
    /\ UNCHANGED <<timers, input, state, output>>

\* (Fault: PostSelect overlooks that a paused socket was resumed.)
NeverResumed == FALSE

Resumed == pause < 0

PostResume ==
    /\ Goes("post", "resume") /\ ~Ignored /\ ~Failed
    /\ fin # 0 /\ ~bits.r /\ Resumed
    /\ pause' = pause + 1
    /\ UNCHANGED <<timers, input, open, fin, user, link, told, output>>

PostNothing ==
    /\ Goes("post", "write") /\ ~Ignored /\ ~Failed
    /\ IF fin = 0 THEN ~bits.w ELSE ~bits.r /\ ~Resumed
    /\ UNCHANGED <<timers, input, state, output>>

\* ILibAsyncSocket_PrivateShutdown, which does not hold the SendLock.
PrivateShutdown ==
    /\ Goes("shutdown", "write")
    /\ open' = 0 /\ link' = "none"
    /\ told' = Tell(told, EndEvent) /\ due' = due \ {user}
    /\ fin' = 0
    /\ UNCHANGED <<timers, input, user, pause, queue, pending, room, sends, accepted, wire>>

OnConnect ==
    /\ Goes("tell", "write") /\ Callback(Tell(told, "up"))
    /\ UNCHANGED <<timers, input>>

\* The write handling at the end of PostSelect, under the SendLock.
WriteTurn == fin > 0 /\ open # 0 /\ bits.w /\ queue # <<>>

NoWrite ==
    /\ Goes("write", "idle") /\ ~WriteTurn
    /\ UNCHANGED <<timers, input, state, output>>

Drain ==
    LET t == IF link = "connecting" THEN 0 ELSE Least(Len(queue), room) IN
    /\ Goes("write", IF t = Len(queue) THEN "ok" ELSE "idle")
    /\ WriteTurn /\ ~Broken
    /\ Put(SubSeq(queue, 1, t)) /\ room' = room - t
    /\ queue' = SubSeq(queue, t + 1, Len(queue)) /\ pending' = pending - t
    /\ UNCHANGED <<timers, input, state, sends, accepted, due>>

DrainFails ==
    /\ Goes("write", "idle") /\ WriteTurn /\ Broken
    /\ link' = "dead"
    /\ ClearPendingSend
    /\ timers' = timers + 1
    /\ UNCHANGED <<input, open, fin, user, pause, told, room, sends, accepted, wire, due>>

\* OnSendOK is called after the SendLock was given up: another thread may
\* have queued more.
OnSendOK ==
    /\ Goes("ok", "idle")
    /\ \/ /\ told' = Called
          /\ due' = IF queue = <<>> THEN due \ {user} ELSE due
          /\ UNCHANGED <<open, fin, user, pause, link, queue, pending, room, sends, accepted, wire>>
       \/ Disconnects /\ DisconnectAfter(Called)
    /\ UNCHANGED <<timers, input>>

-----------------------------------------------------------------------------
(* ILibProcessAsyncSocket.                                                 *)

\* A buffer whose pointers meet starts from its beginning.
Recycle(r) == IF r.begin = r.end THEN [r EXCEPT !.begin = 0, !.end = 0, !.mem = <<>>] ELSE r

\* (Fault: the loop starts from the front of the buffer.)
OfferFromFront(b, e) ==
    at' = "again" /\ rx' = [rx EXCEPT !.begin = 0, !.end = e - b, !.ptr = 0, !.stop = e]

\* The loop that offers what is left between b and e, over and over.
OfferAgain(b, e) ==
    at' = "again" /\ rx' = [rx EXCEPT !.begin = 0, !.end = e - b, !.ptr = b, !.stop = e]

Finish(b, e) ==
    at' = "write" /\ rx' = Recycle([rx EXCEPT !.begin = b, !.end = e, !.ptr = 0, !.stop = 0])

\* Resumed with nothing to read: offer what the application left.
ProcessHeld ==
    /\ at = "resume"
    /\ IF open # 0 /\ pause <= 0 /\ rx.begin # rx.end
       THEN OfferAgain(rx.begin, rx.end) ELSE Finish(rx.begin, rx.end)
    /\ UNCHANGED <<kind, conns, bits, closing, resuming, timers, arrived, eaten, state, output>>

\* Room for more: grow, or else move what is left to the front.
Short(r) == r.size - r.end < Slack
MaxBufferSize == IF kind = "server" THEN MaxBuffer ELSE 0
Exceeded(r) == Short(r) /\ MaxBufferSize # 0 /\ r.size >= MaxBufferSize
Grown(r) ==
    [r EXCEPT !.size = IF MaxBufferSize > 0 /\ MaxBufferSize - @ < Chunk
                       THEN MaxBufferSize ELSE @ + Chunk]

\* (Fault: the end pointer is not moved with the data.)
MovedKeepingEnd(r) == [r EXCEPT !.begin = 0, !.mem = SubSeq(@, r.begin + 1, r.end)]

Moved(r) ==
    [r EXCEPT !.begin = 0, !.end = @ - r.begin, !.mem = SubSeq(@, r.begin + 1, r.end)]
Ready(r) == IF Short(r) THEN Grown(r) ELSE Moved(r)

\* The end of the stream, an error or a socket already closed: recv <= 0.
AtEnd == open = 0 \/ Broken \/ Unread = 0

ReadPaused ==
    /\ Goes("read", "write") /\ pause > 0
    /\ rx' = Recycle(rx)
    /\ UNCHANGED <<timers, arrived, eaten, state, output>>

ReadExceeded ==
    /\ Goes("read", "write") /\ pause <= 0 /\ Exceeded(Recycle(rx))
    /\ rx' = Recycle(rx)
    /\ Disconnect
    /\ UNCHANGED <<timers, arrived, eaten>>

Reading == Goes("read", at') /\ pause <= 0 /\ ~Exceeded(Recycle(rx))

Receive ==
    LET r == Ready(Recycle(rx)) IN
    /\ at' = "offer" /\ Reading /\ ~AtEnd
    /\ \E n \in {Least(r.size - r.end, Unread)} :
          rx' = [r EXCEPT !.end = @ + n,
                          !.mem = SubSeq(@, 1, r.end)
                                  \o [i \in 1 .. n |-> arrived - Unread + i]]
    /\ UNCHANGED <<timers, arrived, eaten, state, output>>

ReceiveEnd ==
    /\ at' = "write" /\ Reading /\ AtEnd
    /\ open' = 0 /\ link' = "none"
    /\ ClearPendingSend
    /\ told' = Tell(told, EndEvent) /\ due' = due \ {user}
    /\ fin' = 0
    /\ rx' = [Ready(Recycle(rx)) EXCEPT !.size = 0]
    /\ UNCHANGED <<timers, arrived, eaten, user, pause, room, sends, accepted, wire>>

\* The bytes an OnData call is given.
Given == IF at = "offer" THEN SubSeq(rx.mem, rx.begin + 1, rx.end)
                         ELSE SubSeq(rx.mem, rx.ptr + 1, rx.ptr + rx.end)

\* The application takes k bytes, and may pause or disconnect.
OnData(k) ==
    /\ at \in {"offer", "again"} /\ k <= Len(Given)
    /\ \/ /\ told' = Called /\ pause' \in {pause, 1}
          /\ UNCHANGED <<open, fin, user, link, output>>
       \/ Disconnects /\ DisconnectAfter(Called)
    /\ eaten' = eaten + k
    /\ LET goOn == open' # 0 /\ pause' <= 0
           b    == rx.begin + k
       IN IF at = "offer"
          THEN IF goOn /\ b # rx.end /\ b # 0 THEN OfferAgain(b, rx.end) ELSE Finish(b, rx.end)
          ELSE IF goOn /\ k # 0 /\ k # rx.end
               THEN at' = "again" /\ rx' = [rx EXCEPT !.ptr = @ + k, !.end = @ - k]
               ELSE Finish(rx.ptr + k, rx.stop)
    /\ UNCHANGED <<kind, conns, timers, bits, closing, resuming, arrived>>

-----------------------------------------------------------------------------
(* The peer and the network.                                               *)

Kernel == UNCHANGED <<kind, conns, timers, at, bits, closing, resuming, open, fin, user, pause,
                      told, queue, pending, sends, accepted, wire, due, rx, eaten>>

Established == link = "connecting" /\ link' = "up" /\ Kernel /\ UNCHANGED <<room, arrived>>
Refused == link = "connecting" /\ link' = "error" /\ Kernel /\ UNCHANGED <<room, arrived>>
PeerCloses == link = "up" /\ link' = "closed" /\ Kernel /\ UNCHANGED <<room, arrived>>
PeerResets == link \in {"up", "closed"} /\ link' = "error" /\ Kernel /\ UNCHANGED <<room, arrived>>
PeerReads ==
    /\ link \in {"up", "closed"} /\ room < Room /\ room' = room + 1
    /\ Kernel /\ UNCHANGED <<link, arrived>>
PeerWrites ==
    /\ link = "up" /\ open \in Talkers
    /\ arrived < MaxBytes /\ arrived' = arrived + 1
    /\ Kernel /\ UNCHANGED <<link, room>>

ChainStep ==
    \/ Check \/ Select
    \/ PostIgnored \/ PostError \/ PostConnected \/ PostRead \/ PostResume \/ PostNothing
    \/ PrivateShutdown \/ OnConnect \/ NoWrite \/ Drain \/ DrainFails \/ OnSendOK
    \/ ProcessHeld \/ ReadPaused \/ ReadExceeded \/ Receive \/ ReceiveEnd
    \/ \E k \in 0 .. MaxBytes : OnData(k)

UserStep ==
    \/ ConnectTo \/ ConnectToAtOnce \/ Accept \/ Resume \/ ResumeWrites
    \/ \E n \in Sizes : SendLater(n) \/ SendNow(n) \/ SendFails(n)
    \/ ChainDisconnects

PeerStep ==
    \/ Established \/ Refused \/ PeerCloses \/ PeerResets \/ PeerReads \/ PeerWrites

Next == ChainStep \/ UserStep \/ PeerStep

Spec == Init /\ [][Next]_vars

\* The same when other threads disconnect too.
ForeignSpec == Init /\ [][Next \/ OtherDisconnects \/ OtherTells]_vars

\* The chain thread runs, a connection attempt has an outcome, and a peer
\* that stays up reads what it is sent.
FairSpec == Spec /\ WF_vars(ChainStep) /\ WF_vars(Established \/ Refused) /\ WF_vars(PeerReads)

-----------------------------------------------------------------------------
(* Properties.                                                             *)

\* The variables keep the shape of the ILibAsyncSocketModule; the buffer's
\* pointers stay inside the memory it has, in every path of the receive loop.
TypeOK ==
    /\ kind \in {"client", "server"} /\ conns \in 0 .. MaxConns
    /\ open \in 0 .. conns /\ user \in 0 .. conns
    /\ fin \in -1 .. 1 /\ pause \in -1 .. 1 /\ pending \in Int
    /\ timers \in Nat /\ closing \in BOOLEAN /\ resuming \in BOOLEAN /\ link \in Links
    /\ rx.begin \in 0 .. rx.end /\ rx.end \in 0 .. Len(rx.mem)
    /\ (open # 0 => Len(rx.mem) <= rx.size)
    /\ room \in 0 .. Room /\ arrived \in 0 .. MaxBytes /\ sends \in 0 .. MaxSends
    /\ due \subseteq Conns
    /\ (open = 0 <=> link = "none")

\* Of every connection the application hears one legal history: nothing, or
\* that it is up, and then exactly one end, which fits; no callback comes
\* after the end, and the end is told by the time the chain goes idle.
OneEnd ==
    /\ told[0] = <<>>
    /\ \A c \in Conns :
          /\ told[c] \in Running \cup Over
          /\ c <= conns /\ c # open /\ at = "idle" /\ ~closing => told[c] \in Over

OwnBytes(c, bytes) == Keep(bytes, {c} \X (1 .. MaxSends))

\* What Send took on goes out in the order of the calls and without a gap;
\* until a send on the connection fails all of it is sent or queued.
NothingSkipped ==
    \A c \in Conns :
       /\ IsPrefix(OwnBytes(c, wire[c]), accepted[c])
       /\ open = c /\ link # "dead" =>
             OwnBytes(c, wire[c]) \o OwnBytes(c, queue) = accepted[c]

\* Every OnData call gets the bytes that follow those consumed so far,
\* whatever part of earlier calls was consumed and however the buffer moved.
InStream ==
    at \in {"offer", "again"} => Given = [i \in 1 .. Len(Given) |-> eaten + i]

\* An application whose Send was not done at once is told OnSendOK when all
\* is sent, or the end of the connection.
SendOKComes == due # {} ~> due = {}

\* What arrived, or was left by a callback that paused, is offered unless the
\* application pauses or the connection ends.
Waiting ==
    /\ open # 0
    /\ (pause < 0 /\ rx.begin # rx.end) \/ (pause = 0 /\ fin = 1 /\ Unread > 0)
Served == Waiting ~> (at \in {"offer", "again"} \/ open = 0 \/ pause > 0)

\* ILibAsyncSocket_Disconnect clears the pending data "since the socket is
\* closing": a connection carries only what was sent on it.
OwnDataOnly == \A c \in Conns : \A i \in 1 .. Len(wire[c]) : wire[c][i][1] = c
=============================================================================
