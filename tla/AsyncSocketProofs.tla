-------------------------- MODULE AsyncSocketProofs --------------------------
(***************************************************************************)
(* Proofs about AsyncSocket for every number of connections, every size of *)
(* sends and buffers.                                                      *)
(***************************************************************************)
EXTENDS AsyncSocket, DataLemmas

(* What the application knows of each connection, by where it stands: all  *)
(* but the open one are over, and that one is told up once FinConnect says *)
(* so, except for the moment before the callback.                          *)
HistoryInv ==
    /\ conns \in 0 .. MaxConns /\ closing = FALSE
    /\ open \in {0, conns} /\ (open # 0 => user = open)
    /\ fin \in {-1, 0, 1}
    /\ told \in [0 .. MaxConns -> Running \cup Over] /\ told[0] = <<>>
    /\ \A c \in Conns : c > conns => told[c] = <<>>
    /\ \A c \in Conns : c <= conns /\ c # open => told[c] \in Over
    /\ open # 0 => told[open] = IF fin = 1 /\ at # "tell" THEN <<"up">> ELSE <<>>

(* In the middle of PostSelect the socket is open: only the chain thread   *)
(* closes it.                                                              *)
PlaceInv ==
    /\ at \in {"read", "resume", "offer", "again", "tell", "ok"} => open # 0 /\ fin = 1
    /\ at = "shutdown" => open # 0

LifeInv == HistoryInv /\ PlaceInv

life == <<conns, open, fin, user, told, closing>>

-----------------------------------------------------------------------------
LEMMA Appended ==
    ASSUME NEW S, NEW s \in Seq(S), NEW b \in S
    PROVE  /\ Append(s, b) \in Seq(S) /\ Len(Append(s, b)) = Len(s) + 1
           /\ \A i \in 1 .. Len(s) : Append(s, b)[i] = s[i]
           /\ Append(s, b)[Len(s) + 1] = b
           /\ Len(s) = 1 => Append(s, b)[1] = s[1]
<1>1. Append(s, b) \in Seq(S)
    BY AppendProperties
<1>2. Len(Append(s, b)) = Len(s) + 1
    BY AppendProperties
<1>3. \A i \in 1 .. Len(s) : Append(s, b)[i] = s[i]
    BY AppendProperties
<1>4. Append(s, b)[Len(s) + 1] = b
    BY AppendProperties
<1>5. Len(s) = 1 => 1 \in 1 .. Len(s)
    OBVIOUS
<1> QED BY <1>1, <1>2, <1>3, <1>4, <1>5

LEMMA AppendToShort ==
    ASSUME NEW S, NEW s \in Seq(S), NEW t \in Seq(S), NEW b \in S,
           Len(s) = 1, Len(t) = 2, t[1] = s[1], t[2] = b
    PROVE  Append(s, b) = t
<1> DEFINE r == Append(s, b)
<1>1. r \in Seq(S)
    BY Appended
<1>2. Len(r) = Len(s) + 1 /\ r[Len(s) + 1] = b
    BY Appended
<1>3. r[1] = s[1]
    BY Appended
<1> HIDE DEF r
<1>4. Len(r) = Len(t) /\ \A i \in 1 .. Len(r) : r[i] = t[i]
    BY <1>2, <1>3
<1>5. r = t
    BY <1>1, <1>4, SeqEqual
<1> QED BY <1>5 DEF r

LEMMA AppendToOne ==
    ASSUME NEW S, NEW a \in S, NEW b \in S
    PROVE  Append(<<a>>, b) = <<a, b>>
<1> DEFINE s == <<a>>
           t == <<a, b>>
<1>1. s \in Seq(S) /\ t \in Seq(S)
    OBVIOUS
<1>2. Len(s) = 1 /\ Len(t) = 2 /\ t[1] = s[1] /\ t[2] = b
    OBVIOUS
<1> HIDE DEF s, t
<1>3. Append(s, b) = t
    BY <1>1, <1>2, AppendToShort
<1> QED BY <1>3 DEF s, t

LEMMA Histories ==
    /\ Append(<<>>, "up") = <<"up">> /\ Append(<<>>, "failed") = <<"failed">>
    /\ Append(<<"up">>, "down") = <<"up", "down">>
    /\ <<>> \notin Over /\ <<"up">> \notin Over
    /\ <<>> \in Running /\ <<"up">> \in Running
    /\ <<"failed">> \in Over /\ <<"up", "down">> \in Over
<1>1. Append(<<>>, "up") = <<"up">> /\ Append(<<>>, "failed") = <<"failed">>
    OBVIOUS
<1>2. Append(<<"up">>, "down") = <<"up", "down">>
    <2>1. \A x, y : Append(<<x>>, y) = <<x, y>>
        <3> SUFFICES ASSUME NEW x, NEW y PROVE Append(<<x>>, y) = <<x, y>>
            OBVIOUS
        <3> QED BY x \in {x, y}, y \in {x, y}, AppendToOne
    <2> QED BY <2>1
<1>3. <<"up">> # <<"up", "down">> /\ <<"up">> # <<"failed">> /\ <<>> # <<"failed">>
      /\ <<>> # <<"up", "down">>
    OBVIOUS
<1> QED BY <1>1, <1>2, <1>3 DEF Over, Running

(* A step that touches neither the connection nor what was told. *)
LEMMA Untouched ==
    ASSUME HistoryInv, UNCHANGED life, at = "tell" <=> at' = "tell"
    PROVE  HistoryInv'
<1> QED BY DEF HistoryInv, life, Conns

(* The end of the open connection, told. *)
LEMMA Ending ==
    ASSUME HistoryInv, open # 0, at # "tell",
           open' = 0, fin' = 0, conns' = conns, closing' = closing,
           told' = Tell(told, EndEvent)
    PROVE  HistoryInv'
<1>1. user = open /\ open = conns /\ conns \in Conns /\ conns \in 0 .. MaxConns
    BY SizesAssumption DEF HistoryInv, Conns
<1>2. told' = [told EXCEPT ![open] = Append(told[open], EndEvent)]
    BY <1>1 DEF Tell
<1>3. Append(told[open], EndEvent) \in Over
    <2>1. CASE fin = 1
        <3>1. told[open] = <<"up">> /\ EndEvent = "down"
            BY <2>1 DEF HistoryInv, EndEvent
        <3> QED BY <3>1, Histories
    <2>2. CASE fin # 1
        <3>1. told[open] = <<>> /\ EndEvent = "failed"
            BY <2>2 DEF HistoryInv, EndEvent
        <3> QED BY <3>1, Histories
    <2> QED BY <2>1, <2>2
<1>4. told' \in [0 .. MaxConns -> Running \cup Over] /\ told'[open] \in Over
      /\ \A c \in 0 .. MaxConns : c # open => told'[c] = told[c]
    BY <1>1, <1>2, <1>3 DEF HistoryInv
<1>5. told'[0] = <<>> /\ \A c \in Conns : c > conns' => told'[c] = <<>>
    BY <1>1, <1>4, SizesAssumption DEF HistoryInv, Conns
<1>6. \A c \in Conns : c <= conns' /\ c # open' => told'[c] \in Over
    BY <1>1, <1>4, SizesAssumption DEF HistoryInv, Conns
<1>7. open' \in {0, conns'} /\ fin' \in {-1, 0, 1} /\ conns' \in 0 .. MaxConns /\ closing' = FALSE
    BY DEF HistoryInv
<1> QED BY <1>4, <1>5, <1>6, <1>7 DEF HistoryInv

(* A new connection, of which the application knows what t says. *)
LEMMA Beginning ==
    ASSUME HistoryInv, NEW f \in {-1, 0, 1}, NEW l, NEW t,
           t = IF f = 1 THEN <<"up">> ELSE <<>>, Attach(f, l, t)
    PROVE  HistoryInv'
<1>1. conns' \in 1 .. MaxConns /\ conns' = conns + 1 /\ conns' # 0
    BY SizesAssumption DEF HistoryInv, Attach
<1>2. /\ open = 0 /\ at = "idle" /\ at' = at /\ fin' = f /\ closing' = FALSE
      /\ open' = conns' /\ user' = conns' /\ told' = [told EXCEPT ![conns'] = t]
    BY <1>1 DEF HistoryInv, Attach
<1>3. t \in Running
    BY Histories
<1>4. told' \in [0 .. MaxConns -> Running \cup Over] /\ told'[conns'] = t
      /\ \A c \in 0 .. MaxConns : c # conns' => told'[c] = told[c]
    BY <1>1, <1>2, <1>3 DEF HistoryInv
<1>5. /\ \A c \in Conns : c > conns' => told'[c] = <<>>
      /\ \A c \in Conns : c <= conns' /\ c # conns' => told'[c] \in Over
    BY <1>1, <1>2, <1>4 DEF HistoryInv, Conns
<1> QED BY <1>1, <1>2, <1>4, <1>5 DEF HistoryInv

(* While a connection is up, callbacks are news. *)
LEMMA CalledInTime ==
    ASSUME HistoryInv, open # 0, fin = 1, at # "tell"
    PROVE  Called = told
<1> QED BY Histories, SizesAssumption DEF HistoryInv, Called

-----------------------------------------------------------------------------
LEMMA InitLife == Init => LifeInv
<1> SUFFICES ASSUME Init PROVE LifeInv
    OBVIOUS
<1>1. conns = 0 /\ open = 0 /\ fin = 0 /\ closing = FALSE /\ at = "idle"
      /\ told = [c \in 0 .. MaxConns |-> <<>>] /\ 0 \in 0 .. MaxConns
    BY SizesAssumption DEF Init
<1>2. \A c \in Conns : ~(c <= 0)
    BY DEF Conns
<1> QED BY <1>1, <1>2, Histories, SizesAssumption DEF LifeInv, HistoryInv, PlaceInv, Conns

(* ILibAsyncSocket_Disconnect on the chain thread. *)
LEMMA DisconnectLife ==
    ASSUME LifeInv, at # "tell", Disconnect, UNCHANGED <<conns, closing>>, at' \in {"idle", "checked", "write"}
    PROVE  LifeInv'
<1>1. CASE open # 0
    BY <1>1, Ending DEF LifeInv, PlaceInv, Disconnect, Disconnects, DisconnectAfter
<1>2. CASE open = 0
    BY <1>2, Untouched DEF LifeInv, PlaceInv, Disconnect, Disconnects, state, life
<1> QED BY <1>1, <1>2

(* A callback that may disconnect, while the connection is up. *)
LEMMA DuringCallback ==
    ASSUME LifeInv, at \in {"offer", "again", "ok"}, DisconnectAfter(Called),
           UNCHANGED <<conns, closing>>, at' \in {"idle", "write"}
    PROVE  LifeInv'
<1>1. open # 0 /\ fin = 1 /\ at # "tell"
    BY DEF LifeInv, PlaceInv
<1>2. Called = told
    BY <1>1, CalledInTime DEF LifeInv
<1> QED BY <1>1, <1>2, Ending DEF LifeInv, PlaceInv, DisconnectAfter

LEMMA StepUserLife ==
    ASSUME LifeInv, UserStep
    PROVE  LifeInv'
<1>1. CASE ConnectTo
    <2>1. HistoryInv'
        BY <1>1, Beginning DEF ConnectTo, LifeInv
    <2> QED BY <1>1, <2>1 DEF ConnectTo, Attach, LifeInv, PlaceInv
<1>2. CASE ConnectToAtOnce
    <2>1. HistoryInv'
        BY <1>2, Beginning DEF ConnectToAtOnce, LifeInv
    <2> QED BY <1>2, <2>1 DEF ConnectToAtOnce, Attach, LifeInv, PlaceInv
<1>3. CASE Accept
    <2>1. HistoryInv'
        BY <1>3, Beginning DEF Accept, LifeInv
    <2> QED BY <1>3, <2>1 DEF Accept, Attach, LifeInv, PlaceInv
<1>4. ASSUME UNCHANGED life, UNCHANGED at
      PROVE  LifeInv'
    BY <1>4, Untouched DEF LifeInv, PlaceInv, life
<1>5. CASE Resume \/ ResumeWrites
    BY <1>5, <1>4 DEF Resume, ResumeWrites, state, life
<1>6. ASSUME NEW n \in Sizes, SendLater(n) \/ SendNow(n) \/ SendFails(n)
      PROVE  LifeInv'
    BY <1>6, <1>4 DEF SendLater, SendNow, SendFails, Sending, life
<1>7. CASE ChainDisconnects
    BY <1>7, DisconnectLife DEF ChainDisconnects
<1> QED BY <1>1, <1>2, <1>3, <1>5, <1>6, <1>7 DEF UserStep

LEMMA StepPeerLife ==
    ASSUME LifeInv, PeerStep
    PROVE  LifeInv'
<1>1. UNCHANGED life /\ UNCHANGED at
    BY DEF PeerStep, Established, Refused, PeerCloses, PeerResets, PeerReads, PeerWrites,
           Kernel, life
<1> QED BY <1>1, Untouched DEF LifeInv, PlaceInv, life

LEMMA StepChainLife ==
    ASSUME LifeInv, ChainStep
    PROVE  LifeInv'
<1>1. ASSUME UNCHANGED life, at # "tell",
             at' \in {"idle", "checked", "post", "write"}
      PROVE  LifeInv'
    BY <1>1, Untouched DEF LifeInv, PlaceInv, life
<1>2. ASSUME UNCHANGED life, at # "tell", open # 0, fin = 1,
             at' \in {"read", "resume", "offer", "again", "ok", "write", "idle"}
      PROVE  LifeInv'
    BY <1>2, Untouched DEF LifeInv, PlaceInv, life
<1>3. CASE Check
    <2>1. CASE timers > 0
        BY <1>3, <2>1, DisconnectLife DEF Check
    <2>2. CASE ~(timers > 0)
        BY <1>3, <2>2, <1>1 DEF Check, state, life
    <2> QED BY <2>1, <2>2
<1>4. CASE Select
    BY <1>4, <1>1 DEF Select, state, life
<1>5. CASE PostIgnored \/ PostNothing
    BY <1>5, <1>1 DEF PostIgnored, PostNothing, Goes, state, life
<1>6. CASE PostError
    BY <1>6, Untouched DEF PostError, Goes, Ignored, state, life, LifeInv, PlaceInv
<1>7. CASE PostConnected
    <2>1. open # 0 /\ fin = 0 /\ fin' = 1 /\ at = "post" /\ at' = "tell"
          /\ UNCHANGED <<conns, open, user, told, closing>>
        BY <1>7 DEF PostConnected, Goes, Ignored
    <2>2. HistoryInv'
        BY <2>1 DEF LifeInv, HistoryInv, Conns
    <2> QED BY <2>1, <2>2 DEF LifeInv, PlaceInv
<1>8. CASE PostRead
    <2>1. open # 0 /\ fin = 1
        BY <1>8 DEF PostRead, Ignored, LifeInv, HistoryInv
    <2> QED BY <1>8, <2>1, <1>2 DEF PostRead, Goes, state, life
<1>9. CASE PostResume
    <2>1. open # 0 /\ fin = 1
        BY <1>9 DEF PostResume, Ignored, LifeInv, HistoryInv
    <2> QED BY <1>9, <2>1, <1>2 DEF PostResume, Goes, life
<1>10. CASE PrivateShutdown
    BY <1>10, Ending DEF PrivateShutdown, Goes, LifeInv, PlaceInv
<1>11. CASE OnConnect
    <2>1. open # 0 /\ fin = 1 /\ at = "tell" /\ at' = "write" /\ UNCHANGED <<conns, closing>>
        BY <1>11 DEF OnConnect, Goes, LifeInv, PlaceInv
    <2>2. user = open /\ open = conns /\ conns \in Conns /\ conns \in 0 .. MaxConns
        BY <2>1, SizesAssumption DEF LifeInv, HistoryInv, Conns
    <2>3. told[open] = <<>>
        BY <2>1 DEF LifeInv, HistoryInv
    <2>4. Tell(told, "up") = [told EXCEPT ![open] = <<"up">>]
        BY <2>2, <2>3, Histories DEF Tell
    <2>5. Tell(told, "up") \in [0 .. MaxConns -> Running \cup Over]
          /\ Tell(told, "up")[open] = <<"up">>
          /\ \A c \in 0 .. MaxConns : c # open => Tell(told, "up")[c] = told[c]
        BY <2>2, <2>4, Histories DEF LifeInv, HistoryInv
    <2>6. CASE told' = Tell(told, "up") /\ UNCHANGED <<open, fin, user>>
        <3>1. HistoryInv'
            <4>1. /\ told'[0] = <<>> /\ told'[open'] = <<"up">>
                  /\ \A c \in Conns : c > conns' => told'[c] = <<>>
                  /\ \A c \in Conns : c <= conns' /\ c # open' => told'[c] \in Over
                BY <2>1, <2>2, <2>5, <2>6, SizesAssumption DEF LifeInv, HistoryInv, Conns
            <4> QED BY <4>1, <2>1, <2>2, <2>5, <2>6 DEF LifeInv, HistoryInv
        <3> QED BY <3>1, <2>1, <2>6 DEF LifeInv, PlaceInv
    <2>7. CASE DisconnectAfter(Tell(told, "up"))
        <3>1. told' = [Tell(told, "up") EXCEPT ![open] = Append(@, "down")]
              /\ open' = 0 /\ fin' = 0 /\ user' = 0
            BY <2>1, <2>2, <2>7 DEF DisconnectAfter, EndEvent, Tell
        <3>2. told' \in [0 .. MaxConns -> Running \cup Over] /\ told'[open] = <<"up", "down">>
              /\ \A c \in 0 .. MaxConns : c # open => told'[c] = told[c]
            <4> DEFINE t == Tell(told, "up")
            <4>1. t \in [0 .. MaxConns -> Running \cup Over] /\ t[open] = <<"up">>
                  /\ \A c \in 0 .. MaxConns : c # open => t[c] = told[c]
                BY <2>5
            <4>2. Append(t[open], "down") = <<"up", "down">>
                BY <4>1, Histories
            <4>3. told' = [t EXCEPT ![open] = <<"up", "down">>]
                BY <4>2, <3>1
            <4> HIDE DEF t
            <4> QED BY <2>2, <4>1, <4>3, Histories
        <3>3. HistoryInv'
            <4>1. told'[0] = <<>> /\ \A c \in Conns : c > conns' => told'[c] = <<>>
                BY <2>1, <2>2, <3>2, SizesAssumption DEF LifeInv, HistoryInv, Conns
            <4>2. told'[open] \in Over
                BY <3>2, Histories
            <4>3. \A c \in Conns : c <= conns' /\ c # open' => told'[c] \in Over
                BY <2>1, <3>2, <4>2, SizesAssumption DEF LifeInv, HistoryInv, Conns
            <4> QED BY <4>1, <4>3, <2>1, <2>2, <3>1, <3>2 DEF LifeInv, HistoryInv
        <3> QED BY <3>1, <3>3, <2>1 DEF LifeInv, PlaceInv
    <2> QED BY <1>11, <2>6, <2>7 DEF OnConnect, Callback
<1>12. CASE NoWrite \/ DrainFails
    BY <1>12, <1>1 DEF NoWrite, DrainFails, Goes, state, life
<1>13. CASE Drain
    <2>1. open # 0 /\ fin = 1 /\ at = "write" /\ at' \in {"ok", "idle"} /\ UNCHANGED life
        BY <1>13 DEF Drain, Goes, WriteTurn, state, life, LifeInv, HistoryInv
    <2> QED BY <2>1, <1>2
<1>14. CASE OnSendOK
    <2>1. at = "ok" /\ at' = "idle" /\ UNCHANGED <<conns, closing>>
        BY <1>14 DEF OnSendOK, Goes
    <2>2. Called = told
        BY <2>1, CalledInTime DEF LifeInv, PlaceInv
    <2>3. CASE told' = Called /\ UNCHANGED <<open, fin, user>>
        BY <2>1, <2>2, <2>3, <1>1 DEF life
    <2>4. CASE DisconnectAfter(Called)
        BY <2>1, <2>4, DuringCallback
    <2> QED BY <1>14, <2>3, <2>4 DEF OnSendOK
<1>15. CASE ProcessHeld
    <2>1. open # 0 /\ fin = 1 /\ at = "resume" /\ UNCHANGED life /\ at' \in {"again", "write"}
        BY <1>15 DEF ProcessHeld, OfferAgain, Finish, state, life, LifeInv, PlaceInv
    <2> QED BY <2>1, <1>2
<1>16. CASE ReadPaused
    BY <1>16, <1>1 DEF ReadPaused, Goes, state, life
<1>17. CASE ReadExceeded
    BY <1>17, DisconnectLife DEF ReadExceeded, Goes
<1>18. CASE Receive
    <2>1. open # 0 /\ fin = 1 /\ at = "read" /\ UNCHANGED life /\ at' = "offer"
        BY <1>18 DEF Receive, Reading, Goes, state, life, LifeInv, PlaceInv
    <2> QED BY <2>1, <1>2
<1>19. CASE ReceiveEnd
    BY <1>19, Ending DEF ReceiveEnd, Reading, Goes, LifeInv, PlaceInv
<1>20. ASSUME NEW k \in 0 .. MaxBytes, OnData(k)
       PROVE  LifeInv'
    <2>1. at \in {"offer", "again"} /\ open # 0 /\ fin = 1 /\ at # "tell"
          /\ UNCHANGED <<conns, closing>>
        BY <1>20 DEF OnData, LifeInv, PlaceInv
    <2>2. at' \in {"again", "write"} /\ (at' = "again" => open' # 0)
        BY <1>20 DEF OnData, OfferAgain, Finish
    <2>3. Called = told
        BY <2>1, CalledInTime DEF LifeInv
    <2>4. CASE told' = Called /\ UNCHANGED <<open, fin, user>>
        BY <2>1, <2>2, <2>3, <2>4, <1>2 DEF life
    <2>5. CASE DisconnectAfter(Called)
        <3>1. at' = "write"
            BY <2>2, <2>5 DEF DisconnectAfter
        <3> QED BY <2>1, <2>5, <3>1, DuringCallback
    <2> QED BY <1>20, <2>4, <2>5 DEF OnData
<1> QED BY <1>3, <1>4, <1>5, <1>6, <1>7, <1>8, <1>9, <1>10, <1>11, <1>12, <1>13, <1>14,
           <1>15, <1>16, <1>17, <1>18, <1>19, <1>20 DEF ChainStep

LEMMA NextLife == LifeInv /\ [Next]_vars => LifeInv'
<1> SUFFICES ASSUME LifeInv, [Next]_vars PROVE LifeInv'
    OBVIOUS
<1>1. CASE Next
    BY <1>1, StepUserLife, StepPeerLife, StepChainLife DEF Next
<1>2. CASE UNCHANGED vars
    BY <1>2, Untouched DEF LifeInv, PlaceInv, vars, state, life
<1> QED BY <1>1, <1>2

LEMMA LifeOneEnd == LifeInv => OneEnd
<1> QED BY DEF LifeInv, HistoryInv, OneEnd, Conns

(* One history for each connection, whatever is sent, whoever closes it    *)
(* and whatever the callbacks do (ILibAsyncSocket.c:612-693, 1369-1413).   *)
THEOREM OneEndTheorem == Spec => []OneEnd
<1>1. Init => LifeInv
    BY InitLife
<1>2. LifeInv /\ [Next]_vars => LifeInv'
    BY NextLife
<1>3. LifeInv => OneEnd
    BY LifeOneEnd
<1> QED BY <1>1, <1>2, <1>3, PTL DEF Spec

-----------------------------------------------------------------------------
(* The receive buffer.  At "again" ptr and stop bound what the loop offers *)
(* and begin is 0; otherwise that lies between begin and end.              *)
Buffer == [begin : Nat, end : Nat, size : Nat, mem : Seq(Nat), ptr : Nat, stop : Nat]

Fits(r) == r \in Buffer /\ r.begin <= r.end /\ r.end <= Len(r.mem)
Holds(r, from, n) == \A i \in 1 .. n : r.mem[from + i] = eaten + i

BufferInv ==
    /\ eaten \in Nat /\ Fits(rx) /\ eaten + (rx.end - rx.begin) <= arrived
    /\ open # 0 => Len(rx.mem) <= rx.size
    /\ at # "again" => Holds(rx, rx.begin, rx.end - rx.begin)
    /\ at = "again" => /\ rx.begin = 0 /\ rx.ptr + rx.end = rx.stop
                       /\ rx.stop <= Len(rx.mem)
                       /\ Holds(rx, rx.ptr, rx.end)

LEMMA RecycleKeeps ==
    ASSUME NEW r, Fits(r), Holds(r, r.begin, r.end - r.begin)
    PROVE  /\ Fits(Recycle(r)) /\ Recycle(r).size = r.size
           /\ Recycle(r).end - Recycle(r).begin = r.end - r.begin
           /\ Holds(Recycle(r), Recycle(r).begin, Recycle(r).end - Recycle(r).begin)
           /\ Len(Recycle(r).mem) <= Len(r.mem)
<1>1. CASE r.begin = r.end
    <2>1. Recycle(r) = [r EXCEPT !.begin = 0, !.end = 0, !.mem = <<>>]
        BY <1>1 DEF Recycle
    <2>2. /\ Recycle(r) \in Buffer /\ Recycle(r).begin = 0 /\ Recycle(r).end = 0
          /\ Recycle(r).mem = <<>> /\ Recycle(r).size = r.size
        <3>1. 0 \in Nat /\ <<>> \in Seq(Nat) /\ r \in Buffer
            BY EmptySeq DEF Fits
        <3> QED BY <2>1, <3>1 DEF Buffer
    <2>3. Len(<<>>) = 0 /\ Len(r.mem) \in Nat /\ r.begin \in Nat /\ r.end \in Nat
        BY LenProperties DEF Fits, Buffer
    <2>4. \A i \in 1 .. 0 : FALSE
        OBVIOUS
    <2> QED BY <1>1, <2>2, <2>3, <2>4 DEF Fits, Holds
<1>2. CASE r.begin # r.end
    <2>1. Recycle(r) = r /\ Len(r.mem) \in Nat
        BY <1>2, LenProperties DEF Recycle, Fits, Buffer
    <2> QED BY <2>1
<1> QED BY <1>1, <1>2

LEMMA ReadyKeeps ==
    ASSUME NEW r, Fits(r), Holds(r, r.begin, r.end - r.begin),
           Len(r.mem) <= r.size, ~Exceeded(r)
    PROVE  /\ Fits(Ready(r)) /\ Len(Ready(r).mem) <= Ready(r).size
           /\ Ready(r).end - Ready(r).begin = r.end - r.begin
           /\ Holds(Ready(r), Ready(r).begin, Ready(r).end - Ready(r).begin)
<1>0. /\ r.begin \in Nat /\ r.end \in Nat /\ r.size \in Nat /\ r.mem \in Seq(Nat)
      /\ Len(r.mem) \in Nat /\ r.begin <= r.end /\ r.end <= Len(r.mem)
    BY LenProperties DEF Fits, Buffer
<1>1. CASE Short(r)
    <2> DEFINE size == IF MaxBufferSize > 0 /\ MaxBufferSize - r.size < Chunk
                       THEN MaxBufferSize ELSE r.size + Chunk
    <2>1. Ready(r) = [r EXCEPT !.size = size]
        BY <1>1 DEF Ready, Grown, Fits, Buffer
    <2>2. MaxBufferSize \in Nat /\ Chunk \in Nat
        BY SizesAssumption DEF MaxBufferSize
    <2>3. size \in Nat /\ r.size <= size
        BY <1>0, <1>1, <2>2 DEF Exceeded
    <2> HIDE DEF size
    <2>4. /\ Ready(r) \in Buffer /\ Ready(r).size = size /\ Ready(r).begin = r.begin
          /\ Ready(r).end = r.end /\ Ready(r).mem = r.mem
        BY <2>1, <2>3 DEF Fits, Buffer
    <2> QED BY <1>0, <2>3, <2>4 DEF Fits, Holds
<1>2. CASE ~Short(r)
    <2> DEFINE rest == SubSeq(r.mem, r.begin + 1, r.end)
    <2>1. Ready(r) = [r EXCEPT !.begin = 0, !.end = r.end - r.begin, !.mem = rest]
        BY <1>2 DEF Ready, Moved, Fits, Buffer
    <2>2. /\ rest \in Seq(Nat) /\ Len(rest) = r.end - r.begin
          /\ \A i \in 1 .. (r.end - r.begin) : rest[i] = r.mem[r.begin + i]
        <3>1. \A s \in Seq(Nat), b, e \in Nat : b <= e /\ e <= Len(s) =>
                /\ SubSeq(s, b + 1, e) \in Seq(Nat) /\ Len(SubSeq(s, b + 1, e)) = e - b
                /\ \A i \in 1 .. (e - b) : SubSeq(s, b + 1, e)[i] = s[b + i]
            BY Slice
        <3> QED BY <1>0, <3>1
    <2> HIDE DEF rest
    <2>3. /\ Ready(r) \in Buffer /\ Ready(r).size = r.size /\ Ready(r).begin = 0
          /\ Ready(r).end = r.end - r.begin /\ Ready(r).mem = rest
        <3>1. 0 \in Nat /\ r.end - r.begin \in Nat /\ rest \in Seq(Nat) /\ r \in Buffer
            BY <1>0, <2>2 DEF Fits
        <3> QED BY <2>1, <3>1 DEF Buffer
    <2>4. \A i \in 1 .. (r.end - r.begin) : rest[0 + i] = eaten + i
        <3>1. \A i \in 1 .. (r.end - r.begin) : 0 + i = i /\ r.mem[r.begin + i] = eaten + i
            BY DEF Holds
        <3> QED BY <2>2, <3>1
    <2> QED BY <1>0, <2>2, <2>3, <2>4 DEF Fits, Holds
<1> QED BY <1>1, <1>2

LEMMA BufferUntouched ==
    ASSUME BufferInv, UNCHANGED <<rx, eaten>>, arrived \in Nat, arrived' \in Nat,
           arrived <= arrived', open' \in {0, open}, at = "again" <=> at' = "again"
    PROVE  BufferInv'
<1>1. rx.end - rx.begin \in Int /\ eaten \in Nat
    BY DEF BufferInv, Fits, Buffer
<1>2. eaten' + (rx'.end - rx'.begin) <= arrived'
    BY <1>1 DEF BufferInv
<1> QED BY <1>2 DEF BufferInv, Fits, Holds

(* What lies between b and e is still to be offered. *)
Left(b, e) ==
    /\ BufferInv /\ b \in Nat /\ e \in Nat /\ b <= e /\ e <= Len(rx.mem)
    /\ eaten' \in Nat /\ eaten' + (e - b) <= arrived
    /\ arrived' = arrived /\ open' \in {0, open}
    /\ \A i \in 1 .. (e - b) : rx.mem[b + i] = eaten' + i

LEMMA OfferAgainKeeps ==
    ASSUME NEW b, NEW e, Left(b, e), OfferAgain(b, e)
    PROVE  BufferInv'
<1>0. /\ b \in Nat /\ e \in Nat /\ b <= e /\ e <= Len(rx.mem) /\ rx \in Buffer
      /\ rx.mem \in Seq(Nat) /\ Len(rx.mem) \in Nat
    BY LenProperties DEF Left, BufferInv, Fits, Buffer
<1>1. rx' = [rx EXCEPT !.begin = 0, !.end = e - b, !.ptr = b, !.stop = e] /\ at' = "again"
    BY DEF OfferAgain
<1>2. /\ rx' \in Buffer /\ rx'.begin = 0 /\ rx'.end = e - b /\ rx'.ptr = b /\ rx'.stop = e
      /\ rx'.mem = rx.mem /\ rx'.size = rx.size
    <2>1. 0 \in Nat /\ e - b \in Nat
        BY <1>0
    <2> QED BY <1>0, <1>1, <2>1 DEF Buffer
<1>3. Fits(rx)'
    BY <1>0, <1>2 DEF Fits
<1>4. Holds(rx, rx.ptr, rx.end)'
    BY <1>2 DEF Holds, Left
<1>5. eaten' \in Nat /\ eaten' + (rx'.end - rx'.begin) <= arrived'
    BY <1>0, <1>2 DEF Left
<1>6. /\ open' # 0 => Len(rx'.mem) <= rx'.size
      /\ rx'.ptr + rx'.end = rx'.stop /\ rx'.stop <= Len(rx'.mem)
    BY <1>0, <1>2 DEF Left, BufferInv
<1> QED BY <1>1, <1>2, <1>3, <1>4, <1>5, <1>6 DEF BufferInv

LEMMA FinishKeeps ==
    ASSUME NEW b, NEW e, Left(b, e), Finish(b, e)
    PROVE  BufferInv'
<1>0. /\ b \in Nat /\ e \in Nat /\ b <= e /\ e <= Len(rx.mem) /\ rx \in Buffer
      /\ rx.mem \in Seq(Nat) /\ Len(rx.mem) \in Nat /\ <<>> \in Seq(Nat) /\ Len(<<>>) = 0
    BY LenProperties, EmptySeq DEF Left, BufferInv, Fits, Buffer
<1>1. /\ at' = "write"
      /\ rx' = Recycle([rx EXCEPT !.begin = b, !.end = e, !.ptr = 0, !.stop = 0])
    BY DEF Finish
<1> DEFINE r == [rx EXCEPT !.begin = b, !.end = e, !.ptr = 0, !.stop = 0]
<1>2. r \in Buffer /\ r.begin = b /\ r.end = e /\ r.mem = rx.mem /\ r.size = rx.size
    BY <1>0 DEF Buffer
<1>3. rx' = Recycle(r)
    BY <1>1
<1> HIDE DEF r
<1>4. eaten' \in Nat /\ eaten' + (e - b) <= arrived'
    BY DEF Left
<1>5. open' # 0 => Len(rx.mem) <= rx.size
    BY DEF Left, BufferInv
<1>6. CASE b = e
    <2>1. rx' = [r EXCEPT !.begin = 0, !.end = 0, !.mem = <<>>]
        BY <1>2, <1>3, <1>6 DEF Recycle
    <2>2. /\ rx' \in Buffer /\ rx'.begin = 0 /\ rx'.end = 0 /\ rx'.mem = <<>>
          /\ rx'.size = rx.size
        BY <1>0, <1>2, <2>1 DEF Buffer
    <2>3. rx'.size \in Nat /\ \A i \in 1 .. 0 : FALSE
        BY <2>2 DEF Buffer
    <2> QED BY <1>0, <1>1, <1>4, <1>6, <2>2, <2>3 DEF BufferInv, Fits, Holds
<1>7. CASE b # e
    <2>1. rx' = r
        BY <1>2, <1>3, <1>7 DEF Recycle
    <2>2. Fits(rx)' /\ Holds(rx, rx.begin, rx.end - rx.begin)'
        BY <1>0, <1>2, <2>1 DEF Fits, Holds, Left
    <2> QED BY <1>1, <1>2, <1>4, <1>5, <2>1, <2>2 DEF BufferInv
<1> QED BY <1>6, <1>7

LEMMA UserBuffer ==
    ASSUME TypeOK, BufferInv, UserStep \/ PeerStep
    PROVE  BufferInv'
<1>0. arrived \in Nat /\ arrived \in 0 .. MaxBytes /\ MaxBytes \in Nat
    BY SizesAssumption DEF TypeOK
<1>1. ASSUME NEW f, NEW l, NEW t, Attach(f, l, t)
      PROVE  BufferInv'
    <2>1. rx' = Unused /\ arrived' = 0 /\ eaten' = 0 /\ at' = "idle"
        BY <1>1 DEF Attach
    <2>2. /\ Unused.begin = 0 /\ Unused.end = 0 /\ Unused.mem = <<>> /\ Unused.size = Initial
          /\ Unused \in Buffer
        BY SizesAssumption, EmptySeq DEF Unused, Buffer
    <2>3. Len(<<>>) = 0 /\ Initial \in Nat /\ \A i \in 1 .. 0 : FALSE
        BY SizesAssumption, EmptySeq
    <2> QED BY <2>1, <2>2, <2>3 DEF BufferInv, Fits, Holds
<1>2. CASE ConnectTo \/ ConnectToAtOnce \/ Accept
    BY <1>1, <1>2 DEF ConnectTo, ConnectToAtOnce, Accept
<1>3. ASSUME UNCHANGED input, open' \in {0, open}, at' = at
      PROVE  BufferInv'
    BY <1>0, <1>3, BufferUntouched DEF input
<1>4. CASE Resume \/ ResumeWrites
    BY <1>3, <1>4 DEF Resume, ResumeWrites, state
<1>5. ASSUME NEW n \in Sizes, SendLater(n) \/ SendNow(n) \/ SendFails(n)
      PROVE  BufferInv'
    BY <1>3, <1>5 DEF SendLater, SendNow, SendFails, Sending
<1>6. CASE ChainDisconnects
    BY <1>3, <1>6 DEF ChainDisconnects, Disconnect, DisconnectAfter
<1>7. CASE PeerStep
    <2>1. UNCHANGED <<rx, eaten, open, at>> /\ (arrived' = arrived \/ arrived' = arrived + 1)
        BY <1>7 DEF PeerStep, Established, Refused, PeerCloses, PeerResets, PeerReads,
                    PeerWrites, Kernel
    <2> QED BY <1>0, <2>1, BufferUntouched
<1> QED BY <1>2, <1>4, <1>5, <1>6, <1>7 DEF UserStep

LEMMA ChainBuffer ==
    ASSUME TypeOK, LifeInv, BufferInv, ChainStep
    PROVE  BufferInv'
<1>0. /\ arrived \in Nat /\ eaten \in Nat /\ rx \in Buffer /\ rx.begin \in Nat /\ rx.end \in Nat
      /\ rx.mem \in Seq(Nat) /\ Len(rx.mem) \in Nat /\ rx.begin <= rx.end
      /\ rx.end <= Len(rx.mem)
    BY SizesAssumption, LenProperties DEF TypeOK, BufferInv, Fits, Buffer
<1>1. ASSUME UNCHANGED input, open' \in {0, open}, at # "again", at' # "again"
      PROVE  BufferInv'
    BY <1>0, <1>1, BufferUntouched DEF input
<1>2. CASE Check \/ Select
    BY <1>1, <1>2 DEF Check, Select, Disconnect, DisconnectAfter, state
<1>3. CASE PostIgnored \/ PostError \/ PostConnected \/ PostRead \/ PostResume \/ PostNothing
    BY <1>1, <1>3 DEF PostIgnored, PostError, PostConnected, PostRead, PostResume, PostNothing,
                      Goes, state
<1>4. CASE PrivateShutdown \/ OnConnect \/ NoWrite \/ Drain \/ DrainFails \/ OnSendOK
    BY <1>1, <1>4 DEF PrivateShutdown, OnConnect, NoWrite, Drain, DrainFails, OnSendOK,
                      Goes, state, Callback, DisconnectAfter
<1>5. CASE ProcessHeld
    <2>1. Left(rx.begin, rx.end)
        <3>1. at # "again" /\ eaten' = eaten /\ arrived' = arrived /\ open' = open
            BY <1>5 DEF ProcessHeld, state
        <3>2. /\ Holds(rx, rx.begin, rx.end - rx.begin)
              /\ eaten + (rx.end - rx.begin) <= arrived
            BY <3>1 DEF BufferInv
        <3> QED BY <1>0, <3>1, <3>2 DEF Left, Holds
    <2> QED BY <1>5, <2>1, OfferAgainKeeps, FinishKeeps DEF ProcessHeld
<1>6. ASSUME at = "read"
      PROVE  /\ open # 0 /\ Fits(rx) /\ Holds(rx, rx.begin, rx.end - rx.begin)
             /\ Len(rx.mem) <= rx.size /\ eaten + (rx.end - rx.begin) <= arrived
    BY <1>6 DEF BufferInv, LifeInv, PlaceInv
<1> DEFINE q == Recycle(rx)
<1>7. ASSUME at = "read"
      PROVE  /\ Fits(q) /\ Len(q.mem) <= q.size
             /\ q.end - q.begin = rx.end - rx.begin
             /\ Holds(q, q.begin, q.end - q.begin)
    <2>1. Fits(q) => Len(q.mem) \in Nat
        BY LenProperties DEF Fits, Buffer
    <2>2. rx.size \in Nat
        BY <1>0 DEF Buffer
    <2> HIDE DEF q
    <2>3. /\ Fits(q) /\ Len(q.mem) <= Len(rx.mem) /\ q.size = rx.size
          /\ q.end - q.begin = rx.end - rx.begin
          /\ Holds(q, q.begin, q.end - q.begin)
        BY <1>6, <1>7, RecycleKeeps DEF q
    <2> QED BY <1>0, <1>6, <1>7, <2>1, <2>2, <2>3
<1> HIDE DEF q
<1>8. ASSUME at = "read", rx' = q, at' = "write", UNCHANGED <<arrived, eaten>>, open' \in {0, open}
      PROVE  BufferInv'
    <2>1. Fits(rx)' /\ Holds(rx, rx.begin, rx.end - rx.begin)'
        BY <1>7, <1>8 DEF Fits, Holds
    <2> QED BY <1>0, <1>6, <1>7, <1>8, <2>1 DEF BufferInv
<1>9. CASE ReadPaused
    BY <1>8, <1>9 DEF ReadPaused, Goes, state, q
<1>10. CASE ReadExceeded
    BY <1>8, <1>10 DEF ReadExceeded, Goes, Disconnect, DisconnectAfter, state, q
<1> DEFINE r == Ready(q)
<1>11. ASSUME at = "read", ~Exceeded(q)
       PROVE  /\ Fits(r) /\ Len(r.mem) <= r.size
              /\ r.end - r.begin = rx.end - rx.begin
              /\ Holds(r, r.begin, r.end - r.begin)
              /\ r \in Buffer /\ r.begin \in Nat /\ r.end \in Nat /\ r.size \in Nat
              /\ r.mem \in Seq(Nat) /\ Len(r.mem) \in Nat
    <2> HIDE DEF r
    <2>1. /\ Fits(r) /\ Len(r.mem) <= r.size /\ r.end - r.begin = q.end - q.begin
          /\ Holds(r, r.begin, r.end - r.begin)
        BY <1>7, <1>11, ReadyKeeps DEF r
    <2> QED BY <1>7, <1>11, <2>1, LenProperties DEF Fits, Buffer
<1> HIDE DEF r
<1>12. CASE ReceiveEnd
    <2>1. /\ at = "read" /\ ~Exceeded(q) /\ at' = "write" /\ open' = 0
          /\ UNCHANGED <<arrived, eaten>> /\ rx' = [r EXCEPT !.size = 0]
        BY <1>12 DEF ReceiveEnd, Reading, Goes, q, r
    <2>2. /\ rx' \in Buffer /\ rx'.begin = r.begin /\ rx'.end = r.end /\ rx'.mem = r.mem
        BY <1>11, <2>1 DEF Buffer
    <2>3. Fits(rx)' /\ Holds(rx, rx.begin, rx.end - rx.begin)'
        BY <1>11, <2>1, <2>2 DEF Fits, Holds
    <2> QED BY <1>0, <1>6, <1>11, <2>1, <2>2, <2>3 DEF BufferInv
<1>13. CASE Receive
    <2> DEFINE n == Least(r.size - r.end, Unread)
               more == [i \in 1 .. n |-> arrived - Unread + i]
               kept == SubSeq(r.mem, 1, r.end)
    <2>1. /\ at = "read" /\ ~Exceeded(q) /\ at' = "offer" /\ ~AtEnd
          /\ UNCHANGED <<arrived, eaten, open>>
          /\ rx' = [r EXCEPT !.end = r.end + n, !.mem = kept \o more]
        <3>1. r \in Buffer
            BY <1>11, <1>13 DEF Receive, Reading, Goes, q
        <3> QED BY <1>13, <3>1 DEF Receive, Reading, Goes, q, r, state, Buffer
    <2>2. /\ r.begin \in Nat /\ r.end \in Nat /\ r.size \in Nat /\ r.begin <= r.end
          /\ r.end <= r.size /\ r.end - r.begin = rx.end - rx.begin
          /\ r.mem \in Seq(Nat) /\ Len(r.mem) \in Nat /\ r.end <= Len(r.mem)
        BY <1>11, <2>1 DEF Fits
    <2>3. /\ n \in Nat /\ n <= r.size - r.end /\ n <= Unread
          /\ arrived - Unread = eaten + (r.end - r.begin)
        <3>1. Unread = arrived - (eaten + rx.end - rx.begin) /\ Unread # 0
            BY <2>1 DEF Unread, AtEnd
        <3>2. Unread \in Nat /\ eaten + rx.end - rx.begin = eaten + (rx.end - rx.begin)
            BY <1>0, <1>6, <2>1, <3>1
        <3>3. n = IF r.size - r.end < Unread THEN r.size - r.end ELSE Unread
            BY DEF Least
        <3>4. n \in Nat /\ n <= r.size - r.end /\ n <= Unread
            <4> HIDE DEF n
            <4> QED BY <2>2, <3>2, <3>3
        <3>5. arrived - Unread = eaten + (r.end - r.begin)
            BY <1>0, <2>2, <3>1, <3>2
        <3> QED BY <3>4, <3>5
    <2>4. more \in Seq(Nat) /\ Len(more) = n /\ \A i \in 1 .. n : more[i] = eaten + (r.end - r.begin) + i
        <3>0. arrived - Unread \in Nat
            <4>1. eaten + (r.end - r.begin) \in Nat
                BY <1>0, <2>2
            <4>2. arrived - Unread = eaten + (r.end - r.begin)
                BY <2>3
            <4> QED BY <4>1, <4>2
        <3>1. \A i \in 1 .. n : arrived - Unread + i \in Nat
            <4> DEFINE d == arrived - Unread
            <4>1. d \in Nat /\ n \in Nat
                BY <2>3, <3>0
            <4> HIDE DEF d, n
            <4>2. \A i \in 1 .. n : d + i \in Nat
                BY <4>1
            <4> QED BY <4>2 DEF d
        <3>2. more \in [1 .. n -> Nat]
            BY <3>1
        <3> HIDE DEF n
        <3>3. more \in Seq(Nat) /\ Len(more) = n
            BY <2>3, <3>2
        <3>4. \A i \in 1 .. n : more[i] = eaten + (r.end - r.begin) + i
            BY <2>3
        <3> QED BY <3>3, <3>4
    <2>5. kept \in Seq(Nat) /\ Len(kept) = r.end /\ \A i \in 1 .. r.end : kept[i] = r.mem[i]
        <3>1. \A i \in 1 .. r.end : r.mem[i] \in Nat
            BY <2>2, ElementOfSeq
        <3>2. \A i \in 1 .. r.end : 1 + i - 1 = i
            BY <2>2
        <3> QED BY <2>2, <3>1, <3>2, SubSeqProperties
    <2> HIDE DEF n, more, kept
    <2>6. /\ kept \o more \in Seq(Nat) /\ Len(kept \o more) = r.end + n
          /\ \A i \in 1 .. (r.end + n) : (kept \o more)[i] = IF i <= r.end THEN kept[i] ELSE more[i - r.end]
        <3>1. /\ kept \o more \in Seq(Nat) /\ Len(kept \o more) = Len(kept) + Len(more)
              /\ \A i \in 1 .. Len(kept) + Len(more) :
                   (kept \o more)[i] = IF i <= Len(kept) THEN kept[i] ELSE more[i - Len(kept)]
            BY <2>4, <2>5, ConcatProperties
        <3> QED BY <2>4, <2>5, <3>1
    <2> DEFINE mem == kept \o more
    <2>7. /\ mem \in Seq(Nat) /\ Len(mem) = r.end + n
          /\ \A i \in 1 .. (r.end + n) : mem[i] = IF i <= r.end THEN kept[i] ELSE more[i - r.end]
        BY <2>6
    <2> HIDE DEF mem
    <2>8. ASSUME NEW i \in 1 .. (r.end + n - r.begin) PROVE mem[r.begin + i] = eaten + i
        <3>1. r.begin + i \in 1 .. (r.end + n)
            BY <2>2, <2>3
        <3>2. mem[r.begin + i] = IF r.begin + i <= r.end THEN kept[r.begin + i]
                                 ELSE more[(r.begin + i) - r.end]
            BY <2>7, <3>1
        <3>3. CASE r.begin + i <= r.end
            <4>1. r.begin + i \in 1 .. r.end /\ i \in 1 .. (r.end - r.begin)
                BY <2>2, <2>3, <3>3
            <4>2. r.mem[r.begin + i] = eaten + i
                BY <1>11, <2>1, <4>1 DEF Holds
            <4> QED BY <2>5, <3>2, <3>3, <4>1, <4>2
        <3>4. CASE ~(r.begin + i <= r.end)
            <4>1. r.begin + i - r.end \in 1 .. n
                BY <2>2, <2>3, <3>4
            <4>2. more[r.begin + i - r.end] = eaten + (r.end - r.begin) + (r.begin + i - r.end)
                BY <2>4, <4>1
            <4> QED BY <1>0, <2>2, <3>2, <3>4, <4>2
        <3> QED BY <3>3, <3>4
    <2>9. /\ rx' \in Buffer /\ rx'.begin = r.begin /\ rx'.end = r.end + n /\ rx'.mem = mem
          /\ rx'.size = r.size
        <3>1. r \in Buffer /\ r.end + n \in Nat
            BY <1>11, <2>1, <2>2, <2>3
        <3> QED BY <2>1, <2>7, <3>1 DEF Buffer, mem
    <2>10. Fits(rx)' /\ Holds(rx, rx.begin, rx.end - rx.begin)'
        <3>1. Fits(rx)'
            BY <2>2, <2>3, <2>7, <2>9 DEF Fits
        <3>2. \A i \in 1 .. (rx'.end - rx'.begin) : rx'.mem[rx'.begin + i] = eaten' + i
            <4>1. rx'.end - rx'.begin = r.end + n - r.begin
                BY <2>2, <2>3, <2>9
            <4>2. \A i \in 1 .. (r.end + n - r.begin) : mem[r.begin + i] = eaten + i
                BY <2>8
            <4> QED BY <2>1, <2>9, <4>1, <4>2
        <3> QED BY <3>1, <3>2 DEF Holds
    <2>11. eaten' + (rx'.end - rx'.begin) <= arrived' /\ Len(rx'.mem) <= rx'.size
        <3>1. Unread = arrived - (eaten + rx.end - rx.begin)
            BY DEF Unread
        <3>2. eaten + ((r.end + n) - r.begin) <= arrived
            BY <1>0, <2>2, <2>3, <3>1
        <3>3. r.end + n <= r.size
            BY <2>2, <2>3
        <3> QED BY <2>1, <2>7, <2>9, <3>2, <3>3
    <2> QED BY <1>0, <2>1, <2>10, <2>11 DEF BufferInv
<1>14. ASSUME NEW k \in 0 .. MaxBytes, OnData(k)
       PROVE  BufferInv'
    <2>1. /\ at \in {"offer", "again"} /\ k <= Len(Given) /\ k \in Nat /\ eaten' = eaten + k
          /\ arrived' = arrived
        BY <1>14, SizesAssumption DEF OnData
    <2>2. open' \in {0, open}
        BY <1>14 DEF OnData, DisconnectAfter
    <2>3. CASE at = "offer"
        <3>1. Len(Given) = rx.end - rx.begin
            <4>1. Given = SubSeq(rx.mem, rx.begin + 1, rx.end)
                BY <2>3 DEF Given
            <4>2. \A s \in Seq(Nat), b, e \in Nat : b <= e /\ e <= Len(s) =>
                    Len(SubSeq(s, b + 1, e)) = e - b
                BY Slice
            <4> QED BY <1>0, <4>1, <4>2
        <3>2. Left(rx.begin + k, rx.end)
            <4>1. \A i \in 1 .. (rx.end - rx.begin) : rx.mem[rx.begin + i] = eaten + i
                BY <2>3 DEF BufferInv, Holds
            <4>2. \A i \in 1 .. (rx.end - (rx.begin + k)) :
                    /\ k + i \in 1 .. (rx.end - rx.begin)
                    /\ rx.begin + (k + i) = (rx.begin + k) + i /\ eaten + (k + i) = eaten' + i
                BY <1>0, <2>1
            <4>3. \A i \in 1 .. (rx.end - (rx.begin + k)) : rx.mem[(rx.begin + k) + i] = eaten' + i
                BY <4>1, <4>2
            <4> QED BY <1>0, <2>1, <2>2, <3>1, <4>3 DEF Left, BufferInv
        <3> QED BY <1>14, <2>3, <3>2, OfferAgainKeeps, FinishKeeps DEF OnData
    <2>4. CASE at = "again"
        <3>0. /\ rx.ptr \in Nat /\ rx.stop \in Nat /\ rx.begin = 0 /\ rx.ptr + rx.end = rx.stop
              /\ rx.stop <= Len(rx.mem) /\ eaten + rx.end <= arrived
            BY <1>0, <2>4 DEF BufferInv, Buffer
        <3>1. Len(Given) = rx.end
            <4>1. rx.ptr <= rx.ptr + rx.end /\ rx.ptr + rx.end \in Nat
                  /\ rx.ptr + rx.end <= Len(rx.mem) /\ (rx.ptr + rx.end) - rx.ptr = rx.end
                BY <1>0, <3>0
            <4> QED BY <1>0, <2>4, <3>0, <4>1, Slice DEF Given
        <3>2. \A i \in 1 .. rx.end : rx.mem[rx.ptr + i] = eaten + i
            BY <2>4 DEF BufferInv, Holds
        <3>3. \A i \in 1 .. (rx.end - k) :
                /\ k + i \in 1 .. rx.end
                /\ rx.ptr + (k + i) = (rx.ptr + k) + i /\ eaten + (k + i) = eaten' + i
            <4> SUFFICES ASSUME NEW i \in 1 .. (rx.end - k)
                         PROVE  /\ k + i \in 1 .. rx.end /\ rx.ptr + (k + i) = (rx.ptr + k) + i
                                /\ eaten + (k + i) = eaten' + i
                OBVIOUS
            <4>1. /\ k \in Nat /\ i \in Int /\ rx.end \in Nat /\ rx.ptr \in Nat /\ eaten \in Nat
                  /\ 1 <= i /\ i <= rx.end - k /\ eaten' = eaten + k
                BY <1>0, <2>1, <3>0
            <4>2. k + i \in 1 .. rx.end
                BY <4>1
            <4> QED BY <4>1, <4>2
        <3>4. \A i \in 1 .. (rx.end - k) : rx.mem[(rx.ptr + k) + i] = eaten' + i
            BY <3>2, <3>3
        <3>5. CASE Finish(rx.ptr + k, rx.stop)
            <4>1. rx.stop - (rx.ptr + k) = rx.end - k
                BY <1>0, <2>1, <3>0
            <4>2. Left(rx.ptr + k, rx.stop)
                BY <1>0, <2>1, <2>2, <3>0, <3>1, <3>4, <4>1 DEF Left
            <4> QED BY <3>5, <4>2, FinishKeeps
        <3>6. CASE at' = "again" /\ rx' = [rx EXCEPT !.ptr = @ + k, !.end = @ - k]
            <4>1. /\ rx' \in Buffer /\ rx'.begin = 0 /\ rx'.end = rx.end - k
                  /\ rx'.ptr = rx.ptr + k /\ rx'.stop = rx.stop /\ rx'.mem = rx.mem
                  /\ rx'.size = rx.size
                <5>1. rx.ptr + k \in Nat /\ rx.end - k \in Nat
                    BY <1>0, <2>1, <3>0, <3>1
                <5> QED BY <1>0, <3>0, <3>6, <5>1 DEF Buffer
            <4>2. Fits(rx)'
                BY <1>0, <2>1, <3>0, <3>1, <4>1 DEF Fits
            <4>3. Holds(rx, rx.ptr, rx.end)'
                BY <3>4, <4>1 DEF Holds
            <4>4. /\ eaten' \in Nat /\ eaten' + (rx'.end - rx'.begin) <= arrived'
                  /\ rx'.ptr + rx'.end = rx'.stop /\ rx'.stop <= Len(rx'.mem)
                BY <1>0, <2>1, <3>0, <3>1, <4>1
            <4>5. open' # 0 => Len(rx'.mem) <= rx'.size
                BY <2>2, <4>1 DEF BufferInv
            <4> QED BY <3>6, <4>1, <4>2, <4>3, <4>4, <4>5 DEF BufferInv
        <3> QED BY <1>14, <2>4, <3>5, <3>6 DEF OnData
    <2> QED BY <2>1, <2>3, <2>4
<1> QED BY <1>2, <1>3, <1>4, <1>5, <1>9, <1>10, <1>12, <1>13, <1>14 DEF ChainStep

-----------------------------------------------------------------------------
(* TypeOK without what BufferInv says of the buffer. *)
Shape ==
    /\ kind \in {"client", "server"} /\ conns \in 0 .. MaxConns
    /\ open \in 0 .. conns /\ user \in 0 .. conns
    /\ fin \in -1 .. 1 /\ pause \in -1 .. 1 /\ pending \in Int
    /\ timers \in Nat /\ closing \in BOOLEAN /\ resuming \in BOOLEAN /\ link \in Links
    /\ room \in 0 .. Room /\ arrived \in 0 .. MaxBytes /\ sends \in 0 .. MaxSends
    /\ due \subseteq Conns
    /\ (open = 0 <=> link = "none")

LEMMA ShapeOfBuffer == Shape /\ BufferInv => TypeOK
<1> SUFFICES ASSUME Shape, BufferInv PROVE TypeOK
    OBVIOUS
<1>1. /\ rx.begin \in Nat /\ rx.end \in Nat /\ Len(rx.mem) \in Nat
      /\ rx.begin <= rx.end /\ rx.end <= Len(rx.mem)
      /\ open # 0 => Len(rx.mem) <= rx.size
    BY LenProperties DEF BufferInv, Fits, Buffer
<1>2. rx.begin \in 0 .. rx.end /\ rx.end \in 0 .. Len(rx.mem)
    BY <1>1
<1> QED BY <1>1, <1>2 DEF Shape, TypeOK

LEMMA InitTypes == Init => TypeOK /\ BufferInv
<1> SUFFICES ASSUME Init PROVE TypeOK /\ BufferInv
    OBVIOUS
<1>1. Shape
    <2>1. /\ kind \in {"client", "server"} /\ conns = 0 /\ open = 0 /\ fin = 0 /\ user = 0
          /\ pause = 0 /\ pending = 0 /\ timers = 0 /\ closing = FALSE /\ resuming = FALSE /\ link = "none"
          /\ room = Room /\ arrived = 0 /\ sends = 0 /\ due = {}
        BY DEF Init
    <2>2. MaxConns \in Nat /\ Room \in Nat /\ MaxBytes \in Nat /\ MaxSends \in Nat
        BY SizesAssumption
    <2>3. /\ conns \in 0 .. MaxConns /\ open \in 0 .. conns /\ user \in 0 .. conns
          /\ fin \in -1 .. 1 /\ pause \in -1 .. 1 /\ pending \in Int /\ timers \in Nat
          /\ room \in 0 .. Room /\ arrived \in 0 .. MaxBytes /\ sends \in 0 .. MaxSends
        BY <2>1, <2>2
    <2>4. link \in Links /\ due \subseteq Conns
        BY <2>1 DEF Links
    <2> QED BY <2>1, <2>3, <2>4 DEF Shape
<1>2. BufferInv
    <2>1. rx = Unused /\ arrived = 0 /\ eaten = 0 /\ at = "idle" /\ open = 0
        BY DEF Init
    <2>2. /\ Unused.begin = 0 /\ Unused.end = 0 /\ Unused.mem = <<>>
          /\ Unused \in Buffer
        BY SizesAssumption, EmptySeq DEF Unused, Buffer
    <2>3. Len(<<>>) = 0 /\ \A i \in 1 .. 0 : FALSE
        BY EmptySeq
    <2> QED BY <2>1, <2>2, <2>3 DEF BufferInv, Fits, Holds
<1> QED BY <1>1, <1>2, ShapeOfBuffer

(* The bytes of the connections up to n, and those of one. *)
Bytes(n) == (1 .. n) \X (1 .. MaxSends)
Own(c) == {c} \X (1 .. MaxSends)

(* What is queued, taken on and sent, by connection.  A connection not     *)
(* made yet has neither.                                                   *)
StreamInv ==
    /\ queue \in Seq(Bytes(conns))
    /\ accepted \in [Conns -> Seq(Bytes(MaxConns))]
    /\ wire \in [Conns -> Seq(Bytes(MaxConns))]
    /\ \A c \in Conns : c > conns => accepted[c] = <<>> /\ wire[c] = <<>>
    /\ \A c \in Conns :
          /\ IsPrefix(Keep(wire[c], Own(c)), accepted[c])
          /\ open = c /\ link # "dead" =>
                Keep(wire[c], Own(c)) \o Keep(queue, Own(c)) = accepted[c]

(* What no step but a connection, a send or the peer changes. *)
frame == <<kind, conns, arrived, sends, closing, resuming>>

LEMMA ShapeKept ==
    ASSUME Shape, UNCHANGED frame, open' \in {0, open}, user' \in {0, user},
           fin' \in -1 .. 1, pause' \in -1 .. 1, pending' \in Int, timers' \in Nat,
           link' \in Links, room' \in 0 .. Room, due' \subseteq Conns,
           open' = 0 <=> link' = "none"
    PROVE  Shape'
<1> QED BY DEF Shape, frame

LEMMA ShapeAfterDisconnect ==
    ASSUME Shape, UNCHANGED frame, timers' \in Nat, NEW t, DisconnectAfter(t)
    PROVE  Shape'
<1> QED BY ShapeKept DEF DisconnectAfter, ClearPendingSend, Shape, Links

LEMMA UserShape ==
    ASSUME Shape, UserStep \/ PeerStep
    PROVE  Shape'
<1>1. ASSUME NEW f \in -1 .. 1, NEW l \in {"connecting", "up"}, NEW t, Attach(f, l, t), timers' \in Nat
      PROVE  Shape'
    <2>1. conns' = conns + 1 /\ conns' \in 1 .. MaxConns /\ open' = conns' /\ user' = conns'
        BY <1>1, SizesAssumption DEF Attach, Shape
    <2>2. /\ fin' = f /\ link' = l /\ pause' = 0 /\ pending' = 0 /\ room' = Room /\ arrived' = 0
          /\ UNCHANGED <<kind, closing, resuming, sends, due>>
        BY <1>1 DEF Attach
    <2>3. link' \in Links /\ link' # "none"
        BY <1>1, <2>2 DEF Links
    <2> QED BY <1>1, <2>1, <2>2, <2>3, SizesAssumption DEF Shape
<1>2. CASE ConnectTo
    BY <1>1, <1>2 DEF ConnectTo, Shape
<1>3. CASE ConnectToAtOnce
    BY <1>1, <1>3 DEF ConnectToAtOnce, Shape
<1>4. CASE Accept
    BY <1>1, <1>4 DEF Accept, Shape
<1>5. CASE Resume \/ ResumeWrites
    <2>1. /\ resuming' \in BOOLEAN /\ pause' \in {pause, -1}
          /\ UNCHANGED <<kind, conns, open, user, fin, pending, timers, closing, link>>
          /\ UNCHANGED <<room, arrived, sends, due>>
        BY <1>5 DEF Resume, ResumeWrites, output, input, state
    <2>2. pause' \in -1 .. 1
        BY <2>1 DEF Shape
    <2> QED BY <2>1, <2>2 DEF Shape
<1>6. ASSUME NEW n \in Sizes, Sending(n)
      PROVE  /\ n \in Nat /\ sends' \in 0 .. MaxSends /\ open \in Conns /\ link # "none"
             /\ UNCHANGED <<kind, conns, closing, resuming, arrived, open, fin, user>>
    BY <1>6, SizesAssumption DEF Sending, Shape, Conns, input
<1>7. ASSUME NEW n \in Sizes, SendLater(n) PROVE Shape'
    <2>1. /\ Sending(n) /\ pending' = pending + n /\ due' = due \cup {open}
          /\ UNCHANGED <<pause, link, timers, room>>
        BY <1>7 DEF SendLater, Owe
    <2> QED BY <1>6, <2>1 DEF Shape
<1>8. ASSUME NEW n \in Sizes, SendNow(n) PROVE Shape'
    <2> DEFINE t == IF link = "connecting" THEN 0 ELSE Least(n, room)
    <2>1. /\ Sending(n) /\ pending' = pending + n - t /\ room' = room - t
          /\ due' \in {due, due \cup {open}}
          /\ UNCHANGED <<pause, link, timers>>
        BY <1>8 DEF SendNow, Owe
    <2>2. t \in Nat /\ t <= room /\ room \in Nat /\ room <= Room /\ Room \in Nat /\ pending \in Int
        BY <1>6, <2>1, SizesAssumption DEF Least, Shape
    <2> HIDE DEF t
    <2>3. room' \in 0 .. Room /\ pending' \in Int
        BY <1>6, <2>1, <2>2
    <2> QED BY <1>6, <2>1, <2>3 DEF Shape
<1>9. ASSUME NEW n \in Sizes, SendFails(n) PROVE Shape'
    BY <1>6, <1>9 DEF SendFails, ClearPendingSend, Shape, Links
<1>10. CASE ChainDisconnects
    <2>1. DisconnectAfter(told) /\ UNCHANGED <<kind, conns, timers, closing, resuming, arrived>>
        BY <1>10 DEF ChainDisconnects, Disconnect, input
    <2>2. UNCHANGED frame /\ timers' \in Nat
        BY <2>1 DEF DisconnectAfter, frame, Shape
    <2>3. \A t : DisconnectAfter(t) => Shape'
        BY <2>2, ShapeAfterDisconnect
    <2> QED BY <2>1, <2>3
<1>11. CASE PeerStep
    <2>1. UNCHANGED <<kind, conns, open, user, fin, pause, pending, timers, closing, resuming, sends, due>>
        BY <1>11 DEF PeerStep, Established, Refused, PeerCloses, PeerResets, PeerReads, PeerWrites, Kernel
    <2>2. link # "none" /\ link' # "none" /\ link' \in Links
        BY <1>11 DEF PeerStep, Established, Refused, PeerCloses, PeerResets, PeerReads, PeerWrites, Links
    <2>3. room' \in 0 .. Room /\ arrived' \in 0 .. MaxBytes
        <3>1. /\ room' = room \/ (room < Room /\ room' = room + 1)
              /\ arrived' = arrived \/ (arrived < MaxBytes /\ arrived' = arrived + 1)
            BY <1>11 DEF PeerStep, Established, Refused, PeerCloses, PeerResets, PeerReads, PeerWrites
        <3> QED BY <3>1, SizesAssumption DEF Shape
    <2> QED BY <2>1, <2>2, <2>3 DEF Shape
<1> QED BY <1>2, <1>3, <1>4, <1>5, <1>7, <1>8, <1>9, <1>10, <1>11 DEF UserStep

LEMMA ChainShape ==
    ASSUME Shape, StreamInv, ChainStep
    PROVE  Shape'
<1>0. /\ fin \in -1 .. 1 /\ pause \in -1 .. 1 /\ pending \in Int /\ timers \in Nat
      /\ link \in Links /\ room \in 0 .. Room /\ due \subseteq Conns /\ (open = 0 <=> link = "none")
    BY DEF Shape
<1>1. ASSUME UNCHANGED frame, UNCHANGED <<state, output>>, timers' \in Nat
      PROVE  Shape'
    BY <1>1 DEF Shape, frame, state, output
<1>2. ASSUME UNCHANGED frame, timers' \in Nat, Disconnect
      PROVE  Shape'
    BY <1>1, <1>2, ShapeAfterDisconnect DEF Disconnect
<1>3. CASE Check
    <2>1. UNCHANGED frame /\ timers' = 0
        <3>1. UNCHANGED <<kind, conns, closing, resuming, arrived>> /\ timers' = 0
            BY <1>3 DEF Check, input
        <3>2. sends' = sends
            BY <1>3 DEF Check, Disconnect, DisconnectAfter, output
        <3> QED BY <3>1, <3>2 DEF frame
    <2> QED BY <1>1, <1>2, <1>3, <2>1 DEF Check
<1>4. CASE Select
    BY <1>0, <1>1, <1>4 DEF Select, frame, state, output, input
<1>5. CASE PostIgnored \/ PostError \/ PostRead \/ PostNothing \/ NoWrite
    BY <1>0, <1>1, <1>5 DEF PostIgnored, PostError, PostRead, PostNothing, NoWrite, Goes, frame,
                            state, output, input
<1>6. CASE PostConnected
    BY <1>0, <1>6, ShapeKept DEF PostConnected, Goes, frame, output, input
<1>7. CASE PostResume
    <2>1. pause' \in -1 .. 1
        BY <1>0, <1>7 DEF PostResume, Resumed
    <2> QED BY <1>0, <1>7, <2>1, ShapeKept DEF PostResume, Goes, frame, output, input
<1>8. CASE PrivateShutdown
    BY <1>0, <1>8, ShapeKept DEF PrivateShutdown, Goes, frame, input, Links
<1>9. CASE OnConnect
    <2>1. UNCHANGED frame /\ UNCHANGED timers
        BY <1>9 DEF OnConnect, Goes, Callback, DisconnectAfter, frame, input, output
    <2>2. CASE UNCHANGED <<open, fin, user, pause, link, output>>
        BY <1>0, <2>1, <2>2, ShapeKept DEF output
    <2>3. CASE DisconnectAfter(Tell(told, "up"))
        BY <1>0, <2>1, <2>3, ShapeAfterDisconnect
    <2> QED BY <1>9, <2>2, <2>3 DEF OnConnect, Callback
<1>10. CASE Drain
    <2> DEFINE t == IF link = "connecting" THEN 0 ELSE Least(Len(queue), room)
    <2>1. /\ pending' = pending - t /\ room' = room - t /\ UNCHANGED frame
          /\ UNCHANGED <<timers, open, user, fin, pause, link, due>>
        BY <1>10 DEF Drain, Goes, frame, input, state
    <2>2. Len(queue) \in Nat /\ room \in Nat /\ room <= Room /\ Room \in Nat
        BY <1>0, LenProperties, SizesAssumption DEF StreamInv
    <2>3. t \in Nat /\ t <= room
        BY <2>2 DEF Least
    <2> HIDE DEF t
    <2>4. room' \in 0 .. Room /\ pending' \in Int
        BY <1>0, <2>1, <2>2, <2>3
    <2> QED BY <1>0, <2>1, <2>4, ShapeKept
<1>11. CASE DrainFails
    <2>1. open # 0
        BY <1>11 DEF DrainFails, WriteTurn
    <2> QED BY <1>0, <1>11, <2>1, ShapeKept
            DEF DrainFails, ClearPendingSend, Goes, frame, input, Links
<1>12. CASE OnSendOK
    <2>1. UNCHANGED frame /\ UNCHANGED timers
        BY <1>12 DEF OnSendOK, Goes, DisconnectAfter, frame, input
    <2>2. CASE /\ UNCHANGED <<open, fin, user, pause, link, pending, room>>
               /\ due' = IF queue = <<>> THEN due \ {user} ELSE due
        BY <1>0, <2>1, <2>2, ShapeKept
    <2>3. CASE DisconnectAfter(Called)
        BY <1>0, <2>1, <2>3, ShapeAfterDisconnect
    <2> QED BY <1>12, <2>2, <2>3 DEF OnSendOK
<1>13. CASE ProcessHeld \/ ReadPaused
    BY <1>0, <1>1, <1>13 DEF ProcessHeld, ReadPaused, Goes, frame, output
<1>14. CASE Receive
    BY <1>0, <1>1, <1>14 DEF Receive, Reading, Goes, frame, output
<1>15. CASE ReadExceeded
    <2>1. UNCHANGED <<kind, conns, closing, resuming, arrived, timers>> /\ Disconnect
        BY <1>15 DEF ReadExceeded, Goes
    <2>2. sends' = sends
        BY <2>1 DEF Disconnect, DisconnectAfter, output
    <2> QED BY <1>0, <1>2, <2>1, <2>2 DEF frame
<1>16. CASE ReceiveEnd
    BY <1>0, <1>16, ShapeKept DEF ReceiveEnd, ClearPendingSend, Reading, Goes, frame, Links
<1>17. ASSUME NEW k \in 0 .. MaxBytes, OnData(k)
       PROVE  Shape'
    <2>1. UNCHANGED frame /\ UNCHANGED timers
        BY <1>17 DEF OnData, DisconnectAfter, frame, output
    <2>2. CASE pause' \in {pause, 1} /\ UNCHANGED <<open, fin, user, link, output>>
        <3>1. pause' \in -1 .. 1
            BY <1>0, <2>2
        <3> QED BY <1>0, <2>1, <2>2, <3>1, ShapeKept DEF output
    <2>3. CASE DisconnectAfter(Called)
        BY <1>0, <2>1, <2>3, ShapeAfterDisconnect
    <2> QED BY <1>17, <2>2, <2>3 DEF OnData
<1> QED BY <1>3, <1>4, <1>5, <1>6, <1>7, <1>8, <1>9, <1>10, <1>11, <1>12, <1>13, <1>14,
           <1>15, <1>16, <1>17 DEF ChainStep

-----------------------------------------------------------------------------
LEMMA KeepNothing == \A K : Keep(<<>>, K) = <<>>
<1> SUFFICES ASSUME NEW K PROVE Keep(<<>>, K) = <<>>
    OBVIOUS
<1> DEFINE e == <<>>
<1>1. e \in Seq(Nat) /\ Len(e) = 0
    BY EmptySeq
<1>2. \A i \in 1 .. 0 : e[i] \notin K
    OBVIOUS
<1> HIDE DEF e
<1>3. \A i \in 1 .. Len(e) : e[i] \notin K
    BY <1>1, <1>2
<1>4. Keep(e, K) = <<>>
    BY <1>1, <1>3, KeepAllOrNone
<1> QED BY <1>4 DEF e

LEMMA InitStream == Init => StreamInv
<1> SUFFICES ASSUME Init PROVE StreamInv
    OBVIOUS
<1>1. /\ queue = <<>> /\ open = 0
      /\ accepted = [c \in Conns |-> <<>>] /\ wire = [c \in Conns |-> <<>>]
    BY DEF Init
<1>2. \A S : <<>> \in Seq(S)
    BY EmptySeq
<1>3. Len(<<>>) = 0
    BY EmptySeq
<1>4. \A K : Keep(<<>>, K) = <<>>
    BY KeepNothing
<1>5. IsPrefix(<<>>, <<>>)
    BY <1>3 DEF IsPrefix
<1>6. \A c \in Conns : c # 0 /\ accepted[c] = <<>> /\ wire[c] = <<>>
    BY <1>1, SizesAssumption DEF Conns
<1> QED BY <1>1, <1>2, <1>4, <1>5, <1>6 DEF StreamInv

(* A step that sends nothing, and ends the connection if it loses what is  *)
(* queued.                                                                 *)
LEMMA NothingSent ==
    ASSUME StreamInv, UNCHANGED <<conns, accepted, wire>>, queue' \in {queue, <<>>},
           \/ open' = 0 \/ link' = "dead"
           \/ open' = open /\ queue' = queue /\ link # "dead"
    PROVE  StreamInv'
<1>1. queue' \in Seq(Bytes(conns'))
    BY EmptySeq DEF StreamInv
<1>2. ASSUME NEW c \in Conns, open' = c, link' # "dead"
      PROVE  Keep(wire'[c], Own(c)) \o Keep(queue', Own(c)) = accepted'[c]
    <2>1. open = c /\ queue' = queue /\ link # "dead"
        BY <1>2, SizesAssumption DEF Conns
    <2> QED BY <2>1 DEF StreamInv
<1> QED BY <1>1, <1>2 DEF StreamInv

(* Bytes p are taken on, and out of them and the queue bytes w go out.     *)
LEMMA BytesSent ==
    ASSUME StreamInv, open \in Conns, open <= conns, conns \in Nat, conns <= MaxConns,
           NEW p \in Seq(Own(open)), NEW w \in Seq(Bytes(conns)), link # "dead",
           queue' \in Seq(Bytes(conns)), queue \o p = w \o queue',
           UNCHANGED <<conns, open>>,
           accepted' = [accepted EXCEPT ![open] = @ \o p],
           wire' = [wire EXCEPT ![open] = @ \o w]
    PROVE  StreamInv'
<1> DEFINE K == Own(open)
           B == Bytes(MaxConns)
<1>1. K \subseteq Bytes(conns) /\ Bytes(conns) \subseteq B
    <2>1. {open} \subseteq 1 .. conns /\ 1 .. conns \subseteq 1 .. MaxConns
        BY SizesAssumption DEF Conns
    <2> QED BY <2>1 DEF Own, Bytes
<1>2. /\ p \in Seq(K) /\ p \in Seq(B) /\ w \in Seq(B) /\ queue \in Seq(B) /\ queue' \in Seq(B)
      /\ accepted[open] \in Seq(B) /\ wire[open] \in Seq(B)
    <2>1. p \in Seq(Bytes(conns))
        BY <1>1, SeqMonotonic
    <2> QED BY <1>1, <2>1, SeqMonotonic DEF StreamInv
<1> HIDE DEF K, B
<1>3. Keep(p, K) = p
    <2>1. \A i \in 1 .. Len(p) : p[i] \in K
        BY <1>2, ElementOfSeq
    <2> QED BY <1>2, <2>1, KeepAllOrNone
<1> DEFINE a == accepted[open]
           x == Keep(wire[open], K)
           y == Keep(queue, K)
           z == Keep(w, K)
           u == Keep(queue', K)
<1>4. x \o y = a
    BY DEF StreamInv, K
<1>0. \A s, t \in Seq(B) : Keep(s \o t, K) = Keep(s, K) \o Keep(t, K)
    BY KeepConcat
<1>5. Keep(wire[open] \o w, K) = x \o z
    BY <1>0, <1>2
<1>6. y \o p = z \o u
    <2>1. Keep(queue \o p, K) = y \o Keep(p, K)
        BY <1>0, <1>2
    <2>2. Keep(w \o queue', K) = z \o u
        BY <1>0, <1>2
    <2> QED BY <1>3, <2>1, <2>2
<1>7. x \in Seq(B) /\ y \in Seq(B) /\ z \in Seq(B) /\ u \in Seq(B) /\ a \in Seq(B)
    BY <1>2, KeepProperties
<1> HIDE DEF a, x, y, z, u
<1>8. (x \o z) \o u = a \o p
    <2>0. \A q, r, s \in Seq(B) : (q \o r) \o s = q \o (r \o s)
        BY ConcatAssociative
    <2>1. (x \o z) \o u = x \o (z \o u)
        <3>1. x \in Seq(B) /\ z \in Seq(B) /\ u \in Seq(B)
            BY <1>7
        <3> QED BY <2>0, <3>1
    <2>2. (x \o y) \o p = x \o (y \o p)
        <3>1. x \in Seq(B) /\ y \in Seq(B) /\ p \in Seq(B)
            BY <1>2, <1>7
        <3> QED BY <2>0, <3>1
    <2> QED BY <1>4, <1>6, <2>1, <2>2
<1>9. IsPrefix(x \o z, a \o p)
    <2>1. x \o z \in Seq(B)
        BY <1>7, ConcatProperties
    <2>2. IsPrefix(x \o z, (x \o z) \o u)
        BY <1>7, <2>1, PrefixOfConcat
    <2> QED BY <1>8, <2>2
<1>10. /\ accepted' \in [Conns -> Seq(B)] /\ wire' \in [Conns -> Seq(B)]
       /\ accepted'[open] = a \o p /\ wire'[open] = wire[open] \o w
       /\ \A c \in Conns : c # open => accepted'[c] = accepted[c] /\ wire'[c] = wire[c]
    <2>1. a \o p \in Seq(B) /\ wire[open] \o w \in Seq(B)
        BY <1>2, <1>7, ConcatProperties
    <2>2. accepted \in [Conns -> Seq(B)] /\ wire \in [Conns -> Seq(B)]
        BY DEF StreamInv, B
    <2>3. accepted' = [accepted EXCEPT ![open] = a \o p]
        BY DEF a
    <2> QED BY <2>1, <2>2, <2>3
<1>11. \A c \in Conns : c > conns' => accepted'[c] = <<>> /\ wire'[c] = <<>>
    <2>1. \A c \in Conns : c > conns => c # open
        BY DEF Conns
    <2> QED BY <1>10, <2>1 DEF StreamInv
<1>12. ASSUME NEW c \in Conns
       PROVE  /\ IsPrefix(Keep(wire'[c], Own(c)), accepted'[c])
              /\ open' = c /\ link' # "dead" =>
                    Keep(wire'[c], Own(c)) \o Keep(queue', Own(c)) = accepted'[c]
    <2>1. CASE c = open
        <3>1. Keep(wire'[c], Own(c)) = x \o z /\ accepted'[c] = a \o p /\ Keep(queue', Own(c)) = u
            BY <1>5, <1>10, <2>1 DEF K, u
        <3> QED BY <1>8, <1>9, <3>1
    <2>2. CASE c # open
        BY <1>10, <2>2 DEF StreamInv
    <2> QED BY <2>1, <2>2
<1> QED BY <1>10, <1>11, <1>12 DEF StreamInv, B

(* On a connection where a send failed nothing goes out, whatever is still *)
(* taken on.                                                               *)
LEMMA DeadQueued ==
    ASSUME StreamInv, open \in Conns, open <= conns, conns \in Nat, conns <= MaxConns,
           NEW p \in Seq(Own(open)), link = "dead",
           queue' = queue \o p, UNCHANGED <<conns, open, link, wire>>,
           accepted' = [accepted EXCEPT ![open] = @ \o p]
    PROVE  StreamInv'
<1>1. Own(open) \subseteq Bytes(conns) /\ Bytes(conns) \subseteq Bytes(MaxConns)
    <2>1. {open} \subseteq 1 .. conns /\ 1 .. conns \subseteq 1 .. MaxConns
        BY SizesAssumption DEF Conns
    <2> QED BY <2>1 DEF Own, Bytes
<1>2. p \in Seq(Bytes(conns)) /\ p \in Seq(Bytes(MaxConns)) /\ accepted[open] \in Seq(Bytes(MaxConns))
      /\ wire[open] \in Seq(Bytes(MaxConns))
    BY <1>1, SeqMonotonic DEF StreamInv
<1>3. queue' \in Seq(Bytes(conns'))
    BY <1>2, ConcatProperties DEF StreamInv
<1> DEFINE a == accepted[open] \o p
<1>4. a \in Seq(Bytes(MaxConns))
    BY <1>2, ConcatProperties
<1>5. IsPrefix(Keep(wire[open], Own(open)), a)
    <2>1. Keep(wire[open], Own(open)) \in Seq(Bytes(MaxConns))
        BY <1>2, KeepProperties
    <2>2. IsPrefix(Keep(wire[open], Own(open)), accepted[open])
        BY DEF StreamInv
    <2> QED BY <1>2, <2>1, <2>2, PrefixOfConcat
<1>6. accepted' = [accepted EXCEPT ![open] = a]
    OBVIOUS
<1> HIDE DEF a
<1>7. /\ accepted' \in [Conns -> Seq(Bytes(MaxConns))] /\ accepted'[open] = a
      /\ \A c \in Conns : c # open => accepted'[c] = accepted[c]
    BY <1>4, <1>6 DEF StreamInv
<1>8. \A c \in Conns : c > conns => c # open
    BY DEF Conns
<1> QED BY <1>3, <1>5, <1>7, <1>8 DEF StreamInv

(* A new connection starts with nothing taken on, and finds nothing of its *)
(* own in the queue it inherits.                                           *)
LEMMA AttachStream ==
    ASSUME Shape, StreamInv, conns < MaxConns, conns' = conns + 1, open' = conns + 1,
           UNCHANGED <<queue, accepted, wire>>
    PROVE  StreamInv'
<1>0. conns \in Nat /\ conns + 1 \in Conns /\ MaxConns \in Nat /\ conns + 1 > conns
    BY SizesAssumption DEF Shape, Conns
<1>1. queue' \in Seq(Bytes(conns'))
    <2>1. 1 .. conns \subseteq 1 .. (conns + 1)
        BY <1>0
    <2>2. Bytes(conns) \subseteq Bytes(conns + 1)
        BY <2>1 DEF Bytes
    <2> QED BY <2>2, SeqMonotonic DEF StreamInv
<1>2. Keep(queue, Own(conns + 1)) = <<>>
    <2>1. queue \in Seq(Bytes(conns))
        BY DEF StreamInv
    <2>2. conns + 1 \notin 1 .. conns
        BY <1>0
    <2>3. \A x \in Bytes(conns) : x \notin Own(conns + 1)
        BY <2>2 DEF Bytes, Own
    <2>4. \A i \in 1 .. Len(queue) : queue[i] \in Bytes(conns)
        BY <2>1, ElementOfSeq
    <2> QED BY <2>1, <2>3, <2>4, KeepAllOrNone
<1>3. accepted[conns + 1] = <<>> /\ wire[conns + 1] = <<>>
    BY <1>0 DEF StreamInv
<1>4. Keep(wire[conns + 1], Own(conns + 1)) \o Keep(queue, Own(conns + 1)) = accepted[conns + 1]
    <2>1. <<>> \o <<>> = <<>>
        BY EmptySeq, ConcatEmptySeq
    <2> QED BY <1>2, <1>3, <2>1, KeepNothing
<1>5. \A c \in Conns : c > conns' => c > conns
    BY <1>0 DEF Conns
<1> QED BY <1>1, <1>4, <1>5 DEF StreamInv

LEMMA PieceBytes ==
    ASSUME Shape, open # 0, sends < MaxSends, NEW n \in Nat
    PROVE  /\ Piece(n) \in Seq(Own(open)) /\ Len(Piece(n)) = n
           /\ open \in Conns /\ open <= conns /\ conns \in Nat /\ conns <= MaxConns
<1>1. sends + 1 \in 1 .. MaxSends
    BY SizesAssumption DEF Shape
<1>2. Piece(n) \in [1 .. n -> Own(open)]
    BY <1>1 DEF Piece, Own
<1>3. Piece(n) \in Seq(Own(open)) /\ Len(Piece(n)) = n
    <2> DEFINE q == Piece(n)
    <2>1. q \in [1 .. n -> Own(open)]
        BY <1>2
    <2> HIDE DEF q
    <2>2. q \in Seq(Own(open)) /\ Len(q) = n
        BY <2>1
    <2> QED BY <2>2 DEF q
<1> QED BY <1>3, SizesAssumption DEF Shape, Conns

LEMMA SendStream ==
    ASSUME Shape, StreamInv, NEW n \in Sizes, SendLater(n) \/ SendNow(n)
    PROVE  StreamInv'
<1>0. /\ open # 0 /\ sends < MaxSends /\ n \in Nat /\ UNCHANGED <<conns, open>>
      /\ accepted' = [accepted EXCEPT ![open] = @ \o Piece(n)]
    BY SizesAssumption DEF SendLater, SendNow, Sending, Take
<1>1. /\ Piece(n) \in Seq(Own(open)) /\ Len(Piece(n)) = n
      /\ open \in Conns /\ open <= conns /\ conns \in Nat /\ conns <= MaxConns
    BY <1>0, PieceBytes
<1> DEFINE p == Piece(n)
<1>2. p \in Seq(Own(open)) /\ Len(p) = n /\ accepted' = [accepted EXCEPT ![open] = @ \o p]
    BY <1>0, <1>1
<1>3. p \in Seq(Bytes(conns)) /\ queue \in Seq(Bytes(conns))
    <2>1. {open} \subseteq 1 .. conns
        BY <1>1 DEF Conns
    <2>2. Own(open) \subseteq Bytes(conns)
        BY <2>1 DEF Own, Bytes
    <2>3. p \in Seq(Bytes(conns))
        BY <1>2, <2>2, SeqMonotonic
    <2> QED BY <2>3 DEF StreamInv
<1>4. CASE SendLater(n)
    <2>1. queue' = queue \o p /\ UNCHANGED <<link, wire>>
        BY <1>4 DEF SendLater
    <2> HIDE DEF p
    <2>2. CASE link = "dead"
        BY <1>0, <1>1, <1>2, <2>1, <2>2, DeadQueued
    <2>3. CASE link # "dead"
        <3> DEFINE w == <<>>
        <3>1. w \in Seq(Bytes(conns)) /\ wire[open] \o w = wire[open] /\ w \o queue' = queue'
              /\ queue' \in Seq(Bytes(conns))
            <4>1. wire[open] \in Seq(Bytes(MaxConns))
                BY <1>1 DEF StreamInv
            <4>2. queue' \in Seq(Bytes(conns))
                BY <1>3, <2>1, ConcatProperties
            <4> QED BY <4>1, <4>2, EmptySeq, ConcatEmptySeq
        <3>2. wire' = [wire EXCEPT ![open] = @ \o w]
            BY <1>1, <2>1, <3>1 DEF StreamInv
        <3> HIDE DEF w
        <3> QED BY <1>0, <1>1, <1>2, <2>1, <2>3, <3>1, <3>2, BytesSent
    <2> QED BY <2>2, <2>3
<1>5. CASE SendNow(n)
    <2> DEFINE t == IF link = "connecting" THEN 0 ELSE Least(n, room)
               w == SubSeq(p, 1, t)
    <2>1. /\ wire' = [wire EXCEPT ![open] = @ \o w] /\ queue' = SubSeq(p, t + 1, n)
          /\ queue = <<>> /\ link # "dead"
        BY <1>5 DEF SendNow, Put, MustQueue, Broken
    <2>2. t \in 0 .. n
        BY <1>0 DEF Least, Shape
    <2> HIDE DEF p, t
    <2>3. w \in Seq(Bytes(conns)) /\ queue' \in Seq(Bytes(conns)) /\ w \o queue' = p
        BY <1>2, <1>3, <2>1, <2>2, CutInTwo
    <2>4. queue \o p = p
        BY <1>3, <2>1, ConcatEmptySeq
    <2> HIDE DEF w
    <2> QED BY <1>0, <1>1, <1>2, <2>1, <2>3, <2>4, BytesSent
<1> QED BY <1>4, <1>5

LEMMA DrainStream ==
    ASSUME Shape, StreamInv, Drain
    PROVE  StreamInv'
<1> DEFINE t == IF link = "connecting" THEN 0 ELSE Least(Len(queue), room)
           w == SubSeq(queue, 1, t)
           p == <<>>
<1>1. /\ open # 0 /\ link # "dead" /\ UNCHANGED <<conns, open, link, accepted>>
      /\ wire' = [wire EXCEPT ![open] = @ \o w] /\ queue' = SubSeq(queue, t + 1, Len(queue))
    BY DEF Drain, Goes, WriteTurn, Broken, Put, state
<1>2. open \in Conns /\ open <= conns /\ conns \in Nat /\ conns <= MaxConns
    BY <1>1, SizesAssumption DEF Shape, Conns
<1>3. queue \in Seq(Bytes(conns)) /\ Len(queue) \in Nat
    BY LenProperties DEF StreamInv
<1>4. t \in 0 .. Len(queue)
    BY <1>3 DEF Least, Shape
<1> HIDE DEF t
<1>5. w \in Seq(Bytes(conns)) /\ queue' \in Seq(Bytes(conns)) /\ w \o queue' = queue
    BY <1>1, <1>3, <1>4, CutInTwo
<1>6. p \in Seq(Own(open)) /\ queue \o p = queue /\ accepted[open] \o p = accepted[open]
    <2>1. accepted[open] \in Seq(Bytes(MaxConns))
        BY <1>2 DEF StreamInv
    <2> QED BY <1>3, <2>1, EmptySeq, ConcatEmptySeq
<1>7. accepted' = [accepted EXCEPT ![open] = @ \o p]
    BY <1>1, <1>2, <1>6 DEF StreamInv
<1> HIDE DEF p, w
<1> QED BY <1>1, <1>2, <1>5, <1>6, <1>7, BytesSent

LEMMA StepStream ==
    ASSUME Shape, StreamInv, Next
    PROVE  StreamInv'
<1>0. ASSUME UNCHANGED <<conns, accepted, wire>>, queue' \in {queue, <<>>},
             open' = 0 \/ link' = "dead" \/ (open' = open /\ queue' = queue /\ link # "dead")
      PROVE  StreamInv'
    BY <1>0, NothingSent
<1>1. ASSUME UNCHANGED <<conns, open, queue, link, accepted, wire>>
      PROVE  StreamInv'
    BY <1>0, <1>1
<1>2. ASSUME UNCHANGED conns, NEW t, DisconnectAfter(t)
      PROVE  StreamInv'
    BY <1>0, <1>2 DEF DisconnectAfter, ClearPendingSend
<1>3. ASSUME UNCHANGED conns, Disconnect
      PROVE  StreamInv'
    <2>1. CASE DisconnectAfter(told)
        BY <1>2, <1>3, <2>1
    <2>2. CASE UNCHANGED <<state, output>>
        BY <1>1, <1>3, <2>2 DEF state, output
    <2> QED BY <1>3, <2>1, <2>2 DEF Disconnect
<1>4. CASE ConnectTo \/ ConnectToAtOnce \/ Accept
    BY <1>4, AttachStream DEF ConnectTo, ConnectToAtOnce, Accept, Attach
<1>5. CASE Resume \/ ResumeWrites
    BY <1>1, <1>5 DEF Resume, ResumeWrites, state, output
<1>6. ASSUME NEW n \in Sizes, SendFails(n) PROVE StreamInv'
    BY <1>0, <1>6 DEF SendFails, Sending, ClearPendingSend
<1>7. CASE ChainDisconnects
    BY <1>3, <1>7 DEF ChainDisconnects
<1>8. CASE PeerStep
    <2>1. UNCHANGED <<conns, open, queue, accepted, wire>> /\ (link # "dead" \/ UNCHANGED link)
        BY <1>8 DEF PeerStep, Established, Refused, PeerCloses, PeerResets, PeerReads, PeerWrites, Kernel
    <2> QED BY <1>0, <2>1
<1>9. CASE Check
    BY <1>1, <1>3, <1>9 DEF Check, state, output
<1>10. CASE Select
    BY <1>1, <1>10 DEF Select, state, output
<1>11. CASE PostIgnored \/ PostError \/ PostRead \/ PostNothing \/ NoWrite
    BY <1>1, <1>11 DEF PostIgnored, PostError, PostRead, PostNothing, NoWrite, Goes, state, output
<1>12. CASE PostConnected \/ PostResume
    BY <1>1, <1>12 DEF PostConnected, PostResume, Goes, output
<1>13. CASE PrivateShutdown
    BY <1>0, <1>13 DEF PrivateShutdown, Goes
<1>14. CASE OnConnect
    BY <1>1, <1>2, <1>14 DEF OnConnect, Callback, Goes, output
<1>15. CASE DrainFails
    BY <1>0, <1>15 DEF DrainFails, ClearPendingSend, Goes
<1>16. CASE OnSendOK
    BY <1>1, <1>2, <1>16 DEF OnSendOK, Goes
<1>17. CASE ProcessHeld \/ ReadPaused \/ Receive
    BY <1>1, <1>17 DEF ProcessHeld, ReadPaused, Receive, Reading, Goes, state, output
<1>18. CASE ReadExceeded
    BY <1>3, <1>18 DEF ReadExceeded, Goes
<1>19. CASE ReceiveEnd
    BY <1>0, <1>19 DEF ReceiveEnd, ClearPendingSend, Reading, Goes
<1>20. ASSUME NEW k \in 0 .. MaxBytes, OnData(k) PROVE StreamInv'
    BY <1>1, <1>2, <1>20 DEF OnData, output
<1> QED BY <1>4, <1>5, <1>6, <1>7, <1>8, <1>9, <1>10, <1>11, <1>12, <1>13, <1>14, <1>15, <1>16,
           <1>17, <1>18, <1>19, <1>20, SendStream, DrainStream
        DEF Next, ChainStep, UserStep

-----------------------------------------------------------------------------
(* All of it together.  The buffer's part needs to know where the chain    *)
(* thread is, which is LifeInv; the queue's part when it is given up.      *)
SocketInv == LifeInv /\ Shape /\ BufferInv /\ StreamInv

LEMMA InitSocket == Init => SocketInv
<1> SUFFICES ASSUME Init PROVE SocketInv
    OBVIOUS
<1>1. TypeOK => Shape
    BY DEF TypeOK, Shape
<1> QED BY <1>1, InitLife, InitTypes, InitStream DEF SocketInv

LEMMA NextSocket == SocketInv /\ [Next]_vars => SocketInv'
<1> SUFFICES ASSUME SocketInv, [Next]_vars PROVE SocketInv'
    OBVIOUS
<1>1. TypeOK
    BY ShapeOfBuffer DEF SocketInv
<1>2. LifeInv'
    BY NextLife DEF SocketInv
<1>3. CASE UNCHANGED vars
    <2>1. Shape'
        BY <1>3 DEF SocketInv, Shape, vars, output, input, state
    <2>2. BufferInv'
        BY <1>3 DEF SocketInv, BufferInv, Fits, Holds, vars, output, input, state
    <2>3. StreamInv'
        BY <1>3 DEF SocketInv, StreamInv, vars, output, input, state
    <2> QED BY <1>2, <2>1, <2>2, <2>3 DEF SocketInv
<1>4. CASE Next
    <2>1. Shape'
        BY <1>4, UserShape, ChainShape DEF SocketInv, Next
    <2>2. BufferInv'
        BY <1>1, <1>4, UserBuffer, ChainBuffer DEF SocketInv, Next
    <2>3. StreamInv'
        BY <1>4, StepStream DEF SocketInv
    <2> QED BY <1>2, <2>1, <2>2, <2>3 DEF SocketInv
<1> QED BY <1>3, <1>4

LEMMA SocketTypes == SocketInv => TypeOK
<1> QED BY ShapeOfBuffer DEF SocketInv

LEMMA SocketInStream == SocketInv => InStream
<1> SUFFICES ASSUME SocketInv, at \in {"offer", "again"}
             PROVE  Given = [i \in 1 .. Len(Given) |-> eaten + i]
    BY DEF InStream
<1>0. /\ rx.mem \in Seq(Nat) /\ Len(rx.mem) \in Nat /\ rx.begin \in Nat /\ rx.end \in Nat
      /\ rx.ptr \in Nat /\ rx.stop \in Nat /\ rx.begin <= rx.end /\ rx.end <= Len(rx.mem)
    BY LenProperties DEF SocketInv, BufferInv, Fits, Buffer
<1>1. PICK b \in Nat, e \in Nat :
         b <= e /\ e <= Len(rx.mem) /\ Given = SubSeq(rx.mem, b + 1, e) /\ Holds(rx, b, e - b)
    <2>1. CASE at = "offer"
        BY <1>0, <2>1 DEF SocketInv, BufferInv, Given
    <2>2. CASE at = "again"
        <3>1. rx.ptr + rx.end = rx.stop /\ rx.stop <= Len(rx.mem) /\ Holds(rx, rx.ptr, rx.end)
            BY <2>2 DEF SocketInv, BufferInv
        <3>2. Given = SubSeq(rx.mem, rx.ptr + 1, rx.stop)
            BY <2>2, <3>1 DEF Given
        <3>3. rx.ptr <= rx.stop /\ rx.stop - rx.ptr = rx.end
            BY <1>0, <3>1
        <3> QED BY <1>0, <3>1, <3>2, <3>3
    <2> QED BY <2>1, <2>2
<1>2. /\ Given \in Seq(Nat) /\ Len(Given) = e - b
      /\ \A i \in 1 .. (e - b) : Given[i] = rx.mem[b + i]
    <2>1. \A s \in Seq(Nat), x, y \in Nat : x <= y /\ y <= Len(s) =>
             /\ SubSeq(s, x + 1, y) \in Seq(Nat) /\ Len(SubSeq(s, x + 1, y)) = y - x
             /\ \A i \in 1 .. (y - x) : SubSeq(s, x + 1, y)[i] = s[x + i]
        BY Slice
    <2> QED BY <1>0, <1>1, <2>1
<1>3. \A i \in 1 .. Len(Given) : Given[i] = eaten + i
    BY <1>1, <1>2 DEF Holds
<1>4. Given = [i \in 1 .. Len(Given) |-> Given[i]]
    BY <1>2
<1> QED BY <1>3, <1>4

LEMMA SocketStream == SocketInv => NothingSkipped
<1> QED BY DEF SocketInv, StreamInv, NothingSkipped, OwnBytes, Own

(* The receive buffer's pointers stay inside the memory it has, however    *)
(* the application consumes, pauses and resumes and however the buffer     *)
(* grows and moves (ILibAsyncSocket.c:878-1260).                           *)
THEOREM TypeTheorem == Spec => []TypeOK
<1> QED BY InitSocket, NextSocket, SocketTypes, PTL DEF Spec

(* Every OnData call gets the bytes that follow those consumed, in every   *)
(* path of the receive loop (ILibAsyncSocket.c:1209-1249).                 *)
THEOREM InStreamTheorem == Spec => []InStream
<1> QED BY InitSocket, NextSocket, SocketInStream, PTL DEF Spec

(* What Send took on goes out in the order of the calls and without a gap, *)
(* split as the kernel may split it, until a send fails                    *)
(* (ILibAsyncSocket.c:438-597, 1634-1716).                                 *)
THEOREM NothingSkippedTheorem == Spec => []NothingSkipped
<1> QED BY InitSocket, NextSocket, SocketStream, PTL DEF Spec

=============================================================================
