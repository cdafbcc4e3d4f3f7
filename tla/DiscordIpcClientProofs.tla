----------------------- MODULE DiscordIpcClientProofs -----------------------
(***************************************************************************)
(* The safety of the Discord client for every value of its constants: any  *)
(* number of activities, lost connections and pings.  The proof has two    *)
(* halves, as the client has: what it reads, and what it sends.            *)
(***************************************************************************)
EXTENDS DiscordIpcClient, SequenceTheorems, TLAPS

Sent == Activities \cup {Null, Nothing}

\* A first half is followed by its second, a second by a first.
Paired(pieces) ==
  \A i \in 1 .. Len(pieces) :
    /\ pieces[i].half = 1 =>
         i < Len(pieces) /\ pieces[i + 1] = [pieces[i] EXCEPT !.half = 2]
    /\ pieces[i].half = 2 /\ i < Len(pieces) => pieces[i + 1].half = 1

\* What is on its way is whole frames, but for the half already read.
WholeFrames(buffer, pieces) ==
  /\ Paired(pieces)
  /\ buffer = <<>> /\ pieces # <<>> => pieces[1].half = 1
  /\ buffer # <<>> => /\ buffer[1].half = 1
                      /\ pieces # <<>>
                      /\ pieces[1] = [buffer[1] EXCEPT !.half = 2]

\* A READY that is on its way is one Discord sent on this connection.
ReadyIsSent(buffer, pieces, isReady) ==
  /\ \A i \in 1 .. Len(pieces) : pieces[i].frame = "READY" => isReady
  /\ buffer # <<>> /\ buffer[1].frame = "READY" => isReady

\* The reading half: a connection that is gone has left nothing behind.
ReadInv ==
  /\ running \in BOOLEAN
  /\ socket \in {"Unconnected", "Connected", "Closing"}
  /\ ready \in BOOLEAN
  /\ readBuffer \in Seq(Pieces) /\ Len(readBuffer) < 2
  /\ reconnect \in BOOLEAN
  /\ inbound \in Seq(Pieces)
  /\ peer \in [ready : BOOLEAN, closed : BOOLEAN, pings : Nat]
  /\ {requests, drops} \subseteq Nat
  /\ AlwaysReconnecting
  /\ ReadyOnThisConnection
  /\ WholeFrames(readBuffer, inbound)
  /\ ReadyIsSent(readBuffer, inbound, peer.ready)
  /\ socket = "Unconnected" => readBuffer = <<>> /\ inbound = <<>>

\* The sending half: what Discord shows was written last, to a client that is
\* ready, so that only the throttle can keep a newer activity from it.
SendInv ==
  /\ throttle \in BOOLEAN
  /\ pending \in Sent
  /\ shown \in Sent
  /\ requested \in Sent
  /\ written \in Sent
  /\ burst \in Nat
  /\ PendingIsAwaited
  /\ NewestIsKept
  /\ shown # Nothing => ready /\ shown = written
  /\ shown # Nothing /\ shown # requested => pending = requested /\ throttle
  /\ OneUpdatePerInterval

IInv == ReadInv /\ SendInv

-----------------------------------------------------------------------------
(* Sending. *)

sendVars == <<ready, throttle, pending, shown, historyVars>>

\* A step that touches nothing of the sending half keeps it.
LEMMA SendQuiet ==
  ASSUME SendInv, UNCHANGED sendVars
  PROVE  SendInv'
BY DEF sendVars, historyVars, SendInv, PendingIsAwaited, NewestIsKept, OneUpdatePerInterval

\* sendPending keeps it, given the newest activity.
LEMMA SendPendingInv ==
  ASSUME SendInv, NEW isReady \in BOOLEAN, NEW activity \in Sent,
         SendPending(isReady, activity, throttle),
         ready' = isReady, ready => isReady, requested' \in Sent,
         IF activity = Nothing THEN written = requested' ELSE activity = requested',
         activity = Nothing => requested' = requested
  PROVE  SendInv'
<1>1. CASE Sendable(isReady, activity, throttle)
  <2>1. /\ pending' = Nothing /\ throttle' = TRUE
        /\ written' = activity /\ shown' = activity
        /\ burst' = burst + 1
        /\ isReady /\ activity # Nothing /\ ~throttle
    BY <1>1 DEF SendPending, Sendable
  <2>2. burst = 0
    BY <2>1 DEF SendInv, OneUpdatePerInterval
  <2> QED
    BY <2>1, <2>2 DEF SendInv, Sent, PendingIsAwaited, NewestIsKept, OneUpdatePerInterval
<1>2. CASE ~Sendable(isReady, activity, throttle)
  <2>1. /\ pending' = activity /\ throttle' = throttle
        /\ written' = written /\ shown' = shown /\ burst' = burst
        /\ activity = Nothing \/ ~isReady \/ throttle
    BY <1>2 DEF SendPending, Sendable
  <2> QED
    BY <2>1 DEF SendInv, Sent, PendingIsAwaited, NewestIsKept, OneUpdatePerInterval
<1> QED
  BY <1>1, <1>2

\* Losing the connection takes what Discord shows with it.
LEMMA ForgetShown ==
  ASSUME SendInv, shown' = Nothing, ready' \in BOOLEAN, ready' => ready,
         UNCHANGED <<throttle, pending, historyVars>>
  PROVE  SendInv'
BY DEF historyVars, SendInv, Sent, PendingIsAwaited, NewestIsKept, OneUpdatePerInterval

\* The end of a throttle interval sends what waits, or opens the next one idle.
LEMMA FlushThrottleInv ==
  ASSUME IInv, FlushThrottle
  PROVE  SendInv'
<1>1. ready' = ready /\ requested' = requested
  BY DEF FlushThrottle
<1>2. CASE Sendable(ready, pending, FALSE)
  <2>1. /\ pending' = Nothing /\ throttle' = TRUE
        /\ written' = pending /\ shown' = pending /\ burst' = 1
        /\ ready /\ pending # Nothing
    BY <1>2 DEF FlushThrottle, Sendable
  <2> QED
    BY <1>1, <2>1 DEF IInv, SendInv, Sent, PendingIsAwaited, NewestIsKept, OneUpdatePerInterval
<1>3. CASE ~Sendable(ready, pending, FALSE)
  <2>1. /\ throttle' = FALSE /\ burst' = 0
        /\ pending' = pending /\ written' = written /\ shown' = shown
        /\ ~ready \/ pending = Nothing
    BY <1>3 DEF FlushThrottle, Sendable
  <2>2. shown # Nothing => ready /\ shown = requested
    BY <2>1 DEF IInv, SendInv, NewestIsKept
  <2>3. PendingIsAwaited'
    BY <1>1, <2>1 DEF PendingIsAwaited
  <2>4. SendInv
    BY DEF IInv
  <2>5. shown' # Nothing => ready' /\ shown' = written'
    BY <1>1, <2>1, <2>4 DEF SendInv
  <2>6. shown' = Nothing \/ shown' = requested'
    BY <1>1, <2>1, <2>2
  <2>7. NewestIsKept' /\ OneUpdatePerInterval'
    BY <1>1, <2>1, <2>4 DEF SendInv, NewestIsKept, OneUpdatePerInterval
  <2>8. /\ throttle' \in BOOLEAN /\ burst' \in Nat
        /\ pending' \in Sent /\ shown' \in Sent /\ requested' \in Sent /\ written' \in Sent
    BY <1>1, <2>1, <2>4 DEF SendInv
  <2> QED
    BY <2>3, <2>5, <2>6, <2>7, <2>8 DEF SendInv
<1> QED
  BY <1>2, <1>3

-----------------------------------------------------------------------------
(* Reading. *)

readVars == <<running, socket, ready, readBuffer, reconnect, inbound, peer>>

\* A step that touches nothing of the reading half keeps it.
LEMMA ReadQuiet ==
  ASSUME ReadInv, running' \in BOOLEAN, {requests', drops'} \subseteq Nat,
         UNCHANGED <<socket, ready, readBuffer, reconnect, inbound, peer>>
  PROVE  ReadInv'
BY DEF ReadInv, AlwaysReconnecting, ReadyOnThisConnection, WholeFrames, Paired, ReadyIsSent

\* A connection that ends leaves nothing behind.
LEMMA DisconnectedInv ==
  ASSUME ReadInv, Disconnected, running' = running, peer' = peer,
         {requests', drops'} \subseteq Nat
  PROVE  ReadInv'
<1>1. /\ socket' = "Unconnected" /\ ready' = FALSE /\ reconnect' = TRUE
      /\ readBuffer' = <<>> /\ inbound' = <<>>
  BY DEF Disconnected
<1>2. /\ readBuffer' \in Seq(Pieces) /\ Len(readBuffer') < 2
      /\ inbound' \in Seq(Pieces)
  BY <1>1
<1>3. WholeFrames(readBuffer', inbound') /\ ReadyIsSent(readBuffer', inbound', peer'.ready)
  BY <1>1 DEF WholeFrames, Paired, ReadyIsSent
<1> QED
  BY <1>1, <1>2, <1>3 DEF ReadInv, AlwaysReconnecting, ReadyOnThisConnection

\* Nor does a new one find anything: the client was not ready, its buffer empty.
LEMMA ConnectInv ==
  ASSUME ReadInv, ConnectRefused \/ ConnectAccepted
  PROVE  ReadInv' /\ ready = FALSE /\ ready' = FALSE
<1>1. reconnect
  BY DEF ConnectRefused, ConnectAccepted
<1>2. socket = "Unconnected" /\ readBuffer = <<>> /\ inbound = <<>> /\ ready = FALSE
  BY <1>1 DEF ReadInv, AlwaysReconnecting, ReadyOnThisConnection
<1>3. readBuffer' = <<>> /\ inbound' = <<>> /\ ready' = FALSE /\ running' = running
  BY <1>2 DEF ConnectRefused, ConnectAccepted, discordVars
<1>4. /\ readBuffer' \in Seq(Pieces) /\ Len(readBuffer') < 2
      /\ inbound' \in Seq(Pieces)
  BY <1>3
<1>5. WholeFrames(readBuffer', inbound') /\ ReadyIsSent(readBuffer', inbound', peer'.ready)
  BY <1>3 DEF WholeFrames, Paired, ReadyIsSent
<1>6. /\ requests' \in Nat /\ drops' \in Nat
      /\ peer' \in [ready : BOOLEAN, closed : BOOLEAN, pings : Nat]
  <2>1. CASE ConnectRefused
    BY <2>1 DEF ConnectRefused, discordVars, ReadInv
  <2>2. CASE ConnectAccepted
    BY <2>2 DEF ConnectAccepted, Fresh, ReadInv
  <2> QED
    BY <2>1, <2>2
<1>7. /\ socket' \in {"Unconnected", "Connected", "Closing"} /\ reconnect' \in BOOLEAN
      /\ AlwaysReconnecting'
  BY <1>2 DEF ConnectRefused, ConnectAccepted, AlwaysReconnecting
<1> QED
  BY <1>2, <1>3, <1>4, <1>5, <1>6, <1>7 DEF ReadInv, ReadyOnThisConnection

\* What is read is the buffer and the next piece.
LEMMA BufferedPieces ==
  ASSUME readBuffer \in Seq(Pieces), inbound \in Seq(Pieces), inbound # <<>>
  PROVE  /\ inbound[1] \in Pieces
         /\ 1 \in 1 .. Len(inbound)
         /\ Len(Buffered) = Len(readBuffer) + 1
         /\ Buffered[Len(readBuffer) + 1] = inbound[1]
         /\ \A i \in 1 .. Len(readBuffer) : Buffered[i] = readBuffer[i]
         /\ Tail(inbound) \in Seq(Pieces)
         /\ Len(Tail(inbound)) = Len(inbound) - 1
         /\ \A i \in 1 .. Len(inbound) - 1 : Tail(inbound)[i] = inbound[i + 1]
<1>1. Head(inbound) = inbound[1] /\ inbound[1] \in Pieces /\ Len(inbound) >= 1
  OBVIOUS
<1> QED
  BY <1>1 DEF Buffered

\* What is left is paired too, and holds no other READY.
LEMMA RestOfPieces ==
  ASSUME inbound \in Seq(Pieces), inbound # <<>>, Paired(inbound), NEW isReady,
         \A i \in 1 .. Len(inbound) : inbound[i].frame = "READY" => isReady
  PROVE  /\ Paired(Tail(inbound))
         /\ \A i \in 1 .. Len(Tail(inbound)) : Tail(inbound)[i].frame = "READY" => isReady
<1> DEFINE rest == Tail(inbound)
<1>1. /\ Len(rest) = Len(inbound) - 1 /\ Len(inbound) \in Nat
      /\ \A i \in 1 .. Len(inbound) - 1 : rest[i] = inbound[i + 1]
  OBVIOUS
<1> HIDE DEF rest
<1>2. ASSUME NEW i \in 1 .. Len(rest)
      PROVE  /\ rest[i].half = 1 =>
                  i < Len(rest) /\ rest[i + 1] = [rest[i] EXCEPT !.half = 2]
             /\ rest[i].half = 2 /\ i < Len(rest) => rest[i + 1].half = 1
             /\ rest[i].frame = "READY" => isReady
  <2>1. i + 1 \in 1 .. Len(inbound) /\ rest[i] = inbound[i + 1]
    BY <1>1
  <2>2. i < Len(rest) => rest[i + 1] = inbound[(i + 1) + 1]
    BY <1>1
  <2>3. i + 1 < Len(inbound) <=> i < Len(rest)
    BY <1>1
  <2> QED
    BY <2>1, <2>2, <2>3 DEF Paired
<1> QED
  BY <1>2 DEF Paired, rest

\* The client reads half a frame, and keeps it.
LEMMA ReadPartialInv ==
  ASSUME ReadInv, ReadPartial
  PROVE  ReadInv'
<1>1. /\ socket # "Unconnected" /\ inbound # <<>> /\ Len(Buffered) < 2
      /\ readBuffer' = Buffered /\ inbound' = Tail(inbound)
      /\ UNCHANGED <<running, socket, ready, reconnect, peer, requests, drops>>
  BY DEF ReadPartial, Receive
<1>2. inbound \in Seq(Pieces) /\ readBuffer \in Seq(Pieces) /\ WholeFrames(readBuffer, inbound)
  BY DEF ReadInv
<1>3. Len(readBuffer) = 0 /\ readBuffer = <<>>
  BY <1>1, <1>2, BufferedPieces
<1>4. /\ readBuffer' \in Seq(Pieces) /\ Len(readBuffer') = 1
      /\ readBuffer' # <<>> /\ readBuffer'[1] = inbound[1]
  BY <1>1, <1>2, <1>3, BufferedPieces DEF Buffered
<1>5. /\ Len(inbound') = Len(inbound) - 1
      /\ \A i \in 1 .. Len(inbound) - 1 : inbound'[i] = inbound[i + 1]
      /\ inbound' \in Seq(Pieces)
  BY <1>1, <1>2, BufferedPieces
<1>6. inbound[1].half = 1
  BY <1>1, <1>2, <1>3 DEF WholeFrames
<1>7. 1 < Len(inbound) /\ inbound[2] = [inbound[1] EXCEPT !.half = 2]
  BY <1>1, <1>2, <1>6, BufferedPieces DEF WholeFrames, Paired
<1>8. inbound' # <<>> /\ inbound'[1] = [readBuffer'[1] EXCEPT !.half = 2]
  BY <1>4, <1>5, <1>7
<1>9. ReadyIsSent(readBuffer, inbound, peer.ready) /\ Paired(inbound)
  BY <1>2 DEF ReadInv, WholeFrames
<1>10. /\ Paired(inbound')
       /\ \A i \in 1 .. Len(inbound') : inbound'[i].frame = "READY" => peer.ready
  BY <1>1, <1>2, <1>9, RestOfPieces DEF ReadyIsSent
<1>11. WholeFrames(readBuffer', inbound')
  BY <1>4, <1>6, <1>8, <1>10 DEF WholeFrames
<1>12. ReadyIsSent(readBuffer', inbound', peer'.ready)
  BY <1>1, <1>2, <1>4, <1>9, <1>10, BufferedPieces DEF ReadyIsSent
<1> QED
  BY <1>1, <1>4, <1>5, <1>11, <1>12 DEF ReadInv, AlwaysReconnecting, ReadyOnThisConnection

\* The client reads the other half: what it has is one frame, never a torn one.
LEMMA ReadWhole ==
  ASSUME ReadInv, Receive, Len(Buffered) = 2
  PROVE  /\ readBuffer # <<>>
         /\ FrameOf(Buffered) = readBuffer[1].frame
         /\ FrameOf(Buffered) \in Frames
         /\ Tail(inbound) \in Seq(Pieces)
         /\ WholeFrames(<<>>, Tail(inbound))
         /\ ReadyIsSent(<<>>, Tail(inbound), peer.ready)
<1>1. /\ inbound # <<>> /\ inbound \in Seq(Pieces) /\ readBuffer \in Seq(Pieces)
      /\ WholeFrames(readBuffer, inbound)
      /\ ReadyIsSent(readBuffer, inbound, peer.ready)
  BY DEF ReadInv, Receive
<1>2. Len(readBuffer) = 1 /\ readBuffer # <<>>
  <2> DEFINE n == Len(readBuffer)
  <2>1. n \in Nat /\ n + 1 = 2
    BY <1>1, BufferedPieces
  <2> HIDE DEF n
  <2>2. n = 1
    BY <2>1
  <2> QED
    BY <2>2 DEF n
<1>3. Buffered[1] = readBuffer[1] /\ Buffered[2] = inbound[1]
  BY <1>1, <1>2, BufferedPieces
<1>4. /\ readBuffer[1] \in Pieces /\ readBuffer[1].half = 1
      /\ inbound[1] = [readBuffer[1] EXCEPT !.half = 2]
  BY <1>1, <1>2 DEF WholeFrames
<1>5. FrameOf(Buffered) = readBuffer[1].frame /\ FrameOf(Buffered) \in Frames
  BY <1>3, <1>4 DEF FrameOf, Pieces
<1>6. inbound[1].half = 2
  BY <1>4 DEF Pieces
<1> DEFINE rest == Tail(inbound)
<1>7. /\ Len(rest) = Len(inbound) - 1
      /\ \A i \in 1 .. Len(inbound) - 1 : rest[i] = inbound[i + 1]
      /\ rest \in Seq(Pieces)
      /\ 1 \in 1 .. Len(inbound)
  BY <1>1, BufferedPieces
<1> HIDE DEF rest
<1>8. WholeFrames(<<>>, rest)
  <2>1. rest # <<>> => 1 < Len(inbound)
    BY <1>7
  <2>2. rest # <<>> => rest[1].half = 1
    BY <1>1, <1>6, <1>7, <2>1 DEF WholeFrames, Paired
  <2>3. Paired(rest)
    BY <1>1, RestOfPieces DEF WholeFrames, ReadyIsSent, rest
  <2> QED
    BY <2>2, <2>3 DEF WholeFrames
<1>9. ReadyIsSent(<<>>, rest, peer.ready)
  BY <1>1, RestOfPieces DEF WholeFrames, ReadyIsSent, rest
<1> QED
  BY <1>2, <1>5, <1>7, <1>8, <1>9 DEF rest

\* A READY comes from this connection's Discord, so the client may be ready.
LEMMA ReadReadyInv ==
  ASSUME IInv, ReadReady
  PROVE  IInv'
<1>1. /\ Receive /\ Len(Buffered) = 2 /\ FrameOf(Buffered) = "READY"
      /\ readBuffer' = <<>> /\ inbound' = Tail(inbound) /\ ready' = TRUE
      /\ SendPending(TRUE, pending, throttle)
      /\ UNCHANGED <<running, socket, reconnect, peer, requested, requests, drops>>
  BY DEF ReadReady
<1>2. ReadInv /\ SendInv
  BY DEF IInv
<1>3. /\ readBuffer # <<>> /\ readBuffer[1].frame = "READY"
      /\ inbound' \in Seq(Pieces)
      /\ WholeFrames(readBuffer', inbound')
      /\ ReadyIsSent(readBuffer', inbound', peer'.ready)
  BY <1>1, <1>2, ReadWhole
<1>4. peer.ready
  BY <1>2, <1>3 DEF ReadInv, ReadyIsSent
<1>5. socket # "Unconnected" /\ readBuffer' \in Seq(Pieces) /\ Len(readBuffer') < 2
  BY <1>1 DEF Receive
<1>6. ReadInv'
  BY <1>1, <1>2, <1>3, <1>4, <1>5 DEF ReadInv, AlwaysReconnecting, ReadyOnThisConnection
<1>7. SendInv'
  <2>1. pending \in Sent /\ requested' \in Sent
    BY <1>1, <1>2 DEF SendInv
  <2>2. IF pending = Nothing THEN written = requested' ELSE pending = requested'
    BY <1>1, <1>2 DEF SendInv, NewestIsKept
  <2>3. requested' = requested /\ ready' = TRUE
    BY <1>1
  <2> QED
    BY <1>1, <1>2, <2>1, <2>2, <2>3, SendPendingInv
<1> QED
  BY <1>6, <1>7 DEF IInv

\* Any other frame is dropped when it is whole.
LEMMA ReadOtherInv ==
  ASSUME IInv, ReadOther
  PROVE  IInv'
<1>1. /\ Receive /\ Len(Buffered) = 2
      /\ readBuffer' = <<>> /\ inbound' = Tail(inbound)
      /\ UNCHANGED <<running, socket, ready, reconnect, peer, requests, drops>>
      /\ UNCHANGED sendVars
  BY DEF ReadOther, sendVars
<1>2. ReadInv /\ SendInv
  BY DEF IInv
<1>3. /\ inbound' \in Seq(Pieces)
      /\ WholeFrames(readBuffer', inbound')
      /\ ReadyIsSent(readBuffer', inbound', peer'.ready)
  BY <1>1, <1>2, ReadWhole
<1>4. socket # "Unconnected" /\ readBuffer' \in Seq(Pieces) /\ Len(readBuffer') < 2
  BY <1>1 DEF Receive
<1>5. ReadInv'
  BY <1>1, <1>2, <1>3, <1>4 DEF ReadInv, AlwaysReconnecting, ReadyOnThisConnection
<1> QED
  BY <1>1, <1>2, <1>5, SendQuiet DEF IInv

\* CLOSE ends the connection, at once or once the pong is out.
LEMMA ReadCloseInv ==
  ASSUME IInv, ReadClose
  PROVE  IInv'
<1>1. /\ Receive /\ Len(Buffered) = 2
      /\ UNCHANGED <<running, throttle, pending, peer, historyVars, requests, drops>>
  BY DEF ReadClose
<1>2. ReadInv /\ SendInv
  BY DEF IInv
<1>3. {requests', drops'} \subseteq Nat
  BY <1>1, <1>2 DEF ReadInv
<1>4. CASE Disconnected
  <2>1. ReadInv'
    BY <1>1, <1>2, <1>3, <1>4, DisconnectedInv
  <2>2. SendInv'
    BY <1>1, <1>2, <1>4, ForgetShown DEF Disconnected
  <2> QED
    BY <2>1, <2>2 DEF IInv
<1>5. CASE /\ socket' = "Closing"
           /\ readBuffer' = <<>>
           /\ inbound' = Tail(inbound)
           /\ UNCHANGED <<ready, reconnect, shown>>
  <2>1. /\ inbound' \in Seq(Pieces)
        /\ WholeFrames(readBuffer', inbound')
        /\ ReadyIsSent(readBuffer', inbound', peer'.ready)
    BY <1>1, <1>2, <1>5, ReadWhole
  <2>2. socket # "Unconnected" /\ readBuffer' \in Seq(Pieces) /\ Len(readBuffer') < 2
    BY <1>1, <1>5 DEF Receive
  <2>3. ReadInv'
    BY <1>1, <1>2, <1>3, <1>5, <2>1, <2>2 DEF ReadInv, AlwaysReconnecting, ReadyOnThisConnection
  <2>4. UNCHANGED sendVars
    BY <1>1, <1>5 DEF sendVars
  <2> QED
    BY <1>2, <2>3, <2>4, SendQuiet DEF IInv
<1> QED
  BY <1>4, <1>5 DEF ReadClose

-----------------------------------------------------------------------------
(* Discord. *)

\* A whole frame behind whole frames.
LEMMA DeliverInv ==
  ASSUME ReadInv, NEW frame \in Frames, Deliver(frame),
         peer' \in [ready : BOOLEAN, closed : BOOLEAN, pings : Nat],
         peer.ready => peer'.ready, frame = "READY" => peer'.ready, drops' \in Nat
  PROVE  ReadInv'
<1> DEFINE n == Len(inbound)
           whole == Whole(frame)
<1>1. /\ socket = "Connected" /\ inbound' = inbound \o whole
      /\ UNCHANGED <<running, socket, ready, readBuffer, reconnect, requests>>
  BY DEF Deliver, clientVars
<1>2. /\ inbound \in Seq(Pieces) /\ n \in Nat
      /\ WholeFrames(readBuffer, inbound)
      /\ ReadyIsSent(readBuffer, inbound, peer.ready)
  BY DEF ReadInv
<1>3. /\ whole \in Seq(Pieces) /\ Len(whole) = 2
      /\ whole[1] = [frame |-> frame, half |-> 1]
      /\ whole[2] = [frame |-> frame, half |-> 2]
  BY DEF Whole, Pieces
<1> HIDE DEF whole
<1>4. /\ inbound' \in Seq(Pieces) /\ Len(inbound') = n + 2
      /\ \A i \in 1 .. n : inbound'[i] = inbound[i]
      /\ inbound'[n + 1] = whole[1] /\ inbound'[n + 2] = whole[2]
  <2>1. /\ inbound' \in Seq(Pieces) /\ Len(inbound') = n + 2
        /\ \A i \in 1 .. n + 2 : inbound'[i] = IF i <= n THEN inbound[i] ELSE whole[i - n]
    <3>1. /\ inbound \o whole \in Seq(Pieces)
          /\ Len(inbound \o whole) = n + Len(whole)
          /\ \A i \in 1 .. n + Len(whole) :
               (inbound \o whole)[i] = IF i <= n THEN inbound[i] ELSE whole[i - n]
      <4>1. inbound \in Seq(Pieces) /\ whole \in Seq(Pieces)
        BY <1>2, <1>3
      <4> QED
        BY <4>1, ConcatProperties, Zenon
    <3> HIDE DEF n
    <3> QED
      BY <1>1, <1>3, <3>1
  <2> HIDE DEF n
  <2>2. /\ n + 1 \in 1 .. n + 2 /\ ~(n + 1 <= n) /\ (n + 1) - n = 1
        /\ n + 2 \in 1 .. n + 2 /\ ~(n + 2 <= n) /\ (n + 2) - n = 2
    BY <1>2
  <2>3. \A i \in 1 .. n : i \in 1 .. n + 2 /\ i <= n
    BY <1>2
  <2>4. inbound'[n + 1] = whole[1] /\ inbound'[n + 2] = whole[2]
    BY <2>1, <2>2
  <2> QED
    BY <2>1, <2>3, <2>4
<1> HIDE DEF n
<1>5. Paired(inbound')
  <2>1. Len(inbound) = n /\ \A i \in 1 .. n : inbound[i].half \in {1, 2}
    <3>1. \A i \in 1 .. n : inbound[i] \in Pieces
      BY <1>2 DEF n
    <3> QED
      BY <3>1 DEF n, Pieces
  <2>2. ASSUME NEW i \in 1 .. n
        PROVE  /\ inbound'[i].half = 1 =>
                    i < n + 2 /\ inbound'[i + 1] = [inbound'[i] EXCEPT !.half = 2]
               /\ inbound'[i].half = 2 => inbound'[i + 1].half = 1
    <3>1. CASE i < n
      <4>1. i + 1 \in 1 .. n /\ inbound'[i + 1] = inbound[i + 1] /\ inbound'[i] = inbound[i]
        BY <1>2, <1>4, <3>1
      <4> QED
        BY <1>2, <2>1, <3>1, <4>1 DEF WholeFrames, Paired
    <3>2. CASE i = n
      <4>1. ~(i < Len(inbound)) /\ i \in 1 .. Len(inbound)
        BY <1>2, <2>1, <3>2
      <4>2. inbound[i].half # 1
        BY <1>2, <4>1 DEF WholeFrames, Paired
      <4>3. inbound'[i] = inbound[i] /\ inbound[i].half = 2
        BY <1>4, <2>1, <4>2
      <4> QED
        BY <1>3, <1>4, <3>2, <4>3
    <3> QED
      BY <1>2, <3>1, <3>2
  <2>3. /\ inbound'[n + 1].half = 1 /\ n + 1 < n + 2
        /\ inbound'[(n + 1) + 1] = [inbound'[n + 1] EXCEPT !.half = 2]
    BY <1>2, <1>3, <1>4
  <2>4. inbound'[n + 2].half = 2 /\ ~(n + 2 < n + 2)
    BY <1>2, <1>3, <1>4
  <2>5. \A i \in 1 .. Len(inbound') : i \in 1 .. n \/ i = n + 1 \/ i = n + 2
    BY <1>2, <1>4
  <2> QED
    BY <1>4, <2>2, <2>3, <2>4, <2>5 DEF Paired
<1>6. inbound' # <<>> /\ (inbound'[1].half = 1 \/ readBuffer # <<>>)
  <2>1. inbound' # <<>>
    BY <1>2, <1>4
  <2>2. CASE n = 0
    BY <1>3, <1>4, <2>1, <2>2
  <2>3. CASE n # 0
    <3>1. 1 \in 1 .. n /\ inbound # <<>>
      BY <1>2, <2>3 DEF n
    <3> QED
      BY <1>2, <1>4, <2>1, <3>1 DEF WholeFrames
  <2> QED
    BY <2>2, <2>3
<1>7. readBuffer # <<>> => /\ readBuffer[1].half = 1
                           /\ inbound' # <<>>
                           /\ inbound'[1] = [readBuffer[1] EXCEPT !.half = 2]
  <2>1. readBuffer # <<>> => 1 \in 1 .. n
    BY <1>2 DEF WholeFrames, n
  <2> QED
    BY <1>2, <1>4, <1>6, <2>1 DEF WholeFrames
<1>8. WholeFrames(readBuffer', inbound')
  BY <1>1, <1>5, <1>6, <1>7 DEF WholeFrames
<1>9. ReadyIsSent(readBuffer', inbound', peer'.ready)
  <2>1. ASSUME NEW i \in 1 .. Len(inbound'), inbound'[i].frame = "READY"
        PROVE  peer'.ready
    <3>1. CASE i \in 1 .. n
      BY <1>2, <1>4, <2>1, <3>1 DEF ReadyIsSent, n
    <3>2. CASE i = n + 1 \/ i = n + 2
      <4>1. inbound'[i].frame = frame
        BY <1>3, <1>4, <3>2
      <4> QED
        BY <2>1, <4>1
    <3> QED
      BY <1>2, <1>4, <3>1, <3>2
  <2> QED
    BY <1>1, <1>2, <2>1 DEF ReadyIsSent
<1> QED
  BY <1>1, <1>4, <1>8, <1>9 DEF ReadInv, AlwaysReconnecting, ReadyOnThisConnection

\* Whatever Discord sends, the client has done nothing yet.
LEMMA DiscordInv ==
  ASSUME IInv, DiscordReady \/ DiscordPing \/ DiscordClose
  PROVE  IInv'
<1>1. ReadInv /\ SendInv
  BY DEF IInv
<1>2. peer \in [ready : BOOLEAN, closed : BOOLEAN, pings : Nat] /\ drops \in Nat
  BY <1>1 DEF ReadInv
<1>3. CASE DiscordReady
  <2>1. /\ peer' \in [ready : BOOLEAN, closed : BOOLEAN, pings : Nat]
        /\ peer'.ready /\ drops' \in Nat /\ Deliver("READY")
    BY <1>2, <1>3 DEF DiscordReady
  <2>2. ReadInv'
    BY <1>1, <2>1, DeliverInv DEF Frames
  <2> QED
    BY <1>1, <2>1, <2>2, SendQuiet DEF Deliver, clientVars, sendVars, IInv
<1>4. CASE DiscordPing
  <2>1. /\ peer' \in [ready : BOOLEAN, closed : BOOLEAN, pings : Nat]
        /\ peer'.ready = peer.ready /\ drops' \in Nat /\ Deliver("PING")
    BY <1>2, <1>4 DEF DiscordPing
  <2>2. ReadInv'
    BY <1>1, <2>1, DeliverInv DEF Frames
  <2> QED
    BY <1>1, <2>1, <2>2, SendQuiet DEF Deliver, clientVars, sendVars, IInv
<1>5. CASE DiscordClose
  <2>1. drops' \in Nat /\ Deliver("CLOSE") /\ peer' = [peer EXCEPT !.closed = TRUE]
    BY <1>2, <1>5 DEF DiscordClose
  <2>3. /\ peer' \in [ready : BOOLEAN, closed : BOOLEAN, pings : Nat]
        /\ peer'.ready = peer.ready
    BY <1>2, <2>1
  <2>2. ReadInv'
    BY <1>1, <2>1, <2>3, DeliverInv DEF Frames
  <2> QED
    BY <1>1, <2>1, <2>2, SendQuiet DEF Deliver, clientVars, sendVars, IInv
<1> QED
  BY <1>3, <1>4, <1>5

-----------------------------------------------------------------------------
(* The inductive invariant. *)

\* It holds of a client that has just started.
LEMMA InitIInv == Init => IInv
<1> SUFFICES ASSUME Init PROVE IInv
  OBVIOUS
<1>1. ReadInv
  <2>1. readBuffer = <<>> /\ inbound = <<>> /\ ready = FALSE
    BY DEF Init
  <2>2. readBuffer \in Seq(Pieces) /\ Len(readBuffer) < 2 /\ inbound \in Seq(Pieces)
    BY <2>1
  <2>3. WholeFrames(readBuffer, inbound) /\ ReadyIsSent(readBuffer, inbound, peer.ready)
    BY <2>1 DEF WholeFrames, Paired, ReadyIsSent
  <2>4. peer \in [ready : BOOLEAN, closed : BOOLEAN, pings : Nat]
    BY DEF Init, Fresh
  <2> QED
    <3>1. /\ running = TRUE /\ socket = "Unconnected" /\ reconnect = TRUE
          /\ requests = 0 /\ drops = 0
      BY DEF Init
    <3>2. AlwaysReconnecting /\ ReadyOnThisConnection
      BY <2>1, <3>1 DEF AlwaysReconnecting, ReadyOnThisConnection
    <3>3. running \in BOOLEAN /\ ready \in BOOLEAN /\ reconnect \in BOOLEAN
      BY <2>1, <3>1
    <3>4. socket \in {"Unconnected", "Connected", "Closing"}
      BY <3>1
    <3>5. {requests, drops} \subseteq Nat
      BY <3>1
    <3> QED
      BY <2>1, <2>2, <2>3, <2>4, <3>2, <3>3, <3>4, <3>5, Zenon DEF ReadInv
<1>2. SendInv
  <2>1. /\ throttle = FALSE /\ pending = Nothing /\ shown = Nothing
        /\ requested = Nothing /\ written = Nothing /\ burst = 0
    BY DEF Init
  <2>2. Nothing \in Sent
    BY DEF Sent
  <2>3. PendingIsAwaited /\ NewestIsKept /\ OneUpdatePerInterval
    BY <2>1 DEF PendingIsAwaited, NewestIsKept, OneUpdatePerInterval
  <2> QED
    BY <2>1, <2>2, <2>3 DEF SendInv
<1> QED
  BY <1>1, <1>2 DEF IInv

\* Requests reach the sending half only.
LEMMA RequestInv ==
  ASSUME IInv, ClearActivity \/ \E activity \in Activities : SetActivity(activity)
  PROVE  IInv'
<1>1. ReadInv /\ SendInv /\ ready \in BOOLEAN /\ requests \in Nat /\ drops \in Nat
  BY DEF IInv, ReadInv
<1>2. PICK activity \in Activities \cup {Null} :
        /\ requested' = activity
        /\ SendPending(ready, activity, throttle)
        /\ UNCHANGED <<socket, ready, readBuffer, reconnect, inbound, peer, drops>>
        /\ running' \in BOOLEAN /\ requests' \in Nat
  <2>1. CASE ClearActivity
    <3>1. /\ requested' = Null
          /\ SendPending(ready, Null, throttle)
          /\ UNCHANGED <<socket, ready, readBuffer, reconnect, inbound, peer, drops>>
          /\ running' \in BOOLEAN /\ requests' \in Nat
      BY <1>1, <2>1 DEF ClearActivity
    <3> QED
      BY <3>1
  <2>2. CASE \E activity \in Activities : SetActivity(activity)
    <3>1. PICK asked \in Activities : SetActivity(asked)
      BY <2>2
    <3>2. running' = running /\ running \in BOOLEAN
      BY <1>1, <3>1 DEF SetActivity, ReadInv
    <3>3. /\ requested' = asked
          /\ SendPending(ready, asked, throttle)
          /\ UNCHANGED <<socket, ready, readBuffer, reconnect, inbound, peer, drops>>
          /\ requests' \in Nat
      BY <1>1, <3>1 DEF SetActivity
    <3> QED
      BY <3>2, <3>3
  <2> QED
    BY <2>1, <2>2
<1>3. ReadInv'
  BY <1>1, <1>2, ReadQuiet
<1>4. activity \in Sent /\ activity # Nothing
  BY DiscordAssumption DEF Sent
<1>5. SendInv'
  BY <1>1, <1>2, <1>4, SendPendingInv
<1> QED
  BY <1>3, <1>5 DEF IInv

\* Connecting and losing the connection reach both.
LEMMA ConnectionInv ==
  ASSUME IInv, ConnectRefused \/ ConnectAccepted \/ ConnectionLost \/ ClosingDone
  PROVE  IInv'
<1>1. ReadInv /\ SendInv /\ drops \in Nat /\ requests \in Nat
  BY DEF IInv, ReadInv
<1>2. CASE ConnectRefused \/ ConnectAccepted
  <2>1. ReadInv' /\ ready = FALSE /\ ready' = FALSE
    BY <1>1, <1>2, ConnectInv
  <2>2. shown = Nothing
    BY <1>1, <2>1 DEF SendInv
  <2>3. shown' = Nothing /\ UNCHANGED <<throttle, pending, historyVars>>
    BY <1>2, <2>2 DEF ConnectRefused, ConnectAccepted, discordVars
  <2> QED
    BY <1>1, <2>1, <2>3, ForgetShown DEF IInv
<1>3. CASE ConnectionLost \/ ClosingDone
  <2>1. /\ Disconnected
        /\ UNCHANGED <<running, throttle, pending, peer, historyVars>>
        /\ requests' \in Nat /\ drops' \in Nat
    BY <1>1, <1>3 DEF ConnectionLost, ClosingDone
  <2>2. ReadInv'
    BY <1>1, <2>1, DisconnectedInv
  <2>3. SendInv'
    BY <1>1, <2>1, ForgetShown DEF Disconnected
  <2> QED
    BY <2>2, <2>3 DEF IInv
<1> QED
  BY <1>2, <1>3

\* Every step preserves it.
LEMMA NextIInv == IInv /\ [Next]_vars => IInv'
<1> SUFFICES ASSUME IInv, [Next]_vars PROVE IInv'
  OBVIOUS
<1>1. CASE ClearActivity \/ \E activity \in Activities : SetActivity(activity)
  BY <1>1, RequestInv
<1>2. CASE FlushThrottle
  <2>1. ReadInv'
    BY <1>2, ReadQuiet DEF FlushThrottle, IInv, ReadInv
  <2> QED
    BY <1>2, <2>1, FlushThrottleInv DEF IInv
<1>3. CASE ConnectRefused \/ ConnectAccepted \/ ConnectionLost \/ ClosingDone
  BY <1>3, ConnectionInv
<1>4. CASE ReadPartial
  <2>1. ReadInv' /\ UNCHANGED sendVars
    BY <1>4, ReadPartialInv DEF IInv, ReadPartial, sendVars
  <2> QED
    BY <2>1, SendQuiet DEF IInv
<1>5. CASE ReadReady
  BY <1>5, ReadReadyInv
<1>6. CASE ReadOther
  BY <1>6, ReadOtherInv
<1>7. CASE ReadClose
  BY <1>7, ReadCloseInv
<1>8. CASE DiscordReady \/ DiscordPing \/ DiscordClose
  BY <1>8, DiscordInv
<1>9. CASE UNCHANGED vars
  <2>1. UNCHANGED sendVars /\ UNCHANGED readVars /\ UNCHANGED <<requests, drops>>
    BY <1>9 DEF vars, clientVars, discordVars, sendVars, readVars
  <2>2. ReadInv'
    BY <2>1, ReadQuiet DEF readVars, IInv, ReadInv
  <2> QED
    BY <2>1, <2>2, SendQuiet DEF IInv
<1> QED
  BY <1>1, <1>2, <1>3, <1>4, <1>5, <1>6, <1>7, <1>8, <1>9 DEF Next, Read
-----------------------------------------------------------------------------
(* The theorems. *)

\* In every state the client can be in.
LEMMA Always == Spec => []IInv
BY InitIInv, NextIInv, PTL DEF Spec

\* What the invariant says of the properties the runs check.
LEMMA Consequences ==
  IInv => /\ TypeOK /\ AlwaysReconnecting /\ ReadyOnThisConnection /\ PendingIsAwaited
          /\ NewestIsKept /\ ShownIsNewest /\ NoTornFrames /\ OneUpdatePerInterval
<1> SUFFICES ASSUME IInv
             PROVE  /\ TypeOK /\ AlwaysReconnecting /\ ReadyOnThisConnection
                    /\ PendingIsAwaited /\ NewestIsKept /\ ShownIsNewest /\ NoTornFrames
                    /\ OneUpdatePerInterval
  OBVIOUS
<1>1. ReadInv /\ SendInv
  BY DEF IInv
<1>2. AlwaysReconnecting /\ ReadyOnThisConnection
  BY <1>1 DEF ReadInv
<1>3. PendingIsAwaited /\ NewestIsKept /\ ShownIsNewest /\ OneUpdatePerInterval
  BY <1>1 DEF SendInv, ShownIsNewest
<1>4. TypeOK
  <2>1. {shown, requested, written} \subseteq Activities \cup {Null, Nothing}
    BY <1>1 DEF SendInv, Sent
  <2>2. {burst, requests, drops} \subseteq Nat
    BY <1>1 DEF ReadInv, SendInv
  <2>3. throttle \in BOOLEAN /\ pending \in Activities \cup {Null, Nothing}
    BY <1>1 DEF SendInv, Sent
  <2> QED
    BY <1>1, <2>1, <2>2, <2>3 DEF ReadInv, TypeOK
<1>5. NoTornFrames
  <2>1. readBuffer # <<>> => readBuffer[1].half = 1
    BY <1>1 DEF ReadInv, WholeFrames
  <2>2. ASSUME readBuffer # <<>>, inbound # <<>>
        PROVE  FrameOf(Buffered) # "TORN"
    <3>1. /\ readBuffer \in Seq(Pieces) /\ inbound \in Seq(Pieces) /\ Len(readBuffer) < 2
          /\ readBuffer[1].half = 1 /\ inbound[1] = [readBuffer[1] EXCEPT !.half = 2]
      BY <1>1, <2>2 DEF ReadInv, WholeFrames
    <3>2. Len(readBuffer) = 1 /\ readBuffer[1] \in Pieces
      <4> DEFINE n == Len(readBuffer)
      <4>1. n \in Nat /\ n # 0 /\ n < 2 /\ \A i \in 1 .. n : readBuffer[i] \in Pieces
        BY <2>2, <3>1
      <4> HIDE DEF n
      <4>2. n = 1
        BY <4>1
      <4> QED
        BY <4>1, <4>2 DEF n
    <3>4. Buffered[1] = readBuffer[1] /\ Buffered[2] = inbound[1]
      BY <2>2, <3>1, <3>2, BufferedPieces
    <3>5. FrameOf(Buffered) = readBuffer[1].frame
      BY <3>1, <3>4 DEF FrameOf
    <3> QED
      BY <3>2, <3>5 DEF Pieces, Frames
  <2> QED
    BY <2>1, <2>2 DEF NoTornFrames
<1> QED
  BY <1>2, <1>3, <1>4, <1>5

\* Every member keeps its C++ type, and between reads m_readBuffer holds less
\* than a whole frame (DiscordIpcClient::onReadyRead).
THEOREM TypeCorrect == Spec => []TypeOK
BY Always, Consequences, PTL

\* The reconnect timer runs exactly while there is no connection
\* (onConnected, onDisconnected, onSocketError).
THEOREM Reconnects == Spec => []AlwaysReconnecting
BY Always, Consequences, PTL

\* m_ready is only true after a READY on this connection: the proof needs that
\* a READY on its way, or half of one in m_readBuffer, is one Discord sent here.
THEOREM ReadyIsOfThisConnection == Spec => []ReadyOnThisConnection
BY Always, Consequences, PTL

\* m_pendingActivity waits for READY or for the throttle, never for nothing.
THEOREM NothingIsLeftBehind == Spec => []PendingIsAwaited
BY Always, Consequences, PTL

\* The newest activity asked for waits or was written last (sendPending).
THEOREM NewestIsNeverLost == Spec => []NewestIsKept
BY Always, Consequences, PTL

\* Discord shows no older activity, except for the rest of a throttle interval.
THEOREM NoOlderActivityStays == Spec => []ShownIsNewest
BY Always, Consequences, PTL

\* No frame is assembled from the pieces of two connections (m_readBuffer).
THEOREM FramesAreWhole == Spec => []NoTornFrames
BY Always, Consequences, PTL

\* Discord's rate limit holds across connections (m_throttleTimer).
THEOREM RateLimitHolds == Spec => []OneUpdatePerInterval
BY Always, Consequences, PTL
=============================================================================
