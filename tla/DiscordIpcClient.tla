-------------------------- MODULE DiscordIpcClient --------------------------
(***************************************************************************)
(* The client of Discord's local socket (daemon/presence): it connects,    *)
(* says hello, waits for READY, and from then on writes at most one        *)
(* SET_ACTIVITY per throttle interval, keeping only the newest activity    *)
(* that could not be written yet.  A lost connection is retried on a timer.*)
(*                                                                         *)
(* Discord and the socket are external.  Discord answers the handshake     *)
(* with READY, may ping, and may close the connection or vanish; frames    *)
(* arrive in order, in pieces.  A frame is two pieces here, so every frame *)
(* can be split across reads.  The client reads a piece at a time: its     *)
(* loop over m_readBuffer keeps no state but the buffer, so reading more   *)
(* at once is the same as reading several times with nothing in between.   *)
(***************************************************************************)
EXTENDS Naturals, Sequences

CONSTANTS
  Activities,        \* the activities PresencePublisher asks for
  Null,              \* the JSON null of clearActivity
  Nothing,           \* no activity
  MaxRequests,       \* bound: calls of setActivity
  MaxDrops,          \* bound: connections lost, and connection attempts refused
  MaxPings           \* bound: pings on one connection

ASSUME DiscordAssumption ==
  /\ Null \notin Activities
  /\ Nothing \notin Activities \cup {Null}
  /\ MaxRequests \in Nat
  /\ MaxDrops \in Nat
  /\ MaxPings \in Nat

VARIABLES
  running,           \* until aboutToQuit
  socket,            \* m_socket.state()
  ready,             \* m_ready
  readBuffer,        \* m_readBuffer, in pieces
  reconnect,         \* m_reconnectTimer.isActive()
  throttle,          \* m_throttleTimer.isActive()
  pending,           \* m_pendingActivity
  inbound,           \* pieces Discord has sent and the client has not read
  peer,              \* what Discord has sent on this connection
  shown,             \* the activity Discord shows, as told on this connection
  requested,         \* history: the newest activity asked for
  written,           \* history: the newest activity written to any connection
  burst,             \* history: SET_ACTIVITY frames since the throttle last elapsed
  requests, drops    \* bounded counters

clientVars == <<running, socket, ready, readBuffer, reconnect, throttle, pending>>
discordVars == <<inbound, peer, shown>>
historyVars == <<requested, written, burst>>
vars == <<clientVars, discordVars, historyVars, requests, drops>>

Frames == {"READY", "PING", "CLOSE"}
Pieces == [frame : Frames, half : {1, 2}]
Fresh == [ready |-> FALSE, closed |-> FALSE, pings |-> 0]

Whole(frame) == <<[frame |-> frame, half |-> 1], [frame |-> frame, half |-> 2]>>

Init ==
  /\ running = TRUE
  /\ socket = "Unconnected"
  /\ ready = FALSE
  /\ readBuffer = <<>>
  /\ reconnect = TRUE   \* start() attempts at once what the timer does later
  /\ throttle = FALSE
  /\ pending = Nothing
  /\ inbound = <<>>
  /\ peer = Fresh
  /\ shown = Nothing
  /\ requested = Nothing
  /\ written = Nothing
  /\ burst = 0
  /\ requests = 0
  /\ drops = 0

-----------------------------------------------------------------------------
(* Sending. *)

\* Mutant of Sendable: the throttle is not consulted.
SendableUnthrottled(isReady, activity, throttled) == isReady /\ activity # Nothing

Sendable(isReady, activity, throttled) ==
  isReady /\ activity # Nothing /\ ~throttled

\* Mutant of SendPending: an activity that waits is not replaced by a newer one.
SendPendingKeepsFirst(isReady, activity, throttled) ==
  IF Sendable(isReady, activity, throttled)
  THEN /\ pending' = Nothing
       /\ throttle' = TRUE
       /\ written' = activity
       /\ shown' = activity
       /\ burst' = burst + 1
  ELSE /\ pending' = IF pending = Nothing THEN activity ELSE pending
       /\ throttle' = throttled
       /\ UNCHANGED <<written, shown, burst>>

\* Mutant of SendPending: what cannot be sent now is dropped.
SendPendingOrDrop(isReady, activity, throttled) ==
  IF Sendable(isReady, activity, throttled)
  THEN /\ pending' = Nothing
       /\ throttle' = TRUE
       /\ written' = activity
       /\ shown' = activity
       /\ burst' = burst + 1
  ELSE /\ pending' = Nothing
       /\ throttle' = throttled
       /\ UNCHANGED <<written, shown, burst>>

\* sendPending with the given m_ready, m_pendingActivity and throttle timer.
SendPending(isReady, activity, throttled) ==
  IF Sendable(isReady, activity, throttled)
  THEN /\ pending' = Nothing
       /\ throttle' = TRUE
       /\ written' = activity
       /\ shown' = activity
       /\ burst' = burst + 1
  ELSE /\ pending' = activity
       /\ throttle' = throttled
       /\ UNCHANGED <<written, shown, burst>>

SetActivity(activity) ==
  /\ running
  /\ requests < MaxRequests
  /\ requests' = requests + 1
  /\ requested' = activity
  /\ SendPending(ready, activity, throttle)
  /\ UNCHANGED <<running, socket, ready, readBuffer, reconnect, inbound, peer, drops>>

\* aboutToQuit: clearActivity is the last thing the client does.
ClearActivity ==
  /\ running
  /\ running' = FALSE
  /\ requested' = Null
  /\ SendPending(ready, Null, throttle)
  /\ UNCHANGED <<socket, ready, readBuffer, reconnect, inbound, peer, requests, drops>>

\* Mutant of FlushThrottle: the interval ends and nothing is sent.
FlushThrottleSendsNothing ==
  /\ running
  /\ throttle
  /\ throttle' = FALSE
  /\ burst' = 0
  /\ UNCHANGED <<pending, written, shown, running, socket, ready, readBuffer,
                 reconnect, inbound, peer, requested, requests, drops>>

FlushThrottle ==
  /\ running
  /\ throttle
  /\ IF Sendable(ready, pending, FALSE)
     THEN /\ pending' = Nothing
          /\ throttle' = TRUE
          /\ written' = pending
          /\ shown' = pending
          /\ burst' = 1
     ELSE /\ throttle' = FALSE
          /\ burst' = 0
          /\ UNCHANGED <<pending, written, shown>>
  /\ UNCHANGED <<running, socket, ready, readBuffer, reconnect, inbound, peer,
                 requested, requests, drops>>

-----------------------------------------------------------------------------
(* Connecting. *)

\* Of the ten socket paths, all are refused: each refusal runs onSocketError,
\* which rearms the timer.
ConnectRefused ==
  /\ running
  /\ reconnect
  /\ drops < MaxDrops
  /\ drops' = drops + 1
  /\ ready' = FALSE
  /\ readBuffer' = <<>>
  /\ reconnect' = TRUE
  /\ UNCHANGED <<running, socket, throttle, pending, discordVars, historyVars, requests>>

\* Or one of them accepts, after others may have been refused: onConnected
\* stops the timer and sends the handshake.
ConnectAccepted ==
  /\ running
  /\ reconnect
  /\ \E someRefused \in BOOLEAN :
       /\ ready' = (ready /\ ~someRefused)
       /\ readBuffer' = IF someRefused THEN <<>> ELSE readBuffer
  /\ socket' = "Connected"
  /\ reconnect' = FALSE
  /\ inbound' = <<>>
  /\ peer' = Fresh
  /\ shown' = Nothing
  /\ UNCHANGED <<running, throttle, pending, historyVars, requests, drops>>

\* Mutant of Disconnected: the reconnect timer is not started.
DisconnectedForGood ==
  /\ socket' = "Unconnected"
  /\ ready' = FALSE
  /\ readBuffer' = <<>>
  /\ inbound' = <<>>
  /\ shown' = Nothing
  /\ UNCHANGED reconnect

\* Mutant of Disconnected: m_ready is not reset.
DisconnectedStillReady ==
  /\ socket' = "Unconnected"
  /\ readBuffer' = <<>>
  /\ reconnect' = TRUE
  /\ inbound' = <<>>
  /\ shown' = Nothing
  /\ UNCHANGED ready

\* Mutant of Disconnected: m_readBuffer is not cleared.
DisconnectedKeepsBuffer ==
  /\ socket' = "Unconnected"
  /\ ready' = FALSE
  /\ reconnect' = TRUE
  /\ inbound' = <<>>
  /\ shown' = Nothing
  /\ UNCHANGED readBuffer

\* onDisconnected (and onSocketError before it, when the peer closed): forget
\* the session, keep what is pending, arm the timer.
Disconnected ==
  /\ socket' = "Unconnected"
  /\ ready' = FALSE
  /\ readBuffer' = <<>>
  /\ reconnect' = TRUE
  /\ inbound' = <<>>
  /\ shown' = Nothing

\* Discord exits or drops the connection, with whatever was in flight.
ConnectionLost ==
  /\ running
  /\ socket = "Connected"
  /\ drops < MaxDrops
  /\ drops' = drops + 1
  /\ Disconnected
  /\ UNCHANGED <<running, throttle, pending, peer, historyVars, requests>>

\* A socket closed with bytes still to write disconnects once they are out.
ClosingDone ==
  /\ running
  /\ socket = "Closing"
  /\ Disconnected
  /\ UNCHANGED <<running, throttle, pending, peer, historyVars, requests, drops>>

-----------------------------------------------------------------------------
(* Receiving. *)

\* What the client reads: the next piece behind what it already holds.
Buffered == Append(readBuffer, Head(inbound))

\* A whole frame is two halves of one; anything else is a torn header.
FrameOf(pieces) ==
  IF pieces[1].half = 1 /\ pieces[2] = [pieces[1] EXCEPT !.half = 2]
  THEN pieces[1].frame ELSE "TORN"

Receive ==
  /\ running
  /\ socket # "Unconnected"
  /\ inbound # <<>>

ReadPartial ==
  /\ Receive
  /\ Len(Buffered) < 2
  /\ readBuffer' = Buffered
  /\ inbound' = Tail(inbound)
  /\ UNCHANGED <<running, socket, ready, reconnect, throttle, pending, peer, shown,
                 historyVars, requests, drops>>

\* Mutant of ReadReady: sendPending is not called.
ReadReadySendsNothing ==
  /\ Receive
  /\ Len(Buffered) = 2 /\ FrameOf(Buffered) = "READY"
  /\ readBuffer' = <<>>
  /\ inbound' = Tail(inbound)
  /\ ready' = TRUE
  /\ UNCHANGED <<running, socket, reconnect, throttle, pending, peer, shown,
                 historyVars, requests, drops>>

ReadReady ==
  /\ Receive
  /\ Len(Buffered) = 2 /\ FrameOf(Buffered) = "READY"
  /\ readBuffer' = <<>>
  /\ inbound' = Tail(inbound)
  /\ ready' = TRUE
  /\ SendPending(TRUE, pending, throttle)
  /\ UNCHANGED <<running, socket, reconnect, peer, requested, requests, drops>>

\* Mutant of ReadOther: the frame handled is not removed from the buffer.
ReadOtherKeepsFrame ==
  /\ Receive
  /\ Len(Buffered) = 2 /\ FrameOf(Buffered) \in {"PING", "TORN"}
  /\ readBuffer' = Buffered
  /\ inbound' = Tail(inbound)
  /\ UNCHANGED <<running, socket, ready, reconnect, throttle, pending, peer, shown,
                 historyVars, requests, drops>>

\* A ping is answered with a pong; other opcodes are skipped.
ReadOther ==
  /\ Receive
  /\ Len(Buffered) = 2 /\ FrameOf(Buffered) \in {"PING", "TORN"}
  /\ readBuffer' = <<>>
  /\ inbound' = Tail(inbound)
  /\ UNCHANGED <<running, socket, ready, reconnect, throttle, pending, peer, shown,
                 historyVars, requests, drops>>

\* disconnectFromServer disconnects at once, or later if bytes are unwritten.
ReadClose ==
  /\ Receive
  /\ Len(Buffered) = 2 /\ FrameOf(Buffered) = "CLOSE"
  /\ \/ Disconnected
     \/ /\ socket' = "Closing"
        /\ readBuffer' = <<>>
        /\ inbound' = Tail(inbound)
        /\ UNCHANGED <<ready, reconnect, shown>>
  /\ UNCHANGED <<running, throttle, pending, peer, historyVars, requests, drops>>

-----------------------------------------------------------------------------
(* Discord. *)

Deliver(frame) ==
  /\ socket = "Connected"
  /\ ~peer.closed
  /\ inbound' = inbound \o Whole(frame)
  /\ UNCHANGED <<clientVars, shown, historyVars, requests>>

DiscordReady ==
  /\ ~peer.ready
  /\ peer' = [peer EXCEPT !.ready = TRUE]
  /\ Deliver("READY")
  /\ UNCHANGED drops

DiscordPing ==
  /\ peer.pings < MaxPings
  /\ peer' = [peer EXCEPT !.pings = @ + 1]
  /\ Deliver("PING")
  /\ UNCHANGED drops

\* Closing costs the connection, so it counts among the bounded drops.
DiscordClose ==
  /\ drops < MaxDrops
  /\ drops' = drops + 1
  /\ peer' = [peer EXCEPT !.closed = TRUE]
  /\ Deliver("CLOSE")

Read == ReadPartial \/ ReadReady \/ ReadOther \/ ReadClose

Next ==
  \/ \E activity \in Activities : SetActivity(activity)
  \/ ClearActivity
  \/ FlushThrottle
  \/ ConnectRefused \/ ConnectAccepted
  \/ ConnectionLost \/ ClosingDone
  \/ Read
  \/ DiscordReady \/ DiscordPing \/ DiscordClose

\* Timers fire, what is readable is read, a closing socket closes, and a
\* Discord that keeps running accepts the connection and answers a handshake.
Fairness ==
  /\ WF_vars(FlushThrottle)
  /\ WF_vars(ConnectAccepted)
  /\ WF_vars(ClosingDone)
  /\ WF_vars(Read)
  /\ WF_vars(DiscordReady)

Spec == Init /\ [][Next]_vars /\ Fairness

-----------------------------------------------------------------------------
(* Properties. *)

\* Every member keeps its C++ type, and between reads the buffer holds less
\* than a whole frame.
TypeOK ==
  /\ running \in BOOLEAN
  /\ socket \in {"Unconnected", "Connected", "Closing"}
  /\ ready \in BOOLEAN
  /\ readBuffer \in Seq(Pieces) /\ Len(readBuffer) < 2
  /\ reconnect \in BOOLEAN
  /\ throttle \in BOOLEAN
  /\ pending \in Activities \cup {Null, Nothing}
  /\ inbound \in Seq(Pieces)
  /\ peer \in [ready : BOOLEAN, closed : BOOLEAN, pings : Nat]
  /\ {shown, requested, written} \subseteq Activities \cup {Null, Nothing}
  /\ {burst, requests, drops} \subseteq Nat

\* Without a connection the reconnect timer is always armed, and never with
\* one: nothing else would ever call attemptConnect again, and an attempt
\* aborts a connection that works.
AlwaysReconnecting == reconnect <=> socket = "Unconnected"

\* Presence is only sent to a Discord that said READY on this very
\* connection, whatever was read, torn off or left over from an earlier one.
ReadyOnThisConnection == ready => socket # "Unconnected" /\ peer.ready

\* An activity is held back only for READY or for the throttle: none is
\* left behind that no event will send.
PendingIsAwaited == pending # Nothing => ~ready \/ throttle

\* The newest activity asked for is never overtaken or dropped: it is either
\* what waits, or what was written last.
NewestIsKept ==
  IF pending = Nothing THEN written = requested ELSE pending = requested

\* Discord shows the newest activity or nothing, except that a newer one may
\* be waiting for the throttle: no older activity stays up for good.
ShownIsNewest == shown # Nothing /\ shown # requested => pending = requested /\ throttle

\* A frame is never assembled from pieces of two connections.
NoTornFrames ==
  /\ readBuffer # <<>> => readBuffer[1].half = 1
  /\ readBuffer # <<>> /\ inbound # <<>> => FrameOf(Buffered) # "TORN"

\* Discord's rate limit: one SET_ACTIVITY in a throttle interval, also when
\* the connection is replaced within it.
OneUpdatePerInterval == burst <= 1 /\ (burst = 1 => throttle)

\* An activity that waits is written in the end, if the daemon keeps running
\* and Discord stays up long enough.
PendingIsWritten == pending # Nothing ~> (pending = Nothing \/ ~running)
=============================================================================
