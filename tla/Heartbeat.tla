----------------------------- MODULE Heartbeat -----------------------------
(***************************************************************************)
(* #heartbeatSweep of TunnelServer (server.ts) for Node's WebSocket server:*)
(* every heartbeatInterval it pings the control sockets, terminates the    *)
(* ones that did not answer and drops keys that have no socket any more.   *)
(*                                                                         *)
(* The peer of a control socket is responsive (it answers a ping within    *)
(* MaxRtt) until it dies silently, after which nothing comes from it and no*)
(* close event is seen by itself.  Time is discrete; a sweep may be late by*)
(* up to Jitter, as setInterval callbacks are when the event loop is busy. *)
(***************************************************************************)
EXTENDS Integers

CONSTANTS
    Sockets,
    Interval,   \* heartbeatInterval
    Timeout,    \* heartbeatTimeout
    MaxRtt,     \* a live peer answers a ping within this time
    Jitter,     \* bound: how late a sweep may be
    MaxTime     \* bound: the clock

\* The defaults are 30 s and 60 s; the pong of a live peer is back well before
\* the next sweep.
ASSUME HeartbeatAssumption ==
    /\ Interval \in Nat \ {0} /\ Timeout \in Nat /\ Jitter \in Nat
    /\ MaxRtt \in Nat /\ MaxTime \in Nat
    /\ MaxRtt < Interval
    /\ Interval + Jitter <= Timeout

VARIABLES
    now,       \* Date.now()
    swept,     \* the time of the last sweep
    conn,      \* per socket, the server's end
    peer,      \* per socket, whether the other end still lives, and since when not
    live,      \* livenessBySocket
    pinged,    \* per socket, the time of a ping that is not answered yet, or -1
    key        \* the sockets in symmetricKeyBySocket

vars == <<now, swept, conn, peer, live, pinged, key>>

Never == -1

TypeOK ==
    /\ now \in 0..MaxTime
    /\ swept \in 0..now
    /\ conn \in [Sockets -> {"none", "open", "terminated", "closed"}]
    /\ peer \in [Sockets -> {Never} \cup 0..now]
    /\ live \in [Sockets -> [isAlive : BOOLEAN, lastActivityMs : {Never} \cup 0..now]]
    /\ pinged \in [Sockets -> {Never} \cup 0..now]
    /\ key \subseteq Sockets

\* No entry in livenessBySocket.
Unknown == [isAlive |-> FALSE, lastActivityMs |-> Never]

Init ==
    /\ now = 0 /\ swept = 0
    /\ conn = [s \in Sockets |-> "none"]
    /\ peer = [s \in Sockets |-> Never]
    /\ live = [s \in Sockets |-> Unknown]
    /\ pinged = [s \in Sockets |-> Never]
    /\ key = {}

Alive(s) == conn[s] = "open" /\ peer[s] = Never

-----------------------------------------------------------------------------
\* #onExpressControlConnection: liveness tracking starts.
Connect(s) ==
    /\ conn[s] = "none"
    /\ conn' = [conn EXCEPT ![s] = "open"]
    /\ live' = [live EXCEPT ![s] = [isAlive |-> TRUE, lastActivityMs |-> now]]
    /\ UNCHANGED <<now, swept, peer, pinged, key>>

\* Mutant: the pong handler forgets isAlive.
Pong_Ignored(s) ==
    /\ Alive(s)
    /\ pinged[s] # Never
    /\ pinged' = [pinged EXCEPT ![s] = Never]
    /\ live' = [live EXCEPT ![s].lastActivityMs = now]
    /\ UNCHANGED <<now, swept, conn, peer, key>>

\* Mutant: lastActivityMs holds a deadline.
Pong_Deadline(s) ==
    /\ Alive(s)
    /\ pinged[s] # Never
    /\ pinged' = [pinged EXCEPT ![s] = Never]
    /\ live' = [live EXCEPT ![s] = [isAlive |-> TRUE, lastActivityMs |-> now + Timeout]]
    /\ UNCHANGED <<now, swept, conn, peer, key>>

\* The pong handler.
Pong(s) ==
    /\ Alive(s)
    /\ pinged[s] # Never
    /\ pinged' = [pinged EXCEPT ![s] = Never]
    /\ live' = [live EXCEPT ![s] = [isAlive |-> TRUE, lastActivityMs |-> now]]
    /\ UNCHANGED <<now, swept, conn, peer, key>>

\* #handleControlMessage and sendEncrypted: traffic is activity, no answer to a
\* ping. The first message stores the key.
Traffic(s) ==
    /\ Alive(s)
    /\ live' = [live EXCEPT ![s].lastActivityMs = now]
    /\ key' = key \cup {s}
    /\ UNCHANGED <<now, swept, conn, peer, pinged>>

\* The server sends to a peer it does not know to be dead.
SendToDead(s) ==
    /\ conn[s] = "open"
    /\ peer[s] # Never
    /\ s \in key
    /\ live' = [live EXCEPT ![s].lastActivityMs = now]
    /\ UNCHANGED <<now, swept, conn, peer, pinged, key>>

\* The peer vanishes without a close frame.
Die(s) ==
    /\ Alive(s)
    /\ peer' = [peer EXCEPT ![s] = now]
    /\ UNCHANGED <<now, swept, conn, live, pinged, key>>

\* Mutant: the key survives the close event.
CloseEvent_KeepsKey(s) ==
    /\ conn[s] \in {"open", "terminated"}
    /\ conn[s] = "open" => peer[s] = Never
    /\ conn' = [conn EXCEPT ![s] = "closed"]
    /\ live' = [live EXCEPT ![s] = Unknown]
    /\ UNCHANGED <<now, swept, peer, pinged, key>>

\* The close event: a peer that closes, or the end of a terminated socket.
CloseEvent(s) ==
    /\ conn[s] \in {"open", "terminated"}
    /\ conn[s] = "open" => peer[s] = Never
    /\ conn' = [conn EXCEPT ![s] = "closed"]
    /\ live' = [live EXCEPT ![s] = Unknown]
    /\ key' = key \ {s}
    /\ UNCHANGED <<now, swept, peer, pinged>>

\* The sockets in controlWss.clients.
Clients == {s \in Sockets : conn[s] \in {"open", "terminated"}}

\* A sweep finds the last ping unanswered, or the socket idle for too long.
Overdue(s) == ~live[s].isAlive \/ now - live[s].lastActivityMs > Timeout

\* Mutant: the test of isAlive is missing; traffic keeps a dead socket.
Sweep_IdleOnly ==
    /\ now - swept >= Interval
    /\ swept' = now
    /\ LET dead == {s \in Clients : now - live[s].lastActivityMs > Timeout} IN
       /\ conn' = [s \in Sockets |-> IF s \in dead THEN "terminated" ELSE conn[s]]
       /\ live' = [s \in Sockets |->
                      IF s \in Clients \ dead THEN [live[s] EXCEPT !.isAlive = FALSE] ELSE live[s]]
       /\ pinged' = [s \in Sockets |->
                        IF s \in Clients \ dead /\ pinged[s] = Never THEN now ELSE pinged[s]]
    /\ UNCHANGED <<now, peer, key>>

\* #heartbeatSweep: a socket without a liveness entry gets one and is pinged.
Sweep ==
    /\ now - swept >= Interval
    /\ swept' = now
    /\ LET fresh == {s \in Clients : live[s] = Unknown}
           dead  == {s \in Clients \ fresh : Overdue(s)}
       IN
       /\ conn' = [s \in Sockets |-> IF s \in dead THEN "terminated" ELSE conn[s]]
       /\ live' = [s \in Sockets |->
                      IF s \in fresh THEN [isAlive |-> TRUE, lastActivityMs |-> now]
                      ELSE IF s \in Clients \ dead THEN [live[s] EXCEPT !.isAlive = FALSE]
                      ELSE live[s]]
       /\ pinged' = [s \in Sockets |->
                        IF s \in Clients \ dead /\ pinged[s] = Never THEN now ELSE pinged[s]]
    /\ key' = key \cap Clients
    /\ UNCHANGED <<now, peer>>

\* Time passes, but not beyond the answer of a live peer, a due sweep or the end
\* of a terminated socket.
Tick ==
    /\ now < MaxTime
    /\ now' = now + 1
    /\ now' - swept <= Interval + Jitter
    /\ \A s \in Sockets :
          /\ Alive(s) /\ pinged[s] # Never => now' - pinged[s] <= MaxRtt
          /\ conn[s] # "terminated"
    /\ UNCHANGED <<swept, conn, peer, live, pinged, key>>

Next ==
    \/ Tick
    \/ Sweep
    \/ \E s \in Sockets :
          \/ Connect(s) \/ Pong(s) \/ Traffic(s) \/ SendToDead(s)
          \/ Die(s) \/ CloseEvent(s)

Spec == Init /\ [][Next]_vars

-----------------------------------------------------------------------------
(***************************************************************************)
(* Properties.                                                             *)
(***************************************************************************)

\* A peer that answers its pings is never terminated, however late the sweeps
\* run and however quiet it is otherwise.
ResponsiveIsKept ==
    \A s \in Sockets : conn[s] = "terminated" => peer[s] # Never

\* A peer that died silently is found within two intervals (and the sweeps'
\* lateness), even if the server kept sending to it: its ping of the first
\* sweep stays unanswered until the second.
DeadIsReaped ==
    \A s \in Sockets :
        conn[s] = "open" /\ peer[s] # Never => now - peer[s] <= 2 * (Interval + Jitter)

\* No key outlives its socket.
KeyHasSocket == \A s \in key : conn[s] # "closed"

\* What a live peer's liveness record says: an unanswered ping is a recent one, of
\* the last sweep; otherwise the record was renewed after that sweep.
LivePeerAnswers ==
    \A s \in Sockets : Alive(s) =>
        /\ pinged[s] = Never => live[s].isAlive
        /\ pinged[s] # Never => pinged[s] <= swept /\ now - pinged[s] <= MaxRtt
        /\ live[s].isAlive => live[s].lastActivityMs >= swept

\* What a dead peer's record says: the first sweep after its death, which comes in
\* time, finds isAlive and takes it away, and nothing gives it back.
DeadPeerIsSilent ==
    \A s \in Sockets : conn[s] = "open" /\ peer[s] # Never =>
        /\ live[s].isAlive => swept <= peer[s]
        /\ swept - peer[s] <= Interval + Jitter

\* A socket has a record while it is open, and no history before.
OpenIsTracked ==
    \A s \in Sockets :
        /\ conn[s] = "open" => live[s].lastActivityMs # Never
        /\ conn[s] = "none" => peer[s] = Never /\ pinged[s] = Never

\* Liveness records keep times of the past and say who has answered, and whatever
\* ended a socket, its peer, the sweep or a close event that never came, took its
\* key as well.
HeartbeatInv ==
    /\ TypeOK
    /\ now - swept <= Interval + Jitter
    /\ KeyHasSocket
    /\ OpenIsTracked
    /\ LivePeerAnswers
    /\ DeadPeerIsSilent
    /\ ResponsiveIsKept
=============================================================================
