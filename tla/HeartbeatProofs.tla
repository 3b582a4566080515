-------------------------- MODULE HeartbeatProofs --------------------------
(***************************************************************************)
(* TLAPS proofs about Heartbeat: for any number of sockets, any interval   *)
(* and timeout that HeartbeatAssumption allows and any length of time, the *)
(* sweep spares the peers that answer and finds those that died.           *)
(***************************************************************************)
EXTENDS Heartbeat, TLAPS

\* The numbers in the state are integers, and none is in the future.
LEMMA Times ==
    ASSUME TypeOK
    PROVE  /\ now \in Nat /\ swept \in Nat /\ swept <= now
           /\ \A s \in Sockets :
                 /\ peer[s] \in Int /\ peer[s] <= now /\ (peer[s] # Never => peer[s] >= 0)
                 /\ pinged[s] \in Int /\ pinged[s] <= now
                 /\ live[s].lastActivityMs \in Int /\ live[s].lastActivityMs <= now
                 /\ live[s].isAlive \in BOOLEAN
<1>1. now \in Nat /\ swept \in Nat /\ swept <= now
  BY HeartbeatAssumption DEF TypeOK
<1>2. \A t \in {Never} \cup 0..now : t \in Int /\ t <= now /\ (t # Never => t >= 0)
  BY <1>1 DEF Never
<1>3. ASSUME NEW s \in Sockets
      PROVE  /\ peer[s] \in {Never} \cup 0..now
             /\ pinged[s] \in {Never} \cup 0..now
             /\ live[s].lastActivityMs \in {Never} \cup 0..now
             /\ live[s].isAlive \in BOOLEAN
  BY DEF TypeOK
<1> QED
  BY <1>1, <1>2, <1>3

\* The server starts: nothing is connected.
LEMMA HeartbeatInitInv == Init => HeartbeatInv
<1> SUFFICES ASSUME Init PROVE HeartbeatInv
  OBVIOUS
<1>1. TypeOK
  BY HeartbeatAssumption DEF Init, TypeOK, Unknown, Never
<1>2. now - swept <= Interval + Jitter
  BY HeartbeatAssumption DEF Init
<1> QED
  BY <1>1, <1>2 DEF Init, HeartbeatInv, KeyHasSocket, OpenIsTracked, LivePeerAnswers,
     DeadPeerIsSilent, ResponsiveIsKept, Alive

\* A socket is opened: its record is newer than the last sweep.
LEMMA ConnectInv ==
    ASSUME HeartbeatInv, NEW s \in Sockets, Connect(s)
    PROVE  HeartbeatInv'
<1> USE DEF HeartbeatInv
<1>1. /\ conn[s] = "none" /\ conn' = [conn EXCEPT ![s] = "open"]
      /\ live' = [live EXCEPT ![s] = [isAlive |-> TRUE, lastActivityMs |-> now]]
      /\ UNCHANGED <<now, swept, peer, pinged, key>>
  BY DEF Connect
<1>2. /\ now \in Nat /\ swept \in Nat /\ swept <= now /\ now \in 0..now
  BY Times
<1>3. TypeOK'
  <2>1. [isAlive |-> TRUE, lastActivityMs |-> now]
            \in [isAlive : BOOLEAN, lastActivityMs : {Never} \cup 0..now]
    BY <1>2
  <2> QED
    BY <1>1, <2>1 DEF TypeOK
<1>4. conn'[s] = "open" /\ live'[s] = [isAlive |-> TRUE, lastActivityMs |-> now]
  BY <1>1 DEF TypeOK
<1>5. \A t \in Sockets : t # s => conn'[t] = conn[t] /\ live'[t] = live[t]
  BY <1>1 DEF TypeOK
<1>6. KeyHasSocket' /\ ResponsiveIsKept'
  BY <1>1, <1>4, <1>5 DEF KeyHasSocket, ResponsiveIsKept, TypeOK
<1>7. OpenIsTracked'
  BY <1>1, <1>2, <1>4, <1>5 DEF OpenIsTracked, Never
<1>8. LivePeerAnswers' /\ DeadPeerIsSilent'
  BY <1>1, <1>2, <1>4, <1>5 DEF LivePeerAnswers, DeadPeerIsSilent, OpenIsTracked, Alive
<1> QED
  BY <1>1, <1>3, <1>6, <1>7, <1>8

\* A pong arrives, or traffic on a live or to a dead socket: the record is
\* renewed; isAlive is set by a live peer's pong alone.
LEMMA ActivityInv ==
    ASSUME HeartbeatInv, NEW s \in Sockets, Pong(s) \/ Traffic(s) \/ SendToDead(s)
    PROVE  HeartbeatInv'
<1> USE DEF HeartbeatInv
<1>1. /\ conn[s] = "open" /\ UNCHANGED <<now, swept, conn, peer>>
      /\ \/ /\ Alive(s)
            /\ pinged' = [pinged EXCEPT ![s] = Never] /\ key' = key
            /\ live' = [live EXCEPT ![s] = [isAlive |-> TRUE, lastActivityMs |-> now]]
         \/ /\ pinged' = pinged /\ key' \subseteq key \cup {s}
            /\ live' = [live EXCEPT ![s].lastActivityMs = now]
  BY DEF Pong, Traffic, SendToDead, Alive
<1>2. now \in Nat /\ swept \in Nat /\ swept <= now /\ now \in 0..now
  BY Times
<1>3. /\ live'[s].lastActivityMs = now
      /\ \/ Alive(s) /\ live'[s].isAlive = TRUE /\ pinged'[s] = Never
         \/ live'[s].isAlive = live[s].isAlive /\ pinged'[s] = pinged[s]
      /\ \A t \in Sockets : t # s => live'[t] = live[t] /\ pinged'[t] = pinged[t]
  BY <1>1 DEF TypeOK
<1>4. TypeOK'
  <2>1. live' \in [Sockets -> [isAlive : BOOLEAN, lastActivityMs : {Never} \cup 0..now]]
    <3>1. live[s] \in [isAlive : BOOLEAN, lastActivityMs : {Never} \cup 0..now]
      BY DEF TypeOK
    <3>2. \E r \in [isAlive : BOOLEAN, lastActivityMs : {Never} \cup 0..now] :
              live' = [live EXCEPT ![s] = r]
      <4>1. /\ [isAlive |-> TRUE, lastActivityMs |-> now]
                  \in [isAlive : BOOLEAN, lastActivityMs : {Never} \cup 0..now]
            /\ [live[s] EXCEPT !.lastActivityMs = now]
                  \in [isAlive : BOOLEAN, lastActivityMs : {Never} \cup 0..now]
        BY <1>2, <3>1
      <4> QED
        BY <1>1, <4>1
    <3> QED
      BY <3>2 DEF TypeOK
  <2>2. pinged' \in [Sockets -> {Never} \cup 0..now] /\ key' \subseteq Sockets
    BY <1>1 DEF TypeOK
  <2> QED
    BY <1>1, <2>1, <2>2 DEF TypeOK
<1>5. KeyHasSocket' /\ ResponsiveIsKept'
  BY <1>1 DEF KeyHasSocket, ResponsiveIsKept
<1>6. OpenIsTracked'
  BY <1>1, <1>2, <1>3 DEF OpenIsTracked, Never
<1>7. LivePeerAnswers'
  BY <1>1, <1>2, <1>3 DEF LivePeerAnswers, Alive
<1>8. DeadPeerIsSilent'
  BY <1>1, <1>2, <1>3 DEF DeadPeerIsSilent, Alive
<1> QED
  BY <1>1, <1>4, <1>5, <1>6, <1>7, <1>8

\* A peer dies: the last sweep was before.
LEMMA DieInv ==
    ASSUME HeartbeatInv, NEW s \in Sockets, Die(s)
    PROVE  HeartbeatInv'
<1> USE DEF HeartbeatInv
<1>1. /\ Alive(s) /\ peer' = [peer EXCEPT ![s] = now]
      /\ UNCHANGED <<now, swept, conn, live, pinged, key>>
  BY DEF Die
<1>2. now \in Nat /\ swept \in Nat /\ swept <= now /\ now \in 0..now /\ now # Never
  BY Times DEF Never
<1>3. peer'[s] = now /\ \A t \in Sockets : t # s => peer'[t] = peer[t]
  BY <1>1 DEF TypeOK
<1>4. TypeOK'
  BY <1>1, <1>2 DEF TypeOK
<1>5. KeyHasSocket' /\ ResponsiveIsKept' /\ OpenIsTracked'
  BY <1>1, <1>2, <1>3 DEF KeyHasSocket, ResponsiveIsKept, OpenIsTracked, Alive
<1>6. LivePeerAnswers'
  BY <1>1, <1>2, <1>3 DEF LivePeerAnswers, Alive
<1>7. DeadPeerIsSilent'
  BY <1>1, <1>2, <1>3, HeartbeatAssumption DEF DeadPeerIsSilent
<1> QED
  BY <1>1, <1>4, <1>5, <1>6, <1>7

\* A close event: the record and the key go.
LEMMA CloseEventInv ==
    ASSUME HeartbeatInv, NEW s \in Sockets, CloseEvent(s)
    PROVE  HeartbeatInv'
<1> USE DEF HeartbeatInv
<1>1. /\ conn' = [conn EXCEPT ![s] = "closed"] /\ live' = [live EXCEPT ![s] = Unknown]
      /\ key' = key \ {s} /\ UNCHANGED <<now, swept, peer, pinged>>
  BY DEF CloseEvent
<1>2. /\ conn'[s] = "closed"
      /\ \A t \in Sockets : t # s => conn'[t] = conn[t] /\ live'[t] = live[t]
  BY <1>1 DEF TypeOK
<1>3. TypeOK'
  BY <1>1 DEF TypeOK, Unknown
<1>4. KeyHasSocket' /\ ResponsiveIsKept' /\ OpenIsTracked'
  BY <1>1, <1>2 DEF KeyHasSocket, ResponsiveIsKept, OpenIsTracked, TypeOK
<1>5. LivePeerAnswers' /\ DeadPeerIsSilent'
  BY <1>1, <1>2 DEF LivePeerAnswers, DeadPeerIsSilent, Alive
<1> QED
  BY <1>1, <1>3, <1>4, <1>5

\* Time passes, but not past the answer of a live peer or a due sweep.
LEMMA TickInv ==
    ASSUME HeartbeatInv, Tick
    PROVE  HeartbeatInv'
<1> USE DEF HeartbeatInv
<1>1. /\ now < MaxTime /\ now' = now + 1 /\ now' - swept <= Interval + Jitter
      /\ \A s \in Sockets : Alive(s) /\ pinged[s] # Never => now' - pinged[s] <= MaxRtt
      /\ UNCHANGED <<swept, conn, peer, live, pinged, key>>
  BY DEF Tick
<1>2. TypeOK'
  <2>1. 0..now \subseteq 0..now' /\ now' \in 0..MaxTime
    BY <1>1, HeartbeatAssumption DEF TypeOK
  <2> QED
    BY <1>1, <2>1 DEF TypeOK
<1>3. KeyHasSocket' /\ ResponsiveIsKept' /\ OpenIsTracked'
  BY <1>1 DEF KeyHasSocket, ResponsiveIsKept, OpenIsTracked
<1>4. LivePeerAnswers' /\ DeadPeerIsSilent'
  BY <1>1 DEF LivePeerAnswers, DeadPeerIsSilent, Alive
<1> QED
  BY <1>1, <1>2, <1>3, <1>4

\* A sweep never finds a live peer overdue: its last ping was answered before
\* Interval was over, and its answer, or its connection, came after that sweep.
LEMMA LivePeerIsNotOverdue ==
    ASSUME HeartbeatInv, now - swept >= Interval, NEW s \in Sockets, Alive(s)
    PROVE  ~Overdue(s) /\ pinged[s] = Never
<1>1. /\ now \in Nat /\ swept \in Nat /\ pinged[s] \in Int
      /\ live[s].lastActivityMs \in Int /\ live[s].isAlive \in BOOLEAN
  BY Times DEF HeartbeatInv
<1>2. pinged[s] = Never
  BY <1>1, HeartbeatAssumption DEF HeartbeatInv, LivePeerAnswers
<1>3. live[s].isAlive /\ live[s].lastActivityMs >= swept
  BY <1>2 DEF HeartbeatInv, LivePeerAnswers
<1>4. now - swept <= Timeout
  BY <1>1, HeartbeatAssumption DEF HeartbeatInv
<1> QED
  BY <1>1, <1>2, <1>3, <1>4, HeartbeatAssumption DEF Overdue

\* The sweep: live peers are pinged, dead ones lose isAlive or are terminated, and
\* keys without a socket are dropped.
LEMMA SweepInv ==
    ASSUME HeartbeatInv, Sweep
    PROVE  HeartbeatInv'
<1> USE DEF HeartbeatInv
<1> DEFINE fresh == {s \in Clients : live[s] = Unknown}
           dead  == {s \in Clients \ fresh : Overdue(s)}
<1>1. /\ now - swept >= Interval /\ swept' = now /\ key' = key \cap Clients
      /\ UNCHANGED <<now, peer>>
      /\ conn' = [s \in Sockets |-> IF s \in dead THEN "terminated" ELSE conn[s]]
      /\ live' = [s \in Sockets |->
                      IF s \in fresh THEN [isAlive |-> TRUE, lastActivityMs |-> now]
                      ELSE IF s \in Clients \ dead THEN [live[s] EXCEPT !.isAlive = FALSE]
                      ELSE live[s]]
      /\ pinged' = [s \in Sockets |->
                        IF s \in Clients \ dead /\ pinged[s] = Never THEN now ELSE pinged[s]]
  BY DEF Sweep
<1>2. /\ now \in Nat /\ swept \in Nat /\ swept <= now /\ now \in 0..now /\ now # Never
      /\ \A s \in Sockets : peer[s] \in Int /\ peer[s] <= now /\ (peer[s] # Never => peer[s] >= 0)
  BY Times DEF Never
<1>3. TypeOK'
  <2>1. live' \in [Sockets -> [isAlive : BOOLEAN, lastActivityMs : {Never} \cup 0..now]]
    <3>1. \A s \in Sockets : live[s] \in [isAlive : BOOLEAN, lastActivityMs : {Never} \cup 0..now]
      BY DEF TypeOK
    <3>2. \A r \in [isAlive : BOOLEAN, lastActivityMs : {Never} \cup 0..now] :
              [r EXCEPT !.isAlive = FALSE] \in [isAlive : BOOLEAN, lastActivityMs : {Never} \cup 0..now]
      OBVIOUS
    <3>3. [isAlive |-> TRUE, lastActivityMs |-> now]
              \in [isAlive : BOOLEAN, lastActivityMs : {Never} \cup 0..now]
      BY <1>2
    <3> HIDE DEF fresh, dead
    <3> QED
      BY <1>1, <3>1, <3>2, <3>3
  <2>2. pinged' \in [Sockets -> {Never} \cup 0..now]
    <3> HIDE DEF fresh, dead
    <3> QED
      BY <1>1, <1>2 DEF TypeOK
  <2>3. conn' \in [Sockets -> {"none", "open", "terminated", "closed"}]
    <3> HIDE DEF fresh, dead
    <3> QED
      BY <1>1 DEF TypeOK
  <2> QED
    BY <1>1, <1>2, <2>1, <2>2, <2>3 DEF TypeOK
<1>4. \A s \in Sockets : conn[s] = "open" => s \in Clients /\ s \notin fresh
  BY DEF OpenIsTracked, Clients, Unknown
<1>5. \A s \in Sockets : Alive(s) => s \notin dead /\ pinged[s] = Never
  BY <1>1, LivePeerIsNotOverdue
<1>6. \A s \in Sockets : conn[s] = "open" /\ ~live[s].isAlive => s \in dead
  BY <1>4 DEF Overdue
<1>7. \A s \in dead : conn[s] \in {"open", "terminated"}
  BY DEF Clients
<1>8. \A s \in Sockets : /\ conn'[s] = "open" => conn[s] = "open" /\ s \notin dead
                         /\ s \in dead => conn'[s] = "terminated"
                         /\ s \notin dead => conn'[s] = conn[s]
  BY <1>1
<1>9. \A s \in Sockets : conn'[s] = "open" =>
          /\ live'[s].isAlive = FALSE
          /\ live'[s].lastActivityMs = live[s].lastActivityMs
  <2> SUFFICES ASSUME NEW s \in Sockets, conn'[s] = "open"
               PROVE  /\ live'[s].isAlive = FALSE
                      /\ live'[s].lastActivityMs = live[s].lastActivityMs
    OBVIOUS
  <2>1. live'[s] = [live[s] EXCEPT !.isAlive = FALSE]
    BY <1>1, <1>4, <1>8
  <2>2. live[s] \in [isAlive : BOOLEAN, lastActivityMs : {Never} \cup 0..now]
    BY DEF TypeOK
  <2> QED
    BY <2>1, <2>2
<1>10. KeyHasSocket'
  BY <1>1, <1>8 DEF KeyHasSocket, Clients
<1>11. ResponsiveIsKept'
  BY <1>1, <1>5, <1>7, <1>8 DEF ResponsiveIsKept, Alive
<1>12. OpenIsTracked'
  <2>1. \A s \in Sockets : conn'[s] = "none" => conn[s] = "none" /\ pinged'[s] = pinged[s]
    BY <1>1, <1>8 DEF Clients
  <2> QED
    BY <1>1, <1>8, <1>9, <2>1 DEF OpenIsTracked
<1>13. LivePeerAnswers'
  <2>1. \A s \in Sockets : Alive(s)' => Alive(s)
    BY <1>1, <1>8 DEF Alive
  <2>2. \A s \in Sockets : Alive(s) => pinged'[s] = now
    BY <1>1, <1>4, <1>5 DEF Alive
  <2> QED
    BY <1>1, <1>2, <1>9, <2>1, <2>2, HeartbeatAssumption DEF LivePeerAnswers, Alive
<1>14. DeadPeerIsSilent'
  <2> SUFFICES ASSUME NEW s \in Sockets, conn'[s] = "open", peer[s] # Never
               PROVE  now - peer[s] <= Interval + Jitter
    BY <1>1, <1>9 DEF DeadPeerIsSilent
  <2>1. conn[s] = "open" /\ live[s].isAlive
    BY <1>6, <1>8
  <2>2. swept <= peer[s]
    BY <2>1 DEF DeadPeerIsSilent
  <2> QED
    BY <1>2, <2>2, HeartbeatAssumption
<1>15. now' - swept' <= Interval + Jitter
  BY <1>1, <1>2, HeartbeatAssumption
<1> QED
  BY <1>3, <1>10, <1>11, <1>12, <1>13, <1>14, <1>15

\* HeartbeatInv is inductive.
LEMMA HeartbeatNextInv == HeartbeatInv /\ [Next]_vars => HeartbeatInv'
<1> SUFFICES ASSUME HeartbeatInv, [Next]_vars PROVE HeartbeatInv'
  OBVIOUS
<1>1. CASE UNCHANGED vars
  BY <1>1 DEF vars, HeartbeatInv, TypeOK, KeyHasSocket, OpenIsTracked, LivePeerAnswers,
     DeadPeerIsSilent, ResponsiveIsKept, Alive
<1> QED
  BY <1>1, TickInv, SweepInv, ConnectInv, ActivityInv, DieInv, CloseEventInv DEF Next

\* The liveness records say who answered, and no key outlives its socket.
THEOREM HeartbeatInvariance == Spec => []HeartbeatInv
<1>1. Init => HeartbeatInv
  BY HeartbeatInitInv
<1>2. HeartbeatInv /\ [Next]_vars => HeartbeatInv'
  BY HeartbeatNextInv
<1> QED
  BY <1>1, <1>2, PTL DEF Spec

\* #heartbeatSweep terminates no peer that answers its pings, whatever the
\* interval, the lateness of the sweeps and the silence in between.
THEOREM ResponsivePeersAreKept == Spec => []ResponsiveIsKept
<1>1. HeartbeatInv => ResponsiveIsKept
  BY DEF HeartbeatInv
<1> QED
  BY <1>1, HeartbeatInvariance, PTL

\* #heartbeatSweep terminates a peer that died within two intervals, although the
\* server may keep sending to it.
THEOREM DeadPeersAreReaped == Spec => []DeadIsReaped
<1>1. HeartbeatInv => DeadIsReaped
  <2> SUFFICES ASSUME HeartbeatInv, NEW s \in Sockets, conn[s] = "open", peer[s] # Never
               PROVE  now - peer[s] <= 2 * (Interval + Jitter)
    BY DEF DeadIsReaped
  <2>1. now \in Nat /\ swept \in Nat /\ peer[s] \in Int
    BY Times DEF HeartbeatInv
  <2>2. swept - peer[s] <= Interval + Jitter /\ now - swept <= Interval + Jitter
    BY DEF HeartbeatInv, DeadPeerIsSilent
  <2> QED
    BY <2>1, <2>2, HeartbeatAssumption
<1> QED
  BY <1>1, HeartbeatInvariance, PTL
=============================================================================
