----------------------- MODULE TunnelHandshakeProofs -----------------------
(***************************************************************************)
(* TLAPS proofs about ServerKeys and TunnelHandshake: the server's keys    *)
(* stay usable and in place, and every channel key is attested, for any    *)
(* number of sockets, server restarts and lost connections.                *)
(***************************************************************************)
EXTENDS TunnelHandshake, SequenceTheorems, TLAPS

-----------------------------------------------------------------------------
(***************************************************************************)
(* The server, against any client.                                         *)
(***************************************************************************)

\* What a key pair and an announcement are, and that null is neither.
LEMMA KeyFacts ==
    /\ None \notin KeyPairs
    /\ None \notin Announcements
    /\ None \notin Sockets
    /\ \A p \in KeyPairs : p.proc \in 1..MaxProcs
    /\ \A a \in Announcements : a.pub \in KeyPairs /\ a.quote \in KeyPairs
    /\ \A p, q \in KeyPairs : [pub |-> p, quote |-> q] \in Announcements
    /\ \A n \in 1..MaxProcs : \A c \in Callers : [proc |-> n, by |-> c] \in KeyPairs
    /\ \A s \in Sockets : s \in Callers /\ s # Ctor
    /\ Ctor \in Callers
BY CallersAssumption, NoneAssumption DEF KeyPairs, Announcements, Callers

\* The state after the constructor satisfies the invariant.
LEMMA ServerInitInv == ServerInit => ServerInv
<1> SUFFICES ASSUME ServerInit PROVE ServerInv
  OBVIOUS
<1>1. 1 \in 1..MaxProcs
  BY ProcsAssumption
<1>2. ServerTypeOK
  BY <1>1, KeyFacts DEF ServerInit, ServerTypeOK
<1>3. KeysAndAnnouncements
  BY KeyFacts DEF ServerInit, KeysAndAnnouncements
<1>4. AnnouncedKeyIsLive /\ InstalledKeyIsForThisProcess /\ ClosedSocketHoldsNoKey
  BY DEF ServerInit, AnnouncedKeyIsLive, InstalledKeyIsForThisProcess, ClosedSocketHoldsNoKey
<1>5. AnnouncedOnce /\ OneKeyPerProcess
  BY KeyFacts DEF ServerInit, AnnouncedOnce, OneKeyPerProcess
<1> QED
  BY <1>2, <1>3, <1>4, <1>5 DEF ServerInv

\* A control socket is opened: a key pair is replaced only while nothing this
\* process announced depends on it.
LEMMA OpenControlInv ==
    ASSUME ServerInv, NEW s \in Sockets, OpenControl(s)
    PROVE  ServerInv'
<1> USE DEF ServerInv
<1>1. CASE keyReady
  <2>1. /\ UNCHANGED <<proc, pub, quote, keyReady, getQuote, symKeyOf>>
        /\ announced' = [announced EXCEPT ![s] = [pub |-> pub, quote |-> quote]]
        /\ ctl' = [ctl EXCEPT ![s] = "open"]
        /\ ctl[s] = "idle"
    BY <1>1 DEF OpenControl, SendServerKx
  <2>2. [pub |-> pub, quote |-> quote] \in Announcements /\ quote # None
    BY <1>1, KeyFacts DEF ServerTypeOK, KeysAndAnnouncements
  <2>3. ServerTypeOK'
    BY <2>1, <2>2 DEF ServerTypeOK
  <2>4. KeysAndAnnouncements'
    BY <1>1, <2>1, <2>2, KeyFacts DEF ServerTypeOK, KeysAndAnnouncements
  <2>5. AnnouncedKeyIsLive'
    BY <2>1, KeyFacts DEF ServerTypeOK, AnnouncedKeyIsLive
  <2>6. InstalledKeyIsForThisProcess'
    BY <2>1, <2>2, KeyFacts DEF ServerTypeOK, InstalledKeyIsForThisProcess
  <2>7. ClosedSocketHoldsNoKey'
    BY <2>1 DEF ServerTypeOK, ClosedSocketHoldsNoKey
  <2>8. AnnouncedOnce'
    BY <2>1 DEF ServerTypeOK, AnnouncedOnce
  <2>9. OneKeyPerProcess'
    BY <2>1, KeyFacts DEF ServerTypeOK, AnnouncedKeyIsLive, KeysAndAnnouncements, OneKeyPerProcess
  <2> QED
    BY <2>3, <2>4, <2>5, <2>6, <2>7, <2>8, <2>9
<1>2. CASE ~keyReady
  <2>1. /\ UNCHANGED <<proc, quote, keyReady, announced, symKeyOf>>
        /\ pub' = [proc |-> proc, by |-> s]
        /\ getQuote' = [getQuote EXCEPT ![s] = "waiting"]
        /\ ctl' = [ctl EXCEPT ![s] = "open"]
        /\ ctl[s] = "idle"
    BY <1>2 DEF OpenControl, SendServerKx, StartGetQuote
  <2>2. \A t \in Sockets : announced[t] # None => announced[t].pub.proc # proc
    BY <1>2 DEF KeysAndAnnouncements
  <2>3. \A t \in Sockets : symKeyOf[t] = None
    BY <2>2 DEF ServerTypeOK, InstalledKeyIsForThisProcess, KeysAndAnnouncements
  <2>4. ServerTypeOK'
    BY <2>1, KeyFacts DEF ServerTypeOK
  <2>5. KeysAndAnnouncements'
    BY <2>1, KeyFacts DEF ServerTypeOK, KeysAndAnnouncements
  <2>6. AnnouncedKeyIsLive' /\ InstalledKeyIsForThisProcess' /\ ClosedSocketHoldsNoKey'
    BY <2>1, <2>2, <2>3
    DEF AnnouncedKeyIsLive, InstalledKeyIsForThisProcess, ClosedSocketHoldsNoKey
  <2>7. AnnouncedOnce' /\ OneKeyPerProcess'
    BY <2>1, KeyFacts DEF ServerTypeOK, AnnouncedOnce, OneKeyPerProcess
  <2> QED
    BY <2>4, <2>5, <2>6, <2>7
<1> QED
  BY <1>1, <1>2

\* A quote arrives or fails: the key pair stays, keyReady can only become true.
LEMMA QuoteSettlesInv ==
    ASSUME ServerInv, NEW c \in Callers, QuoteArrives(c) \/ QuoteFails(c)
    PROVE  ServerInv'
<1> USE DEF ServerInv
<1>1. /\ UNCHANGED <<proc, pub, ctl, announced, symKeyOf>>
      /\ keyReady => keyReady'
      /\ keyReady' \in BOOLEAN
      /\ \/ quote' = [proc |-> proc, by |-> c] /\ keyReady' = TRUE
         \/ UNCHANGED <<quote, keyReady>>
  BY DEF QuoteArrives, QuoteFails, ServerTypeOK
<1>2. ServerTypeOK'
  BY <1>1, KeyFacts DEF ServerTypeOK, QuoteArrives, QuoteFails
<1>3. \A s \in Sockets : getQuote'[s] = "resolved" => keyReady'
  <2>1. CASE QuoteArrives(c)
    BY <2>1 DEF QuoteArrives
  <2>2. CASE QuoteFails(c)
    BY <1>1, <2>2, KeyFacts DEF ServerTypeOK, KeysAndAnnouncements, QuoteFails
  <2> QED
    BY <2>1, <2>2
<1>4. KeysAndAnnouncements'
  BY <1>1, <1>3, KeyFacts DEF ServerTypeOK, KeysAndAnnouncements
<1>5. AnnouncedKeyIsLive' /\ InstalledKeyIsForThisProcess' /\ ClosedSocketHoldsNoKey'
  BY <1>1 DEF AnnouncedKeyIsLive, InstalledKeyIsForThisProcess, ClosedSocketHoldsNoKey
<1>6. OneKeyPerProcess'
  BY <1>1 DEF OneKeyPerProcess
<1>7. AnnouncedOnce'
  BY <1>1, KeyFacts DEF ServerTypeOK, AnnouncedOnce, QuoteArrives, QuoteFails
<1> QED
  BY <1>2, <1>4, <1>5, <1>6, <1>7

\* A caller of #getQuote is resumed: it announces the live key pair, or closes
\* its socket.
LEMMA ResumeInv ==
    ASSUME ServerInv, NEW s \in Sockets, Announce(s) \/ AbandonControl(s)
    PROVE  ServerInv'
<1> USE DEF ServerInv
<1>1. CASE Announce(s)
  <2>1. /\ UNCHANGED <<proc, pub, quote, keyReady, ctl, symKeyOf>>
        /\ getQuote' = [getQuote EXCEPT ![s] = "done"]
        /\ \/ announced' = [announced EXCEPT ![s] = [pub |-> pub, quote |-> quote]]
           \/ announced' = announced
    BY <1>1 DEF Announce
  <2>2. keyReady /\ quote # None /\ [pub |-> pub, quote |-> quote] \in Announcements
    BY <1>1, KeyFacts DEF Announce, ServerTypeOK, KeysAndAnnouncements
  <2>3. ServerTypeOK'
    BY <2>1, <2>2 DEF ServerTypeOK
  <2>4. KeysAndAnnouncements'
    BY <2>1, <2>2, KeyFacts DEF ServerTypeOK, KeysAndAnnouncements
  <2>5. AnnouncedKeyIsLive'
    BY <2>1, KeyFacts DEF ServerTypeOK, AnnouncedKeyIsLive
  <2>6. InstalledKeyIsForThisProcess'
    BY <2>1, <2>2, KeyFacts DEF ServerTypeOK, InstalledKeyIsForThisProcess
  <2>7. ClosedSocketHoldsNoKey'
    BY <2>1 DEF ClosedSocketHoldsNoKey
  <2>8. AnnouncedOnce'
    BY <1>1, <2>1, KeyFacts DEF ServerTypeOK, AnnouncedOnce, Announce
  <2>9. OneKeyPerProcess'
    BY <2>1, KeyFacts DEF ServerTypeOK, AnnouncedKeyIsLive, KeysAndAnnouncements, OneKeyPerProcess
  <2> QED
    BY <2>3, <2>4, <2>5, <2>6, <2>7, <2>8, <2>9
<1>2. CASE AbandonControl(s)
  <2>1. /\ UNCHANGED <<proc, pub, quote, keyReady, announced, symKeyOf>>
        /\ getQuote' = [getQuote EXCEPT ![s] = "done"]
        /\ ctl' = IF ctl[s] = "open" THEN [ctl EXCEPT ![s] = "closing"] ELSE ctl
    BY <1>2 DEF AbandonControl
  <2>2. ServerTypeOK'
    BY <2>1 DEF ServerTypeOK
  <2>3. KeysAndAnnouncements'
    BY <2>1, KeyFacts DEF ServerTypeOK, KeysAndAnnouncements
  <2>4. AnnouncedKeyIsLive' /\ InstalledKeyIsForThisProcess'
    BY <2>1 DEF AnnouncedKeyIsLive, InstalledKeyIsForThisProcess
  <2>5. ClosedSocketHoldsNoKey'
    BY <2>1 DEF ServerTypeOK, ClosedSocketHoldsNoKey
  <2>6. AnnouncedOnce' /\ OneKeyPerProcess'
    BY <1>2, <2>1, KeyFacts DEF ServerTypeOK, AnnouncedOnce, OneKeyPerProcess, AbandonControl
  <2> QED
    BY <2>2, <2>3, <2>4, <2>5, <2>6
<1> QED
  BY <1>1, <1>2

\* A client_kx made for a key that was ever announced is handled: only one
\* sealed to the live key pair is kept.
LEMMA ClientKxInv ==
    ASSUME ServerInv, NEW s \in Sockets, NEW k \in Sockets, announced[k] # None,
           ClientKx(s, [key |-> k, to |-> announced[k].pub])
    PROVE  ServerInv'
<1> USE DEF ServerInv
<1>1. /\ UNCHANGED <<proc, pub, quote, keyReady, getQuote, ctl, announced>>
      /\ ctl[s] \in {"open", "closing"}
      /\ \/ symKeyOf' = [symKeyOf EXCEPT ![s] = k] /\ announced[k].pub = pub
         \/ symKeyOf' = symKeyOf
  BY DEF ClientKx
<1>2. ServerTypeOK'
  BY <1>1 DEF ServerTypeOK
<1>3. KeysAndAnnouncements' /\ AnnouncedKeyIsLive' /\ OneKeyPerProcess' /\ AnnouncedOnce'
  BY <1>1 DEF ServerTypeOK, KeysAndAnnouncements, AnnouncedKeyIsLive, OneKeyPerProcess, AnnouncedOnce
<1>4. InstalledKeyIsForThisProcess'
  BY <1>1 DEF ServerTypeOK, InstalledKeyIsForThisProcess
<1>5. ClosedSocketHoldsNoKey'
  BY <1>1 DEF ServerTypeOK, ClosedSocketHoldsNoKey
<1> QED
  BY <1>2, <1>3, <1>4, <1>5

\* A control socket's close event.
LEMMA ControlClosedInv ==
    ASSUME ServerInv, NEW s \in Sockets, ControlClosed(s)
    PROVE  ServerInv'
<1> USE DEF ServerInv
<1>1. /\ UNCHANGED <<proc, pub, quote, keyReady, getQuote, announced>>
      /\ ctl[s] \in {"open", "closing"}
      /\ ctl' = [ctl EXCEPT ![s] = "closed"]
      /\ symKeyOf' = [symKeyOf EXCEPT ![s] = None]
  BY DEF ControlClosed
<1>2. ServerTypeOK'
  BY <1>1 DEF ServerTypeOK
<1>3. KeysAndAnnouncements' /\ AnnouncedKeyIsLive' /\ OneKeyPerProcess' /\ AnnouncedOnce'
  BY <1>1 DEF ServerTypeOK, KeysAndAnnouncements, AnnouncedKeyIsLive, OneKeyPerProcess, AnnouncedOnce
<1>4. InstalledKeyIsForThisProcess' /\ ClosedSocketHoldsNoKey'
  BY <1>1 DEF ServerTypeOK, InstalledKeyIsForThisProcess, ClosedSocketHoldsNoKey
<1> QED
  BY <1>2, <1>3, <1>4

\* A restart: what was announced belongs to an earlier process from now on.
LEMMA RestartInv ==
    ASSUME ServerInv, Restart
    PROVE  ServerInv'
<1> USE DEF ServerInv
<1>1. /\ proc' = proc + 1 /\ proc \in 1..MaxProcs /\ proc' \in 1..MaxProcs
      /\ pub' = [proc |-> proc', by |-> Ctor]
      /\ quote' = None /\ keyReady' = FALSE /\ announced' = announced
      /\ symKeyOf' = [s \in Sockets |-> None]
      /\ getQuote' = [c \in Callers |-> IF c = Ctor THEN "waiting" ELSE "none"]
      /\ ctl' = [s \in Sockets |-> IF ctl[s] = "idle" THEN "idle" ELSE "closed"]
  BY ProcsAssumption DEF Restart, ServerTypeOK
<1>2. ServerTypeOK'
  BY <1>1, KeyFacts DEF ServerTypeOK
<1>3. \A s \in Sockets : announced[s] # None => announced[s].pub.proc <= proc /\ announced[s].pub.proc \in 1..MaxProcs
  BY KeyFacts DEF ServerTypeOK, KeysAndAnnouncements
<1>4. KeysAndAnnouncements'
  BY <1>1, <1>3, KeyFacts DEF KeysAndAnnouncements
<1>5. AnnouncedKeyIsLive'
  BY <1>1, <1>3 DEF AnnouncedKeyIsLive
<1>6. InstalledKeyIsForThisProcess' /\ ClosedSocketHoldsNoKey'
  BY <1>1 DEF InstalledKeyIsForThisProcess, ClosedSocketHoldsNoKey
<1>7. OneKeyPerProcess' /\ AnnouncedOnce'
  BY <1>1, KeyFacts DEF ServerTypeOK, OneKeyPerProcess, AnnouncedOnce
<1> QED
  BY <1>2, <1>4, <1>5, <1>6, <1>7

\* ServerInv is inductive under the server's own next-state relation.
LEMMA ServerNextInv == ServerInv /\ [ServerNext]_serverVars => ServerInv'
<1> SUFFICES ASSUME ServerInv, [ServerNext]_serverVars PROVE ServerInv'
  OBVIOUS
<1>1. ASSUME NEW s \in Sockets, ServerStep(s) PROVE ServerInv'
  <2>1. CASE OpenControl(s)
    BY <2>1, OpenControlInv
  <2>2. CASE Announce(s) \/ AbandonControl(s)
    BY <2>2, ResumeInv
  <2>3. CASE AnyClientKx(s)
    BY <2>3, ClientKxInv DEF AnyClientKx
  <2>4. CASE ControlClosed(s)
    BY <2>4, ControlClosedInv
  <2> QED
    BY <1>1, <2>1, <2>2, <2>3, <2>4 DEF ServerStep
<1>2. CASE UNCHANGED serverVars
  BY <1>2 DEF serverVars, ServerInv, ServerTypeOK, KeysAndAnnouncements,
     AnnouncedOnce, OneKeyPerProcess, AnnouncedKeyIsLive, InstalledKeyIsForThisProcess, ClosedSocketHoldsNoKey
<1> QED
  BY <1>1, <1>2, QuoteSettlesInv, RestartInv DEF ServerNext

\* ServerInv holds in every state of every behaviour of the server.
THEOREM ServerInvariance == ServerSpec => []ServerInv
<1>1. ServerInit => ServerInv
  BY ServerInitInv
<1>2. ServerInv /\ [ServerNext]_serverVars => ServerInv'
  BY ServerNextInv
<1> QED
  BY <1>1, <1>2, PTL DEF ServerSpec

\* Type correctness of TunnelServer's key state.
THEOREM ServerTypeCorrect == ServerSpec => []ServerTypeOK
<1>1. ServerInv => ServerTypeOK
  BY DEF ServerInv
<1> QED
  BY <1>1, ServerInvariance, PTL

\* A client_kx sealed to a key this process announced can always be opened,
\* however #getQuote calls, openings and restarts interleave.
THEOREM AnnouncedKeysStayLive == ServerSpec => []AnnouncedKeyIsLive
<1>1. ServerInv => AnnouncedKeyIsLive
  BY DEF ServerInv
<1> QED
  BY <1>1, ServerInvariance, PTL

\* Every symmetric key the server holds was sealed for the key pair of the
\* running process.
THEOREM InstalledKeysAreCurrent == ServerSpec => []InstalledKeyIsForThisProcess
<1>1. ServerInv => InstalledKeyIsForThisProcess
  BY DEF ServerInv
<1> QED
  BY <1>1, ServerInvariance, PTL

\* A control socket that is closed has no entry in symmetricKeyBySocket, although
\* client_kx messages may be handled at any time before the close event.
THEOREM ClosedSocketsHoldNoKey == ServerSpec => []ClosedSocketHoldsNoKey
<1>1. ServerInv => ClosedSocketHoldsNoKey
  BY DEF ServerInv
<1> QED
  BY <1>1, ServerInvariance, PTL

\* No step of the server exchanges one symmetric key for another.
THEOREM KeysAreNeverReplaced == ServerSpec => KeyNeverReplaced
<1> DEFINE Kept == \A s \in Sockets : symKeyOf[s] # None => symKeyOf'[s] \in {symKeyOf[s], None}
<1>1. ServerInv /\ [ServerNext]_serverVars => [Kept]_serverVars
  <2> SUFFICES ASSUME ServerInv, ServerNext, NEW t \in Sockets, symKeyOf[t] # None
               PROVE  symKeyOf'[t] \in {symKeyOf[t], None}
    BY DEF serverVars
  <2>1. symKeyOf \in [Sockets -> Sockets \cup {None}]
    BY DEF ServerInv, ServerTypeOK
  <2>2. ASSUME NEW s \in Sockets, AnyClientKx(s) PROVE symKeyOf'[t] \in {symKeyOf[t], None}
    BY <2>1, <2>2 DEF AnyClientKx, ClientKx
  <2>3. ASSUME NEW s \in Sockets, ControlClosed(s) PROVE symKeyOf'[t] \in {symKeyOf[t], None}
    BY <2>1, <2>3 DEF ControlClosed
  <2>4. CASE Restart
    BY <2>4 DEF Restart
  <2>5. ASSUME NEW s \in Sockets, OpenControl(s) \/ Announce(s) \/ AbandonControl(s)
        PROVE  symKeyOf' = symKeyOf
    BY <2>5 DEF OpenControl, Announce, AbandonControl
  <2>6. ASSUME NEW c \in Callers, QuoteArrives(c) \/ QuoteFails(c)
        PROVE  symKeyOf' = symKeyOf
    BY <2>6 DEF QuoteArrives, QuoteFails
  <2> QED
    BY <2>2, <2>3, <2>4, <2>5, <2>6 DEF ServerNext, ServerStep
<1> QED
  BY <1>1, ServerInvariance, PTL DEF ServerSpec, KeyNeverReplaced

-----------------------------------------------------------------------------
(***************************************************************************)
(* The client and the server.                                              *)
(***************************************************************************)

\* The initial state: no socket, no key, nothing on the wire.
LEMMA HandshakeInitInv == Init => HandshakeInv
<1> SUFFICES ASSUME Init PROVE HandshakeInv
  OBVIOUS
<1>1. ServerInv
  BY ServerInitInv DEF Init
<1>2. TypeOK
  <2>1. up \in [Sockets -> Seq(Sealed \cup {Hello})]
    BY DEF Init
  <2>2. ServerTypeOK
    BY <1>1 DEF ServerInv
  <2>3. drops \in 0..MaxDrops /\ timers \in Nat /\ config \in Configs
    BY DropsAssumption DEF Init
  <2>5. closed \in BOOLEAN
    BY DEF Init
  <2>4. /\ sock \in [Sockets -> {"unused", "connecting", "failed", "open", "closing", "closed"}]
        /\ promise \in [Sockets -> {"none", "pending", "resolved", "rejected"}]
        /\ handler \in [Sockets -> {"none", "verify", "checks", "bound", "unbound", "sent", "failed"}]
    BY DEF Init
  <2> QED
    BY <2>1, <2>2, <2>3, <2>4, <2>5 DEF Init, TypeOK
<1>3. HandlersAndBinding
  BY DEF Init, HandlersAndBinding
<1>4. SentKeyIsAttested
  BY DEF Init, SentKeyIsAttested
<1>5. ChannelKeyIsAttested
  BY DEF Init, ServerInit, ChannelKeyIsAttested
<1> QED
  BY <1>1, <1>2, <1>3, <1>4, <1>5 DEF HandshakeInv

\* Steps that leave the server alone keep the server's invariant and what it
\* says about announcements.
LEMMA ClientStepKeepsServer ==
    ASSUME HandshakeInv, UNCHANGED serverVars
    PROVE  ServerInv' /\ ServerTypeOK'
BY DEF HandshakeInv, serverVars, ServerInv, ServerTypeOK, KeysAndAnnouncements,
   AnnouncedOnce, OneKeyPerProcess, AnnouncedKeyIsLive,
   InstalledKeyIsForThisProcess, ClosedSocketHoldsNoKey

\* A step that only moves sockets, promises and timers.
LEMMA SocketStepInv ==
    ASSUME HandshakeInv, TypeOK',
           UNCHANGED <<serverVars, srvPub, handler, up>>
    PROVE  HandshakeInv'
<1>1. ServerInv'
  BY ClientStepKeepsServer DEF HandshakeInv
<1>2. HandlersAndBinding' /\ ChannelKeyIsAttested' /\ SentKeyIsAttested'
  BY DEF HandshakeInv, HandlersAndBinding, ChannelKeyIsAttested, SentKeyIsAttested, serverVars
<1> QED
  BY <1>1, <1>2 DEF HandshakeInv

\* A handler that has not finished may move to any stage but "bound" and "sent".
LEMMA HandlerMovesInv ==
    ASSUME HandshakeInv, TypeOK', NEW s \in Sockets, NEW stage,
           handler' = [handler EXCEPT ![s] = stage],
           handler[s] # "sent", announced[s] # None,
           stage \in {"bound", "sent"} => announced[s].quote = announced[s].pub,
           srvPub' # None => \/ srvPub' = srvPub
                             \/ srvPub' = announced[s].pub,
           UNCHANGED <<serverVars, up>>
    PROVE  HandshakeInv'
<1>1. ServerInv'
  BY ClientStepKeepsServer DEF HandshakeInv
<1>2. handler \in [Sockets -> {"none", "verify", "checks", "bound", "unbound", "sent", "failed"}]
  BY DEF HandshakeInv, TypeOK
<1>3. UNCHANGED <<announced, pub, symKeyOf>>
  BY DEF serverVars
<1>4. HandlersAndBinding'
  BY <1>2, <1>3 DEF HandshakeInv, HandlersAndBinding
<1>5. \A k \in Sockets : handler[k] = "sent" => handler'[k] = "sent"
  BY <1>2
<1>6. ChannelKeyIsAttested'
  BY <1>3, <1>5 DEF HandshakeInv, ServerInv, ServerTypeOK, ChannelKeyIsAttested
<1>7. SentKeyIsAttested'
  <2> SUFFICES ASSUME NEW t \in Sockets, NEW i \in DOMAIN up[t], up[t][i] # Hello
               PROVE  /\ handler'[up[t][i].key] = "sent"
                      /\ up[t][i].to = announced[up[t][i].key].pub
                      /\ up[t][i].to = announced[up[t][i].key].quote
    BY <1>3 DEF SentKeyIsAttested
  <2>1. up[t][i] \in Sealed
    BY DEF HandshakeInv, TypeOK
  <2>2. up[t][i].key \in Sockets
    BY <2>1 DEF Sealed
  <2> QED
    BY <1>5, <2>2 DEF HandshakeInv, SentKeyIsAttested
<1> QED
  BY <1>1, <1>4, <1>6, <1>7 DEF HandshakeInv

\* The invariant includes type correctness.
LEMMA TypeHolds == HandshakeInv => TypeOK
BY DEF HandshakeInv

\* The client's own variables keep their types over a step that changes only
\* the server's.
LEMMA ServerStepTypes ==
    ASSUME TypeOK, ServerTypeOK', UNCHANGED clientVars
    PROVE  TypeOK'
BY DEF TypeOK, clientVars

\* A step of the server never changes an announcement, and installs no key.
LEMMA ServerMovesInv ==
    ASSUME HandshakeInv, ServerInv', TypeOK',
           \A s \in Sockets : announced[s] # None => announced'[s] = announced[s],
           \A s \in Sockets : symKeyOf'[s] \in {symKeyOf[s], None},
           UNCHANGED <<srvPub, handler>>,
           \A s \in Sockets : \A i \in DOMAIN up'[s] :
               up'[s][i] = Hello \/ \E t \in Sockets : \E j \in DOMAIN up[t] : up'[s][i] = up[t][j]
    PROVE  HandshakeInv'
<1>1. HandlersAndBinding'
  BY DEF HandshakeInv, HandlersAndBinding
<1>2. ChannelKeyIsAttested'
  <2> SUFFICES ASSUME NEW s \in Sockets, symKeyOf'[s] # None
               PROVE  /\ handler'[symKeyOf'[s]] = "sent"
                      /\ announced'[symKeyOf'[s]].quote = announced'[symKeyOf'[s]].pub
                      /\ announced'[symKeyOf'[s]].pub = pub'
    BY DEF ChannelKeyIsAttested
  <2>1. symKeyOf'[s] = symKeyOf[s] /\ symKeyOf[s] \in Sockets
    BY DEF HandshakeInv, ServerInv, ServerTypeOK
  <2>2. announced[symKeyOf[s]] # None
    BY <2>1 DEF HandshakeInv, ServerInv, InstalledKeyIsForThisProcess
  <2>3. announced'[symKeyOf'[s]].pub = pub'
    BY <2>1 DEF ServerInv, InstalledKeyIsForThisProcess
  <2> QED
    BY <2>1, <2>2, <2>3 DEF HandshakeInv, ChannelKeyIsAttested
<1>3. SentKeyIsAttested'
  <2> SUFFICES ASSUME NEW s \in Sockets, NEW i \in DOMAIN up'[s], up'[s][i] # Hello
               PROVE  /\ handler'[up'[s][i].key] = "sent"
                      /\ up'[s][i].to = announced'[up'[s][i].key].pub
                      /\ up'[s][i].to = announced'[up'[s][i].key].quote
    BY DEF SentKeyIsAttested
  <2>1. PICK t \in Sockets : \E j \in DOMAIN up[t] : up'[s][i] = up[t][j]
    OBVIOUS
  <2>2. PICK j \in DOMAIN up[t] : up'[s][i] = up[t][j]
    BY <2>1
  <2>3. up[t][j] \in Sealed
    BY <2>2 DEF HandshakeInv, TypeOK
  <2>4. up[t][j].key \in Sockets
    BY <2>3 DEF Sealed
  <2>5. handler[up[t][j].key] = "sent" /\ up[t][j].to = announced[up[t][j].key].pub
        /\ up[t][j].to = announced[up[t][j].key].quote
    BY <2>2 DEF HandshakeInv, SentKeyIsAttested
  <2>6. announced[up[t][j].key] # None
    BY <2>4, <2>5 DEF HandshakeInv, HandlersAndBinding
  <2> QED
    BY <2>2, <2>4, <2>5, <2>6
<1> QED
  BY <1>1, <1>2, <1>3 DEF HandshakeInv
\* A message is put on the wire.
LEMMA Enqueue ==
    ASSUME TypeOK, NEW s \in Sockets, NEW m \in Sealed \cup {Hello},
           up' = [up EXCEPT ![s] = Append(up[s], m)]
    PROVE  /\ up' \in [Sockets -> Seq(Sealed \cup {Hello})]
           /\ \A t \in Sockets : \A i \in DOMAIN up'[t] :
                 up'[t][i] = m \/ \E j \in DOMAIN up[t] : up'[t][i] = up[t][j]
<1>1. up \in [Sockets -> Seq(Sealed \cup {Hello})] /\ up[s] \in Seq(Sealed \cup {Hello})
  BY DEF TypeOK
<1>2. Append(up[s], m) \in Seq(Sealed \cup {Hello})
  BY <1>1
<1>3. \A i \in DOMAIN Append(up[s], m) :
         Append(up[s], m)[i] = m \/ (i \in DOMAIN up[s] /\ Append(up[s], m)[i] = up[s][i])
  BY <1>1
<1>4. up' \in [Sockets -> Seq(Sealed \cup {Hello})]
  BY <1>1, <1>2
<1>5. \A t \in Sockets : up'[t] = IF t = s THEN Append(up[s], m) ELSE up[t]
  BY <1>1
<1> QED
  BY <1>3, <1>4, <1>5

\* A message is taken off the wire.
LEMMA Dequeue ==
    ASSUME TypeOK, NEW s \in Sockets, up[s] # <<>>,
           up' = [up EXCEPT ![s] = Tail(up[s])]
    PROVE  /\ up' \in [Sockets -> Seq(Sealed \cup {Hello})]
           /\ Head(up[s]) \in Sealed \cup {Hello}
           /\ 1 \in DOMAIN up[s] /\ Head(up[s]) = up[s][1]
           /\ \A t \in Sockets : \A i \in DOMAIN up'[t] : \E j \in DOMAIN up[t] : up'[t][i] = up[t][j]
<1>1. up \in [Sockets -> Seq(Sealed \cup {Hello})] /\ up[s] \in Seq(Sealed \cup {Hello})
  BY DEF TypeOK
<1>2. /\ Tail(up[s]) \in Seq(Sealed \cup {Hello})
      /\ Head(up[s]) \in Sealed \cup {Hello}
      /\ 1 \in DOMAIN up[s] /\ Head(up[s]) = up[s][1]
  BY <1>1
<1>3. \A i \in DOMAIN Tail(up[s]) : i + 1 \in DOMAIN up[s] /\ Tail(up[s])[i] = up[s][i + 1]
  BY <1>1
<1>4. up' \in [Sockets -> Seq(Sealed \cup {Hello})]
  BY <1>1, <1>2
<1>5. \A t \in Sockets : up'[t] = IF t = s THEN Tail(up[s]) ELSE up[t]
  BY <1>1
<1> QED
  BY <1>2, <1>3, <1>4, <1>5

\* Dialling, socket events and close() leave handlers and keys on the wire alone.
LEMMA SocketActionsInv ==
    ASSUME HandshakeInv,
           \/ EnsureConnection \/ TimerFires \/ Close
           \/ \E s \in Sockets : Failed(s) \/ Closed(s)
    PROVE  HandshakeInv'
<1>1. UNCHANGED <<serverVars, config, srvPub, handler, up, binding>>
  BY DEF EnsureConnection, TimerFires, Close, Failed, Closed
<1>2. ServerTypeOK'
  BY ClientStepKeepsServer, <1>1
<1>3. drops' \in 0..MaxDrops
  BY DropsAssumption DEF HandshakeInv, TypeOK, EnsureConnection, TimerFires, Close, Failed, Closed, Drop
<1>4. timers' \in Nat
  BY DEF HandshakeInv, TypeOK, EnsureConnection, TimerFires, Close, Failed, Closed
<1>5. closed' \in BOOLEAN
  BY DEF HandshakeInv, TypeOK, EnsureConnection, TimerFires, Close, Failed, Closed
<1>6. /\ ws' \in Sockets \cup {None} /\ conn' \in Sockets \cup {None}
      /\ symKey' \in Sockets \cup {None}
  BY DEF HandshakeInv, TypeOK, EnsureConnection, TimerFires, Close, Failed, Closed, Dial
<1>7. sock' \in [Sockets -> {"unused", "connecting", "failed", "open", "closing", "closed"}]
  BY DEF HandshakeInv, TypeOK, EnsureConnection, TimerFires, Close, Failed, Closed, Dial, Leaving
<1>8. promise' \in [Sockets -> {"none", "pending", "resolved", "rejected"}]
  BY DEF HandshakeInv, TypeOK, EnsureConnection, TimerFires, Close, Failed, Closed, Dial, Settle
<1>9. TypeOK'
  BY <1>1, <1>2, <1>3, <1>4, <1>5, <1>6, <1>7, <1>8 DEF HandshakeInv, TypeOK
<1> QED
  BY <1>1, <1>9, SocketStepInv

\* onopen: only a hello is put on the wire.
LEMMA OpenedInv ==
    ASSUME HandshakeInv, NEW s \in Sockets, Opened(s)
    PROVE  HandshakeInv'
<1>1. UNCHANGED <<serverVars, config, closed, ws, conn, symKey, srvPub, binding, promise, handler, timers, drops>>
  BY DEF Opened
<1>2. ServerInv' /\ ServerTypeOK'
  BY ClientStepKeepsServer, <1>1
<1>3. \/ up' = up
      \/ ws \in Sockets /\ up' = [up EXCEPT ![ws] = Append(up[ws], Hello)]
  BY DEF Opened, HandshakeInv, TypeOK
<1>4. up' \in [Sockets -> Seq(Sealed \cup {Hello})]
  BY <1>3, TypeHolds, Enqueue DEF TypeOK
<1>5. sock' \in [Sockets -> {"unused", "connecting", "failed", "open", "closing", "closed"}]
  BY DEF Opened, HandshakeInv, TypeOK
<1>6. TypeOK'
  BY <1>1, <1>2, <1>4, <1>5 DEF HandshakeInv, TypeOK
<1>7. \A t \in Sockets : \A i \in DOMAIN up'[t] :
          up'[t][i] = Hello \/ \E u \in Sockets : \E j \in DOMAIN up[u] : up'[t][i] = up[u][j]
  BY <1>3, TypeHolds, Enqueue
<1>8. UNCHANGED <<announced, symKeyOf>>
  BY <1>1 DEF serverVars
<1> QED
  BY <1>1, <1>2, <1>6, <1>7, <1>8, ServerMovesInv
\* server_kx arrives: no handler passes its checks on that account.
LEMMA ServerKxArrivesInv ==
    ASSUME HandshakeInv, NEW s \in Sockets, ServerKxArrives(s)
    PROVE  HandshakeInv'
<1>1. /\ UNCHANGED <<serverVars, config, closed, ws, symKey, srvPub, sock, timers, up, drops>>
      /\ announced[s] # None /\ handler[s] = "none"
      /\ binding' \in {binding, announced[s].quote}
      /\ conn' \in {conn, None}
      /\ promise' \in {promise, [promise EXCEPT ![s] = "rejected"]}
  BY DEF ServerKxArrives, HandlerThrows, Settle
<1>2. PICK stage \in {"verify", "failed"} : handler' = [handler EXCEPT ![s] = stage]
  BY DEF ServerKxArrives, HandlerThrows
<1>3. ServerTypeOK'
  BY ClientStepKeepsServer, <1>1
<1>4. announced[s].quote \in KeyPairs
  BY <1>1, KeyFacts DEF HandshakeInv, TypeOK, ServerTypeOK
<1>5. /\ handler' \in [Sockets -> {"none", "verify", "checks", "bound", "unbound", "sent", "failed"}]
      /\ promise' \in [Sockets -> {"none", "pending", "resolved", "rejected"}]
      /\ conn' \in Sockets \cup {None} /\ binding' \in KeyPairs \cup {None}
  BY <1>1, <1>2, <1>4 DEF HandshakeInv, TypeOK
<1>6. TypeOK'
  BY <1>1, <1>3, <1>5 DEF HandshakeInv, TypeOK
<1> QED
  BY <1>1, <1>2, <1>6, HandlerMovesInv

\* A handler that is told "bound" has a quote for the key it was announced,
\* although it compared with the key some other handler may have stored.
LEMMA BoundIsBound ==
    ASSUME HandshakeInv, NEW s \in Sockets, announced[s] # None,
           BindingResult(s, srvPub, binding) = "bound"
    PROVE  announced[s].quote = announced[s].pub
<1>1. announced[s].quote = srvPub
  BY DEF BindingResult
<1>2. announced[s] \in Announcements /\ announced[s].quote \in KeyPairs
  BY KeyFacts DEF HandshakeInv, TypeOK, ServerTypeOK
<1>3. srvPub # None
  BY <1>1, <1>2, KeyFacts
<1>4. PICK t \in Sockets : announced[t] # None /\ announced[t].pub = srvPub
  BY <1>3 DEF HandshakeInv, HandlersAndBinding
<1>5. announced[s].pub.proc = announced[t].pub.proc
  BY <1>1, <1>4 DEF HandshakeInv, ServerInv, KeysAndAnnouncements
<1> QED
  BY <1>1, <1>4, <1>5 DEF HandshakeInv, ServerInv, OneKeyPerProcess
\* The stages of the handler up to the binding check.
LEMMA HandlerChecksInv ==
    ASSUME HandshakeInv, NEW s \in Sockets,
           QuoteVerified(s) \/ ChecksPass(s) \/ ValidationFails(s)
    PROVE  HandshakeInv'
<1>1. /\ UNCHANGED <<serverVars, config, closed, ws, binding, sock, timers, up, drops>>
      /\ handler[s] \in {"verify", "checks", "unbound"}
      /\ conn' \in {conn, None}
      /\ promise' \in {promise, [promise EXCEPT ![s] = "rejected"]}
      /\ symKey' \in {symKey, s}
      /\ srvPub' \in {srvPub, announced[s].pub}
  BY DEF QuoteVerified, ChecksPass, ValidationFails, HandlerThrows, Settle
<1>2. announced[s] # None
  BY <1>1 DEF HandshakeInv, HandlersAndBinding
<1>3. PICK stage \in {"checks", "bound", "unbound", "failed"} :
          /\ handler' = [handler EXCEPT ![s] = stage]
          /\ stage = "bound" => \/ BindingResult(s, announced[s].pub, binding) = "bound"
                               \/ BindingResult(s, srvPub, binding) = "bound"
  <2>1. \A key, data : BindingResult(s, key, data) \in {"bound", "unbound"}
    BY DEF BindingResult
  <2>2. CASE QuoteVerified(s)
    BY <2>1, <2>2 DEF QuoteVerified, HandlerThrows
  <2>3. CASE ChecksPass(s)
    BY <2>1, <2>3 DEF ChecksPass
  <2>4. CASE ValidationFails(s)
    BY <2>4 DEF ValidationFails, HandlerThrows
  <2> QED
    BY <2>2, <2>3, <2>4
<1>4. stage = "bound" => announced[s].quote = announced[s].pub
  BY <1>2, <1>3, BoundIsBound DEF BindingResult
<1>5. ServerTypeOK'
  BY ClientStepKeepsServer, <1>1
<1>6. announced[s].pub \in KeyPairs
  BY <1>2, KeyFacts DEF HandshakeInv, TypeOK, ServerTypeOK
<1>7. /\ handler' \in [Sockets -> {"none", "verify", "checks", "bound", "unbound", "sent", "failed"}]
      /\ promise' \in [Sockets -> {"none", "pending", "resolved", "rejected"}]
      /\ conn' \in Sockets \cup {None} /\ symKey' \in Sockets \cup {None}
      /\ srvPub' \in KeyPairs \cup {None}
  BY <1>1, <1>3, <1>6 DEF HandshakeInv, TypeOK
<1>8. TypeOK'
  BY <1>1, <1>5, <1>7 DEF HandshakeInv, TypeOK
<1> QED
  BY <1>1, <1>2, <1>3, <1>4, <1>8, HandlerMovesInv

\* client_kx is sent, on whatever socket is current, or the handler throws.
LEMMA SendClientKxInv ==
    ASSUME HandshakeInv, NEW s \in Sockets, SendClientKx(s)
    PROVE  HandshakeInv'
<1>1. /\ UNCHANGED <<serverVars, config, closed, ws, symKey, srvPub, binding, sock, timers, drops>>
      /\ handler[s] = "bound"
      /\ conn' = None
      /\ promise' \in {promise, [promise EXCEPT ![s] = "rejected"], [promise EXCEPT ![s] = "resolved"]}
  BY DEF SendClientKx, HandlerThrows, Settle
<1>2. announced[s] # None /\ announced[s].quote = announced[s].pub
  BY <1>1 DEF HandshakeInv, HandlersAndBinding
<1>3. ServerInv' /\ ServerTypeOK'
  BY ClientStepKeepsServer, <1>1
<1>4. /\ promise' \in [Sockets -> {"none", "pending", "resolved", "rejected"}]
      /\ conn' \in Sockets \cup {None}
  BY <1>1 DEF HandshakeInv, TypeOK
<1> DEFINE m == [key |-> s, to |-> announced[s].pub]
<1>5. m \in Sealed /\ m.key = s /\ m.to = announced[s].pub
  BY <1>2, KeyFacts DEF HandshakeInv, TypeOK, ServerTypeOK, Sealed
<1>6. CASE /\ ws \in Sockets
           /\ up' = [up EXCEPT ![ws] = Append(up[ws], m)]
           /\ handler' = [handler EXCEPT ![s] = "sent"]
  <2>0. TypeOK /\ ws \in Sockets /\ m \in Sealed \cup {Hello} /\ up' = [up EXCEPT ![ws] = Append(up[ws], m)]
    BY <1>5, <1>6, TypeHolds
  <2> HIDE DEF m
  <2>1. /\ up' \in [Sockets -> Seq(Sealed \cup {Hello})]
        /\ \A t \in Sockets : \A i \in DOMAIN up'[t] :
              up'[t][i] = m \/ \E j \in DOMAIN up[t] : up'[t][i] = up[t][j]
    BY ONLY <2>0, Enqueue
  <2>2. handler' \in [Sockets -> {"none", "verify", "checks", "bound", "unbound", "sent", "failed"}]
    BY <1>6 DEF HandshakeInv, TypeOK
  <2>3. TypeOK'
    BY <1>1, <1>3, <1>4, <2>1, <2>2 DEF HandshakeInv, TypeOK
  <2>4. \A k \in Sockets : handler'[k] = IF k = s THEN "sent" ELSE handler[k]
    BY <1>6 DEF HandshakeInv, TypeOK
  <2>5. UNCHANGED <<announced, symKeyOf, pub, srvPub>>
    BY <1>1 DEF serverVars
  <2>6. HandlersAndBinding'
    BY <1>2, <2>4, <2>5 DEF HandshakeInv, HandlersAndBinding
  <2>7. ChannelKeyIsAttested'
    BY <2>4, <2>5 DEF HandshakeInv, ServerInv, ServerTypeOK, ChannelKeyIsAttested
  <2>8. SentKeyIsAttested'
    <3> SUFFICES ASSUME NEW t \in Sockets, NEW i \in DOMAIN up'[t], up'[t][i] # Hello
                 PROVE  /\ handler'[up'[t][i].key] = "sent"
                        /\ up'[t][i].to = announced[up'[t][i].key].pub
                        /\ up'[t][i].to = announced[up'[t][i].key].quote
      BY <2>5 DEF SentKeyIsAttested
    <3>1. CASE up'[t][i] = m
      BY <1>2, <1>5, <2>4, <3>1
    <3>2. CASE \E j \in DOMAIN up[t] : up'[t][i] = up[t][j]
      <4>1. PICK j \in DOMAIN up[t] : up'[t][i] = up[t][j]
        BY <3>2
      <4>2. up[t][j] \in Sealed
        BY <4>1 DEF HandshakeInv, TypeOK
      <4>3. up[t][j].key \in Sockets
        BY <4>2 DEF Sealed
      <4>4. /\ handler[up[t][j].key] = "sent"
            /\ up[t][j].to = announced[up[t][j].key].pub
            /\ up[t][j].to = announced[up[t][j].key].quote
        BY <4>1 DEF HandshakeInv, SentKeyIsAttested
      <4> QED
        BY <2>4, <4>1, <4>3, <4>4
    <3> QED
      BY <2>1, <3>1, <3>2
  <2> QED
    BY <1>3, <2>3, <2>6, <2>7, <2>8 DEF HandshakeInv
<1>7. CASE up' = up /\ handler' = [handler EXCEPT ![s] = "failed"]
  <2>1. handler' \in [Sockets -> {"none", "verify", "checks", "bound", "unbound", "sent", "failed"}]
    BY <1>7 DEF HandshakeInv, TypeOK
  <2>2. TypeOK'
    BY <1>1, <1>3, <1>4, <1>7, <2>1 DEF HandshakeInv, TypeOK
  <2> QED
    BY <1>1, <1>2, <1>7, <2>2, HandlerMovesInv
<1> QED
  BY <1>6, <1>7 DEF SendClientKx, HandlerThrows, WsOpen, HandshakeInv, TypeOK
\* The server's own steps, and the loss of a socket, leave the client alone.
LEMMA ServerActionsInv ==
    ASSUME HandshakeInv,
           \/ \E s \in Sockets : ServerOpens(s) \/ ServerWorks(s) \/ ServerLoses(s)
           \/ \E c \in Callers : QuoteSettles(c)
           \/ ServerRestarts
    PROVE  HandshakeInv'
<1>0. ServerInv
  BY DEF HandshakeInv
<1>1. ServerInv'
  BY <1>0, OpenControlInv, ResumeInv, ControlClosedInv, QuoteSettlesInv, RestartInv
  DEF ServerOpens, ServerWorks, ServerLoses, QuoteSettles, ServerRestarts
<1>2. /\ UNCHANGED <<config, closed, ws, conn, symKey, srvPub, binding, sock, promise, handler, timers, up>>
      /\ drops' \in 0..MaxDrops
  BY DropsAssumption DEF ServerOpens, ServerWorks, ServerLoses, QuoteSettles, ServerRestarts, clientVars,
     Drop, HandshakeInv, TypeOK
<1>3. TypeOK'
  BY <1>1, <1>2 DEF HandshakeInv, TypeOK, ServerInv
<1>4. \A s \in Sockets : announced[s] # None => announced'[s] = announced[s]
  BY <1>0 DEF ServerOpens, ServerWorks, ServerLoses, QuoteSettles, ServerRestarts, ServerInv,
     ServerTypeOK, AnnouncedOnce, OpenControl, SendServerKx, Announce, AbandonControl,
     ControlClosed, QuoteArrives, QuoteFails, Restart
<1>5. \A s \in Sockets : symKeyOf'[s] \in {symKeyOf[s], None}
  BY <1>0 DEF ServerOpens, ServerWorks, ServerLoses, QuoteSettles, ServerRestarts, ServerInv,
     ServerTypeOK, OpenControl, Announce, AbandonControl, ControlClosed, QuoteArrives, QuoteFails, Restart
<1> QED
  BY <1>1, <1>2, <1>3, <1>4, <1>5, ServerMovesInv

\* A message reaches a socket the server has opened.
LEMMA ServerReceivesInv ==
    ASSUME HandshakeInv, NEW s \in Sockets, ServerReceives(s)
    PROVE  HandshakeInv'
<1>1. /\ up[s] # <<>> /\ up' = [up EXCEPT ![s] = Tail(up[s])]
      /\ UNCHANGED <<config, closed, ws, conn, symKey, srvPub, binding, sock, promise, handler, timers, drops>>
  BY DEF ServerReceives
<1>2. /\ up' \in [Sockets -> Seq(Sealed \cup {Hello})]
      /\ Head(up[s]) \in Sealed \cup {Hello}
      /\ 1 \in DOMAIN up[s] /\ Head(up[s]) = up[s][1]
      /\ \A t \in Sockets : \A i \in DOMAIN up'[t] : \E j \in DOMAIN up[t] : up'[t][i] = up[t][j]
  BY <1>1, TypeHolds, Dequeue
<1>3. CASE UNCHANGED serverVars
  <2>1. ServerInv' /\ ServerTypeOK'
    BY <1>3, ClientStepKeepsServer
  <2>2. TypeOK'
    BY <1>1, <1>2, <2>1 DEF HandshakeInv, TypeOK
  <2>3. UNCHANGED <<announced, symKeyOf>>
    BY <1>3 DEF serverVars
  <2> QED
    BY <1>1, <1>2, <2>1, <2>2, <2>3, ServerMovesInv
<1>4. CASE Head(up[s]) # Hello /\ ClientKx(s, Head(up[s]))
  <2> DEFINE k == Head(up[s]).key
  <2>1. Head(up[s]) \in Sealed
    BY <1>2, <1>4
  <2>2. /\ k \in Sockets
        /\ Head(up[s]) = [key |-> k, to |-> Head(up[s]).to]
    BY <2>1 DEF Sealed
  <2>3. /\ handler[k] = "sent"
        /\ Head(up[s]).to = announced[k].pub
        /\ announced[k].quote = announced[k].pub
    BY <1>2, <1>4 DEF HandshakeInv, SentKeyIsAttested
  <2>4. announced[k] # None
    BY <2>2, <2>3 DEF HandshakeInv, HandlersAndBinding
  <2>5. ClientKx(s, [key |-> k, to |-> announced[k].pub])
    BY <1>4, <2>2, <2>3
  <2> HIDE DEF k
  <2>6. ServerInv'
    BY <2>2, <2>4, <2>5, ClientKxInv DEF HandshakeInv
  <2>7. TypeOK'
    BY <1>1, <1>2, <2>6 DEF HandshakeInv, TypeOK, ServerInv
  <2>8. /\ UNCHANGED <<announced, pub>>
        /\ \/ symKeyOf' = symKeyOf
           \/ symKeyOf' = [symKeyOf EXCEPT ![s] = k] /\ announced[k].pub = pub
    BY <2>5 DEF ClientKx
  <2>9. HandlersAndBinding'
    BY <1>1, <2>8 DEF HandshakeInv, HandlersAndBinding
  <2>10. ChannelKeyIsAttested'
    BY <1>1, <2>3, <2>8 DEF HandshakeInv, ServerInv, ServerTypeOK, ChannelKeyIsAttested
  <2>11. SentKeyIsAttested'
    BY <1>1, <1>2, <2>8 DEF HandshakeInv, SentKeyIsAttested
  <2> QED
    BY <2>6, <2>7, <2>9, <2>10, <2>11 DEF HandshakeInv
<1> QED
  BY <1>3, <1>4 DEF ServerReceives
\* The first message of a socket the server was not told of. Before keyReady it
\* replaces the key pair, and then no key on the wire can match.
LEMMA FirstMessageInv ==
    ASSUME HandshakeInv, NEW s \in Sockets, FirstMessage(s)
    PROVE  HandshakeInv'
<1> DEFINE h == Head(up[s])
<1>1. /\ up[s] # <<>> /\ up' = [up EXCEPT ![s] = Tail(up[s])]
      /\ ctl[s] = "idle" /\ ctl' = [ctl EXCEPT ![s] = "open"]
      /\ SendServerKx(s)
      /\ symKeyOf' = IF h.to = pub' THEN [symKeyOf EXCEPT ![s] = h.key] ELSE symKeyOf
      /\ UNCHANGED <<proc, quote, keyReady>>
      /\ UNCHANGED <<config, closed, ws, conn, symKey, srvPub, binding, sock, promise, handler, timers, drops>>
  BY DEF FirstMessage
<1>2. /\ up' \in [Sockets -> Seq(Sealed \cup {Hello})]
      /\ h \in Sealed \cup {Hello}
      /\ 1 \in DOMAIN up[s] /\ h = up[s][1]
      /\ \A t \in Sockets : \A i \in DOMAIN up'[t] : \E j \in DOMAIN up[t] : up'[t][i] = up[t][j]
  BY <1>1, TypeHolds, Dequeue
<1>3. announced[s] = None /\ symKeyOf[s] = None /\ pub \in KeyPairs
  BY <1>1 DEF HandshakeInv, ServerInv, ServerTypeOK, AnnouncedOnce, ClosedSocketHoldsNoKey
<1>4. \A t \in Sockets : announced[t] # None => announced'[t] = announced[t]
  BY <1>1, <1>3 DEF SendServerKx, HandshakeInv, ServerInv, ServerTypeOK
<1>5. h # Hello => /\ h.key \in Sockets /\ handler[h.key] = "sent"
                   /\ h.to = announced[h.key].pub
                   /\ announced[h.key].quote = announced[h.key].pub
                   /\ announced[h.key] # None
  <2> SUFFICES ASSUME h # Hello
               PROVE  /\ h.key \in Sockets /\ handler[h.key] = "sent"
                      /\ h.to = announced[h.key].pub
                      /\ announced[h.key].quote = announced[h.key].pub
                      /\ announced[h.key] # None
    OBVIOUS
  <2>1. h.key \in Sockets
    BY <1>2 DEF Sealed
  <2>2. handler[h.key] = "sent" /\ h.to = announced[h.key].pub /\ h.to = announced[h.key].quote
    BY <1>2 DEF HandshakeInv, SentKeyIsAttested
  <2>3. announced[h.key] # None
    BY <2>1, <2>2 DEF HandshakeInv, HandlersAndBinding
  <2> QED
    BY <2>1, <2>2, <2>3
<1>6. pub' \in KeyPairs
  BY <1>1, <1>3, KeyFacts DEF SendServerKx, StartGetQuote, HandshakeInv, ServerInv, ServerTypeOK
<1>7. h = Hello => h.to # pub'
  BY <1>6, KeyFacts DEF Hello
<1> HIDE DEF h
\* The server's invariant, when no key is installed: the step is an OpenControl.
<1>8. CASE symKeyOf' = symKeyOf
  <2>1. OpenControl(s)
    BY <1>1, <1>8 DEF OpenControl
  <2>2. ServerInv'
    BY <2>1, OpenControlInv DEF HandshakeInv
  <2>3. TypeOK'
    BY <1>1, <1>2, <2>2 DEF HandshakeInv, TypeOK, ServerInv
  <2> QED
    BY <1>1, <1>2, <1>4, <1>8, <2>2, <2>3, ServerMovesInv
<1>9. CASE h.to = pub'
  <2>1. h # Hello
    BY <1>7, <1>9
  <2>2. keyReady
    <3> SUFFICES ASSUME ~keyReady PROVE FALSE
      OBVIOUS
    <3>1. pub'.proc = proc
      BY <1>1 DEF SendServerKx, StartGetQuote
    <3>2. announced[h.key].pub.proc = proc
      BY <1>5, <1>9, <2>1, <3>1
    <3> QED
      BY <1>5, <2>1, <3>2 DEF HandshakeInv, ServerInv, KeysAndAnnouncements
  <2>3. /\ pub' = pub /\ getQuote' = getQuote
        /\ announced' = [announced EXCEPT ![s] = [pub |-> pub, quote |-> quote]]
    BY <1>1, <2>2 DEF SendServerKx
  <2>4. symKeyOf' = [symKeyOf EXCEPT ![s] = h.key]
    BY <1>1, <1>9
  <2>5. announced'[h.key] = announced[h.key] /\ announced[h.key].pub = pub
    BY <1>4, <1>5, <1>9, <2>1, <2>3
  <2>6. quote # None /\ quote \in KeyPairs /\ [pub |-> pub, quote |-> quote] \in Announcements
    BY <1>3, <2>2, KeyFacts DEF HandshakeInv, ServerInv, ServerTypeOK, KeysAndAnnouncements
  <2>7. ServerTypeOK'
    BY <1>1, <1>5, <2>1, <2>3, <2>4, <2>6 DEF HandshakeInv, ServerInv, ServerTypeOK
  <2>8. KeysAndAnnouncements' /\ AnnouncedOnce'
    BY <1>1, <2>2, <2>3, <2>6, KeyFacts
    DEF HandshakeInv, ServerInv, ServerTypeOK, KeysAndAnnouncements, AnnouncedOnce
  <2>9. AnnouncedKeyIsLive' /\ OneKeyPerProcess'
    BY <1>1, <2>3, <2>6, KeyFacts
    DEF HandshakeInv, ServerInv, ServerTypeOK, KeysAndAnnouncements, AnnouncedKeyIsLive, OneKeyPerProcess
  <2>10. ClosedSocketHoldsNoKey'
    BY <1>1, <2>4 DEF HandshakeInv, ServerInv, ServerTypeOK, ClosedSocketHoldsNoKey
  <2>11. InstalledKeyIsForThisProcess'
    BY <1>4, <1>5, <2>1, <2>3, <2>4, <2>5 DEF HandshakeInv, ServerInv, ServerTypeOK, InstalledKeyIsForThisProcess
  <2>12. ServerInv'
    BY <2>7, <2>8, <2>9, <2>10, <2>11 DEF ServerInv
  <2>13. TypeOK'
    BY <1>1, <1>2, <2>7 DEF HandshakeInv, TypeOK
  <2>14. HandlersAndBinding'
    BY <1>1, <1>4 DEF HandshakeInv, HandlersAndBinding
  <2>15. ChannelKeyIsAttested'
    <3> SUFFICES ASSUME NEW t \in Sockets, symKeyOf'[t] # None
                 PROVE  /\ handler[symKeyOf'[t]] = "sent"
                        /\ announced'[symKeyOf'[t]].quote = announced'[symKeyOf'[t]].pub
                        /\ announced'[symKeyOf'[t]].pub = pub'
      BY <1>1 DEF ChannelKeyIsAttested
    <3>1. CASE t = s
      BY <1>5, <2>1, <2>3, <2>4, <2>5, <3>1 DEF HandshakeInv, ServerInv, ServerTypeOK
    <3>2. CASE t # s
      <4>1. symKeyOf'[t] = symKeyOf[t] /\ symKeyOf[t] \in Sockets /\ symKeyOf[t] # None
        BY <2>4, <3>2 DEF HandshakeInv, ServerInv, ServerTypeOK
      <4>2. announced[symKeyOf[t]] # None
        BY <4>1 DEF HandshakeInv, ServerInv, InstalledKeyIsForThisProcess
      <4> QED
        BY <1>4, <2>3, <4>1, <4>2 DEF HandshakeInv, ChannelKeyIsAttested
    <3> QED
      BY <3>1, <3>2
  <2>16. SentKeyIsAttested'
    <3> SUFFICES ASSUME NEW t \in Sockets, NEW i \in DOMAIN up'[t], up'[t][i] # Hello
                 PROVE  /\ handler[up'[t][i].key] = "sent"
                        /\ up'[t][i].to = announced'[up'[t][i].key].pub
                        /\ up'[t][i].to = announced'[up'[t][i].key].quote
      BY <1>1 DEF SentKeyIsAttested
    <3>1. PICK j \in DOMAIN up[t] : up'[t][i] = up[t][j]
      BY <1>2
    <3>2. up[t][j] \in Sealed
      BY <3>1 DEF HandshakeInv, TypeOK
    <3>3. up[t][j].key \in Sockets
      BY <3>2 DEF Sealed
    <3>4. /\ handler[up[t][j].key] = "sent"
          /\ up[t][j].to = announced[up[t][j].key].pub
          /\ up[t][j].to = announced[up[t][j].key].quote
      BY <3>1 DEF HandshakeInv, SentKeyIsAttested
    <3>5. announced[up[t][j].key] # None
      BY <3>3, <3>4 DEF HandshakeInv, HandlersAndBinding
    <3> QED
      BY <1>4, <3>1, <3>3, <3>4, <3>5
  <2> QED
    BY <2>12, <2>13, <2>14, <2>15, <2>16 DEF HandshakeInv
<1> QED
  BY <1>1, <1>8, <1>9
\* HandshakeInv is inductive.
LEMMA HandshakeNextInv == HandshakeInv /\ [Next]_vars => HandshakeInv'
<1> SUFFICES ASSUME HandshakeInv, [Next]_vars PROVE HandshakeInv'
  OBVIOUS
<1>1. CASE UNCHANGED vars
  <2>1. UNCHANGED serverVars /\ UNCHANGED clientVars
    BY <1>1 DEF vars
  <2>2. ServerTypeOK'
    BY <2>1, ClientStepKeepsServer
  <2>3. TypeOK'
    BY <2>1, <2>2, TypeHolds, ServerStepTypes
  <2> QED
    BY <2>1, <2>3, SocketStepInv DEF clientVars
<1>2. ASSUME NEW s \in Sockets,
             \/ Opened(s) \/ Failed(s) \/ Closed(s)
             \/ ServerKxArrives(s) \/ HandlerStep(s)
             \/ ServerOpens(s) \/ FirstMessage(s) \/ ServerReceives(s)
             \/ ServerLoses(s) \/ ServerWorks(s)
      PROVE  HandshakeInv'
  <2>1. CASE HandlerStep(s)
    BY <2>1, HandlerChecksInv, SendClientKxInv DEF HandlerStep
  <2> QED
    BY <1>2, <2>1, OpenedInv, SocketActionsInv, ServerKxArrivesInv, ServerActionsInv,
       FirstMessageInv, ServerReceivesInv
<1>3. CASE EnsureConnection \/ TimerFires \/ Close
  BY <1>3, SocketActionsInv
<1>4. CASE (\E c \in Callers : QuoteSettles(c)) \/ ServerRestarts
  BY <1>4, ServerActionsInv
<1> QED
  BY <1>1, <1>2, <1>3, <1>4 DEF Next

\* HandshakeInv holds in every state of every behaviour of client and server.
THEOREM HandshakeInvariance == Spec => []HandshakeInv
<1>1. Init => HandshakeInv
  BY HandshakeInitInv
<1>2. HandshakeInv /\ [Next]_vars => HandshakeInv'
  BY HandshakeNextInv
<1> QED
  BY <1>1, <1>2, PTL DEF Spec

\* Type correctness of the composed system.
THEOREM HandshakeTypeCorrect == Spec => []TypeOK
<1>1. HandshakeInv => TypeOK
  BY DEF HandshakeInv
<1> QED
  BY <1>1, HandshakeInvariance, PTL

\* Every symmetric key the server holds comes from a client handler whose
\* verified quote is bound to the key it was sealed to.
THEOREM ChannelKeysAreAttested == Spec => []ChannelKeyIsAttested
<1>1. HandshakeInv => ChannelKeyIsAttested
  BY DEF HandshakeInv
<1> QED
  BY <1>1, HandshakeInvariance, PTL

\* The same for every client_kx on the wire.
THEOREM SentKeysAreAttested == Spec => []SentKeyIsAttested
<1>1. HandshakeInv => SentKeyIsAttested
  BY DEF HandshakeInv
<1> QED
  BY <1>1, HandshakeInvariance, PTL

\* After close() no event, timer or handler dials another control socket.
THEOREM ClosedClientNeverDials == Spec => NoDialAfterClose
<1> DEFINE NoDial == closed => \A s \in Sockets : sock[s] = "unused" => sock'[s] = "unused"
<1>1. TypeOK /\ [Next]_vars => [NoDial]_vars
  <2> SUFFICES ASSUME TypeOK, Next, closed, NEW t \in Sockets, sock[t] = "unused"
               PROVE  sock'[t] = "unused"
    BY DEF vars
  <2>1. sock \in [Sockets -> {"unused", "connecting", "failed", "open", "closing", "closed"}]
    BY DEF TypeOK
  <2>2. CASE EnsureConnection \/ TimerFires \/ Close
    BY <2>1, <2>2 DEF EnsureConnection, TimerFires, Close, Dial
  <2>3. ASSUME NEW s \in Sockets, Opened(s) \/ Failed(s) \/ Closed(s)
        PROVE  sock'[t] = "unused"
    BY <2>1, <2>3 DEF Opened, Failed, Closed
  <2>4. ASSUME NEW s \in Sockets,
               \/ ServerKxArrives(s) \/ HandlerStep(s)
               \/ ServerOpens(s) \/ FirstMessage(s) \/ ServerReceives(s)
               \/ ServerLoses(s) \/ ServerWorks(s)
        PROVE  sock' = sock
    BY <2>4 DEF ServerKxArrives, HandlerStep, QuoteVerified, ChecksPass, ValidationFails, SendClientKx,
       ServerOpens, FirstMessage, ServerReceives, ServerLoses, ServerWorks, clientVars
  <2>5. CASE (\E c \in Callers : QuoteSettles(c)) \/ ServerRestarts
    BY <2>5 DEF QuoteSettles, ServerRestarts, clientVars
  <2> QED
    BY <2>2, <2>3, <2>4, <2>5 DEF Next
<1> QED
  BY <1>1, HandshakeTypeCorrect, PTL DEF Spec, NoDialAfterClose

\* What the server promises for any clients it keeps to in the tunnel: announced keys
\* stay live, installed keys are this process's and closed sockets hold none.
THEOREM TunnelKeepsServerKeysSafe ==
    Spec => [](AnnouncedKeyIsLive /\ InstalledKeyIsForThisProcess /\ ClosedSocketHoldsNoKey)
<1>1. HandshakeInv => AnnouncedKeyIsLive /\ InstalledKeyIsForThisProcess /\ ClosedSocketHoldsNoKey
  BY DEF HandshakeInv, ServerInv
<1> QED
  BY <1>1, HandshakeInvariance, PTL

\* No step of client, server or network exchanges the key of a live channel.
THEOREM ChannelKeysAreNeverReplaced == Spec => KeyNeverReplaced
<1> DEFINE Kept == \A s \in Sockets : symKeyOf[s] # None => symKeyOf'[s] \in {symKeyOf[s], None}
<1>1. HandshakeInv /\ [Next]_vars => [Kept]_serverVars
  <2> SUFFICES ASSUME HandshakeInv, Next, NEW t \in Sockets, symKeyOf[t] # None
               PROVE  symKeyOf'[t] \in {symKeyOf[t], None}
    BY DEF vars, serverVars, clientVars
  <2>1. symKeyOf \in [Sockets -> Sockets \cup {None}] /\ ClosedSocketHoldsNoKey
    BY DEF HandshakeInv, ServerInv, ServerTypeOK
  <2>2. CASE EnsureConnection \/ TimerFires \/ Close
    BY <2>2 DEF EnsureConnection, TimerFires, Close, serverVars
  <2>3. ASSUME NEW s \in Sockets, FirstMessage(s) PROVE symKeyOf'[t] \in {symKeyOf[t], None}
    <3>1. s # t
      BY <2>1, <2>3 DEF FirstMessage, ClosedSocketHoldsNoKey
    <3> QED
      BY <2>1, <2>3, <3>1 DEF FirstMessage
  <2>4. ASSUME NEW s \in Sockets, ServerReceives(s) PROVE symKeyOf'[t] \in {symKeyOf[t], None}
    BY <2>1, <2>4 DEF ServerReceives, ClientKx, serverVars
  <2>5. ASSUME NEW s \in Sockets, ServerLoses(s) PROVE symKeyOf'[t] \in {symKeyOf[t], None}
    BY <2>1, <2>5 DEF ServerLoses, ControlClosed
  <2>6. CASE ServerRestarts
    BY <2>6 DEF ServerRestarts, Restart
  <2>7. ASSUME NEW s \in Sockets,
               \/ Opened(s) \/ Failed(s) \/ Closed(s)
               \/ ServerKxArrives(s) \/ HandlerStep(s) \/ ServerOpens(s) \/ ServerWorks(s)
        PROVE  symKeyOf' = symKeyOf
    BY <2>7 DEF Opened, Failed, Closed, ServerKxArrives, HandlerStep, QuoteVerified, ChecksPass,
       ValidationFails, SendClientKx, ServerOpens, OpenControl, ServerWorks, Announce, AbandonControl,
       serverVars
  <2>8. ASSUME NEW c \in Callers, QuoteSettles(c) PROVE symKeyOf' = symKeyOf
    BY <2>8 DEF QuoteSettles, QuoteArrives, QuoteFails
  <2> QED
    BY <2>2, <2>3, <2>4, <2>5, <2>6, <2>7, <2>8 DEF Next
<1> QED
  BY <1>1, HandshakeInvariance, PTL DEF Spec, KeyNeverReplaced

-----------------------------------------------------------------------------
(***************************************************************************)
(* The tunnel implements the server's specification.                       *)
(***************************************************************************)

\* What leaves the wire, the readyState of this.ws and a socket the server has not
\* opened yet alone.
LEMMA HelloKept ==
    ASSUME TunnelInv, config' = config,
           \A t \in Sockets : ctl'[t] = "idle" =>
               /\ ctl[t] = "idle"
               /\ up'[t] = up[t]
               /\ ws' = t /\ sock'[t] = "open" => ws = t /\ sock[t] = "open"
    PROVE  HelloIsFirst'
BY DEF TunnelInv, HelloIsFirst, OpenOnMessage

\* A message put on the wire: the hello, or anything behind the hello.
LEMMA HelloEnqueued ==
    ASSUME TunnelInv, NEW m \in Sealed \cup {Hello},
           UNCHANGED <<config, ctl, ws>>,
           ws \in Sockets, sock'[ws] = "open",
           m = Hello \/ sock[ws] = "open",
           up' = [up EXCEPT ![ws] = Append(up[ws], m)]
    PROVE  HelloIsFirst'
<1> SUFFICES ASSUME OpenOnMessage, NEW t \in Sockets, ctl[t] = "idle"
             PROVE  /\ ws = t /\ sock'[t] = "open" => up'[t] # <<>>
                    /\ up'[t] # <<>> => Head(up'[t]) = Hello
  BY DEF HelloIsFirst, OpenOnMessage
<1>1. up \in [Sockets -> Seq(Sealed \cup {Hello})] /\ up[t] \in Seq(Sealed \cup {Hello})
  BY DEF TunnelInv, HandshakeInv, TypeOK
<1>2. /\ ws = t /\ sock[t] = "open" => up[t] # <<>>
      /\ up[t] # <<>> => Head(up[t]) = Hello
  BY DEF TunnelInv, HelloIsFirst
<1>3. CASE t = ws
  <2>1. up'[t] = Append(up[t], m) /\ up'[t] # <<>>
    BY <1>1, <1>3
  <2>2. Head(up'[t]) = IF up[t] = <<>> THEN m ELSE Head(up[t])
    BY <1>1, <2>1
  <2> QED
    BY <1>2, <1>3, <2>1, <2>2
<1>4. CASE t # ws
  BY <1>1, <1>2, <1>4
<1> QED
  BY <1>3, <1>4

\* TunnelInv is inductive: one step per kind of step.
LEMMA HelloNextInv ==
    ASSUME TunnelInv, [Next]_vars
    PROVE  HelloIsFirst'
<1>0. /\ ctl \in [Sockets -> {"idle", "open", "closing", "closed"}]
      /\ sock \in [Sockets -> {"unused", "connecting", "failed", "open", "closing", "closed"}]
      /\ up \in [Sockets -> Seq(Sealed \cup {Hello})]
      /\ ws \in Sockets \cup {None}
      /\ announced \in [Sockets -> Announcements \cup {None}]
      /\ None \notin Sockets
  BY KeyFacts, NoneAssumption DEF TunnelInv, HandshakeInv, TypeOK, ServerTypeOK
<1>1. CASE UNCHANGED vars
  BY <1>1, HelloKept DEF vars, serverVars, clientVars
<1>2. CASE EnsureConnection \/ TimerFires \/ Close
  <2>1. UNCHANGED <<config, ctl, up>>
    BY <1>2 DEF EnsureConnection, TimerFires, Close, serverVars
  <2>2. \A t \in Sockets : ws' = t /\ sock'[t] = "open" => ws = t /\ sock[t] = "open"
    BY <1>0, <1>2 DEF EnsureConnection, TimerFires, Close, Dial, Leaving
  <2> QED
    BY <2>1, <2>2, HelloKept
<1>3. ASSUME NEW s \in Sockets, Opened(s) PROVE HelloIsFirst'
  <2>1. /\ UNCHANGED <<config, ctl, ws>>
        /\ sock' = [sock EXCEPT ![s] = "open"]
    BY <1>3 DEF Opened, serverVars
  <2>2. CASE OpenOnMessage /\ ws # None /\ sock'[ws] = "open"
    <3>1. up' = [up EXCEPT ![ws] = Append(up[ws], Hello)]
      BY <1>3, <2>2 DEF Opened
    <3> QED
      BY <1>0, <2>1, <2>2, <3>1, HelloEnqueued
  <2>3. CASE OpenOnMessage /\ ~(ws # None /\ sock'[ws] = "open")
    <3>1. up' = up
      BY <1>3, <2>3 DEF Opened
    <3>2. \A t \in Sockets : ~(ws' = t /\ sock'[t] = "open")
      BY <1>0, <2>1, <2>3
    <3> QED
      BY <2>1, <3>1, <3>2, HelloKept
  <2>4. CASE ~OpenOnMessage
    BY <2>1, <2>4 DEF HelloIsFirst, OpenOnMessage
  <2> QED
    BY <2>2, <2>3, <2>4
<1>4. ASSUME NEW s \in Sockets, Failed(s) \/ Closed(s) PROVE HelloIsFirst'
  <2>1. /\ UNCHANGED <<config, ctl, up, ws>>
        /\ \A t \in Sockets : sock'[t] = "open" => sock[t] = "open"
    BY <1>0, <1>4 DEF Failed, Closed, Leaving, serverVars
  <2> QED
    BY <2>1, HelloKept
<1>5. ASSUME NEW s \in Sockets, \/ ServerKxArrives(s) \/ QuoteVerified(s)
                                \/ ChecksPass(s) \/ ValidationFails(s)
      PROVE  HelloIsFirst'
  <2>1. UNCHANGED <<config, ctl, up, ws, sock>>
    BY <1>5 DEF ServerKxArrives, QuoteVerified, ChecksPass, ValidationFails, serverVars
  <2> QED
    BY <2>1, HelloKept
<1>6. ASSUME NEW s \in Sockets, SendClientKx(s) PROVE HelloIsFirst'
  <2>1. UNCHANGED <<config, ctl, ws, sock>> /\ handler[s] = "bound"
    BY <1>6 DEF SendClientKx, serverVars
  <2>2. CASE up' = up
    BY <2>1, <2>2, HelloKept
  <2>3. CASE WsOpen /\ up' = [up EXCEPT ![ws] = Append(@, [key |-> s, to |-> announced[s].pub])]
    <3>1. announced[s] \in Announcements
      BY <1>0, <2>1 DEF TunnelInv, HandshakeInv, HandlersAndBinding
    <3>2. [key |-> s, to |-> announced[s].pub] \in Sealed
      BY <3>1 DEF Announcements, Sealed
    <3> DEFINE m == [key |-> s, to |-> announced[s].pub]
    <3>3. m \in Sealed \cup {Hello} /\ up' = [up EXCEPT ![ws] = Append(up[ws], m)]
      BY <2>3, <3>2
    <3> HIDE DEF m
    <3> QED
      BY <1>0, <2>1, <2>3, <3>3, HelloEnqueued DEF WsOpen
  <2> QED
    BY <1>6, <2>2, <2>3 DEF SendClientKx
<1>7. ASSUME NEW s \in Sockets, ServerOpens(s) \/ ServerLoses(s) \/ ServerWorks(s)
      PROVE  HelloIsFirst'
  <2>1. /\ UNCHANGED <<config, up, ws, sock>>
        /\ \A t \in Sockets : ctl'[t] = "idle" => ctl[t] = "idle"
    BY <1>0, <1>7 DEF ServerOpens, OpenControl, ServerLoses, ControlClosed, ServerWorks,
       Announce, AbandonControl, clientVars
  <2> QED
    BY <2>1, HelloKept
<1>8. ASSUME NEW s \in Sockets, FirstMessage(s) \/ ServerReceives(s) PROVE HelloIsFirst'
  <2>1. /\ UNCHANGED <<config, ws, sock>>
        /\ up' = [up EXCEPT ![s] = Tail(up[s])]
    BY <1>8 DEF FirstMessage, ServerReceives
  <2>2. \A t \in Sockets : ctl'[t] = "idle" => ctl[t] = "idle" /\ t # s
    BY <1>0, <1>8 DEF FirstMessage, ServerReceives, ClientKx, serverVars
  <2> QED
    BY <1>0, <2>1, <2>2, HelloKept
<1>9. ASSUME NEW c \in Callers, QuoteSettles(c) PROVE HelloIsFirst'
  BY <1>9, HelloKept DEF QuoteSettles, QuoteArrives, QuoteFails, clientVars
<1>10. CASE ServerRestarts
  <2>1. UNCHANGED <<config, up, ws, sock>> /\ \A t \in Sockets : ctl'[t] = "idle" => ctl[t] = "idle"
    BY <1>10 DEF ServerRestarts, Restart, clientVars
  <2> QED
    BY <2>1, HelloKept
<1> QED
  BY <1>1, <1>2, <1>3, <1>4, <1>5, <1>6, <1>7, <1>8, <1>9, <1>10 DEF Next, HandlerStep

\* The inductive invariant of client and server: no key unattested, the server's keys
\* in order, and no client_kx before the server has opened its socket.
THEOREM TunnelInvariance == Spec => []TunnelInv
<1>1. Init => TunnelInv
  <2>1. Init => HelloIsFirst
    <3> SUFFICES ASSUME Init PROVE HelloIsFirst
      OBVIOUS
    <3>1. ws = None /\ \A s \in Sockets : up[s] = <<>>
      BY DEF Init
    <3> QED
      BY <3>1, NoneAssumption DEF HelloIsFirst
  <2> QED
    BY <2>1, HandshakeInitInv DEF TunnelInv
<1>2. TunnelInv /\ [Next]_vars => TunnelInv'
  <2>1. TunnelInv /\ [Next]_vars => HandshakeInv'
    BY HandshakeNextInv DEF TunnelInv
  <2>2. TunnelInv /\ [Next]_vars => HelloIsFirst'
    BY HelloNextInv
  <2> QED
    BY <2>1, <2>2 DEF TunnelInv
<1> QED
  BY <1>1, <1>2, PTL DEF Spec

\* What PendingIsOwed rests on: a handler that is over has settled its promise, on a
\* host with onOpen a socket is open at the server first, and a socket the server has
\* open is announced a key or is being fetched a quote for.
PromisesAndSockets ==
    \A s \in Sockets :
        /\ sock[s] = "unused" => handler[s] = "none"
        /\ handler[s] \in {"sent", "failed"} => promise[s] # "pending"
        /\ ~OpenOnMessage /\ sock[s] = "open" => ctl[s] # "idle"
        /\ ctl[s] = "open" =>
              announced[s] # None \/ getQuote[s] \in {"waiting", "resolved", "rejected"}

\* A step that leaves the server's end alone, and settles what it ends.
LEMMA ClientKeepsPromises ==
    ASSUME TunnelInv, PromisesAndSockets, UNCHANGED <<config, ctl, announced, getQuote>>,
           \A t \in Sockets :
              /\ sock'[t] = "unused" => sock[t] = "unused" /\ handler'[t] = handler[t]
              /\ handler'[t] \in {"sent", "failed"} => promise'[t] # "pending"
              /\ sock'[t] = "open" => sock[t] = "open" \/ OpenOnMessage \/ ctl[t] # "idle"
    PROVE  PromisesAndSockets'
BY DEF PromisesAndSockets, OpenOnMessage

\* A step of the server's that opens no socket without seeing to its quote.
LEMMA ServerKeepsPromises ==
    ASSUME TunnelInv, PromisesAndSockets, UNCHANGED <<config, sock, handler, promise>>,
           \A t \in Sockets :
              /\ ctl[t] # "idle" => ctl'[t] # "idle"
              /\ ctl'[t] = "open" =>
                    announced'[t] # None \/ getQuote'[t] \in {"waiting", "resolved", "rejected"}
    PROVE  PromisesAndSockets'
BY DEF PromisesAndSockets, OpenOnMessage

LEMMA PromisesNextInv ==
    ASSUME TunnelInv, PromisesAndSockets, [Next]_vars
    PROVE  PromisesAndSockets'
<1>0. /\ ctl \in [Sockets -> {"idle", "open", "closing", "closed"}]
      /\ sock \in [Sockets -> {"unused", "connecting", "failed", "open", "closing", "closed"}]
      /\ promise \in [Sockets -> {"none", "pending", "resolved", "rejected"}]
      /\ handler \in [Sockets -> {"none", "verify", "checks", "bound", "unbound", "sent", "failed"}]
      /\ getQuote \in [Callers -> {"none", "waiting", "resolved", "rejected", "done"}]
      /\ announced \in [Sockets -> Announcements \cup {None}]
      /\ None \notin Sockets /\ None \notin Announcements
      /\ ws \in Sockets \cup {None}
      /\ Sockets \subseteq Callers
  BY KeyFacts, NoneAssumption DEF TunnelInv, HandshakeInv, TypeOK, ServerTypeOK, Callers
<1>1. CASE UNCHANGED vars
  BY <1>1 DEF vars, serverVars, clientVars, PromisesAndSockets, OpenOnMessage
<1>2. CASE EnsureConnection \/ TimerFires
  <2>1. UNCHANGED <<config, ctl, announced, getQuote, handler>>
    BY <1>2 DEF EnsureConnection, TimerFires, serverVars
  <2>2. \/ sock' = sock /\ promise' = promise
        \/ \E s \in Sockets : /\ sock[s] = "unused"
                              /\ sock' = [sock EXCEPT ![s] = "connecting"]
                              /\ promise' = [promise EXCEPT ![s] = "pending"]
    BY <1>2 DEF EnsureConnection, TimerFires, Dial
  <2> QED
    BY <1>0, <2>1, <2>2, ClientKeepsPromises DEF PromisesAndSockets
<1>3. CASE Close
  <2>1. UNCHANGED <<config, ctl, announced, getQuote, handler, promise>>
    BY <1>3 DEF Close, serverVars
  <2>2. \A t \in Sockets : sock'[t] = sock[t] \/ sock'[t] \in {"failed", "closing"}
    BY <1>0, <1>3 DEF Close, Leaving
  <2> QED
    BY <1>0, <2>1, <2>2, ClientKeepsPromises DEF PromisesAndSockets
<1>4. ASSUME NEW s \in Sockets, Opened(s) \/ Failed(s) \/ Closed(s) PROVE PromisesAndSockets'
  <2>1. UNCHANGED <<config, ctl, announced, getQuote, handler>>
    BY <1>4 DEF Opened, Failed, Closed, serverVars
  <2>2. \A t \in Sockets : promise[t] # "pending" => promise'[t] # "pending"
    BY <1>0, <1>4 DEF Opened, Failed, Closed, Settle
  <2>3. \A t \in Sockets :
           \/ sock'[t] = sock[t] \/ sock'[t] \in {"failed", "closing", "closed"}
           \/ sock'[t] = "open" /\ (OpenOnMessage \/ ctl[t] # "idle")
    BY <1>0, <1>4 DEF Opened, Failed, Closed, Leaving
  <2> QED
    BY <1>0, <2>1, <2>2, <2>3, ClientKeepsPromises DEF PromisesAndSockets
<1>5. ASSUME NEW s \in Sockets, ServerKxArrives(s) \/ HandlerStep(s) PROVE PromisesAndSockets'
  <2>1. UNCHANGED <<config, ctl, announced, getQuote, sock>>
    BY <1>5 DEF ServerKxArrives, HandlerStep, QuoteVerified, ChecksPass, ValidationFails,
       SendClientKx, serverVars
  <2>2. sock[s] # "unused"
    BY <1>0, <1>5 DEF ServerKxArrives, HandlerStep, QuoteVerified, ChecksPass, ValidationFails,
       SendClientKx, PromisesAndSockets
  <2>3. \/ /\ promise' = promise
           /\ \E h \in {"verify", "checks", "bound", "unbound"} : handler' = [handler EXCEPT ![s] = h]
        \/ \E how \in {"resolved", "rejected"} : \E h \in {"sent", "failed"} :
              Settle(s, how) /\ handler' = [handler EXCEPT ![s] = h]
    BY <1>5 DEF ServerKxArrives, HandlerStep, QuoteVerified, ChecksPass, ValidationFails,
       SendClientKx, HandlerThrows, BindingResult
  <2>4. \A t \in Sockets : handler'[t] \in {"sent", "failed"} => promise'[t] # "pending"
    BY <1>0, <2>3 DEF Settle, PromisesAndSockets
  <2>5. \A t \in Sockets : sock[t] = "unused" => handler'[t] = handler[t]
    BY <1>0, <2>2, <2>3
  <2> QED
    BY <2>1, <2>4, <2>5, ClientKeepsPromises
<1>6. ASSUME NEW s \in Sockets, ServerOpens(s) \/ FirstMessage(s) PROVE PromisesAndSockets'
  <2>1. /\ UNCHANGED <<config, sock, handler, promise>>
        /\ ctl' = [ctl EXCEPT ![s] = "open"] /\ SendServerKx(s)
    BY <1>6 DEF ServerOpens, OpenControl, FirstMessage, clientVars
  <2>2. announced'[s] # None \/ getQuote'[s] = "waiting"
    <3>1. CASE keyReady /\ announced' = [announced EXCEPT ![s] = [pub |-> pub, quote |-> quote]]
      <4>1. [pub |-> pub, quote |-> quote] \in Announcements
        BY <3>1 DEF TunnelInv, HandshakeInv, ServerInv, ServerTypeOK, KeysAndAnnouncements,
           Announcements
      <4> QED
        BY <1>0, <3>1, <4>1
    <3>2. CASE StartGetQuote(s)
      BY <1>0, <3>2 DEF StartGetQuote
    <3> QED
      BY <2>1, <3>1, <3>2 DEF SendServerKx
  <2>3. \A t \in Sockets : t # s => announced'[t] = announced[t] /\ getQuote'[t] = getQuote[t]
    BY <1>0, <2>1 DEF SendServerKx, StartGetQuote
  <2> QED
    BY <1>0, <2>1, <2>2, <2>3, ServerKeepsPromises DEF PromisesAndSockets
<1>7. ASSUME NEW s \in Sockets, ServerReceives(s) \/ ServerLoses(s) PROVE PromisesAndSockets'
  <2>1. UNCHANGED <<config, sock, handler, promise, announced, getQuote>>
    BY <1>7 DEF ServerReceives, ServerLoses, ClientKx, ControlClosed, serverVars
  <2>2. ctl' = ctl \/ ctl' = [ctl EXCEPT ![s] = "closed"]
    BY <1>7 DEF ServerReceives, ServerLoses, ClientKx, ControlClosed, serverVars
  <2> QED
    BY <1>0, <2>1, <2>2, ServerKeepsPromises DEF PromisesAndSockets
<1>8. ASSUME NEW s \in Sockets, Announce(s), UNCHANGED clientVars PROVE PromisesAndSockets'
  <2>1. UNCHANGED <<config, sock, handler, promise, ctl>>
    BY <1>8 DEF Announce, clientVars
  <2>2. [pub |-> pub, quote |-> quote] \in Announcements
    BY <1>8 DEF Announce, TunnelInv, HandshakeInv, ServerInv, ServerTypeOK, KeysAndAnnouncements,
       Announcements
  <2>3. ctl[s] = "open" => announced'[s] # None
    BY <1>0, <1>8, <2>2 DEF Announce
  <2>4. \A t \in Sockets : t # s => announced'[t] = announced[t] /\ getQuote'[t] = getQuote[t]
    BY <1>0, <1>8 DEF Announce
  <2> QED
    BY <2>1, <2>3, <2>4, ServerKeepsPromises DEF PromisesAndSockets
<1>9. ASSUME NEW s \in Sockets, AbandonControl(s), UNCHANGED clientVars PROVE PromisesAndSockets'
  <2>1. UNCHANGED <<config, sock, handler, promise, announced>>
    BY <1>9 DEF AbandonControl, clientVars
  <2>2. /\ ctl'[s] # "open" /\ (ctl[s] # "idle" => ctl'[s] # "idle")
        /\ \A t \in Sockets : t # s => ctl'[t] = ctl[t] /\ getQuote'[t] = getQuote[t]
    BY <1>0, <1>9 DEF AbandonControl
  <2> QED
    BY <2>1, <2>2, ServerKeepsPromises DEF PromisesAndSockets
<1>10. ASSUME NEW c \in Callers, QuoteSettles(c) PROVE PromisesAndSockets'
  <2>1. UNCHANGED <<config, sock, handler, promise, announced, ctl>>
    BY <1>10 DEF QuoteSettles, QuoteArrives, QuoteFails, clientVars
  <2>2. \A t \in Sockets : getQuote'[t] = getQuote[t] \/ getQuote'[t] \in {"resolved", "rejected"}
    <3>1. \A t \in Sockets : t # Ctor /\ t \in Callers
      BY <1>0, CallersAssumption
    <3> QED
      BY <1>0, <1>10, <3>1 DEF QuoteSettles, QuoteArrives, QuoteFails
  <2> QED
    BY <2>1, <2>2, ServerKeepsPromises DEF PromisesAndSockets
<1>11. CASE ServerRestarts
  <2>1. UNCHANGED <<config, sock, handler, promise>>
    BY <1>11 DEF ServerRestarts, clientVars
  <2>2. \A t \in Sockets : ctl'[t] # "open" /\ (ctl[t] # "idle" => ctl'[t] # "idle")
    BY <1>11 DEF ServerRestarts, Restart
  <2> QED
    BY <2>1, <2>2, ServerKeepsPromises
<1> QED
  BY <1>1, <1>2, <1>3, <1>4, <1>5, <1>6, <1>7, <1>8, <1>9, <1>10, <1>11 DEF Next, ServerWorks

\* However many sockets replace each other: while the promise of an open socket is
\* pending, client or server has something left to do for it, or it was never
\* introduced to a host without onOpen.
THEOREM PendingPromisesAreOwed == Spec => []PendingIsOwed
<1>1. Init => PromisesAndSockets
  BY DEF Init, ServerInit, PromisesAndSockets
<1>2. TunnelInv /\ PromisesAndSockets /\ [Next]_vars => PromisesAndSockets'
  BY PromisesNextInv
<1>3. TunnelInv /\ PromisesAndSockets => PendingIsOwed
  <2> SUFFICES ASSUME TunnelInv, PromisesAndSockets, NEW s \in Sockets,
                      promise[s] = "pending", sock[s] = "open"
               PROVE  \/ ctl[s] = "idle" /\ up[s] # <<>>
                      \/ ctl[s] = "open" /\ getQuote[s] \in {"waiting", "resolved", "rejected"}
                      \/ announced[s] # None /\ handler[s] \notin {"sent", "failed"}
                      \/ ctl[s] \in {"closing", "closed"}
                      \/ NeverIntroduced(s)
    BY DEF PendingIsOwed
  <2>1. ctl[s] \in {"idle", "open", "closing", "closed"}
    BY DEF TunnelInv, HandshakeInv, TypeOK, ServerTypeOK
  <2>2. CASE ctl[s] = "idle"
    <3>1. OpenOnMessage /\ (ws = s => up[s] # <<>>)
      BY <2>2 DEF PromisesAndSockets, TunnelInv, HelloIsFirst
    <3> QED
      BY <2>2, <3>1 DEF NeverIntroduced
  <2>3. CASE ctl[s] = "open"
    BY <2>3 DEF PromisesAndSockets
  <2> QED
    BY <2>1, <2>2, <2>3
<1> QED
  BY <1>1, <1>2, <1>3, TunnelInvariance, PTL DEF Spec

\* What the server does in a step of the tunnel, it may do against any client.
LEMMA TunnelStepIsServerStep ==
    ASSUME TunnelInv, Next
    PROVE  ServerNext \/ UNCHANGED serverVars
<1>1. CASE EnsureConnection \/ TimerFires \/ Close
  BY <1>1 DEF EnsureConnection, TimerFires, Close
<1>2. ASSUME NEW s \in Sockets,
             \/ Opened(s) \/ Failed(s) \/ Closed(s) \/ ServerKxArrives(s) \/ HandlerStep(s)
      PROVE  UNCHANGED serverVars
  BY <1>2 DEF Opened, Failed, Closed, ServerKxArrives, HandlerStep, QuoteVerified, ChecksPass,
     ValidationFails, SendClientKx
<1>3. ASSUME NEW s \in Sockets, ServerOpens(s) \/ ServerLoses(s) \/ ServerWorks(s)
      PROVE  ServerStep(s)
  BY <1>3 DEF ServerOpens, ServerLoses, ServerWorks, ServerStep
<1>4. ASSUME NEW s \in Sockets, FirstMessage(s) PROVE ServerStep(s)
  <2>1. /\ OpenOnMessage /\ up[s] # <<>> /\ ctl[s] = "idle"
        /\ ctl' = [ctl EXCEPT ![s] = "open"]
        /\ SendServerKx(s)
        /\ symKeyOf' = IF Head(up[s]).to = pub'
                       THEN [symKeyOf EXCEPT ![s] = Head(up[s]).key] ELSE symKeyOf
        /\ UNCHANGED <<proc, quote, keyReady>>
    BY <1>4 DEF FirstMessage
  <2>2. Head(up[s]).to = None
    BY <2>1 DEF TunnelInv, HelloIsFirst, Hello
  <2>3. pub' \in KeyPairs
    BY <2>1, KeyFacts DEF SendServerKx, StartGetQuote, TunnelInv, HandshakeInv, ServerInv, ServerTypeOK
  <2>4. symKeyOf' = symKeyOf
    BY <2>1, <2>2, <2>3, NoneAssumption
  <2> QED
    BY <2>1, <2>4 DEF ServerStep, OpenControl
<1>5. ASSUME NEW s \in Sockets, ServerReceives(s)
      PROVE  ServerStep(s) \/ UNCHANGED serverVars
  <2> SUFFICES ASSUME Head(up[s]) # Hello, ClientKx(s, Head(up[s]))
               PROVE  AnyClientKx(s)
    BY <1>5 DEF ServerReceives, ServerStep
  <2> DEFINE k == Head(up[s]).key
  <2>1. TypeOK /\ up[s] # <<>> /\ up' = [up EXCEPT ![s] = Tail(up[s])]
    BY <1>5 DEF ServerReceives, TunnelInv, HandshakeInv
  <2>2. Head(up[s]) \in Sealed /\ 1 \in DOMAIN up[s] /\ Head(up[s]) = up[s][1]
    BY <2>1, Dequeue
  <2>3. k \in Sockets /\ Head(up[s]) = [key |-> k, to |-> Head(up[s]).to]
    BY <2>2 DEF Sealed
  <2>4. handler[k] = "sent" /\ Head(up[s]).to = announced[k].pub
    BY <2>2 DEF TunnelInv, HandshakeInv, SentKeyIsAttested
  <2>5. announced[k] # None
    BY <2>3, <2>4 DEF TunnelInv, HandshakeInv, HandlersAndBinding
  <2>6. ClientKx(s, [key |-> k, to |-> announced[k].pub])
    BY <2>3, <2>4
  <2> HIDE DEF k
  <2> QED
    BY <2>3, <2>5, <2>6 DEF AnyClientKx
<1>6. ASSUME NEW c \in Callers, QuoteSettles(c) PROVE QuoteArrives(c) \/ QuoteFails(c)
  BY <1>6 DEF QuoteSettles
<1>7. CASE ServerRestarts
  BY <1>7 DEF ServerRestarts, ServerNext
<1> QED
  BY <1>1, <1>2, <1>3, <1>4, <1>5, <1>6, <1>7 DEF Next, ServerNext

\* The composed system implements the server against any client: what ServerKeys
\* lets clients send, a key sealed to something they were announced, on a socket that
\* is open, is all that TunnelClient ever sends, so every theorem about ServerSpec
\* holds in the tunnel.
THEOREM TunnelImplementsServer == Spec => ServerSpec
<1>1. Init => ServerInit
  BY DEF Init
<1>2. TunnelInv /\ [Next]_vars => [ServerNext]_serverVars
  <2>1. UNCHANGED vars => UNCHANGED serverVars
    BY DEF vars
  <2> QED
    BY <2>1, TunnelStepIsServerStep
<1> QED
  BY <1>1, <1>2, TunnelInvariance, PTL DEF Spec, ServerSpec
=============================================================================
