-------------------------- MODULE TunnelHandshake --------------------------
(***************************************************************************)
(* One TunnelClient (packages/tunnel/src/client.ts) opening, attesting,    *)
(* keying, losing and reopening its control channel to the server of       *)
(* ServerKeys.                                                             *)
(*                                                                         *)
(* The client keeps one current socket (this.ws), one shared connection    *)
(* promise, one symmetric key and one copy of the server's key and binding *)
(* data, but the event handlers of a socket that was replaced stay         *)
(* attached, and the handler of server_kx is suspended in several awaits.  *)
(* Every handler works on the shared fields, whichever socket it is for.   *)
(*                                                                         *)
(* Each socket carries at most one server_kx, so its handler, the promise  *)
(* made with it and the symmetric key generated by it are named after it.  *)
(* The awaits of the handler between which no shared field is touched are  *)
(* one step: "verify" is everything before the key is generated, "checks"  *)
(* the custom and measurement checks after it, and "bound"/"unbound" the   *)
(* digest of the binding check, whose operands are read when it starts.    *)
(***************************************************************************)
EXTENDS ServerKeys, Sequences

CONSTANTS
    MaxDrops,  \* bound: connections lost to the network
    Configs    \* TunnelClientConfig: TEE type, and whether measurements or
               \* customVerifyQuote were given; and the host the server runs on

ASSUME DropsAssumption == MaxDrops \in Nat

ASSUME ConfigsAssumption ==
    Configs \subseteq [tee : {"tdx", "sgx", "sevsnp"}, strategy : BOOLEAN,
                      host : {"node", "workerd"}]

\* client_kx_ready, which only matters when OpenOnMessage.
Hello == [key |-> None, to |-> None]

VARIABLES
    config,   \* attestation mode, validation strategy given or not, server's host
    closed,   \* this.closed
    ws,       \* this.ws
    conn,     \* this.connectionPromise
    symKey,   \* this.symmetricKey
    srvPub,   \* this.serverX25519PublicKey
    binding,  \* this.reportBindingData, named after the quote it came with
    sock,     \* per socket, the client's readyState ("failed": CLOSING, never opened)
    promise,  \* per socket, the promise its ensureConnection returned
    handler,  \* per socket, the onmessage handler of its server_kx
    timers,   \* reconnect timers that have not fired
    up,       \* per socket, messages on their way to the server
    drops     \* connections lost to the network so far

clientVars == <<config, closed, ws, conn, symKey, srvPub, binding, sock,
                promise, handler, timers, up, drops>>
vars == <<serverVars, clientVars>>

\* workerd does not call onOpen: the first message opens a control socket.
OpenOnMessage == config.host = "workerd"

TypeOK ==
    /\ ServerTypeOK
    /\ config \in Configs
    /\ closed \in BOOLEAN
    /\ ws \in Sockets \cup {None}
    /\ conn \in Sockets \cup {None}
    /\ symKey \in Sockets \cup {None}
    /\ srvPub \in KeyPairs \cup {None}
    /\ binding \in KeyPairs \cup {None}
    /\ sock \in [Sockets -> {"unused", "connecting", "failed", "open", "closing", "closed"}]
    /\ promise \in [Sockets -> {"none", "pending", "resolved", "rejected"}]
    /\ handler \in [Sockets -> {"none", "verify", "checks", "bound", "unbound", "sent", "failed"}]
    /\ timers \in Nat
    /\ up \in [Sockets -> Seq(Sealed \cup {Hello})]
    /\ drops \in 0..MaxDrops

Init ==
    /\ ServerInit
    /\ config \in Configs
    /\ closed = FALSE
    /\ ws = None /\ conn = None /\ symKey = None /\ srvPub = None /\ binding = None
    /\ sock = [s \in Sockets |-> "unused"]
    /\ promise = [s \in Sockets |-> "none"]
    /\ handler = [s \in Sockets |-> "none"]
    /\ timers = 0
    /\ up = [s \in Sockets |-> <<>>]
    /\ drops = 0

\* The readyState of a socket that is being closed by an error or by close().
Leaving(s) == IF sock[s] = "connecting" THEN "failed" ELSE "closing"

\* The network loses a connection.
Drop == drops < MaxDrops /\ drops' = drops + 1

WsOpen == ws # None /\ sock[ws] = "open"

Settle(s, how) ==
    promise' = IF promise[s] = "pending" THEN [promise EXCEPT ![s] = how] ELSE promise

-----------------------------------------------------------------------------
(***************************************************************************)
(* ensureConnection, called by fetch, by a tunneled WebSocket or by a      *)
(* reconnect timer.                                                        *)
(***************************************************************************)

\* A socket object that has not been made yet. Their names mean nothing, so any
\* order of making them stands for all.
NewSocket == CHOOSE s \in Sockets : sock[s] = "unused"

\* Mutant: no test of this.closed.
Dial_AfterClose(s) ==
    /\ ~WsOpen
    /\ conn = None
    /\ sock[s] = "unused" /\ s = NewSocket
    /\ sock' = [sock EXCEPT ![s] = "connecting"]
    /\ promise' = [promise EXCEPT ![s] = "pending"]
    /\ ws' = s
    /\ conn' = s

\* Nothing to share: a new socket, and a new promise, replace the old ones.
Dial(s) ==
    /\ ~closed
    /\ ~WsOpen
    /\ conn = None
    /\ sock[s] = "unused" /\ s = NewSocket
    /\ sock' = [sock EXCEPT ![s] = "connecting"]
    /\ promise' = [promise EXCEPT ![s] = "pending"]
    /\ ws' = s
    /\ conn' = s

EnsureConnection ==
    /\ \E s \in Sockets : Dial(s)
    /\ UNCHANGED <<serverVars, config, closed, symKey, srvPub, binding, handler, timers, up, drops>>

\* A reconnect timer fires. When ensureConnection has nothing to dial (closed,
\* open, or a promise to share) it returns without an effect.
TimerFires ==
    /\ timers > 0
    /\ timers' = timers - 1
    /\ IF closed \/ WsOpen \/ conn # None
       THEN UNCHANGED <<sock, promise, ws, conn>>
       ELSE \E s \in Sockets : Dial(s)
    /\ UNCHANGED <<serverVars, config, closed, symKey, srvPub, binding, handler, up, drops>>

-----------------------------------------------------------------------------
(***************************************************************************)
(* Socket events.                                                          *)
(***************************************************************************)

\* Mutant: the hello is left out, as a server that has onOpen ignores it.
Opened_NoHello(s) ==
    /\ sock[s] = "connecting"
    /\ OpenOnMessage \/ ctl[s] # "idle"
    /\ sock' = [sock EXCEPT ![s] = "open"]
    /\ UNCHANGED <<serverVars, config, closed, ws, conn, symKey, srvPub, binding,
                   promise, handler, timers, up, drops>>

\* onopen: the hello goes to this.ws, which need not be the socket that opened;
\* sending on a socket that is not open throws. A server that has opened the
\* socket already drops the hello, so it is put on the wire only OpenOnMessage.
Opened(s) ==
    /\ sock[s] = "connecting"
    /\ OpenOnMessage \/ ctl[s] # "idle"
    /\ sock' = [sock EXCEPT ![s] = "open"]
    /\ up' = IF OpenOnMessage /\ ws # None /\ sock'[ws] = "open"
             THEN [up EXCEPT ![ws] = Append(@, Hello)] ELSE up
    /\ UNCHANGED <<serverVars, config, closed, ws, conn, symKey, srvPub, binding,
                   promise, handler, timers, drops>>

\* onerror: the shared promise is forgotten, a reconnect is scheduled unless
\* this.ws is open, and the socket's promise is rejected -- except after
\* close(), where the handler returns early.
Failed(s) ==
    /\ sock[s] \in {"connecting", "open"}
    /\ sock' = [sock EXCEPT ![s] = Leaving(s)]
    /\ conn' = None
    /\ LET wsOpen == ws # None /\ sock'[ws] = "open" IN
       \/ ~wsOpen /\ closed /\ UNCHANGED <<promise, timers>>
       \/ ~wsOpen /\ ~closed /\ timers' = timers + 1 /\ Settle(s, "rejected")
       \/ wsOpen /\ UNCHANGED timers /\ Settle(s, "rejected")
    /\ Drop
    /\ UNCHANGED <<serverVars, config, closed, ws, symKey, srvPub, binding, handler, up>>

\* Mutant: onclose relies on somebody else to reconnect.
Closed_NoTimer(s) ==
    /\ sock[s] \in {"failed", "open", "closing"}
    /\ sock' = [sock EXCEPT ![s] = "closed"]
    /\ conn' = None
    /\ symKey' = None
    /\ IF sock[s] = "open" /\ ctl[s] = "open" THEN Drop ELSE UNCHANGED drops
    /\ UNCHANGED <<serverVars, config, closed, ws, srvPub, binding, promise, handler, timers, up>>

\* onclose: the shared promise and the key are forgotten and a reconnect is
\* scheduled. The promise of the socket is not rejected. (A socket that never
\* opened fails first.)
Closed(s) ==
    /\ sock[s] \in {"failed", "open", "closing"}
    /\ sock' = [sock EXCEPT ![s] = "closed"]
    /\ conn' = None
    /\ symKey' = None
    /\ timers' = timers + 1
    /\ IF sock[s] = "open" /\ ctl[s] = "open" THEN Drop ELSE UNCHANGED drops
    /\ UNCHANGED <<serverVars, config, closed, ws, srvPub, binding, promise, handler, up>>

\* close(): only the current socket is closed.
Close ==
    /\ ~closed
    /\ closed' = TRUE
    /\ sock' = IF ws # None /\ sock[ws] \in {"connecting", "open"}
               THEN [sock EXCEPT ![ws] = Leaving(ws)] ELSE sock
    /\ ws' = None /\ conn' = None /\ symKey' = None
    /\ UNCHANGED <<serverVars, config, srvPub, binding, promise, handler, timers, up, drops>>

-----------------------------------------------------------------------------
(***************************************************************************)
(* The onmessage handler of server_kx.                                     *)
(***************************************************************************)

\* Mutant: the catch block forgets the promise, which its socket's end will not settle.
HandlerThrows_LeavesPromise(s) ==
    /\ handler' = [handler EXCEPT ![s] = "failed"]
    /\ conn' = None
    /\ UNCHANGED promise

\* The error path of the handler, from any of its checks.
HandlerThrows(s) ==
    /\ handler' = [handler EXCEPT ![s] = "failed"]
    /\ conn' = None
    /\ Settle(s, "rejected")

\* server_kx is delivered: the binding data is stored and the quote goes into
\* verification, unless it is empty or a certificate is missing.
ServerKxArrives(s) ==
    /\ announced[s] # None
    /\ handler[s] = "none"
    /\ sock[s] \in {"open", "closing"}
    /\ \/ /\ binding' = announced[s].quote
          /\ handler' = [handler EXCEPT ![s] = "verify"]
          /\ UNCHANGED <<conn, promise>>
       \/ /\ binding' \in {binding, announced[s].quote}
          /\ HandlerThrows(s)
    /\ UNCHANGED <<serverVars, config, closed, ws, symKey, srvPub, sock, timers, up, drops>>

\* Mutant: the binding check compares the nonce but not the key.
BindingResult_NoKey(s, key, data) ==
    IF config.tee = "sgx" \/ data = announced[s].quote THEN "bound" ELSE "unbound"

\* isX25519Bound, isSevSnpX25519Bound, isSgxX25519Bound: report_data of this
\* handler's quote against the client's current binding data and server key.
\* The nonce is part of report_data except for SGX.
BindingResult(s, key, data) ==
    IF /\ announced[s].quote = key
       /\ config.tee = "sgx" \/ data = announced[s].quote
    THEN "bound" ELSE "unbound"

\* Verification passes: the symmetric key is generated, sealed and stored, and
\* the handler goes on to its next await. Without a validation strategy it
\* throws, with the key already stored.
QuoteVerified(s) ==
    /\ handler[s] = "verify"
    /\ srvPub' = announced[s].pub
    /\ symKey' = s
    /\ \/ /\ config.tee = "sevsnp"
          /\ handler' = [handler EXCEPT ![s] = BindingResult(s, srvPub', binding)]
          /\ UNCHANGED <<conn, promise>>
       \/ /\ config.tee # "sevsnp" /\ config.strategy
          /\ handler' = [handler EXCEPT ![s] = "checks"]
          /\ UNCHANGED <<conn, promise>>
       \/ /\ config.tee # "sevsnp" /\ ~config.strategy
          /\ HandlerThrows(s)
    /\ UNCHANGED <<serverVars, config, closed, ws, binding, sock, timers, up, drops>>

\* The custom and measurement checks pass; the binding check starts.
ChecksPass(s) ==
    /\ handler[s] = "checks"
    /\ handler' = [handler EXCEPT ![s] = BindingResult(s, srvPub, binding)]
    /\ UNCHANGED <<serverVars, config, closed, ws, conn, symKey, srvPub, binding,
                   sock, promise, timers, up, drops>>

\* Verification, a check or the binding fails.
ValidationFails(s) ==
    /\ handler[s] \in {"verify", "checks", "unbound"}
    /\ HandlerThrows(s)
    /\ UNCHANGED <<serverVars, config, closed, ws, symKey, srvPub, binding, sock, timers, up, drops>>

\* Mutant: send() is not reached, and the error is only logged.
SendClientKx_Swallows(s) ==
    /\ handler[s] = "bound"
    /\ handler' = [handler EXCEPT ![s] = "failed"]
    /\ UNCHANGED <<serverVars, config, closed, ws, conn, promise, symKey, srvPub, binding, sock, timers, up, drops>>

\* Everything passed: client_kx is sent on this.ws and the promise settles.
SendClientKx(s) ==
    /\ handler[s] = "bound"
    /\ \/ /\ WsOpen
          /\ up' = [up EXCEPT ![ws] = Append(@, [key |-> s, to |-> announced[s].pub])]
          /\ handler' = [handler EXCEPT ![s] = "sent"]
          /\ conn' = None
          /\ Settle(s, "resolved")
       \/ /\ ~WsOpen
          /\ HandlerThrows(s)
          /\ UNCHANGED up
    /\ UNCHANGED <<serverVars, config, closed, ws, symKey, srvPub, binding, sock, timers, drops>>

-----------------------------------------------------------------------------
(***************************************************************************)
(* The server's end.                                                       *)
(***************************************************************************)

\* The upgrade is accepted and onOpen / "connection" runs.
ServerOpens(s) ==
    /\ ~OpenOnMessage
    /\ sock[s] = "connecting"
    /\ OpenControl(s)
    /\ UNCHANGED clientVars

\* Without onOpen, the first message opens the socket and is then handled, by
\* which time #getQuote may have replaced the key pair.
FirstMessage(s) ==
    /\ OpenOnMessage
    /\ up[s] # <<>>
    /\ ctl[s] = "idle"
    /\ ctl' = [ctl EXCEPT ![s] = "open"]
    /\ SendServerKx(s)
    /\ symKeyOf' = IF Head(up[s]).to = pub'
                   THEN [symKeyOf EXCEPT ![s] = Head(up[s]).key] ELSE symKeyOf
    /\ up' = [up EXCEPT ![s] = Tail(@)]
    /\ UNCHANGED <<proc, quote, keyReady, config, closed, ws, conn, symKey, srvPub,
                   binding, sock, promise, handler, timers, drops>>

\* #handleControlMessage: hello is dropped, client_kx is opened.
ServerReceives(s) ==
    /\ up[s] # <<>>
    /\ \/ /\ Head(up[s]) = Hello
          /\ ctl[s] \in {"open", "closing"}
          /\ UNCHANGED serverVars
       \/ /\ Head(up[s]) # Hello
          /\ ClientKx(s, Head(up[s]))
    /\ up' = [up EXCEPT ![s] = Tail(@)]
    /\ UNCHANGED <<config, closed, ws, conn, symKey, srvPub, binding, sock, promise, handler, timers, drops>>

\* The server's close event, because the client left or the network failed.
ServerLoses(s) ==
    /\ ControlClosed(s)
    /\ IF sock[s] \in {"connecting", "open"} /\ ctl[s] = "open" THEN Drop ELSE UNCHANGED drops
    /\ UNCHANGED <<config, closed, ws, conn, symKey, srvPub, binding, sock, promise,
                   handler, timers, up>>

ServerWorks(s) == (Announce(s) \/ AbandonControl(s)) /\ UNCHANGED clientVars

QuoteSettles(c) == (QuoteArrives(c) \/ QuoteFails(c)) /\ UNCHANGED clientVars

ServerRestarts == Restart /\ UNCHANGED clientVars

-----------------------------------------------------------------------------
HandlerStep(s) ==
    \/ QuoteVerified(s)
    \/ ChecksPass(s)
    \/ ValidationFails(s)
    \/ SendClientKx(s)

Next ==
    \/ EnsureConnection
    \/ TimerFires
    \/ Close
    \/ \E s \in Sockets :
          \/ Opened(s) \/ Failed(s) \/ Closed(s)
          \/ ServerKxArrives(s) \/ HandlerStep(s)
          \/ ServerOpens(s) \/ FirstMessage(s) \/ ServerReceives(s)
          \/ ServerLoses(s) \/ ServerWorks(s)
    \/ \E c \in Callers : QuoteSettles(c)
    \/ ServerRestarts

Spec == Init /\ [][Next]_vars

\* What happens without the application's help: sockets connect or fail, both
\* ends learn of a close, messages on a live socket arrive, awaited promises
\* settle, and timers fire. Nothing is assumed of the application (it need not
\* call fetch or close) nor of failures.
SystemStep ==
    \/ TimerFires
    \/ \E s \in Sockets :
          \/ Opened(s)
          \/ sock[s] = "connecting" /\ Failed(s)
          \/ (sock[s] \in {"failed", "closing"} \/ ctl[s] \in {"closing", "closed"}) /\ Closed(s)
          \/ (sock[s] \in {"failed", "closing", "closed"} \/ ctl[s] = "closing") /\ ServerLoses(s)
          \/ ServerOpens(s) \/ FirstMessage(s) \/ ServerReceives(s) \/ ServerWorks(s)
          \/ ServerKxArrives(s) \/ HandlerStep(s)
    \/ \E c \in Callers : QuoteSettles(c)

\* Every step consumes something finite (a socket's life, a message, a timer,
\* a quote), so weak fairness of the whole gives each part its turn.
Fairness == WF_vars(SystemStep)

FairSpec == Spec /\ Fairness

-----------------------------------------------------------------------------
(***************************************************************************)
(* Properties.                                                             *)
(***************************************************************************)

\* A symmetric key the server holds was sent by a client handler that finished
\* its validation, and the quote that handler verified is bound to the very key
\* the symmetric key was sealed to -- although the binding check reads the
\* client's shared fields, which the handler of another socket may have
\* replaced, and although announcements with an unbound quote do occur.
ChannelKeyIsAttested ==
    \A s \in Sockets :
        LET k == symKeyOf[s] IN
        k # None =>
            /\ handler[k] = "sent"
            /\ announced[k].quote = announced[k].pub
            /\ announced[k].pub = pub

\* The same for keys still on the wire: what is sealed and sent is sealed to an
\* attested key.
SentKeyIsAttested ==
    \A s \in Sockets : \A i \in DOMAIN up[s] :
        LET m == up[s][i] IN
        m # Hello =>
            /\ handler[m.key] = "sent"
            /\ m.to = announced[m.key].pub
            /\ m.to = announced[m.key].quote

\* The strengthening under which the two are inductive: a handler runs for an
\* announcement, the client's copy of the server key is one that some socket was
\* announced, and a handler that passed the binding check has a bound quote.
HandlersAndBinding ==
    /\ \A s \in Sockets : handler[s] # "none" => announced[s] # None
    /\ srvPub # None =>
          \E t \in Sockets : announced[t] # None /\ announced[t].pub = srvPub
    /\ \A s \in Sockets :
          handler[s] \in {"bound", "sent"} => announced[s].quote = announced[s].pub

HandshakeInv ==
    /\ TypeOK
    /\ ServerInv
    /\ HandlersAndBinding
    /\ SentKeyIsAttested
    /\ ChannelKeyIsAttested

\* On a host that opens a socket on its first message, that message is the hello:
\* a client_kx, which any handler sends on this.ws whichever socket it belongs to,
\* never comes to a socket the server has not opened. The hello goes out when this.ws
\* opens, and nothing before.
HelloIsFirst ==
    OpenOnMessage =>
        \A s \in Sockets : ctl[s] = "idle" =>
            /\ ws = s /\ sock[s] = "open" => up[s] # <<>>
            /\ up[s] # <<>> => Head(up[s]) = Hello

TunnelInv == HandshakeInv /\ HelloIsFirst

\* "disable reconnection" (comment of close()): no socket is dialled after
\* close(), whatever timers, events and handlers were still pending.
NoDialAfterClose ==
    [][closed => \A s \in Sockets : sock[s] = "unused" => sock'[s] = "unused"]_vars

\* "Close the control channel" (comment of close()): after close() no control
\* socket of this client is open or connecting.
CloseClosesControlChannel ==
    closed => \A s \in Sockets : sock[s] \notin {"connecting", "open"}

\* "a new handshake will set it on reconnect" (comment in onclose): once the
\* handshake of the current socket has resolved, both ends hold the same key.
SessionKeysAgree ==
    \A s \in Sockets :
        ws = s /\ promise[s] = "resolved" /\ symKeyOf[s] # None /\ symKey # None
            => symKeyOf[s] = symKey

\* ensureConnection "waits for a connection" (its comment): unless the client is
\* closed, the promise it returned settles.
ConnectionPromiseSettles ==
    \A s \in Sockets : promise[s] = "pending" ~> (promise[s] # "pending" \/ closed)

\* A socket that was replaced before it opened: its hello would have gone to this.ws,
\* and a host that opens a socket on its first message never hears of it.
NeverIntroduced(s) ==
    /\ OpenOnMessage
    /\ sock[s] = "open" /\ ws # s
    /\ ctl[s] = "idle" /\ up[s] = <<>>

\* The promise of a socket that stays up settles: no order of quote arrivals,
\* rejected quotes, failed checks or late sends leaves ensureConnection hanging
\* on a live socket -- unless it was replaced while it was connecting, on a host
\* without onOpen.
LiveHandshakeSettles ==
    \A s \in Sockets :
        promise[s] = "pending" ~>
            (\/ promise[s] # "pending" \/ sock[s] \in {"failed", "closing", "closed"}
             \/ NeverIntroduced(s))

\* The same of any number of sockets, as a state: while the promise of an open socket
\* is pending, somebody has something left to do for it. Its hello is under way, the
\* server is still after a quote, server_kx is under way or being handled, or the
\* server's end is gone, and the client will learn of that.
PendingIsOwed ==
    \A s \in Sockets : promise[s] = "pending" /\ sock[s] = "open" =>
        \/ ctl[s] = "idle" /\ up[s] # <<>>
        \/ ctl[s] = "open" /\ getQuote[s] \in {"waiting", "resolved", "rejected"}
        \/ announced[s] # None /\ handler[s] \notin {"sent", "failed"}
        \/ ctl[s] \in {"closing", "closed"}
        \/ NeverIntroduced(s)

Disconnected ==
    /\ ~closed
    /\ ws # None
    /\ \A s \in Sockets : sock[s] \in {"unused", "closed"}
    /\ \E s \in Sockets : sock[s] = "unused"

\* A client that lost its last socket dials again by itself, unless it is
\* closed: a reconnect timer is pending whenever nobody else can act.
ReconnectsByItself == Disconnected ~> ~Disconnected
=============================================================================
