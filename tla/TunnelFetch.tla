---------------------------- MODULE TunnelFetch ----------------------------
(***************************************************************************)
(* Encrypted HTTP over the control channel: TunnelClient.fetch and         *)
(* #handleTunnelResponse (client.ts), #handleControlMessage and the HTTP   *)
(* handlers behind it (server.ts).                                         *)
(*                                                                         *)
(* The handshake is TunnelHandshake's, reduced to what a request can see:  *)
(* the connection promise it may wait for, the moment the symmetric key is *)
(* stored, the later moment client_kx is sent, and the loss of a           *)
(* connection.  As there, the handlers of a replaced connection still act  *)
(* on the shared fields.  Keys are named after the connection whose        *)
(* handshake made them.                                                    *)
(***************************************************************************)
EXTENDS Naturals, Sequences

CONSTANTS
    Requests,   \* calls of fetch
    Conns,      \* bound: control sockets over the life of the client
    None        \* null / undefined

ASSUME NoneIsNoConn == None \notin Conns

VARIABLES
    call,     \* per call of fetch, how far it has come
    wait,     \* per call, the connection promise it awaits
    pending,  \* this.pendingRequests
    timers,   \* 30 second timers that have not fired
    sentOn,   \* history: the connection a request was sent on
    closed,   \* this.closed
    ws,       \* this.ws
    conn,     \* this.connectionPromise
    key,      \* this.symmetricKey
    link,     \* per connection, its readyState at the client
    promise,  \* per connection, the promise ensureConnection made with it
    shake,    \* per connection, the handler of its server_kx
    srvKey,   \* symmetricKeyBySocket
    up, down, \* per connection, messages under way
    gone,     \* connections whose close event the server has had
    job,      \* per request, the application's handler: the connection it answers on
    ran       \* history: how often the application was given a request

callVars == <<call, wait, pending, timers, sentOn>>
connVars == <<closed, ws, conn, key, link, promise, shake>>
netVars  == <<srvKey, up, down, gone, job, ran>>
vars == <<callVars, connVars, netVars>>

ClientKx(c) == [type |-> "client_kx", key |-> c]
Request(r)  == [type |-> "http_request", id |-> r, key |-> key]
Response(r, k, kind) == [id |-> r, key |-> k, kind |-> kind]

UpMessages == [type : {"client_kx"}, key : Conns]
                \cup [type : {"http_request"}, id : Requests, key : Conns]

\* An error or a response; "unbuildable" is a response that new Response or new
\* Headers refuses, such as status 304 or 205 with a body: the server sends one,
\* empty but not null, with every response.
Kinds == {"response", "error", "unbuildable"}
DownMessages == [id : Requests, key : Conns, kind : Kinds]
Jobs == [state : {"running", "answered", "finished"}, on : Conns]

\* "stranded": the promise is open, and nothing is left that could settle it.
Calls == {"idle", "waiting", "body", "pending", "resolved", "rejected", "stranded"}

TypeOK ==
    /\ call \in [Requests -> Calls]
    /\ wait \in [Requests -> Conns \cup {None}]
    /\ pending \subseteq Requests
    /\ timers \subseteq Requests
    /\ sentOn \in [Requests -> Conns \cup {None}]
    /\ closed \in BOOLEAN
    /\ ws \in Conns \cup {None}
    /\ conn \in Conns \cup {None}
    /\ key \in Conns \cup {None}
    /\ link \in [Conns -> {"unused", "connecting", "open", "closing", "closed"}]
    /\ promise \in [Conns -> {"pending", "resolved", "rejected"}]
    /\ shake \in [Conns -> {"none", "verify", "keyed", "over"}]
    /\ srvKey \in [Conns -> Conns \cup {None}]
    /\ up \in [Conns -> Seq(UpMessages)]
    /\ down \in [Conns -> Seq(DownMessages)]
    /\ gone \subseteq Conns
    /\ job \in [Requests -> Jobs \cup {None}]
    /\ ran \in [Requests -> Nat]

Init ==
    /\ call = [r \in Requests |-> "idle"]
    /\ wait = [r \in Requests |-> None]
    /\ pending = {} /\ timers = {}
    /\ sentOn = [r \in Requests |-> None]
    /\ closed = FALSE
    /\ ws = None /\ conn = None /\ key = None
    /\ link = [c \in Conns |-> "unused"]
    /\ promise = [c \in Conns |-> "pending"]
    /\ shake = [c \in Conns |-> "none"]
    /\ srvKey = [c \in Conns |-> None]
    /\ up = [c \in Conns |-> <<>>]
    /\ down = [c \in Conns |-> <<>>]
    /\ gone = {}
    /\ job = [r \in Requests |-> None]
    /\ ran = [r \in Requests |-> 0]

WsOpen == ws # None /\ link[ws] = "open"

\* resolve or reject of the promises of some calls; settled ones do not change.
Settle(R, how) ==
    call' = [r \in Requests |-> IF r \in R /\ call[r] = "pending" THEN how ELSE call[r]]

-----------------------------------------------------------------------------
(***************************************************************************)
(* The connection, as far as requests see it.                              *)
(***************************************************************************)
Dial(c) ==
    /\ link[c] = "unused"
    /\ link' = [link EXCEPT ![c] = "connecting"]
    /\ ws' = c
    /\ conn' = c

\* A reconnect timer calls ensureConnection.
Reconnect ==
    /\ ~closed /\ ~WsOpen /\ conn = None
    /\ \E c \in Conns : link[c] # "unused"
    /\ \E c \in Conns : Dial(c)
    /\ UNCHANGED <<callVars, closed, key, promise, shake, netVars>>

Opened(c) ==
    /\ link[c] = "connecting"
    /\ link' = [link EXCEPT ![c] = "open"]
    /\ UNCHANGED <<callVars, closed, ws, conn, key, promise, shake, netVars>>

SettleConn(c, how) ==
    promise' = IF promise[c] = "pending" THEN [promise EXCEPT ![c] = how] ELSE promise

\* server_kx arrives, and its quote goes into verification.
ServerKxArrives(c) ==
    /\ link[c] \in {"open", "closing"}
    /\ shake[c] = "none"
    /\ shake' = [shake EXCEPT ![c] = "verify"]
    /\ UNCHANGED <<callVars, closed, ws, conn, key, link, promise, netVars>>

\* Verification passed, perhaps after the connection was lost: the key is
\* stored, nothing is sent yet.
KeyStored(c) ==
    /\ shake[c] = "verify"
    /\ shake' = [shake EXCEPT ![c] = "keyed"]
    /\ key' = c
    /\ UNCHANGED <<callVars, closed, ws, conn, link, promise, netVars>>

\* The remaining checks passed: client_kx is sent on this.ws.
KxSent(c) ==
    /\ shake[c] = "keyed"
    /\ WsOpen
    /\ shake' = [shake EXCEPT ![c] = "over"]
    /\ conn' = None
    /\ up' = [up EXCEPT ![ws] = Append(@, ClientKx(c))]
    /\ SettleConn(c, "resolved")
    /\ UNCHANGED <<callVars, closed, ws, key, link, srvKey, down, gone, job, ran>>

\* Verification or a check failed, or this.ws was not open to send client_kx.
HandshakeFails(c) ==
    /\ shake[c] \in {"verify", "keyed"}
    /\ shake' = [shake EXCEPT ![c] = "over"]
    /\ conn' = None
    /\ SettleConn(c, "rejected")
    /\ UNCHANGED <<callVars, closed, ws, key, link, netVars>>

\* onerror: closing follows.
ConnError(c) ==
    /\ link[c] \in {"connecting", "open"}
    /\ link' = [link EXCEPT ![c] = "closing"]
    /\ conn' = None
    /\ IF closed THEN UNCHANGED promise ELSE SettleConn(c, "rejected")
    /\ UNCHANGED <<callVars, closed, ws, key, shake, netVars>>

\* Mutant: the pending requests are left to their timers.
ConnClosed_KeepsPending(c) ==
    /\ link[c] \in {"open", "closing"}
    /\ link' = [link EXCEPT ![c] = "closed"]
    /\ conn' = None
    /\ key' = None
    /\ UNCHANGED <<callVars, closed, ws, promise, shake, netVars>>

\* onclose: whichever connection it was, every pending request fails.
ConnClosed(c) ==
    /\ link[c] \in {"open", "closing"}
    /\ link' = [link EXCEPT ![c] = "closed"]
    /\ conn' = None
    /\ Settle(pending, "rejected")
    /\ pending' = {}
    /\ key' = None
    /\ UNCHANGED <<wait, timers, sentOn, closed, ws, promise, shake, netVars>>

\* Mutant: pendingRequests.clear() without the loop before it.
Close_ForgetsPending ==
    /\ ~closed
    /\ closed' = TRUE
    /\ pending' = {}
    /\ link' = IF ws # None /\ link[ws] \in {"connecting", "open"}
               THEN [link EXCEPT ![ws] = "closing"] ELSE link
    /\ ws' = None /\ conn' = None /\ key' = None
    /\ UNCHANGED <<call, wait, timers, sentOn, promise, shake, netVars>>

\* close().
Close ==
    /\ ~closed
    /\ closed' = TRUE
    /\ Settle(pending, "rejected")
    /\ pending' = {}
    /\ link' = IF ws # None /\ link[ws] \in {"connecting", "open"}
               THEN [link EXCEPT ![ws] = "closing"] ELSE link
    /\ ws' = None /\ conn' = None /\ key' = None
    /\ UNCHANGED <<wait, timers, sentOn, promise, shake, netVars>>

-----------------------------------------------------------------------------
(***************************************************************************)
(* fetch.                                                                  *)
(***************************************************************************)

\* fetch up to its first await: ensureConnection returns at once when the
\* client is closed or its socket is open -- with or without a key --, or
\* hands out the shared promise, or dials.
Fetch(r) ==
    /\ call[r] = "idle"
    /\ \/ /\ closed \/ WsOpen
          /\ call' = [call EXCEPT ![r] = "body"]
          /\ UNCHANGED <<wait, link, ws, conn>>
       \/ /\ ~closed /\ ~WsOpen
          /\ call' = [call EXCEPT ![r] = "waiting"]
          /\ IF conn # None THEN UNCHANGED <<link, ws, conn>> ELSE \E c \in Conns : Dial(c)
          /\ wait' = [wait EXCEPT ![r] = conn']
    /\ UNCHANGED <<pending, timers, sentOn, closed, key, promise, shake, netVars>>

\* The connection promise settles.
Connected(r) ==
    /\ call[r] = "waiting"
    /\ \/ promise[wait[r]] = "resolved" /\ call' = [call EXCEPT ![r] = "body"]
       \/ promise[wait[r]] = "rejected" /\ call' = [call EXCEPT ![r] = "rejected"]
    /\ UNCHANGED <<wait, pending, timers, sentOn, connVars, netVars>>

\* Mutant: no timeout.
SendRequest_NoTimer(r) ==
    /\ call[r] = "body"
    /\ pending' = pending \cup {r}
    /\ \/ /\ WsOpen /\ key # None
          /\ up' = [up EXCEPT ![ws] = Append(@, Request(r))]
          /\ call' = [call EXCEPT ![r] = "pending"]
          /\ sentOn' = [sentOn EXCEPT ![r] = ws]
       \/ /\ ~(WsOpen /\ key # None)
          /\ call' = [call EXCEPT ![r] = "rejected"]
          /\ UNCHANGED <<up, sentOn>>
    /\ UNCHANGED <<wait, timers, connVars, srvKey, down, gone, job, ran>>

\* Mutant: send() does not insist on a symmetric key.
SendRequest_NoKey(r) ==
    /\ call[r] = "body"
    /\ pending' = pending \cup {r}
    /\ WsOpen
    /\ up' = [up EXCEPT ![ws] = Append(@, Request(r))]
    /\ call' = [call EXCEPT ![r] = "pending"]
    /\ timers' = timers \cup {r}
    /\ sentOn' = [sentOn EXCEPT ![r] = ws]
    /\ UNCHANGED <<wait, connVars, srvKey, down, gone, job, ran>>

\* The body has been read: the request is registered and sent. When send()
\* throws the call is rejected, but stays in pendingRequests.
SendRequest(r) ==
    /\ call[r] = "body"
    /\ pending' = pending \cup {r}
    /\ \/ /\ WsOpen /\ key # None
          /\ up' = [up EXCEPT ![ws] = Append(@, Request(r))]
          /\ call' = [call EXCEPT ![r] = "pending"]
          /\ timers' = timers \cup {r}
          /\ sentOn' = [sentOn EXCEPT ![r] = ws]
       \/ /\ ~(WsOpen /\ key # None)
          /\ call' = [call EXCEPT ![r] = "rejected"]
          /\ UNCHANGED <<up, timers, sentOn>>
    /\ UNCHANGED <<wait, connVars, srvKey, down, gone, job, ran>>

\* The body cannot be sent, or reading it failed.
BadBody(r) ==
    /\ call[r] = "body"
    /\ call' = [call EXCEPT ![r] = "rejected"]
    /\ UNCHANGED <<wait, pending, timers, sentOn, connVars, netVars>>

\* The 30 second timer.
Timeout(r) ==
    /\ r \in timers
    /\ timers' = timers \ {r}
    /\ pending' = pending \ {r}
    /\ Settle(pending \cap {r}, "rejected")
    /\ UNCHANGED <<wait, sentOn, connVars, netVars>>

\* What #handleTunnelResponse does to the call it has taken out of
\* pendingRequests: when the Response cannot be built the exception ends in
\* onmessage, and the call is neither resolved nor rejected.
Effect(kind) ==
    CASE kind = "response"    -> "resolved"
      [] kind = "error"       -> "rejected"
      [] kind = "unbuildable" -> "stranded"

\* Mutant: responses are matched to requests in order, not by requestId.
ClientReceives_AnyRequest(c) ==
    /\ down[c] # <<>>
    /\ link[c] \in {"open", "closing"}
    /\ down' = [down EXCEPT ![c] = Tail(@)]
    /\ \E r \in pending :
          /\ pending' = pending \ {r}
          /\ Settle({r}, Effect(Head(down[c]).kind))
    /\ UNCHANGED <<wait, timers, sentOn, connVars, srvKey, up, gone, job, ran>>

\* onmessage on an encrypted message: without the key it was made with, it is
\* lost; a response that nobody waits for is ignored.
ClientReceives(c) ==
    /\ down[c] # <<>>
    /\ link[c] \in {"open", "closing"}
    /\ down' = [down EXCEPT ![c] = Tail(@)]
    /\ LET m == Head(down[c]) IN
       IF m.key = key /\ m.id \in pending
       THEN /\ pending' = pending \ {m.id}
            /\ Settle({m.id}, Effect(m.kind))
       ELSE UNCHANGED <<pending, call>>
    /\ UNCHANGED <<wait, timers, sentOn, connVars, srvKey, up, gone, job, ran>>

-----------------------------------------------------------------------------
(***************************************************************************)
(* The server.                                                             *)
(***************************************************************************)

\* #handleControlMessage: the first client_kx sets the socket's key; a request
\* is dropped before that, and when it was not encrypted with that key.
ServerReceives(c) ==
    /\ up[c] # <<>>
    /\ c \notin gone
    /\ up' = [up EXCEPT ![c] = Tail(@)]
    /\ LET m == Head(up[c]) IN
       \/ /\ m.type = "client_kx"
          /\ srvKey' = IF srvKey[c] = None THEN [srvKey EXCEPT ![c] = m.key] ELSE srvKey
          /\ UNCHANGED <<job, ran>>
       \/ /\ m.type = "http_request" /\ srvKey[c] = m.key
          /\ job' = [job EXCEPT ![m.id] = [state |-> "running", on |-> c]]
          /\ ran' = [ran EXCEPT ![m.id] = @ + 1]
          /\ UNCHANGED srvKey
       \/ /\ m.type = "http_request" /\ srvKey[c] # m.key
          /\ UNCHANGED <<srvKey, job, ran>>
    /\ UNCHANGED <<callVars, connVars, down, gone>>

\* sendEncrypted: throws, and is logged, when the socket has lost its key.
SendEncrypted(r, c, kind) ==
    down' = IF srvKey[c] # None
            THEN [down EXCEPT ![c] = Append(@, Response(r, srvKey[c], kind))] ELSE down

\* The application's handler ends, with a response or an error.
Answer(r, kind) ==
    /\ job[r] # None
    /\ job[r].state = "running"
    /\ job' = [job EXCEPT ![r].state = "answered"]
    /\ SendEncrypted(r, job[r].on, kind)
    /\ UNCHANGED <<callVars, connVars, srvKey, up, gone, ran>>

\* It throws after it ended the response: an error response goes out as well.
AnswerAgain(r) ==
    /\ job[r] # None
    /\ job[r].state = "answered"
    /\ job' = [job EXCEPT ![r].state = "finished"]
    /\ SendEncrypted(r, job[r].on, "error")
    /\ UNCHANGED <<callVars, connVars, srvKey, up, gone, ran>>

\* The server's close event: the key goes, and what is still under way is lost.
\* The client may learn of it later, and sends into the void until then.
ServerLoses(c) ==
    /\ link[c] # "unused"
    /\ c \notin gone
    /\ gone' = gone \cup {c}
    /\ srvKey' = [srvKey EXCEPT ![c] = None]
    /\ UNCHANGED <<callVars, connVars, up, down, job, ran>>

-----------------------------------------------------------------------------
Next ==
    \/ Reconnect
    \/ Close
    \/ \E c \in Conns :
          \/ Opened(c) \/ ServerKxArrives(c)
          \/ KeyStored(c) \/ KxSent(c) \/ HandshakeFails(c)
          \/ ConnError(c) \/ ConnClosed(c)
          \/ ClientReceives(c) \/ ServerReceives(c) \/ ServerLoses(c)
    \/ \E r \in Requests :
          \/ Fetch(r) \/ Connected(r) \/ SendRequest(r) \/ BadBody(r) \/ Timeout(r)
          \/ \E kind \in Kinds : Answer(r, kind)
          \/ AnswerAgain(r)

Spec == Init /\ [][Next]_vars

-----------------------------------------------------------------------------
(***************************************************************************)
(* Properties.                                                             *)
(***************************************************************************)
Outcome == [r \in Requests |->
                IF call[r] \in {"waiting", "body", "pending", "stranded"} THEN "active" ELSE call[r]]

Contract == INSTANCE FetchContract
                WITH outcome <- Outcome, served <- ran

\* fetch keeps its contract whatever is lost, delayed, answered twice or
\* answered after the call was given up.
ImplementsContract == Contract!ContractSpec

\* The promise a call of fetch made with its request is open.
AwaitsResponse(r) == call[r] \in {"pending", "stranded"}

\* A call whose promise is open was sent on a connection that has not seen its
\* close event: losing the connection fails the call then and there, and not 30
\* seconds later. The exception is a call whose response could not be built.
PendingOnLiveConnection ==
    \A r \in Requests :
        AwaitsResponse(r) => call[r] = "stranded" \/ link[sentOn[r]] \in {"open", "closing"}

\* The application was given the request, and has answered it.
Answered(r) == ran[r] = 1 /\ job[r].state # "running"

\* Only the application strands a call: one that is neither settled nor to be
\* settled was given to the application, which has answered it. No loss, delay or
\* order of events on the way does.
StrandedWasAnswered ==
    \A r \in Requests : call[r] = "stranded" => Answered(r)

\* close() rejects what is pending, and a fetch that was still waiting for a
\* connection or reading its body cannot slip in behind it.
ClosedLeavesNothingPending ==
    closed => \A r \in Requests : AwaitsResponse(r) => call[r] = "stranded"

\* A call that waits for a response has a timer that has not fired, so that it
\* settles though its request, its response or the close of its connection may
\* never arrive and the server drops requests that overtake client_kx.
PendingHasTimer ==
    \A r \in Requests : AwaitsResponse(r) => call[r] = "stranded" \/ r \in timers

\* What is pending can be failed by its timer and by the next close event: it is
\* registered in pendingRequests, a stranded call is not, and a closed client has
\* no socket that a request could be sent on.
PendingIsRegistered ==
    /\ \A r \in Requests : AwaitsResponse(r) =>
          /\ r \in pending <=> call[r] # "stranded"
          /\ sentOn[r] # None
    /\ closed => ws = None

\* The message at place i of what is under way on connection c is request r.
IsRequest(c, i, r) == up[c][i].type = "http_request" /\ up[c][i].id = r

\* A request is in one place at most: not sent, under way, or with the application,
\* and a response is under way only for a request the application has answered.
OneCopyOfARequest ==
    /\ \A r \in Requests :
          /\ ran[r] \in {0, 1}
          /\ job[r] # None => ran[r] = 1
          /\ call[r] \in {"idle", "waiting", "body"} => ran[r] = 0
    /\ \A r \in Requests, c \in Conns : \A i \in DOMAIN up[c] : IsRequest(c, i, r) =>
          /\ ran[r] = 0
          /\ call[r] \notin {"idle", "waiting", "body"}
          /\ \A d \in Conns : \A j \in DOMAIN up[d] : IsRequest(d, j, r) => d = c /\ j = i
    /\ \A c \in Conns : \A i \in DOMAIN down[c] : Answered(down[c][i].id)

\* Nobody waits for what cannot come, not after close() and not without a timer,
\* except the caller whose answer could not be made into a Response.
FetchInv ==
    /\ TypeOK
    /\ ClosedLeavesNothingPending
    /\ PendingHasTimer
    /\ PendingIsRegistered
    /\ PendingOnLiveConnection
    /\ StrandedWasAnswered
    /\ OneCopyOfARequest

\* src/README.md on the tunnel: "The tunnel performs a key exchange and
\* attestation check before allowing any traffic." What the code does: the key is
\* stored when the quote has been verified, before the measurements and the
\* binding of the server's public key are checked, and ensureConnection lets
\* fetch pass on any open socket.
NoTrafficBeforeHandshake ==
    \A c \in Conns : \A i \in DOMAIN up[c] :
        up[c][i].type = "http_request" => shake[up[c][i].key] = "over"
=============================================================================
