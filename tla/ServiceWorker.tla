--------------------------- MODULE ServiceWorker ---------------------------
(***************************************************************************)
(* The service worker (packages/tunnel/src/sw.ts): it intercepts the       *)
(* page's requests, sends them through a tunnel of its own, without        *)
(* attestation, and falls back to the network when that fails.             *)
(*                                                                         *)
(* It runs in a browser: handlers are atomic, a promise that is settled    *)
(* resumes its awaiters before the next event (MicrotasksDone), messages   *)
(* are delivered while the socket is OPEN only, send() throws on a         *)
(* CONNECTING socket and drops silently on a CLOSING or CLOSED one.  ws,   *)
(* symmetricKey and connectionPromise are global and every socket's        *)
(* handlers work on them, those of a replaced socket too.                  *)
(*                                                                         *)
(* A key is named after the connection whose server_kx made it; the server *)
(* announces one public key to all connections (ServerKeys), so a key may  *)
(* be sealed for one and sent on another.                                  *)
(***************************************************************************)
EXTENDS Naturals, Sequences

CONSTANTS
    Requests,     \* fetch events that are intercepted
    Posts,        \* those whose method is not GET or HEAD and that have a body
    MaxConns,     \* bound: sockets over the life of the page
    MaxKills,     \* bound: how often the browser ends the worker
    None          \* null / undefined

Conns == 1..MaxConns   \* in the order they are dialled

ASSUME ConnsAssumption == MaxConns \in Nat \ {0} /\ None \notin Conns
ASSUME PostsAssumption == Posts \subseteq Requests
ASSUME KillsAssumption == MaxKills \in Nat

VARIABLES
    req,      \* per request, how far its handler has come
    wait,     \* per request, the connection promise it awaits
    used,     \* requests whose body has been read
    pending,  \* pendingRequests
    timers,   \* 30 second timers that have not fired
    ws,       \* ws
    conn,     \* connectionPromise, named after its connection
    key,      \* symmetricKey
    link,     \* per connection, its readyState
    promise,  \* per connection, the promise that ensureConnection made with it
    kills,    \* how often the worker was ended
    up, down, \* per connection, messages under way
    host,     \* the server's runtime: workerd does not call onOpen
    srvKey,   \* symmetricKeyBySocket at the server
    gone,     \* connections the server has closed or lost
    ran,      \* history: how often the application got a request from the tunnel
    netRan    \* history: how often a request was put on the network

workerVars == <<req, wait, used, pending, timers, ws, conn, key, link, promise, kills>>
serverVars == <<host, srvKey, gone, ran>>
vars == <<workerVars, up, down, serverVars, netRan>>

\* Continuations that run before the next event: a request whose connection is
\* there, and one whose tunnelFetch has failed.
Resuming == {"ready", "failed"}

ServerKx == [type |-> "server_kx"]
ClientKx(c) == [type |-> "client_kx", key |-> c]
HttpRequest(r) == [type |-> "http_request", id |-> r, key |-> key]
HttpResponse(r, k, kind) == [type |-> "http_response", id |-> r, key |-> k, kind |-> kind]

\* An error or a response; "unbuildable" is one that new Response or new Headers
\* refuses, such as status 304 with a body, which every response has.
Kinds == {"response", "error", "unbuildable"}

UpMessages == [type : {"client_kx"}, key : Conns]
                 \cup [type : {"http_request"}, id : Requests, key : Conns]
DownMessages == {ServerKx} \cup [type : {"http_response"}, id : Requests, key : Conns, kind : Kinds]

TypeOK ==
    /\ host \in {"node", "workerd"}
    /\ req \in [Requests -> {"idle", "waiting", "ready", "body", "pending", "answered",
                             "stranded", "failed", "network", "fallback", "error"}]
    /\ wait \in [Requests -> Conns \cup {None}]
    /\ used \subseteq Posts
    /\ pending \subseteq Requests /\ timers \subseteq Requests
    /\ {ws, conn, key} \subseteq Conns \cup {None}
    /\ link \in [Conns -> {"unused", "connecting", "open", "closing", "closed"}]
    /\ promise \in [Conns -> {"pending", "resolved", "rejected"}]
    /\ kills \in 0..MaxKills
    /\ up \in [Conns -> Seq(UpMessages)]
    /\ down \in [Conns -> Seq(DownMessages)]
    /\ srvKey \in [Conns -> Conns \cup {None}]
    /\ gone \subseteq Conns
    /\ ran \in [Requests -> Nat]
    /\ netRan \in [Requests -> Nat]

\* The worker has just started, or an earlier request has been served and left
\* it with a connection; behind a host that never announces a key none has.
Init ==
    /\ req = [r \in Requests |-> "idle"]
    /\ wait = [r \in Requests |-> None]
    /\ used = {} /\ pending = {} /\ timers = {}
    /\ conn = None
    /\ host \in {"node", "workerd"}
    /\ \E first \in IF host = "node" THEN {None, 1} ELSE {None} :
          /\ ws = first /\ key = first
          /\ link = [c \in Conns |-> IF c = first THEN "open" ELSE "unused"]
          /\ promise = [c \in Conns |-> IF c = first THEN "resolved" ELSE "pending"]
          /\ srvKey = [c \in Conns |-> IF c = first THEN first ELSE None]
    /\ kills = 0
    /\ up = [c \in Conns |-> <<>>]
    /\ down = [c \in Conns |-> <<>>]
    /\ gone = {}
    /\ ran = [r \in Requests |-> 0]
    /\ netRan = [r \in Requests |-> 0]

MicrotasksDone == \A r \in Requests : req[r] \notin Resuming

-----------------------------------------------------------------------------
(***************************************************************************)
(* ensureConnection and the handlers of its sockets.                       *)
(***************************************************************************)
WsIs(state) == ws # None /\ link[ws] = state

\* The promise of connection c settles, and what awaits it resumes.
SettleConn(c, how, then) ==
    /\ promise' = IF promise[c] = "pending" THEN [promise EXCEPT ![c] = how] ELSE promise
    /\ req' = [r \in Requests |->
                  IF req[r] = "waiting" /\ wait[r] = c /\ promise[c] = "pending"
                  THEN then ELSE req[r]]

\* The fetch event: ensureConnection passes a connection that is open and has
\* a key, hands out the promise there is, or dials.
FetchEvent(r) ==
    /\ MicrotasksDone
    /\ req[r] = "idle"
    /\ IF WsIs("open") /\ key # None
       THEN /\ req' = [req EXCEPT ![r] = "ready"]
            /\ UNCHANGED <<wait, ws, conn, link>>
       ELSE /\ req' = [req EXCEPT ![r] = "waiting"]
            /\ IF conn # None
               THEN UNCHANGED <<ws, conn, link>>
               ELSE \E c \in Conns :
                       /\ link[c] = "unused"
                       /\ \A d \in Conns : d < c => link[d] # "unused"
                       /\ link' = [link EXCEPT ![c] = "connecting"]
                       /\ ws' = c /\ conn' = c
            /\ wait' = [wait EXCEPT ![r] = conn']
    /\ UNCHANGED <<used, pending, timers, key, promise, kills, up, down, serverVars, netRan>>

\* The browser's end of the socket: it opens, or a close frame comes in.
Opened(c) ==
    /\ MicrotasksDone
    /\ link[c] = "connecting" /\ c \notin gone
    /\ link' = [link EXCEPT ![c] = "open"]
    /\ UNCHANGED <<req, wait, used, pending, timers, ws, conn, key, promise, kills,
                   up, down, serverVars, netRan>>

CloseFrame(c) ==
    /\ MicrotasksDone
    /\ link[c] = "open" /\ c \in gone
    /\ link' = [link EXCEPT ![c] = "closing"]
    /\ down' = [down EXCEPT ![c] = <<>>]
    /\ UNCHANGED <<req, wait, used, pending, timers, ws, conn, key, promise, kills,
                   up, serverVars, netRan>>

\* Mutant: a socket whose promise is no longer the shared one is ignored.
ServerKxArrives_OwnPromiseOnly(c) ==
    /\ MicrotasksDone
    /\ link[c] = "open" /\ down[c] # <<>>
    /\ Head(down[c]).type = "server_kx"
    /\ down' = [down EXCEPT ![c] = Tail(@)]
    /\ IF conn = c
       THEN /\ key' = c /\ conn' = None
            /\ up' = [up EXCEPT ![ws] = Append(@, ClientKx(c))]
            /\ SettleConn(c, "resolved", "ready")
       ELSE UNCHANGED <<key, conn, up, promise, req>>
    /\ UNCHANGED <<wait, used, pending, timers, ws, link, kills, serverVars, netRan>>

\* onmessage on server_kx: the key is stored, client_kx goes out on ws, which
\* need not be the socket the message came on, and the promise resolves; when
\* send() throws it is rejected, and the key stays.
ServerKxArrives(c) ==
    /\ MicrotasksDone
    /\ link[c] = "open" /\ down[c] # <<>>
    /\ Head(down[c]).type = "server_kx"
    /\ down' = [down EXCEPT ![c] = Tail(@)]
    /\ key' = c
    /\ conn' = None
    /\ up' = IF WsIs("open") THEN [up EXCEPT ![ws] = Append(@, ClientKx(c))] ELSE up
    /\ IF WsIs("connecting")
       THEN SettleConn(c, "rejected", "failed")
       ELSE SettleConn(c, "resolved", "ready")
    /\ UNCHANGED <<wait, used, pending, timers, ws, link, kills, serverVars, netRan>>

\* What onmessage does to the request it has taken out of pendingRequests: when
\* the Response cannot be built the exception is caught and logged, and nothing
\* is left that could settle the request.
Effect(kind) ==
    CASE kind = "response"    -> "answered"
      [] kind = "error"       -> "failed"
      [] kind = "unbuildable" -> "stranded"

\* Mutant: responses are matched to requests in order, not by requestId.
ResponseArrives_AnyRequest(c) ==
    /\ MicrotasksDone
    /\ link[c] = "open" /\ down[c] # <<>>
    /\ down' = [down EXCEPT ![c] = Tail(@)]
    /\ \E r \in pending :
          /\ pending' = pending \ {r}
          /\ req' = [req EXCEPT ![r] = "answered"]
    /\ UNCHANGED <<wait, used, timers, ws, conn, key, link, promise, kills, up, serverVars, netRan>>

\* onmessage on an encrypted response: without the key it was made with it is
\* dropped, and so is one that nobody waits for.
ResponseArrives(c) ==
    /\ MicrotasksDone
    /\ link[c] = "open" /\ down[c] # <<>>
    /\ down' = [down EXCEPT ![c] = Tail(@)]
    /\ LET m == Head(down[c]) IN
       /\ m.type = "http_response"
       /\ IF m.key = key /\ m.id \in pending
          THEN /\ pending' = pending \ {m.id}
               /\ req' = [req EXCEPT ![m.id] = Effect(m.kind)]
          ELSE UNCHANGED <<pending, req>>
    /\ UNCHANGED <<wait, used, timers, ws, conn, key, link, promise, kills, up, serverVars, netRan>>

\* onerror, if the connection failed, and onclose, in one task: whichever
\* socket it was, key and promise are dropped and everything pending is
\* rejected. Only onerror rejects the socket's own promise.
Closed(c) ==
    /\ MicrotasksDone
    /\ link[c] \in {"connecting", "open", "closing"}
    /\ link' = [link EXCEPT ![c] = "closed"]
    /\ conn' = None /\ key' = None /\ pending' = {}
    /\ \E error \in IF link[c] = "connecting" THEN {TRUE} ELSE BOOLEAN :
          LET over == {r \in Requests : error /\ req[r] = "waiting" /\ wait[r] = c}
          IN /\ req' = [r \in Requests |-> IF r \in pending \cup over THEN "failed" ELSE req[r]]
             /\ promise' = IF error /\ promise[c] = "pending"
                           THEN [promise EXCEPT ![c] = "rejected"] ELSE promise
    /\ down' = [down EXCEPT ![c] = <<>>]
    /\ UNCHANGED <<wait, used, timers, ws, kills, up, serverVars, netRan>>

-----------------------------------------------------------------------------
(***************************************************************************)
(* tunnelFetch after ensureConnection, and the fallback.                   *)
(***************************************************************************)

\* Mutant: no timer.
Send_NoTimer(r) ==
    /\ IF key = None \/ WsIs("connecting")
       THEN /\ req' = [req EXCEPT ![r] = "failed"]
            /\ UNCHANGED <<pending, timers, up>>
       ELSE /\ req' = [req EXCEPT ![r] = "pending"]
            /\ pending' = pending \cup {r}
            /\ up' = IF WsIs("open") THEN [up EXCEPT ![ws] = Append(@, HttpRequest(r))] ELSE up
            /\ UNCHANGED timers

\* The request is registered, encrypted and sent. Without a key, or on a
\* socket that is still connecting, that throws, and it is taken out again.
Send(r) ==
    /\ IF key = None \/ WsIs("connecting")
       THEN /\ req' = [req EXCEPT ![r] = "failed"]
            /\ UNCHANGED <<pending, timers, up>>
       ELSE /\ req' = [req EXCEPT ![r] = "pending"]
            /\ pending' = pending \cup {r}
            /\ timers' = timers \cup {r}
            /\ up' = IF WsIs("open") THEN [up EXCEPT ![ws] = Append(@, HttpRequest(r))] ELSE up

\* The connection is there: a GET goes out at once, a body has to be read.
Resume(r) ==
    /\ req[r] = "ready"
    /\ IF r \in Posts
       THEN /\ req' = [req EXCEPT ![r] = "body"]
            /\ used' = used \cup {r}
            /\ UNCHANGED <<pending, timers, up>>
       ELSE Send(r) /\ UNCHANGED used
    /\ UNCHANGED <<wait, ws, conn, key, link, promise, kills, down, serverVars, netRan>>

\* request.arrayBuffer() settles, in a task of its own.
BodyRead(r) ==
    /\ MicrotasksDone
    /\ req[r] = "body"
    /\ \/ Send(r)
       \/ /\ req' = [req EXCEPT ![r] = "failed"]
          /\ UNCHANGED <<pending, timers, up>>
    /\ UNCHANGED <<wait, used, ws, conn, key, link, promise, kills, down, serverVars, netRan>>

\* Mutant: the timer does not ask whether the request is still pending.
Timeout_Unchecked(r) ==
    /\ MicrotasksDone
    /\ r \in timers
    /\ timers' = timers \ {r}
    /\ pending' = pending \ {r}
    /\ req' = [req EXCEPT ![r] = "failed"]
    /\ UNCHANGED <<wait, used, ws, conn, key, link, promise, kills, up, down, serverVars, netRan>>

\* The 30 second timer.
Timeout(r) ==
    /\ MicrotasksDone
    /\ r \in timers
    /\ timers' = timers \ {r}
    /\ pending' = pending \ {r}
    /\ req' = IF r \in pending THEN [req EXCEPT ![r] = "failed"] ELSE req
    /\ UNCHANGED <<wait, used, ws, conn, key, link, promise, kills, up, down, serverVars, netRan>>

\* "On failure, fall back to network": fetch(request), which throws when the
\* body has been used.
Fallback(r) ==
    /\ req[r] = "failed"
    /\ IF r \in used
       THEN req' = [req EXCEPT ![r] = "error"] /\ UNCHANGED netRan
       ELSE req' = [req EXCEPT ![r] = "network"] /\ netRan' = [netRan EXCEPT ![r] = @ + 1]
    /\ UNCHANGED <<wait, used, pending, timers, ws, conn, key, link, promise, kills,
                   up, down, serverVars>>

NetworkAnswers(r) ==
    /\ MicrotasksDone
    /\ req[r] = "network"
    /\ \E how \in {"fallback", "error"} : req' = [req EXCEPT ![r] = how]
    /\ UNCHANGED <<wait, used, pending, timers, ws, conn, key, link, promise, kills,
                   up, down, serverVars, netRan>>

\* The browser ends the worker, idle or not, and starts it afresh for the next
\* event: the globals are gone and the sockets are closed without a handler.
Killed ==
    /\ MicrotasksDone
    /\ kills < MaxKills
    /\ kills' = kills + 1
    /\ req' = [r \in Requests |->
                  IF req[r] \in {"waiting", "body", "pending", "stranded", "network"} THEN "error" ELSE req[r]]
    /\ pending' = {} /\ timers' = {}
    /\ ws' = None /\ conn' = None /\ key' = None
    /\ link' = [c \in Conns |-> IF link[c] = "unused" THEN "unused" ELSE "closed"]
    /\ down' = [c \in Conns |-> <<>>]
    /\ UNCHANGED <<wait, used, promise, up, serverVars, netRan>>

-----------------------------------------------------------------------------
(***************************************************************************)
(* The server, as in TunnelFetch.                                          *)
(***************************************************************************)

\* server_kx, when onOpen is called. The worker's onopen sends nothing, so that a
\* host that initialises a socket on its first message never comes to it.
Announces(c) ==
    /\ host = "node"
    /\ link[c] = "open" /\ c \notin gone
    /\ promise[c] = "pending" /\ down[c] = <<>>
    /\ down' = [down EXCEPT ![c] = <<ServerKx>>]
    /\ UNCHANGED <<workerVars, up, serverVars, netRan>>

\* A request that was not encrypted with the connection's key is dropped.
ServerReceives(c) ==
    /\ up[c] # <<>> /\ c \notin gone
    /\ up' = [up EXCEPT ![c] = Tail(@)]
    /\ LET m == Head(up[c]) IN
       \/ /\ m.type = "client_kx"
          /\ srvKey' = IF srvKey[c] = None THEN [srvKey EXCEPT ![c] = m.key] ELSE srvKey
          /\ UNCHANGED <<ran, down>>
       \/ /\ m.type = "http_request"
          /\ IF srvKey[c] = m.key
             THEN /\ ran' = [ran EXCEPT ![m.id] = @ + 1]
                  /\ \E kind \in Kinds :
                        down' = IF link[c] = "closed" THEN down
                                ELSE [down EXCEPT ![c] = Append(@, HttpResponse(m.id, m.key, kind))]
             ELSE UNCHANGED <<ran, down>>
          /\ UNCHANGED srvKey
    /\ UNCHANGED <<workerVars, host, gone, netRan>>

\* It closes the connection, or loses it, with what was on the way to it.
ServerCloses(c) ==
    /\ link[c] # "unused" /\ c \notin gone
    /\ gone' = gone \cup {c}
    /\ srvKey' = [srvKey EXCEPT ![c] = None]
    /\ up' = [up EXCEPT ![c] = <<>>]
    /\ UNCHANGED <<workerVars, down, host, ran, netRan>>

-----------------------------------------------------------------------------
Next ==
    \/ Killed
    \/ \E r \in Requests :
          \/ FetchEvent(r) \/ Resume(r) \/ BodyRead(r)
          \/ Timeout(r) \/ Fallback(r) \/ NetworkAnswers(r)
    \/ \E c \in Conns :
          \/ Opened(c) \/ CloseFrame(c) \/ Closed(c)
          \/ ServerKxArrives(c) \/ ResponseArrives(c)
          \/ Announces(c) \/ ServerReceives(c) \/ ServerCloses(c)

Spec == Init /\ [][Next]_vars

\* Timers fire, microtasks run, a body and the network come to an end, and a
\* socket opens or fails. A server whose onOpen is called answers a connection
\* with server_kx or closes it (EveryControlSocketAnswered), and either reaches
\* the browser.
Fairness ==
    /\ \A r \in Requests :
          /\ WF_vars(Resume(r) \/ BodyRead(r) \/ Fallback(r) \/ NetworkAnswers(r))
          /\ WF_vars(Timeout(r))
    /\ \A c \in Conns :
          /\ WF_vars(Opened(c) \/ (c \in gone /\ Closed(c)))
          /\ WF_vars(Announces(c) \/ ServerKxArrives(c) \/ ResponseArrives(c))

FairSpec == Spec /\ Fairness

-----------------------------------------------------------------------------
(***************************************************************************)
(* Properties.                                                             *)
(***************************************************************************)
Outcome == [r \in Requests |->
                CASE req[r] = "idle" -> "idle"
                  [] req[r] \in {"waiting", "ready", "body", "pending", "stranded"} -> "active"
                  [] req[r] = "answered" -> "resolved"
                  [] OTHER -> "rejected"]

Contract == INSTANCE FetchContract WITH outcome <- Outcome, served <- ran

\* tunnelFetch keeps the contract of TunnelClient.fetch: the tunnel hands a
\* request to the application at most once and resolves it only with a response
\* made for it, though the handlers of replaced sockets overwrite the key and
\* use the socket of a later connection.
ImplementsContract == Contract!ContractSpec

\* A request is put on the network, outside the tunnel, at most once and only
\* after the tunnel has given it up for good: the page never sees a response
\* of the tunnel to a request that has also left in the clear.
NoDowngradeOfAnswered ==
    \A r \in Requests :
        /\ netRan[r] <= 1
        /\ netRan[r] = 1 => req[r] \in {"network", "fallback", "error"}

\* A request whose response the page awaits is in pendingRequests and has a timer,
\* with one exception: the request whose response could not be built, which the
\* application was given.
PendingIsRegistered ==
    \A r \in Requests :
        /\ req[r] = "pending" <=> r \in pending
        /\ req[r] \in {"pending", "stranded"} =>
              \/ r \in timers /\ r \in pending
              \/ req[r] = "stranded" /\ ran[r] = 1

NotSent == {"idle", "waiting", "ready", "body"}

\* The message at place i of what is under way on connection c is request r.
IsRequest(c, i, r) == up[c][i].type = "http_request" /\ up[c][i].id = r

\* A request is in one place at most: not sent, under way, or with the application,
\* and a response is under way only for a request the application was given.
OneCopyOfARequest ==
    /\ \A r \in Requests :
          /\ ran[r] \in {0, 1}
          /\ req[r] \in NotSent => ran[r] = 0
    /\ \A r \in Requests, c \in Conns : \A i \in DOMAIN up[c] : IsRequest(c, i, r) =>
          /\ ran[r] = 0 /\ req[r] \notin NotSent
          /\ \A d \in Conns : \A j \in DOMAIN up[d] : IsRequest(d, j, r) => d = c /\ j = i
    /\ \A c \in Conns : \A i \in DOMAIN down[c] :
          down[c][i].type = "http_response" => ran[down[c][i].id] = 1

\* No request gets lost, doubled or sent twice over, in the tunnel or beside it.
WorkerInv ==
    /\ TypeOK
    /\ PendingIsRegistered
    /\ OneCopyOfARequest
    /\ NoDowngradeOfAnswered

\* A request that was sent is settled or handed to the network: its timer ends
\* it when it was dropped by a socket that was closing, encrypted with another
\* connection's key, or overtaken by the close of an older socket. Only a response
\* that cannot be built leaves it open.
SentRequestEnds ==
    \A r \in Requests :
        req[r] = "pending" ~> req[r] \in {"answered", "fallback", "error", "stranded"}

\* Behind a host that calls onOpen, a request waits for a connection no longer
\* than that connection lives: while its socket stays up, its server_kx, or the
\* failure of sending client_kx on a newer socket, lets it go on, though the
\* shared promise was dropped by the close of an older socket.
WaitsOnlyForLiveSocket ==
    \A r \in Requests :
        (host = "node" /\ req[r] = "waiting")
            ~> (req[r] # "waiting" \/ link[wait[r]] \in {"closing", "closed"})

\* "On failure, fall back to network" (sw.ts:302). It does not hold: a socket
\* that is closed without an error before server_kx leaves its requests waiting
\* for ever, and so does an open one behind a host that does not call onOpen; a
\* request whose body has been read cannot be fetched again, and one whose
\* response cannot be built is not.
FailureFallsBack ==
    \A r \in Requests : req[r] = "waiting" ~> (req[r] = "answered" \/ netRan[r] > 0)
=============================================================================
