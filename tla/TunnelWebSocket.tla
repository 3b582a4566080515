-------------------------- MODULE TunnelWebSocket --------------------------
(***************************************************************************)
(* Tunneled WebSockets: ClientRAMockWebSocket (ClientRAWebSocket.ts) and   *)
(* its registration in TunnelClient, ServerRAMockWebSocket(Server)         *)
(* (ServerRAWebSocket.ts) and the sockets map of TunnelServer, over control*)
(* channels that are established, lost and replaced.                       *)
(*                                                                         *)
(* A channel at the client is "opening" (socket OPEN, no key), "keyed" (key*)
(* stored, client_kx not sent: the server drops what is sent) and "ready". *)
(* A channel that is being lost is "closing" until its onclose runs, and a *)
(* new one may be dialled meanwhile.  Messages carry their number in the   *)
(* order of the send() calls; one that was delivered is remembered with    *)
(* the channel it came on.                                                 *)
(***************************************************************************)
EXTENDS Naturals, Sequences

CONSTANTS
    Ids,       \* tunneled WebSockets (connection ids)
    Chans,     \* bound: control channels over the life of the client
    MaxSends,  \* bound: send() calls per WebSocket and direction
    None

ASSUME NoneIsNoChan == None \notin Chans
ASSUME SendsAssumption == MaxSends \in Nat

VARIABLES
    state,       \* per WebSocket, readyState of the client's mock
    registered,  \* webSocketConnections
    dialling,    \* WebSockets whose connect() awaits ensureConnection
    queue,       \* messageQueue
    sends,       \* per WebSocket, send() calls that did not throw
    heard,       \* per WebSocket, messages delivered to the client application
    ended,       \* TunnelClient.closed
    cur,         \* the channel this.ws is
    link,        \* per channel, as the client sees it
    up, down,    \* per channel, messages under way
    lost,        \* channels whose close event the server has had
    entry,       \* TunnelServer.sockets: the control channel of a WebSocket
    mock,        \* readyState of the server's mock
    clients,     \* wss.clients
    replies,     \* per WebSocket, send() calls of the server application
    got          \* per WebSocket, messages delivered to the server application

clientVars == <<state, registered, dialling, queue, sends, heard>>
chanVars   == <<ended, cur, link>>
serverVars == <<lost, entry, mock, clients, replies, got>>
vars == <<clientVars, chanVars, up, down, serverVars>>

Numbers == 1..MaxSends
Message(w, n) == [type |-> "ws_message", id |-> w, n |-> n]
Event(w, type) == [type |-> type, id |-> w]
Deliveries == [n : Numbers, on : Chans]
UpMessages == [type : {"ws_message"}, id : Ids, n : Numbers]
                 \cup [type : {"ws_connect", "ws_close"}, id : Ids]
DownMessages == [type : {"ws_message"}, id : Ids, n : Numbers]
                   \cup [type : {"open", "close", "error"}, id : Ids]

TypeOK ==
    /\ state \in [Ids -> {"none", "connecting", "open", "closing", "closed"}]
    /\ registered \subseteq Ids
    /\ dialling \subseteq Ids
    /\ queue \in [Ids -> Seq(Numbers)]
    /\ sends \in [Ids -> 0..MaxSends]
    /\ heard \in [Ids -> Seq(Deliveries)]
    /\ ended \in BOOLEAN
    /\ cur \in Chans \cup {None}
    /\ link \in [Chans -> {"unused", "opening", "keyed", "ready", "closing", "closed"}]
    /\ up \in [Chans -> Seq(UpMessages)]
    /\ down \in [Chans -> Seq(DownMessages)]
    /\ lost \subseteq Chans
    /\ entry \in [Ids -> Chans \cup {None}]
    /\ mock \in [Ids -> {"none", "open", "closed"}]
    /\ clients \subseteq Ids
    /\ replies \in [Ids -> 0..MaxSends]
    /\ got \in [Ids -> Seq(Deliveries)]

Init ==
    /\ state = [w \in Ids |-> "none"]
    /\ registered = {} /\ dialling = {}
    /\ queue = [w \in Ids |-> <<>>]
    /\ sends = [w \in Ids |-> 0]
    /\ heard = [w \in Ids |-> <<>>]
    /\ ended = FALSE
    /\ cur = None
    /\ link = [c \in Chans |-> "unused"]
    /\ up = [c \in Chans |-> <<>>]
    /\ down = [c \in Chans |-> <<>>]
    /\ lost = {}
    /\ entry = [w \in Ids |-> None]
    /\ mock = [w \in Ids |-> "none"]
    /\ clients = {}
    /\ replies = [w \in Ids |-> 0]
    /\ got = [w \in Ids |-> <<>>]

-----------------------------------------------------------------------------
\* TunnelClient.send: throws unless this.ws is open and there is a key; what is
\* sent before client_kx is dropped by the server.
CanSend == cur # None /\ link[cur] \in {"keyed", "ready"}

Transmit(ms) ==
    up' = IF CanSend /\ link[cur] = "ready" THEN [up EXCEPT ![cur] = @ \o ms] ELSE up

\* Mutant: the data is left out of the message.
Messages_NoData(w, ns) == [i \in DOMAIN ns |-> Event(w, "ws_message")]

\* The messages of a WebSocket as they go over the wire.
Messages(w, ns) == [i \in DOMAIN ns |-> Message(w, ns[i])]

(***************************************************************************)
(* The client's mock.                                                      *)
(***************************************************************************)
New(w) ==
    /\ state[w] = "none"
    /\ state' = [state EXCEPT ![w] = "connecting"]
    /\ registered' = registered \cup {w}
    /\ dialling' = dialling \cup {w}
    /\ UNCHANGED <<queue, sends, heard, chanVars, up, down, serverVars>>

\* connect() after its await: ws_connect is sent, even if close() was called
\* meanwhile; when it cannot be sent there is an error event and nothing else.
Connect(w) ==
    /\ w \in dialling
    /\ dialling' = dialling \ {w}
    /\ Transmit(<<Event(w, "ws_connect")>>)
    /\ UNCHANGED <<state, registered, queue, sends, heard, chanVars, down, serverVars>>

\* Mutant: send() does not queue when it can already transmit.
Send_SkipsQueue(w) ==
    /\ sends[w] < MaxSends
    /\ sends' = [sends EXCEPT ![w] = @ + 1]
    /\ \/ /\ state[w] = "connecting" /\ queue' = [queue EXCEPT ![w] = Append(@, sends'[w])]
          /\ UNCHANGED up
       \/ /\ state[w] \in {"connecting", "open"} /\ Transmit(<<Message(w, sends'[w])>>)
          /\ UNCHANGED queue
    /\ UNCHANGED <<state, registered, dialling, heard, chanVars, down, serverVars>>

\* send(): queued while CONNECTING; when the channel is down the message is
\* lost with an error event; it throws after close().
Send(w) ==
    /\ sends[w] < MaxSends
    /\ sends' = [sends EXCEPT ![w] = @ + 1]
    /\ \/ /\ state[w] = "connecting"
          /\ queue' = [queue EXCEPT ![w] = Append(@, sends'[w])]
          /\ UNCHANGED up
       \/ /\ state[w] = "open"
          /\ Transmit(<<Message(w, sends'[w])>>)
          /\ UNCHANGED queue
    /\ UNCHANGED <<state, registered, dialling, heard, chanVars, down, serverVars>>

\* close(): no close event follows, the mock stays CLOSING.
CloseMock(w) ==
    /\ state[w] \in {"connecting", "open"}
    /\ state' = [state EXCEPT ![w] = "closing"]
    /\ Transmit(<<Event(w, "ws_close")>>)
    /\ registered' = registered \ {w}
    /\ UNCHANGED <<dialling, queue, sends, heard, chanVars, down, serverVars>>

\* Mutant: events are dispatched to mocks that have unregistered.
ClientReceives_AnyMock(c) ==
    /\ down[c] # <<>>
    /\ link[c] \in {"ready", "closing"}
    /\ down' = [down EXCEPT ![c] = Tail(@)]
    /\ LET m == Head(down[c]) IN
       \/ /\ m.type = "open"
          /\ state' = [state EXCEPT ![m.id] = "open"]
          /\ UNCHANGED <<registered, queue, heard, up>>
       \/ /\ m.type = "ws_message"
          /\ heard' = [heard EXCEPT ![m.id] = Append(@, [n |-> m.n, on |-> c])]
          /\ UNCHANGED <<state, registered, queue, up>>
       \/ /\ m.type \in {"close", "error"}
          /\ UNCHANGED <<state, registered, queue, heard, up>>
    /\ UNCHANGED <<dialling, sends, chanVars, serverVars>>

\* onmessage and handleTunnelEvent / handleTunnelMessage: only registered mocks
\* are reached. open flushes the queue before the open event.
ClientReceives(c) ==
    /\ down[c] # <<>>
    /\ link[c] \in {"ready", "closing"}
    /\ down' = [down EXCEPT ![c] = Tail(@)]
    /\ LET m == Head(down[c])
           w == m.id
       IN
       \/ /\ w \in registered /\ m.type = "open"
          /\ state' = [state EXCEPT ![w] = "open"]
          /\ queue' = [queue EXCEPT ![w] = <<>>]
          /\ Transmit(Messages(w, queue[w]))
          /\ UNCHANGED <<registered, heard>>
       \/ /\ w \in registered /\ m.type = "close"
          /\ state' = [state EXCEPT ![w] = "closed"]
          /\ registered' = registered \ {w}
          /\ UNCHANGED <<queue, heard, up>>
       \/ /\ w \in registered /\ m.type = "ws_message"
          /\ heard' = [heard EXCEPT ![w] = Append(@, [n |-> m.n, on |-> c])]
          /\ UNCHANGED <<state, registered, queue, up>>
       \/ /\ w \notin registered \/ m.type = "error"
          /\ UNCHANGED <<state, registered, queue, heard, up>>
    /\ UNCHANGED <<dialling, sends, chanVars, serverVars>>

-----------------------------------------------------------------------------
(***************************************************************************)
(* The control channel.                                                    *)
(***************************************************************************)

\* ensureConnection dials when the current socket is not open.
Dial(c) ==
    /\ ~ended
    /\ cur # None => link[cur] \in {"closing", "closed"}
    /\ link[c] = "unused"
    /\ link' = [link EXCEPT ![c] = "opening"]
    /\ cur' = c
    /\ UNCHANGED <<clientVars, ended, up, down, serverVars>>

\* The key is stored, then client_kx is sent.
Handshake(c) ==
    /\ c = cur
    /\ \/ link[c] = "opening" /\ link' = [link EXCEPT ![c] = "keyed"]
       \/ link[c] = "keyed" /\ link' = [link EXCEPT ![c] = "ready"]
    /\ UNCHANGED <<clientVars, ended, cur, up, down, serverVars>>

Fails(c) ==
    /\ link[c] \in {"opening", "keyed", "ready"}
    /\ link' = [link EXCEPT ![c] = "closing"]
    /\ UNCHANGED <<clientVars, ended, cur, up, down, serverVars>>

\* The close event of every registered mock, and webSocketConnections.clear().
CloseAll ==
    /\ state' = [w \in Ids |-> IF w \in registered THEN "closed" ELSE state[w]]
    /\ registered' = {}
    /\ UNCHANGED <<dialling, queue, sends, heard>>

\* Mutant: webSocketConnections.clear() without close events.
ChannelClosed_Silent(c) ==
    /\ link[c] = "closing"
    /\ link' = [link EXCEPT ![c] = "closed"]
    /\ registered' = {}
    /\ UNCHANGED <<state, dialling, queue, sends, heard, ended, cur, up, down, serverVars>>

\* onclose, whichever channel it is for.
ChannelClosed(c) ==
    /\ link[c] = "closing"
    /\ link' = [link EXCEPT ![c] = "closed"]
    /\ CloseAll
    /\ UNCHANGED <<ended, cur, up, down, serverVars>>

\* TunnelClient.close().
CloseTunnel ==
    /\ ~ended
    /\ ended' = TRUE
    /\ CloseAll
    /\ link' = IF cur # None /\ link[cur] \in {"opening", "keyed", "ready"}
               THEN [link EXCEPT ![cur] = "closing"] ELSE link
    /\ cur' = None
    /\ UNCHANGED <<up, down, serverVars>>

-----------------------------------------------------------------------------
(***************************************************************************)
(* The server.                                                             *)
(***************************************************************************)

\* #handleTunnelWebSocketConnect: the application may send from its connection
\* handler, before the open event goes out; if that handler throws, an error
\* event takes the place of open and the mock stays registered.
TunnelConnect(c, w) ==
    /\ entry' = [entry EXCEPT ![w] = c]
    /\ mock' = [mock EXCEPT ![w] = "open"]
    /\ clients' = clients \cup {w}
    /\ \E greet \in 0..1, last \in {"open", "error"} :
          /\ replies[w] + greet <= MaxSends
          /\ replies' = [replies EXCEPT ![w] = @ + greet]
          /\ down' = [down EXCEPT ![c] = @ \o [i \in 1..greet |-> Message(w, replies'[w])]
                                           \o <<Event(w, last)>>]
    /\ UNCHANGED got

\* #handleTunnelWebSocketMessage: whichever control channel it came on; the
\* mock hears nothing unless it is OPEN.
TunnelMessage(c, w, n) ==
    /\ got' = IF entry[w] # None /\ mock[w] = "open"
              THEN [got EXCEPT ![w] = Append(@, [n |-> n, on |-> c])] ELSE got
    /\ UNCHANGED <<entry, mock, clients, replies, down>>

\* #handleTunnelWebSocketClose: a connection that is not known is ignored.
TunnelClose(w) ==
    /\ IF entry[w] # None
       THEN /\ mock' = [mock EXCEPT ![w] = "closed"]
            /\ clients' = clients \ {w}
            /\ entry' = [entry EXCEPT ![w] = None]
       ELSE UNCHANGED <<mock, clients, entry>>
    /\ UNCHANGED <<replies, got, down>>

ServerReceives(c) ==
    /\ up[c] # <<>>
    /\ c \notin lost
    /\ up' = [up EXCEPT ![c] = Tail(@)]
    /\ LET m == Head(up[c]) IN
       \/ m.type = "ws_connect" /\ TunnelConnect(c, m.id)
       \/ m.type = "ws_message" /\ TunnelMessage(c, m.id, m.n)
       \/ m.type = "ws_close" /\ TunnelClose(m.id)
    /\ UNCHANGED <<clientVars, chanVars, lost>>

\* The application sends on an open mock.
AppSend(w) ==
    /\ mock[w] = "open"
    /\ replies[w] < MaxSends
    /\ replies' = [replies EXCEPT ![w] = @ + 1]
    /\ down' = [down EXCEPT ![entry[w]] = Append(@, Message(w, replies'[w]))]
    /\ UNCHANGED <<clientVars, chanVars, up, lost, entry, mock, clients, got>>

\* The application closes a mock: the client is told, the entries stay.
AppClose(w) ==
    /\ mock[w] = "open"
    /\ mock' = [mock EXCEPT ![w] = "closed"]
    /\ down' = [down EXCEPT ![entry[w]] = Append(@, Event(w, "close"))]
    /\ UNCHANGED <<clientVars, chanVars, up, lost, entry, clients, replies, got>>

\* Mutant: the close handler leaves the sockets map alone.
ServerLoses_KeepsMocks(c) ==
    /\ link[c] # "unused"
    /\ c \notin lost
    /\ lost' = lost \cup {c}
    /\ UNCHANGED <<clientVars, chanVars, up, down, entry, mock, clients, replies, got>>

\* The close event of a control channel at the server.
ServerLoses(c) ==
    /\ link[c] # "unused"
    /\ c \notin lost
    /\ lost' = lost \cup {c}
    /\ LET gone == {w \in Ids : entry[w] = c} IN
       /\ mock' = [w \in Ids |-> IF w \in gone THEN "closed" ELSE mock[w]]
       /\ clients' = clients \ gone
       /\ entry' = [w \in Ids |-> IF w \in gone THEN None ELSE entry[w]]
    /\ UNCHANGED <<clientVars, chanVars, up, down, replies, got>>

-----------------------------------------------------------------------------
Next ==
    \/ CloseTunnel
    \/ \E w \in Ids :
          \/ New(w) \/ Connect(w) \/ Send(w) \/ CloseMock(w)
          \/ AppSend(w) \/ AppClose(w)
    \/ \E c \in Chans :
          \/ Dial(c) \/ Handshake(c) \/ Fails(c) \/ ChannelClosed(c)
          \/ ClientReceives(c) \/ ServerReceives(c) \/ ServerLoses(c)

Spec == Init /\ [][Next]_vars

\* Messages on a live channel arrive, both ends learn of a lost channel, and
\* connect() is resumed.
FairSpec ==
    /\ Spec
    /\ \A w \in Ids : WF_vars(Connect(w))
    /\ \A c \in Chans :
          /\ WF_vars(ClientReceives(c))
          /\ WF_vars(ServerReceives(c))
          /\ WF_vars(ChannelClosed(c))
          /\ WF_vars(link[c] \in {"closing", "closed"} /\ ServerLoses(c))

-----------------------------------------------------------------------------
(***************************************************************************)
(* Properties.                                                             *)
(***************************************************************************)
InOrder(ds) ==
    \A i, j \in DOMAIN ds :
        i < j => ds[i].n # ds[j].n /\ (ds[i].on = ds[j].on => ds[i].n < ds[j].n)

\* Each end hears what the other sent over one control channel in the order of
\* the send() calls, whether it was queued before open, sent from the open
\* handler or from the server's connection handler, and hears nothing twice.
\* (Nothing orders messages that travel on two channels, the second dialled
\* before the first is gone at the server: no check ties a message to the
\* channel that its WebSocket was connected on.)
HeardInOrder == \A w \in Ids : InOrder(heard[w]) /\ InOrder(got[w])

\* "WebSocket messages queued before `open` are flushed once the socket opens"
\* (README.md): none is left behind for a later open.
OpenMeansFlushed == \A w \in Ids : state[w] = "open" => queue[w] = <<>>

\* Every mock the server application may still use is tracked under a control
\* channel the server has not lost, and is listed in wss.clients.
OpenMockIsTracked ==
    \A w \in Ids :
        mock[w] = "open" => entry[w] \in Chans \ lost /\ w \in clients

\* What webSocketConnections holds can be reached: it is not closed.
RegisteredIsLive ==
    \A w \in registered : state[w] \in {"connecting", "open"}

Carries(m, w) == m.type = "ws_message" /\ m.id = w

\* The messages of w that were delivered (ds) or are under way (chans) are among
\* the first that were sent, up to number last, none of them twice, and what is
\* under way on a channel is later than what came on it.
Stream(w, ds, chans, last) ==
    /\ InOrder(ds)
    /\ \A k \in DOMAIN ds : ds[k].n <= last
    /\ \A c \in Chans : \A i \in DOMAIN chans[c] : Carries(chans[c][i], w) =>
          /\ chans[c][i].n <= last
          /\ \A k \in DOMAIN ds :
                ds[k].n # chans[c][i].n /\ (ds[k].on = c => ds[k].n < chans[c][i].n)
          /\ \A d \in Chans : \A j \in DOMAIN chans[d] : Carries(chans[d][j], w) =>
                /\ d # c => chans[c][i].n # chans[d][j].n
                /\ d = c /\ i < j => chans[c][i].n < chans[d][j].n

Increasing(ns) == \A i, j \in DOMAIN ns : i < j => ns[i] < ns[j]

\* The number of the last message that is past the queue.
PastQueue(w) == IF queue[w] = <<>> THEN sends[w] ELSE queue[w][1] - 1

\* Why messages are heard in order: on both ways they go out numbered in turn, and
\* what still is in the queue comes after all that was ever sent.
StreamsAreOrdered ==
    \A w \in Ids :
        /\ Increasing(queue[w]) /\ \A i \in DOMAIN queue[w] : queue[w][i] <= sends[w]
        /\ Stream(w, got[w], up, PastQueue(w))
        /\ Stream(w, heard[w], down, replies[w])

\* Types, no message left in the queue of an open mock, no open mock of the server
\* that the loss of its channel would not reach, and no message that goes out twice
\* or overtakes another on its channel.
MockInv ==
    /\ TypeOK
    /\ OpenMeansFlushed
    /\ OpenMockIsTracked
    /\ RegisteredIsLive
    /\ StreamsAreOrdered

\* A mock the client closed or saw closed is out of reach: messages and events
\* still under way for it do not reopen it or reach the application.
ClosedMockIsSilent ==
    [][\A w \in Ids :
          state[w] \in {"closing", "closed"} =>
              /\ state'[w] \in {"closing", "closed"}
              /\ heard'[w] = heard[w]]_vars

\* A mock that is open at the client when its channel goes away learns of it.
LostChannelClosesMocks ==
    \A w \in Ids, c \in Chans :
        (state[w] = "open" /\ link[c] = "closing") ~> state[w] \in {"closing", "closed"}

\* "Client close triggers server close event and wss.clients shrinks"
\* (ws-express.test.ts): once a mock is closed by the client, the server's mock
\* does not stay open.
ClientCloseReachesServer ==
    \A w \in Ids : state[w] = "closing" ~> [](mock[w] # "open")
=============================================================================
