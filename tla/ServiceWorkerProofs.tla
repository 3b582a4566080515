------------------------ MODULE ServiceWorkerProofs ------------------------
(***************************************************************************)
(* TLAPS proofs about ServiceWorker, for any number of requests, sockets   *)
(* and ends of the worker: no request is doubled or lost sight of, and     *)
(* tunnelFetch implements FetchContract.                                   *)
(***************************************************************************)
EXTENDS ServiceWorker, TLAPS

ReqStates == {"idle", "waiting", "ready", "body", "pending", "answered",
              "stranded", "failed", "network", "fallback", "error"}
LinkStates == {"unused", "connecting", "open", "closing", "closed"}
OnNetwork == {"network", "fallback", "error"}

-----------------------------------------------------------------------------
(***************************************************************************)
(* Queues of messages.                                                     *)
(***************************************************************************)

LEMMA AppendFacts ==
    ASSUME NEW S, NEW q \in Seq(S), NEW e \in S
    PROVE  /\ Append(q, e) \in Seq(S)
           /\ DOMAIN q = 1..Len(q) /\ Len(q) \in Nat
           /\ DOMAIN Append(q, e) = 1..(Len(q) + 1)
           /\ \A i \in DOMAIN q : i # Len(q) + 1 /\ Append(q, e)[i] = q[i]
           /\ Append(q, e)[Len(q) + 1] = e
OBVIOUS

LEMMA TailFacts ==
    ASSUME NEW S, NEW q \in Seq(S), q # <<>>
    PROVE  /\ Tail(q) \in Seq(S)
           /\ DOMAIN q = 1..Len(q) /\ Len(q) \in Nat
           /\ 1 \in DOMAIN q /\ Head(q) = q[1] /\ Head(q) \in S
           /\ \A i \in DOMAIN Tail(q) : i \in Nat /\ i + 1 \in DOMAIN q /\ i + 1 # 1
           /\ \A i \in DOMAIN Tail(q) : Tail(q)[i] = q[i + 1]
OBVIOUS

LEMMA ConnFacts == MaxConns \in Nat /\ None \notin Conns /\ MaxKills \in Nat
BY ConnsAssumption, KillsAssumption

-----------------------------------------------------------------------------
(***************************************************************************)
(* Steps that neither send a request nor hand one to the application.      *)
(***************************************************************************)

\* Requests only go on: what was sent stays sent, what left for the network is not
\* taken back.
Forward ==
    \A r \in Requests :
        /\ req'[r] \in NotSent => req[r] \in NotSent
        /\ req[r] \in OnNetwork => req'[r] \in OnNetwork

NoNewRequests ==
    \A r \in Requests, c \in Conns : \A i \in DOMAIN up'[c] :
        IsRequest(c, i, r)' => i \in DOMAIN up[c] /\ IsRequest(c, i, r)

NoNewResponses ==
    \A c \in Conns : \A i \in DOMAIN down'[c] :
        down'[c][i].type = "http_response" => ran[down'[c][i].id] = 1

LEMMA NoUpChange ==
    ASSUME up' = up
    PROVE  NoNewRequests
BY DEF NoNewRequests, IsRequest

LEMMA NoDownChange ==
    ASSUME WorkerInv, down' = down
    PROVE  NoNewResponses
BY DEF NoNewResponses, WorkerInv, OneCopyOfARequest

LEMMA QuietStep ==
    ASSUME WorkerInv, TypeOK', PendingIsRegistered', Forward, NoNewRequests, NoNewResponses,
           UNCHANGED <<ran, netRan>>
    PROVE  WorkerInv'
<1>1. \A r \in Requests :
         /\ ran'[r] \in {0, 1}
         /\ req'[r] \in NotSent => ran'[r] = 0
  BY DEF WorkerInv, OneCopyOfARequest, Forward
<1>2. \A r \in Requests, c \in Conns : \A i \in DOMAIN up'[c] : IsRequest(c, i, r)' =>
         /\ ran'[r] = 0 /\ req'[r] \notin NotSent
         /\ \A d \in Conns : \A j \in DOMAIN up'[d] : IsRequest(d, j, r)' => d = c /\ j = i
  BY DEF WorkerInv, OneCopyOfARequest, Forward, NoNewRequests
<1>3. OneCopyOfARequest'
  BY <1>1, <1>2 DEF OneCopyOfARequest, NoNewResponses
<1>4. NoDowngradeOfAnswered'
  BY DEF WorkerInv, NoDowngradeOfAnswered, Forward, OnNetwork
<1> QED
  BY <1>3, <1>4 DEF WorkerInv

LEMMA WorkerInitInv == Init => WorkerInv
<1> SUFFICES ASSUME Init PROVE WorkerInv
  OBVIOUS
<1>1. PICK first \in {None, 1} :
          /\ host \in {"node", "workerd"}
          /\ ws = first /\ key = first
          /\ link = [c \in Conns |-> IF c = first THEN "open" ELSE "unused"]
          /\ promise = [c \in Conns |-> IF c = first THEN "resolved" ELSE "pending"]
          /\ srvKey = [c \in Conns |-> IF c = first THEN first ELSE None]
  BY DEF Init
<1>2. first \in Conns \cup {None}
  BY ConnsAssumption DEF Conns
<1>3. TypeOK
  <2>1. {ws, conn, key} \subseteq Conns \cup {None}
    BY <1>1, <1>2 DEF Init
  <2>2. /\ link \in [Conns -> LinkStates] /\ promise \in [Conns -> {"pending", "resolved", "rejected"}]
        /\ srvKey \in [Conns -> Conns \cup {None}]
    BY <1>1, <1>2 DEF LinkStates
  <2>3. up \in [Conns -> Seq(UpMessages)] /\ down \in [Conns -> Seq(DownMessages)]
    BY DEF Init
  <2>4. ran \in [Requests -> Nat] /\ netRan \in [Requests -> Nat] /\ kills \in 0..MaxKills
    BY ConnFacts DEF Init
  <2> QED
    BY <2>1, <2>2, <2>3, <2>4 DEF Init, TypeOK, LinkStates
<1>4. PendingIsRegistered /\ NoDowngradeOfAnswered
  BY DEF Init, PendingIsRegistered, NoDowngradeOfAnswered
<1>5. OneCopyOfARequest
  BY DEF Init, OneCopyOfARequest, NotSent
<1> QED
  BY <1>3, <1>4, <1>5 DEF WorkerInv

\* The fetch event: a request begins, and may dial.
LEMMA FetchEventInv ==
    ASSUME WorkerInv, NEW r \in Requests, FetchEvent(r)
    PROVE  WorkerInv'
<1>1. /\ req \in [Requests -> ReqStates] /\ wait \in [Requests -> Conns \cup {None}]
      /\ link \in [Conns -> LinkStates] /\ conn \in Conns \cup {None} /\ ws \in Conns \cup {None}
  BY DEF WorkerInv, TypeOK, ReqStates, LinkStates
<1>2. /\ req[r] = "idle"
      /\ UNCHANGED <<used, pending, timers, key, promise, kills, up, down, host, srvKey, gone, ran, netRan>>
  BY DEF FetchEvent, serverVars
<1>3. \E s \in {"ready", "waiting"} : req' = [req EXCEPT ![r] = s]
  BY DEF FetchEvent
<1>4. conn' \in Conns \cup {None} /\ ws' \in Conns \cup {None} /\ link' \in [Conns -> LinkStates]
  BY <1>1 DEF FetchEvent, LinkStates
<1>5. wait' \in [Requests -> Conns \cup {None}]
  BY <1>1, <1>4 DEF FetchEvent
<1>6. req' \in [Requests -> ReqStates] /\ req'[r] \in {"ready", "waiting"}
      /\ \A q \in Requests : q # r => req'[q] = req[q]
  BY <1>1, <1>3 DEF ReqStates
<1>7. TypeOK'
  BY <1>2, <1>4, <1>5, <1>6 DEF WorkerInv, TypeOK, ReqStates, LinkStates
<1>8. PendingIsRegistered'
  BY <1>2, <1>6 DEF WorkerInv, PendingIsRegistered
<1>9. Forward
  BY <1>2, <1>6 DEF Forward, NotSent, OnNetwork
<1> QED
  BY <1>2, <1>7, <1>8, <1>9, QuietStep, NoUpChange, NoDownChange

\* Steps of the sockets and of the server that do not touch a request.
LEMMA SocketInv ==
    ASSUME WorkerInv, NEW c \in Conns, Opened(c) \/ CloseFrame(c) \/ Announces(c) \/ ServerCloses(c)
    PROVE  WorkerInv'
<1>1. /\ link \in [Conns -> LinkStates] /\ srvKey \in [Conns -> Conns \cup {None}]
      /\ up \in [Conns -> Seq(UpMessages)] /\ down \in [Conns -> Seq(DownMessages)]
  BY DEF WorkerInv, TypeOK, LinkStates
<1>2. UNCHANGED <<req, wait, used, pending, timers, ws, conn, key, promise, kills, host, ran, netRan>>
  BY DEF Opened, CloseFrame, Announces, ServerCloses, workerVars, serverVars
<1>3. /\ link' \in [Conns -> LinkStates]
      /\ srvKey' \in [Conns -> Conns \cup {None}]
      /\ gone' \subseteq Conns
  BY <1>1 DEF Opened, CloseFrame, Announces, ServerCloses, workerVars, serverVars, LinkStates, WorkerInv, TypeOK
<1>4. /\ up' \in [Conns -> Seq(UpMessages)]
      /\ \A d \in Conns : up'[d] = up[d] \/ up'[d] = <<>>
  <2>1. up' = up \/ up' = [up EXCEPT ![c] = <<>>]
    BY DEF Opened, CloseFrame, Announces, ServerCloses
  <2>2. <<>> \in Seq(UpMessages)
    OBVIOUS
  <2> QED
    BY <1>1, <2>1, <2>2
<1>5. down' \in [Conns -> Seq(DownMessages)]
      /\ \E q \in {<<>>, <<ServerKx>>, down[c]} : down' = [down EXCEPT ![c] = q]
  <2>1. <<>> \in Seq(DownMessages) /\ <<ServerKx>> \in Seq(DownMessages)
    BY DEF DownMessages
  <2> QED
    BY <1>1, <2>1 DEF Opened, CloseFrame, Announces, ServerCloses
<1>6. TypeOK'
  BY <1>2, <1>3, <1>4, <1>5 DEF WorkerInv, TypeOK, LinkStates
<1>7. PendingIsRegistered' /\ Forward
  BY <1>2 DEF WorkerInv, PendingIsRegistered, Forward
<1>8. NoNewRequests
  BY <1>4 DEF NoNewRequests, IsRequest
<1>9. NoNewResponses
  <2>1. PICK q \in {<<>>, <<ServerKx>>, down[c]} : down' = [down EXCEPT ![c] = q]
    BY <1>5
  <2>2. \A i \in DOMAIN q : q[i].type = "http_response" => i \in DOMAIN down[c] /\ q[i] = down[c][i]
    BY DEF ServerKx
  <2>3. down'[c] = q /\ \A d \in Conns : d # c => down'[d] = down[d]
    BY <1>1, <2>1
  <2> QED
    BY <2>2, <2>3 DEF NoNewResponses, WorkerInv, OneCopyOfARequest
<1> QED
  BY <1>2, <1>6, <1>7, <1>8, <1>9, QuietStep

\* Taking a message off a queue brings no new response.
LEMMA TailOfDown ==
    ASSUME WorkerInv, NEW c \in Conns, down[c] # <<>>, down' = [down EXCEPT ![c] = Tail(@)]
    PROVE  down' \in [Conns -> Seq(DownMessages)] /\ NoNewResponses /\ Head(down[c]) \in DownMessages
<1>1. down \in [Conns -> Seq(DownMessages)]
  BY DEF WorkerInv, TypeOK
<1>2. /\ Tail(down[c]) \in Seq(DownMessages) /\ Head(down[c]) \in DownMessages
      /\ \A i \in DOMAIN Tail(down[c]) : i + 1 \in DOMAIN down[c] /\ Tail(down[c])[i] = down[c][i + 1]
  BY <1>1, TailFacts
<1>3. down'[c] = Tail(down[c]) /\ \A d \in Conns : d # c => down'[d] = down[d]
  BY <1>1
<1>4. \A d \in Conns : \A i \in DOMAIN down'[d] : \E j \in DOMAIN down[d] : down'[d][i] = down[d][j]
  BY <1>2, <1>3
<1>5. down' \in [Conns -> Seq(DownMessages)]
  BY <1>1, <1>2
<1> QED
  BY <1>2, <1>4, <1>5 DEF NoNewResponses, WorkerInv, OneCopyOfARequest

\* Settling a connection's promise moves requests that wait, and no others.
LEMMA SettleConnInv ==
    ASSUME WorkerInv, NEW c \in Conns, NEW how \in {"resolved", "rejected"}, NEW then \in {"ready", "failed"},
           SettleConn(c, how, then), UNCHANGED <<pending, timers, ran>>
    PROVE  /\ req' \in [Requests -> ReqStates]
           /\ promise' \in [Conns -> {"pending", "resolved", "rejected"}]
           /\ PendingIsRegistered' /\ Forward
<1>1. req \in [Requests -> ReqStates] /\ promise \in [Conns -> {"pending", "resolved", "rejected"}]
  BY DEF WorkerInv, TypeOK, ReqStates
<1>2. promise' \in [Conns -> {"pending", "resolved", "rejected"}]
  BY <1>1 DEF SettleConn
<1>3. \A r \in Requests : req'[r] = req[r] \/ (req[r] = "waiting" /\ req'[r] = then)
  BY DEF SettleConn
<1>4. req' \in [Requests -> ReqStates]
  BY <1>1 DEF SettleConn, ReqStates
<1>5. PendingIsRegistered'
  BY <1>3 DEF WorkerInv, PendingIsRegistered
<1>6. Forward
  BY <1>3 DEF Forward, NotSent, OnNetwork
<1> QED
  BY <1>2, <1>4, <1>5, <1>6

LEMMA ServerKxArrivesInv ==
    ASSUME WorkerInv, NEW c \in Conns, ServerKxArrives(c)
    PROVE  WorkerInv'
<1>1. /\ key' = c /\ conn' = None
      /\ UNCHANGED <<wait, used, pending, timers, ws, link, kills, host, srvKey, gone, ran, netRan>>
  BY DEF ServerKxArrives, serverVars
<1>2. down' \in [Conns -> Seq(DownMessages)] /\ NoNewResponses
  BY TailOfDown DEF ServerKxArrives
<1>3. /\ req' \in [Requests -> ReqStates]
      /\ promise' \in [Conns -> {"pending", "resolved", "rejected"}]
      /\ PendingIsRegistered' /\ Forward
  <2>1. SettleConn(c, "rejected", "failed") \/ SettleConn(c, "resolved", "ready")
    BY DEF ServerKxArrives
  <2> QED
    BY <1>1, <2>1, SettleConnInv
<1>4. up' \in [Conns -> Seq(UpMessages)] /\ NoNewRequests
  <2>1. CASE up' = up
    BY <2>1, NoUpChange DEF WorkerInv, TypeOK
  <2>2. CASE WsIs("open") /\ up' = [up EXCEPT ![ws] = Append(@, ClientKx(c))]
    <3>1. ws \in Conns /\ up \in [Conns -> Seq(UpMessages)]
      BY <2>2 DEF WsIs, WorkerInv, TypeOK
    <3>2. ClientKx(c) \in UpMessages /\ ClientKx(c).type = "client_kx"
      BY DEF ClientKx, UpMessages
    <3>3. up'[ws] = Append(up[ws], ClientKx(c)) /\ \A d \in Conns : d # ws => up'[d] = up[d]
      BY <2>2, <3>1
    <3>4. up' \in [Conns -> Seq(UpMessages)]
      BY <2>2, <3>1, <3>2, AppendFacts
    <3>5. \A i \in DOMAIN up'[ws] : (i \in DOMAIN up[ws] /\ up'[ws][i] = up[ws][i]) \/ up'[ws][i].type = "client_kx"
      BY <3>1, <3>2, <3>3, AppendFacts
    <3> QED
      BY <3>3, <3>4, <3>5 DEF NoNewRequests, IsRequest
  <2> QED
    BY <2>1, <2>2 DEF ServerKxArrives
<1>5. TypeOK'
  BY <1>1, <1>2, <1>3, <1>4 DEF WorkerInv, TypeOK, ReqStates
<1> QED
  BY <1>1, <1>2, <1>3, <1>4, <1>5, QuietStep

LEMMA ResponseArrivesInv ==
    ASSUME WorkerInv, NEW c \in Conns, ResponseArrives(c)
    PROVE  WorkerInv'
<1>1. UNCHANGED <<wait, used, timers, ws, conn, key, link, promise, kills, up, host, srvKey, gone, ran, netRan>>
  BY DEF ResponseArrives, serverVars
<1>2. down' \in [Conns -> Seq(DownMessages)] /\ NoNewResponses
  BY TailOfDown DEF ResponseArrives
<1>3. \/ UNCHANGED <<pending, req>>
      \/ \E r \in Requests, s \in {"answered", "failed", "stranded"} :
            /\ r \in pending /\ ran[r] = 1
            /\ pending' = pending \ {r} /\ req' = [req EXCEPT ![r] = s]
  <2>1. Head(down[c]) \in DownMessages /\ Head(down[c]).type = "http_response"
    BY TailOfDown DEF ResponseArrives
  <2>2. Head(down[c]).kind \in Kinds
    BY <2>1 DEF DownMessages, ServerKx
  <2>3. down[c] \in Seq(DownMessages) /\ down[c] # <<>>
    BY DEF WorkerInv, TypeOK, ResponseArrives
  <2>4. ran[Head(down[c]).id] = 1
    BY <2>1, <2>3, TailFacts DEF WorkerInv, OneCopyOfARequest
  <2> QED
    BY <2>2, <2>4 DEF ResponseArrives, WorkerInv, TypeOK, Effect, Kinds
<1>4. /\ req' \in [Requests -> ReqStates] /\ pending' \subseteq Requests
      /\ PendingIsRegistered' /\ Forward
  <2>1. req \in [Requests -> ReqStates] /\ pending \subseteq Requests
    BY DEF WorkerInv, TypeOK, ReqStates
  <2>2. CASE UNCHANGED <<pending, req>>
    BY <1>1, <2>1, <2>2 DEF WorkerInv, PendingIsRegistered, Forward
  <2>3. ASSUME NEW r \in Requests, NEW s \in {"answered", "failed", "stranded"},
               r \in pending, ran[r] = 1, pending' = pending \ {r}, req' = [req EXCEPT ![r] = s]
        PROVE  /\ req' \in [Requests -> ReqStates] /\ pending' \subseteq Requests
               /\ PendingIsRegistered' /\ Forward
    <3>1. req' \in [Requests -> ReqStates] /\ req'[r] = s /\ \A q \in Requests : q # r => req'[q] = req[q]
      BY <2>1, <2>3 DEF ReqStates
    <3>2. req[r] = "pending"
      BY <2>3 DEF WorkerInv, PendingIsRegistered
    <3>3. PendingIsRegistered'
      BY <1>1, <2>3, <3>1 DEF WorkerInv, PendingIsRegistered
    <3>4. Forward
      BY <3>1, <3>2 DEF Forward, NotSent, OnNetwork
    <3> QED
      BY <2>1, <2>3, <3>1, <3>3, <3>4
  <2> QED
    BY <1>3, <2>2, <2>3
<1>5. TypeOK'
  BY <1>1, <1>2, <1>4 DEF WorkerInv, TypeOK, ReqStates
<1> QED
  BY <1>1, <1>2, <1>4, <1>5, QuietStep, NoUpChange

\* A socket closes, whichever it was: what is pending fails.
LEMMA ClosedInv ==
    ASSUME WorkerInv, NEW c \in Conns, Closed(c)
    PROVE  WorkerInv'
<1>1. /\ conn' = None /\ key' = None /\ pending' = {} /\ link' = [link EXCEPT ![c] = "closed"]
      /\ down' = [down EXCEPT ![c] = <<>>]
      /\ UNCHANGED <<wait, used, timers, ws, kills, up, host, srvKey, gone, ran, netRan>>
  BY DEF Closed, serverVars
<1>2. /\ req \in [Requests -> ReqStates] /\ promise \in [Conns -> {"pending", "resolved", "rejected"}]
      /\ link \in [Conns -> LinkStates] /\ down \in [Conns -> Seq(DownMessages)]
  BY DEF WorkerInv, TypeOK, ReqStates, LinkStates
<1>3. /\ req' \in [Requests -> ReqStates] /\ promise' \in [Conns -> {"pending", "resolved", "rejected"}]
      /\ \A r \in Requests :
             /\ r \in pending => req'[r] = "failed"
             /\ req'[r] = req[r] \/ (req'[r] = "failed" /\ (req[r] = "waiting" \/ r \in pending))
  <2>1. PICK error \in BOOLEAN :
           LET over == {r \in Requests : error /\ req[r] = "waiting" /\ wait[r] = c}
           IN /\ req' = [r \in Requests |-> IF r \in pending \cup over THEN "failed" ELSE req[r]]
              /\ promise' = IF error /\ promise[c] = "pending"
                            THEN [promise EXCEPT ![c] = "rejected"] ELSE promise
    BY DEF Closed
  <2>2. req' \in [Requests -> ReqStates]
    BY <1>2, <2>1 DEF ReqStates
  <2>3. promise' \in [Conns -> {"pending", "resolved", "rejected"}]
    BY <1>2, <2>1
  <2> QED
    BY <2>1, <2>2, <2>3
<1>4. link' \in [Conns -> LinkStates]
  BY <1>1, <1>2 DEF LinkStates
<1>5. down' \in [Conns -> Seq(DownMessages)] /\ \A d \in Conns : down'[d] = down[d] \/ down'[d] = <<>>
  <2>1. <<>> \in Seq(DownMessages)
    OBVIOUS
  <2> QED
    BY <1>1, <1>2, <2>1
<1>6. TypeOK'
  BY <1>1, <1>3, <1>4, <1>5 DEF WorkerInv, TypeOK, ReqStates, LinkStates
<1>7. PendingIsRegistered'
  BY <1>1, <1>3 DEF WorkerInv, PendingIsRegistered
<1>8. Forward
  BY <1>3 DEF WorkerInv, PendingIsRegistered, Forward, NotSent, OnNetwork
<1>9. NoNewResponses
  BY <1>5 DEF NoNewResponses, WorkerInv, OneCopyOfARequest
<1> QED
  BY <1>1, <1>6, <1>7, <1>8, <1>9, QuietStep, NoUpChange

\* The timer, and the network's answer.
LEMMA TimeoutInv ==
    ASSUME WorkerInv, NEW r \in Requests, Timeout(r) \/ NetworkAnswers(r)
    PROVE  WorkerInv'
<1>1. /\ pending' \subseteq pending /\ timers' \subseteq timers
      /\ UNCHANGED <<wait, used, ws, conn, key, link, promise, kills, up, down, host, srvKey, gone, ran, netRan>>
  BY DEF Timeout, NetworkAnswers, serverVars
<1>2. req \in [Requests -> ReqStates]
  BY DEF WorkerInv, TypeOK, ReqStates
<1>3. req' \in [Requests -> ReqStates] /\ PendingIsRegistered' /\ Forward
  <2>1. CASE Timeout(r)
    <3>1. /\ timers' = timers \ {r} /\ pending' = pending \ {r}
          /\ req' = IF r \in pending THEN [req EXCEPT ![r] = "failed"] ELSE req
      BY <2>1 DEF Timeout
    <3>2. /\ req' \in [Requests -> ReqStates]
          /\ r \in pending => req[r] = "pending" /\ req'[r] = "failed"
          /\ \A q \in Requests : req'[q] # req[q] => q = r /\ r \in pending
      BY <1>2, <3>1 DEF ReqStates, WorkerInv, PendingIsRegistered
    <3>3. PendingIsRegistered'
      BY <1>1, <3>1, <3>2 DEF WorkerInv, PendingIsRegistered
    <3> QED
      BY <3>2, <3>3 DEF Forward, NotSent, OnNetwork
  <2>2. CASE NetworkAnswers(r)
    <3>1. PICK s \in {"fallback", "error"} : req[r] = "network" /\ req' = [req EXCEPT ![r] = s]
      BY <2>2 DEF NetworkAnswers
    <3>2. UNCHANGED <<pending, timers>>
      BY <2>2 DEF NetworkAnswers
    <3>3. req' \in [Requests -> ReqStates] /\ req'[r] = s /\ \A q \in Requests : q # r => req'[q] = req[q]
      BY <1>2, <3>1 DEF ReqStates
    <3> QED
      BY <1>1, <3>1, <3>2, <3>3 DEF WorkerInv, PendingIsRegistered, Forward, NotSent, OnNetwork
  <2> QED
    BY <2>1, <2>2
<1>4. TypeOK'
  BY <1>1, <1>3 DEF WorkerInv, TypeOK, ReqStates
<1> QED
  BY <1>1, <1>3, <1>4, QuietStep, NoUpChange, NoDownChange

\* The browser ends the worker; what was under way at the server goes on.
LEMMA KilledInv ==
    ASSUME WorkerInv, Killed
    PROVE  WorkerInv'
<1>1. /\ pending' = {} /\ timers' = {} /\ ws' = None /\ conn' = None /\ key' = None
      /\ UNCHANGED <<wait, used, promise, up, host, srvKey, gone, ran, netRan>>
  BY DEF Killed, serverVars
<1>2. req \in [Requests -> ReqStates] /\ link \in [Conns -> LinkStates]
  BY DEF WorkerInv, TypeOK, ReqStates, LinkStates
<1>3. /\ req' \in [Requests -> ReqStates]
      /\ \A r \in Requests :
            /\ req[r] = "pending" => req'[r] = "error"
            /\ req'[r] = req[r] \/ req'[r] = "error"
  BY <1>2 DEF Killed, ReqStates
<1>4. link' \in [Conns -> LinkStates] /\ kills' \in 0..MaxKills
  BY <1>2, ConnFacts DEF Killed, LinkStates, WorkerInv, TypeOK
<1>5. down' \in [Conns -> Seq(DownMessages)] /\ \A c \in Conns : down'[c] = <<>>
  BY DEF Killed
<1>6. TypeOK'
  BY <1>1, <1>3, <1>4, <1>5 DEF WorkerInv, TypeOK, ReqStates, LinkStates
<1>7. PendingIsRegistered'
  BY <1>1, <1>3 DEF WorkerInv, PendingIsRegistered
<1>8. Forward
  BY <1>3 DEF Forward, NotSent, OnNetwork
<1>9. NoNewResponses
  BY <1>5 DEF NoNewResponses
<1> QED
  BY <1>1, <1>6, <1>7, <1>8, <1>9, QuietStep, NoUpChange

\* A request that failed goes to the network: it has not been there.
LEMMA FallbackInv ==
    ASSUME WorkerInv, NEW r \in Requests, Fallback(r)
    PROVE  WorkerInv'
<1>1. /\ req \in [Requests -> ReqStates] /\ netRan \in [Requests -> Nat]
      /\ req[r] = "failed" /\ netRan[r] = 0
  <2>1. req \in [Requests -> ReqStates] /\ netRan \in [Requests -> Nat] /\ req[r] = "failed"
    BY DEF WorkerInv, TypeOK, ReqStates, Fallback
  <2>2. netRan[r] \in Nat /\ netRan[r] <= 1 /\ netRan[r] # 1
    BY <2>1 DEF WorkerInv, NoDowngradeOfAnswered
  <2> QED
    BY <2>1, <2>2
<1>2. UNCHANGED <<wait, used, pending, timers, ws, conn, key, link, promise, kills, up, down, host, srvKey, gone, ran>>
  BY DEF Fallback, serverVars
<1>3. /\ req' \in [Requests -> ReqStates] /\ req'[r] \in {"error", "network"}
      /\ \A q \in Requests : q # r => req'[q] = req[q]
  BY <1>1 DEF Fallback, ReqStates
<1>4. /\ netRan' \in [Requests -> Nat] /\ netRan'[r] \in {0, 1}
      /\ \A q \in Requests : q # r => netRan'[q] = netRan[q]
  BY <1>1 DEF Fallback
<1>5. TypeOK'
  BY <1>2, <1>3, <1>4 DEF WorkerInv, TypeOK, ReqStates
<1>6. PendingIsRegistered'
  BY <1>1, <1>2, <1>3 DEF WorkerInv, PendingIsRegistered
<1>7. NoDowngradeOfAnswered'
  BY <1>3, <1>4 DEF WorkerInv, NoDowngradeOfAnswered
<1>8. OneCopyOfARequest'
  BY <1>1, <1>2, <1>3 DEF WorkerInv, OneCopyOfARequest, IsRequest, NotSent
<1> QED
  BY <1>5, <1>6, <1>7, <1>8 DEF WorkerInv

\* A request is sent: no copy of it has been under way before.
LEMMA SendInv ==
    ASSUME WorkerInv, NEW r \in Requests, req[r] \in {"ready", "body"}, Send(r),
           UNCHANGED <<wait, used, ws, conn, key, link, promise, kills, down, serverVars, netRan>>
    PROVE  WorkerInv'
<1>0. UNCHANGED <<host, srvKey, gone, ran>>
  BY DEF serverVars
<1>1. /\ req \in [Requests -> ReqStates] /\ up \in [Conns -> Seq(UpMessages)]
      /\ {ws, key} \subseteq Conns \cup {None}
  BY DEF WorkerInv, TypeOK, ReqStates
<1>2. CASE req' = [req EXCEPT ![r] = "failed"] /\ UNCHANGED <<pending, timers, up>>
  <2>1. req' \in [Requests -> ReqStates] /\ req'[r] = "failed" /\ \A q \in Requests : q # r => req'[q] = req[q]
    BY <1>1, <1>2 DEF ReqStates
  <2>2. TypeOK'
    BY <1>0, <1>2, <2>1 DEF WorkerInv, TypeOK, ReqStates
  <2>3. PendingIsRegistered' /\ Forward
    BY <1>0, <1>2, <2>1 DEF WorkerInv, PendingIsRegistered, Forward, NotSent, OnNetwork
  <2> QED
    BY <1>0, <1>2, <2>2, <2>3, QuietStep, NoUpChange, NoDownChange
<1>3. CASE /\ key # None
           /\ req' = [req EXCEPT ![r] = "pending"]
           /\ pending' = pending \cup {r} /\ timers' = timers \cup {r}
           /\ up' = IF WsIs("open") THEN [up EXCEPT ![ws] = Append(@, HttpRequest(r))] ELSE up
  <2>1. req' \in [Requests -> ReqStates] /\ req'[r] = "pending" /\ \A q \in Requests : q # r => req'[q] = req[q]
    BY <1>1, <1>3 DEF ReqStates
  <2>2. /\ up' \in [Conns -> Seq(UpMessages)]
        /\ \E last \in Conns \X Nat :
              \A q \in Requests, d \in Conns : \A i \in DOMAIN up'[d] : IsRequest(d, i, q)' =>
                 \/ i \in DOMAIN up[d] /\ IsRequest(d, i, q)
                 \/ q = r /\ d = last[1] /\ i = last[2]
    <3>1. CASE WsIs("open") /\ up' = [up EXCEPT ![ws] = Append(@, HttpRequest(r))]
      <4>1. ws \in Conns /\ HttpRequest(r) \in UpMessages /\ HttpRequest(r).id = r
        BY <1>1, <1>3, <3>1 DEF WsIs, HttpRequest, UpMessages
      <4>2. up'[ws] = Append(up[ws], HttpRequest(r)) /\ \A d \in Conns : d # ws => up'[d] = up[d]
        BY <1>1, <3>1, <4>1
      <4>3. up' \in [Conns -> Seq(UpMessages)]
        BY <1>1, <3>1, <4>1, AppendFacts
      <4>4. Len(up[ws]) + 1 \in Nat
        BY <1>1, <4>1
      <4>5. \A q \in Requests, d \in Conns : \A i \in DOMAIN up'[d] : IsRequest(d, i, q)' =>
               \/ i \in DOMAIN up[d] /\ IsRequest(d, i, q)
               \/ q = r /\ d = ws /\ i = Len(up[ws]) + 1
        <5>1. \A i \in DOMAIN up'[ws] :
                 \/ i \in DOMAIN up[ws] /\ up'[ws][i] = up[ws][i]
                 \/ i = Len(up[ws]) + 1 /\ up'[ws][i] = HttpRequest(r)
          BY <1>1, <4>1, <4>2, AppendFacts
        <5> QED
          BY <4>1, <4>2, <5>1 DEF IsRequest
      <4>6. <<ws, Len(up[ws]) + 1>> \in Conns \X Nat
        BY <4>1, <4>4
      <4> QED
        BY <4>3, <4>5, <4>6
    <3>2. CASE up' = up
      <4>1. <<1, 1>> \in Conns \X Nat
        BY ConnsAssumption DEF Conns
      <4> QED
        BY <1>1, <3>2, <4>1 DEF IsRequest
    <3> QED
      BY <1>3, <3>1, <3>2
  <2>3. PICK last \in Conns \X Nat :
           \A q \in Requests, d \in Conns : \A i \in DOMAIN up'[d] : IsRequest(d, i, q)' =>
              \/ i \in DOMAIN up[d] /\ IsRequest(d, i, q)
              \/ q = r /\ d = last[1] /\ i = last[2]
    BY <2>2
  <2>4. ran[r] = 0 /\ \A d \in Conns : \A i \in DOMAIN up[d] : ~IsRequest(d, i, r)
    BY DEF WorkerInv, OneCopyOfARequest, NotSent
  <2>5. TypeOK'
    BY <1>0, <1>3, <2>1, <2>2 DEF WorkerInv, TypeOK, ReqStates
  <2>6. PendingIsRegistered'
    BY <1>0, <1>3, <2>1 DEF WorkerInv, PendingIsRegistered
  <2>7. NoDowngradeOfAnswered'
    BY <2>1 DEF WorkerInv, NoDowngradeOfAnswered
  <2>8. OneCopyOfARequest'
    <3>1. \A q \in Requests : /\ ran'[q] \in {0, 1}
                              /\ req'[q] \in NotSent => ran'[q] = 0
      BY <1>0, <2>1 DEF WorkerInv, OneCopyOfARequest, NotSent
    <3>2. \A q \in Requests, c \in Conns : \A i \in DOMAIN up'[c] : IsRequest(c, i, q)' =>
             /\ ran'[q] = 0 /\ req'[q] \notin NotSent
             /\ \A d \in Conns : \A j \in DOMAIN up'[d] : IsRequest(d, j, q)' => d = c /\ j = i
      BY <1>0, <2>1, <2>3, <2>4 DEF WorkerInv, OneCopyOfARequest, NotSent
    <3> QED
      BY <1>0, <3>1, <3>2 DEF WorkerInv, OneCopyOfARequest
  <2> QED
    BY <2>5, <2>6, <2>7, <2>8 DEF WorkerInv
<1> QED
  BY <1>2, <1>3 DEF Send

LEMMA ResumeInv ==
    ASSUME WorkerInv, NEW r \in Requests, Resume(r) \/ BodyRead(r)
    PROVE  WorkerInv'
<1>1. CASE /\ req[r] \in {"ready", "body"} /\ Send(r)
           /\ UNCHANGED <<wait, used, ws, conn, key, link, promise, kills, down, serverVars, netRan>>
  BY <1>1, SendInv
<1>2. CASE \E s \in {"body", "failed"} :
              /\ req[r] \in {"ready", "body"} /\ (s = "body" => r \in Posts)
              /\ req' = [req EXCEPT ![r] = s] /\ used' \in {used, used \cup {r}}
              /\ s = "failed" => used' = used
              /\ UNCHANGED <<pending, timers, up>>
              /\ UNCHANGED <<wait, ws, conn, key, link, promise, kills, down, serverVars, netRan>>
  <2>1. PICK s \in {"body", "failed"} :
              /\ s = "body" => r \in Posts
              /\ req' = [req EXCEPT ![r] = s] /\ used' \in {used, used \cup {r}}
              /\ s = "failed" => used' = used
    BY <1>2
  <2>2. /\ req[r] \in {"ready", "body"}
        /\ UNCHANGED <<pending, timers, up, wait, ws, conn, key, link, promise, kills, down, host, srvKey, gone, ran, netRan>>
    BY <1>2 DEF serverVars
  <2>3. req' \in [Requests -> ReqStates] /\ req'[r] = s /\ \A q \in Requests : q # r => req'[q] = req[q]
    BY <2>1 DEF WorkerInv, TypeOK, ReqStates
  <2>4. used' \subseteq Posts
    BY <2>1 DEF WorkerInv, TypeOK
  <2>5. TypeOK'
    BY <2>2, <2>3, <2>4 DEF WorkerInv, TypeOK, ReqStates
  <2>6. PendingIsRegistered' /\ Forward
    BY <2>2, <2>3 DEF WorkerInv, PendingIsRegistered, Forward, NotSent, OnNetwork
  <2> QED
    BY <2>2, <2>5, <2>6, QuietStep, NoUpChange, NoDownChange
<1>3. CASE Resume(r)
  BY <1>1, <1>2, <1>3 DEF Resume
<1>4. CASE BodyRead(r)
  BY <1>1, <1>2, <1>4 DEF BodyRead
<1> QED
  BY <1>3, <1>4

\* The server takes a message: a request it hands to the application was the only copy.
LEMMA ServerReceivesInv ==
    ASSUME WorkerInv, NEW c \in Conns, ServerReceives(c)
    PROVE  WorkerInv'
<1> DEFINE m == Head(up[c])
<1>1. /\ up \in [Conns -> Seq(UpMessages)] /\ up[c] # <<>>
      /\ up' = [up EXCEPT ![c] = Tail(@)]
      /\ UNCHANGED <<req, wait, used, pending, timers, ws, conn, key, link, promise, kills, host, gone, netRan>>
  BY DEF ServerReceives, WorkerInv, TypeOK, workerVars
<1>2. up'[c] = Tail(up[c]) /\ \A d \in Conns : d # c => up'[d] = up[d]
  BY <1>1
<1>3. m \in UpMessages /\ 1 \in DOMAIN up[c] /\ m = up[c][1]
  BY <1>1, TailFacts
<1>4. up' \in [Conns -> Seq(UpMessages)]
  BY <1>1, TailFacts
<1>5. \A r \in Requests, d \in Conns : \A i \in DOMAIN up'[d] : IsRequest(d, i, r)' =>
          /\ d # c => i \in DOMAIN up[d] /\ IsRequest(d, i, r)
          /\ d = c => i + 1 \in DOMAIN up[d] /\ IsRequest(d, i + 1, r) /\ i + 1 # 1 /\ i \in Nat
  BY <1>1, <1>2, TailFacts DEF IsRequest
<1>6. NoDowngradeOfAnswered'
  BY <1>1 DEF WorkerInv, NoDowngradeOfAnswered
<1>7. /\ srvKey \in [Conns -> Conns \cup {None}] /\ ran \in [Requests -> Nat]
      /\ down \in [Conns -> Seq(DownMessages)]
  BY DEF WorkerInv, TypeOK
<1>8. CASE ran' = ran /\ down' = down
  <2>1. m.key \in Conns
    BY <1>3 DEF UpMessages
  <2>2. srvKey' \in {srvKey, [srvKey EXCEPT ![c] = m.key]}
    BY DEF ServerReceives
  <2>3. srvKey' \in [Conns -> Conns \cup {None}]
    BY <1>7, <2>1, <2>2
  <2>4. TypeOK'
    BY <1>1, <1>4, <1>8, <2>3 DEF WorkerInv, TypeOK
  <2>5. \A r \in Requests, e \in Conns : \A i \in DOMAIN up'[e] : IsRequest(e, i, r)' =>
           /\ ran'[r] = 0 /\ req'[r] \notin NotSent
           /\ \A d \in Conns : \A j \in DOMAIN up'[d] : IsRequest(d, j, r)' => d = e /\ j = i
    BY <1>1, <1>5, <1>8 DEF WorkerInv, OneCopyOfARequest
  <2>6. OneCopyOfARequest'
    BY <1>1, <1>8, <2>5 DEF WorkerInv, OneCopyOfARequest
  <2>7. PendingIsRegistered'
    BY <1>1, <1>8 DEF WorkerInv, PendingIsRegistered
  <2> QED
    BY <1>6, <2>4, <2>6, <2>7 DEF WorkerInv
<1>9. CASE /\ m.type = "http_request"
           /\ ran' = [ran EXCEPT ![m.id] = @ + 1]
           /\ \E kind \in Kinds :
                 down' = IF link[c] = "closed" THEN down
                         ELSE [down EXCEPT ![c] = Append(@, HttpResponse(m.id, m.key, kind))]
           /\ UNCHANGED srvKey
  <2>1. PICK q \in Requests : q = m.id
    BY <1>3, <1>9 DEF UpMessages
  <2>2. m.key \in Conns
    BY <1>3 DEF UpMessages
  <2>3. IsRequest(c, 1, q)
    BY <1>3, <1>9, <2>1 DEF IsRequest
  <2>4. /\ ran[q] = 0 /\ req[q] \notin NotSent
        /\ \A d \in Conns : \A j \in DOMAIN up[d] : IsRequest(d, j, q) => d = c /\ j = 1
    BY <1>3, <2>3 DEF WorkerInv, OneCopyOfARequest
  <2>5. ran' \in [Requests -> Nat] /\ ran'[q] = 1 /\ \A r \in Requests : r # q => ran'[r] = ran[r]
    BY <1>7, <1>9, <2>1, <2>4
  <2>6. PICK kind \in Kinds : \/ down' = down
                             \/ down' = [down EXCEPT ![c] = Append(@, HttpResponse(q, m.key, kind))]
    BY <1>9, <2>1
  <2> DEFINE resp == HttpResponse(q, m.key, kind)
  <2>7. resp \in DownMessages /\ resp.id = q
    BY <2>2 DEF HttpResponse, DownMessages
  <2> HIDE DEF m, resp
  <2>8. /\ down' \in [Conns -> Seq(DownMessages)]
        /\ \A d \in Conns : \A i \in DOMAIN down'[d] :
              (i \in DOMAIN down[d] /\ down'[d][i] = down[d][i]) \/ down'[d][i] = resp
    <3>1. CASE down' = down
      BY <1>7, <3>1
    <3>2. CASE down' = [down EXCEPT ![c] = Append(@, resp)]
      <4>1. down'[c] = Append(down[c], resp) /\ \A d \in Conns : d # c => down'[d] = down[d]
        BY <1>7, <3>2
      <4>2. down' \in [Conns -> Seq(DownMessages)]
        BY <1>7, <2>7, <3>2, AppendFacts
      <4>3. \A i \in DOMAIN down'[c] : (i \in DOMAIN down[c] /\ down'[c][i] = down[c][i]) \/ down'[c][i] = resp
        BY <1>7, <2>7, <4>1, AppendFacts
      <4> QED
        BY <4>1, <4>2, <4>3
    <3> QED
      BY <2>6, <3>1, <3>2 DEF resp
  <2>9. TypeOK'
    BY <1>1, <1>4, <1>9, <2>5, <2>8 DEF WorkerInv, TypeOK
  <2>10. \A d \in Conns : \A i \in DOMAIN up'[d] : ~IsRequest(d, i, q)'
    BY <1>5, <2>4
  <2>11. OneCopyOfARequest'
    <3>1. \A r \in Requests : /\ ran'[r] \in {0, 1}
                              /\ req'[r] \in NotSent => ran'[r] = 0
      BY <1>1, <2>4, <2>5 DEF WorkerInv, OneCopyOfARequest
    <3>2. \A r \in Requests, e \in Conns : \A i \in DOMAIN up'[e] : IsRequest(e, i, r)' =>
             /\ ran'[r] = 0 /\ req'[r] \notin NotSent
             /\ \A d \in Conns : \A j \in DOMAIN up'[d] : IsRequest(d, j, r)' => d = e /\ j = i
      <4> SUFFICES ASSUME NEW r \in Requests, NEW e \in Conns, NEW i \in DOMAIN up'[e], IsRequest(e, i, r)'
                   PROVE  /\ ran'[r] = 0 /\ req'[r] \notin NotSent
                          /\ \A d \in Conns : \A j \in DOMAIN up'[d] : IsRequest(d, j, r)' => d = e /\ j = i
        OBVIOUS
      <4>1. r # q
        BY <2>10
      <4>2. ran[r] = 0 /\ req[r] \notin NotSent
        BY <1>5 DEF WorkerInv, OneCopyOfARequest
      <4>3. ASSUME NEW d \in Conns, NEW j \in DOMAIN up'[d], IsRequest(d, j, r)'
            PROVE  d = e /\ j = i
        BY <1>5, <4>3 DEF WorkerInv, OneCopyOfARequest
      <4> QED
        BY <1>1, <2>5, <4>1, <4>2, <4>3
    <3>3. \A d \in Conns : \A i \in DOMAIN down'[d] :
             down'[d][i].type = "http_response" => ran'[down'[d][i].id] = 1
      <4> SUFFICES ASSUME NEW d \in Conns, NEW i \in DOMAIN down'[d], down'[d][i].type = "http_response"
                   PROVE  ran'[down'[d][i].id] = 1
        OBVIOUS
      <4>1. CASE down'[d][i] = resp
        BY <2>5, <2>7, <4>1
      <4>2. CASE i \in DOMAIN down[d] /\ down'[d][i] = down[d][i]
        <5>1. down[d][i] \in DownMessages /\ down[d][i].type = "http_response"
          BY <1>7, <4>2
        <5>2. down[d][i].id \in Requests
          BY <5>1 DEF DownMessages, ServerKx
        <5>3. ran[down[d][i].id] = 1
          BY <4>2, <5>1 DEF WorkerInv, OneCopyOfARequest
        <5> QED
          BY <2>4, <2>5, <4>2, <5>2, <5>3
      <4> QED
        BY <2>8, <4>1, <4>2
    <3> QED
      BY <3>1, <3>2, <3>3 DEF OneCopyOfARequest
  <2>12. PendingIsRegistered'
    BY <1>1, <2>4, <2>5 DEF WorkerInv, PendingIsRegistered
  <2> QED
    BY <1>6, <2>9, <2>11, <2>12 DEF WorkerInv
<1> QED
  BY <1>8, <1>9 DEF ServerReceives

LEMMA WorkerNextInv == WorkerInv /\ [Next]_vars => WorkerInv'
<1> SUFFICES ASSUME WorkerInv, [Next]_vars PROVE WorkerInv'
  OBVIOUS
<1>1. CASE Next
  BY <1>1, KilledInv, FetchEventInv, ResumeInv, TimeoutInv, FallbackInv, SocketInv, ClosedInv,
     ServerKxArrivesInv, ResponseArrivesInv, ServerReceivesInv DEF Next
<1>2. CASE UNCHANGED vars
  BY <1>2 DEF vars, workerVars, serverVars, WorkerInv, TypeOK, PendingIsRegistered, OneCopyOfARequest,
     IsRequest, NoDowngradeOfAnswered
<1> QED
  BY <1>1, <1>2

\* WorkerInv in every state: a request goes out once, and to the network only after
\* the tunnel has given it up, for any number of requests, sockets and ends of the
\* worker.
THEOREM RequestsLeaveOnce == Spec => []WorkerInv
BY WorkerInitInv, WorkerNextInv, PTL DEF Spec

-----------------------------------------------------------------------------
(***************************************************************************)
(* tunnelFetch implements FetchContract.                                   *)
(***************************************************************************)

Active == {"waiting", "ready", "body", "pending", "stranded"}
Rejected == {"failed", "network", "fallback", "error"}

\* What a state says of the promise that the page holds.
LEMMA OutcomeOf ==
    ASSUME TypeOK, NEW r \in Requests
    PROVE  /\ Outcome[r] = "idle" <=> req[r] = "idle"
           /\ Outcome[r] = "active" <=> req[r] \in Active
           /\ Outcome[r] = "resolved" <=> req[r] = "answered"
           /\ Outcome[r] = "rejected" <=> req[r] \in Rejected
BY DEF TypeOK, Outcome, Active, Rejected

\* Requests that go on, or are given up, are a step that rejects those given up.
LEMMA OnlyRejects ==
    ASSUME TypeOK, TypeOK', ran' = ran,
           \A r \in Requests : \/ req'[r] = req[r]
                               \/ req[r] \in Active /\ req'[r] \in Active \cup Rejected
                               \/ req[r] \in Rejected /\ req'[r] \in Rejected
    PROVE  Contract!ContractNext
<1> DEFINE R == {r \in Requests : req[r] \in Active /\ req'[r] \in Rejected}
<1>1. \A r \in R : Outcome[r] = "active"
  BY OutcomeOf
<1>2. \A r \in Requests : Outcome'[r] = IF r \in R THEN "rejected" ELSE Outcome[r]
  BY DEF TypeOK, Outcome, Active, Rejected
<1>3. Outcome' = [r \in Requests |-> IF r \in R THEN "rejected" ELSE Outcome[r]]
  BY <1>2 DEF Outcome
<1>4. Contract!Reject(R)
  BY <1>1, <1>3 DEF Contract!Reject
<1> QED
  BY <1>4 DEF Contract!ContractNext

LEMMA BeginStep ==
    ASSUME WorkerInv, NEW r \in Requests, FetchEvent(r)
    PROVE  Contract!ContractNext
<1>1. /\ req[r] = "idle" /\ ran' = ran
      /\ \E s \in {"ready", "waiting"} : req' = [req EXCEPT ![r] = s]
  BY DEF FetchEvent, serverVars
<1>2. DOMAIN req = Requests
  BY DEF WorkerInv, TypeOK
<1>3. Outcome[r] = "idle" /\ Outcome' = [Outcome EXCEPT ![r] = "active"]
  BY <1>1, <1>2 DEF Outcome
<1>4. Contract!Begin(r)
  BY <1>1, <1>3 DEF Contract!Begin
<1> QED
  BY <1>4 DEF Contract!ContractNext

\* The application is given a request: it has not been before.
LEMMA ServeStep ==
    ASSUME WorkerInv, NEW c \in Conns, ServerReceives(c)
    PROVE  Contract!ContractNext
<1> DEFINE m == Head(up[c])
<1>0. TypeOK /\ TypeOK'
  BY ServerReceivesInv DEF WorkerInv
<1>1. req' = req
  BY DEF ServerReceives, workerVars
<1>2. CASE ran' = ran
  BY <1>0, <1>1, <1>2, OnlyRejects
<1>3. CASE m.type = "http_request" /\ ran' = [ran EXCEPT ![m.id] = @ + 1]
  <2>1. up[c] \in Seq(UpMessages) /\ up[c] # <<>>
    BY DEF WorkerInv, TypeOK, ServerReceives
  <2>2. m \in UpMessages /\ 1 \in DOMAIN up[c] /\ m = up[c][1]
    BY <2>1, TailFacts
  <2>3. PICK q \in Requests : q = m.id
    BY <1>3, <2>2 DEF UpMessages
  <2>4. IsRequest(c, 1, q)
    BY <1>3, <2>2, <2>3 DEF IsRequest
  <2>5. ran[q] = 0 /\ req[q] # "idle"
    BY <2>2, <2>4 DEF WorkerInv, OneCopyOfARequest, NotSent
  <2>6. ran' = [ran EXCEPT ![q] = 1]
    BY <1>3, <2>3, <2>5
  <2>7. Outcome' = Outcome /\ Outcome[q] # "idle"
    BY <1>1, <2>5 DEF Outcome
  <2>8. Contract!Serve(q)
    BY <2>5, <2>6, <2>7 DEF Contract!Serve
  <2> QED
    BY <2>8 DEF Contract!ContractNext
<1> QED
  BY <1>2, <1>3 DEF ServerReceives

\* A response settles the request it names: the application made it for that request.
LEMMA ResponseStep ==
    ASSUME WorkerInv, NEW c \in Conns, ResponseArrives(c)
    PROVE  Contract!ContractNext
<1> DEFINE m == Head(down[c])
<1>0. TypeOK /\ TypeOK' /\ ran' = ran
  BY ResponseArrivesInv DEF WorkerInv, ResponseArrives, serverVars
<1>1. CASE m.id \in pending /\ req' = [req EXCEPT ![m.id] = "answered"]
  <2>1. PICK q \in Requests : q = m.id
    BY <1>0, <1>1 DEF TypeOK
  <2>2. down[c] \in Seq(DownMessages) /\ down[c] # <<>> /\ m.type = "http_response"
    BY DEF WorkerInv, TypeOK, ResponseArrives
  <2>3. 1 \in DOMAIN down[c] /\ m = down[c][1]
    BY <2>2, TailFacts
  <2>4. ran[q] = 1
    BY <2>1, <2>2, <2>3 DEF WorkerInv, OneCopyOfARequest
  <2>5. req[q] = "pending"
    BY <1>1, <2>1 DEF WorkerInv, PendingIsRegistered
  <2>6. req' = [req EXCEPT ![q] = "answered"] /\ DOMAIN req = Requests
    BY <1>0, <1>1, <2>1 DEF TypeOK
  <2>7. Outcome[q] = "active" /\ Outcome' = [Outcome EXCEPT ![q] = "resolved"]
    BY <2>5, <2>6 DEF Outcome
  <2>8. Contract!Resolve(q)
    BY <1>0, <2>4, <2>7 DEF Contract!Resolve
  <2> QED
    BY <2>8 DEF Contract!ContractNext
<1>2. CASE \/ req' = req
           \/ m.id \in pending /\ \E s \in {"failed", "stranded"} : req' = [req EXCEPT ![m.id] = s]
  <2>1. \A r \in Requests : req'[r] = req[r] \/ (req[r] = "pending" /\ req'[r] \in {"failed", "stranded"})
    BY <1>0, <1>2 DEF TypeOK, WorkerInv, PendingIsRegistered
  <2> QED
    BY <1>0, <2>1, OnlyRejects DEF Active, Rejected
<1>3. m.kind \in Kinds
  <2>1. m \in DownMessages /\ m.type = "http_response"
    BY TailOfDown DEF ResponseArrives
  <2> QED
    BY <2>1 DEF DownMessages, ServerKx
<1> QED
  BY <1>1, <1>2, <1>3 DEF ResponseArrives, Effect, Kinds

LEMMA ContractSimulation ==
    WorkerInv /\ [Next]_vars => [Contract!ContractNext]_Contract!contractVars
<1> SUFFICES ASSUME WorkerInv, [Next]_vars
             PROVE  Contract!ContractNext \/ UNCHANGED Contract!contractVars
  OBVIOUS
<1>1. TypeOK /\ TypeOK' /\ req \in [Requests -> ReqStates]
  BY WorkerNextInv DEF WorkerInv, TypeOK, ReqStates
<1>2. CASE UNCHANGED vars
  BY <1>2 DEF vars, workerVars, serverVars, Contract!contractVars, Outcome
<1>3. ASSUME NEW c \in Conns, Opened(c) \/ CloseFrame(c) \/ Announces(c) \/ ServerCloses(c)
      PROVE  Contract!ContractNext
  <2>1. req' = req /\ ran' = ran
    BY <1>3 DEF Opened, CloseFrame, Announces, ServerCloses, workerVars, serverVars
  <2> QED
    BY <1>1, <2>1, OnlyRejects
<1>4. ASSUME NEW c \in Conns, ServerKxArrives(c)
      PROVE  Contract!ContractNext
  <2>1. ran' = ran /\ \A r \in Requests : req'[r] = req[r] \/ (req[r] = "waiting" /\ req'[r] \in {"ready", "failed"})
    BY <1>4 DEF ServerKxArrives, SettleConn, serverVars
  <2> QED
    BY <1>1, <2>1, OnlyRejects DEF Active, Rejected
<1>5. ASSUME NEW c \in Conns, Closed(c)
      PROVE  Contract!ContractNext
  <2>1. ran' = ran /\ \A r \in Requests : req'[r] = req[r] \/ (req'[r] = "failed" /\ (req[r] = "waiting" \/ r \in pending))
    BY <1>5 DEF Closed, serverVars
  <2>2. \A r \in Requests : r \in pending => req[r] = "pending"
    BY DEF WorkerInv, PendingIsRegistered
  <2> QED
    BY <1>1, <2>1, <2>2, OnlyRejects DEF Active, Rejected
<1>6. ASSUME NEW r \in Requests, Resume(r) \/ BodyRead(r)
      PROVE  Contract!ContractNext
  <2>1. /\ ran' = ran /\ req[r] \in {"ready", "body"}
        /\ \E s \in {"body", "pending", "failed"} : req' = [req EXCEPT ![r] = s]
    BY <1>6 DEF Resume, BodyRead, Send, serverVars
  <2>2. \A q \in Requests : req'[q] = req[q] \/ (q = r /\ req'[q] \in {"body", "pending", "failed"})
    BY <1>1, <2>1
  <2> QED
    BY <1>1, <2>1, <2>2, OnlyRejects DEF Active, Rejected
<1>7. ASSUME NEW r \in Requests, Timeout(r)
      PROVE  Contract!ContractNext
  <2>1. ran' = ran /\ \A q \in Requests : req'[q] = req[q] \/ (req[q] = "pending" /\ req'[q] = "failed")
    BY <1>1, <1>7 DEF Timeout, serverVars, WorkerInv, PendingIsRegistered
  <2> QED
    BY <1>1, <2>1, OnlyRejects DEF Active, Rejected
<1>8. ASSUME NEW r \in Requests, Fallback(r) \/ NetworkAnswers(r)
      PROVE  Contract!ContractNext
  <2>1. /\ ran' = ran /\ req[r] \in {"failed", "network"}
        /\ \E s \in {"error", "network", "fallback"} : req' = [req EXCEPT ![r] = s]
    BY <1>8 DEF Fallback, NetworkAnswers, serverVars
  <2>2. \A q \in Requests : req'[q] = req[q] \/ (q = r /\ req'[q] \in {"error", "network", "fallback"})
    BY <1>1, <2>1
  <2> QED
    BY <1>1, <2>1, <2>2, OnlyRejects DEF Active, Rejected
<1>9. CASE Killed
  <2>1. /\ ran' = ran
        /\ \A r \in Requests : \/ req'[r] = req[r]
                               \/ req[r] \in {"waiting", "body", "pending", "stranded", "network"} /\ req'[r] = "error"
    BY <1>9 DEF Killed, serverVars
  <2> QED
    BY <1>1, <2>1, OnlyRejects DEF Active, Rejected
<1> QED
  BY <1>2, <1>3, <1>4, <1>5, <1>6, <1>7, <1>8, <1>9, BeginStep, ServeStep, ResponseStep DEF Next

\* tunnelFetch keeps the contract of fetch: the tunnel hands a request to the
\* application at most once and resolves it only with a response made for it,
\* whichever sockets' handlers overwrite each other's key.
THEOREM WorkerKeepsContract == Spec => ImplementsContract
<1>1. Init => Contract!ContractInit
  BY DEF Init, Contract!ContractInit, Outcome
<1>2. WorkerInv /\ [Next]_vars => [Contract!ContractNext]_Contract!contractVars
  BY ContractSimulation
<1> QED
  BY <1>1, <1>2, RequestsLeaveOnce, PTL DEF Spec, ImplementsContract, Contract!ContractSpec
=============================================================================
