------------------------- MODULE TunnelFetchProofs -------------------------
(***************************************************************************)
(* TLAPS proofs about TunnelFetch, for any number of calls and of          *)
(* connections: no call waits for what cannot come, and fetch implements   *)
(* FetchContract.                                                          *)
(***************************************************************************)
EXTENDS TunnelFetch, TLAPS

\* What Append does to a queue of messages.
LEMMA AppendFacts ==
    ASSUME NEW S, NEW q \in Seq(S), NEW e \in S
    PROVE  /\ Append(q, e) \in Seq(S)
           /\ DOMAIN q = 1..Len(q) /\ Len(q) \in Nat
           /\ DOMAIN Append(q, e) = 1..(Len(q) + 1)
           /\ \A i \in DOMAIN q : i # Len(q) + 1 /\ Append(q, e)[i] = q[i]
           /\ Append(q, e)[Len(q) + 1] = e
OBVIOUS

\* What Head and Tail do to a queue of messages.
LEMMA TailFacts ==
    ASSUME NEW S, NEW q \in Seq(S), q # <<>>
    PROVE  /\ Tail(q) \in Seq(S)
           /\ DOMAIN q = 1..Len(q) /\ Len(q) \in Nat
           /\ 1 \in DOMAIN q /\ Head(q) = q[1] /\ Head(q) \in S
           /\ \A i \in DOMAIN Tail(q) : i \in Nat /\ i + 1 \in DOMAIN q /\ i + 1 # 1
           /\ \A i \in DOMAIN Tail(q) : Tail(q)[i] = q[i + 1]
OBVIOUS

\* What FetchInv says of the calls that await a response.
CallParts ==
    /\ ClosedLeavesNothingPending
    /\ PendingHasTimer
    /\ PendingIsRegistered
    /\ PendingOnLiveConnection

\* A step that strands no call and takes back no answer keeps StrandedWasAnswered.
LEMMA StrandedKept ==
    ASSUME StrandedWasAnswered,
           \A q \in Requests : call'[q] = "stranded" => call[q] = "stranded",
           \A q \in Requests : Answered(q) => Answered(q)'
    PROVE  StrandedWasAnswered'
BY DEF StrandedWasAnswered

\* The initial state satisfies the invariant.
LEMMA FetchInitInv == Init => FetchInv
<1> SUFFICES ASSUME Init PROVE FetchInv
  OBVIOUS
<1>1. TypeOK
  <2>1. up \in [Conns -> Seq(UpMessages)] /\ down \in [Conns -> Seq(DownMessages)]
    BY DEF Init
  <2>2. ran \in [Requests -> Nat]
    BY DEF Init
  <2> QED
    BY <2>1, <2>2 DEF Init, TypeOK, Calls
<1>2. CallParts /\ StrandedWasAnswered
  BY DEF Init, CallParts, StrandedWasAnswered, AwaitsResponse, ClosedLeavesNothingPending, PendingHasTimer, PendingIsRegistered, PendingOnLiveConnection
<1>3. OneCopyOfARequest
  BY DEF Init, OneCopyOfARequest, Answered, IsRequest
<1> QED
  BY <1>1, <1>2, <1>3 DEF FetchInv, CallParts

\* The connection steps that leave the calls and the network alone: none of them
\* closes a connection, and a closed client dials no more.
LEMMA ConnectionStepInv ==
    ASSUME FetchInv, NEW c \in Conns,
           Reconnect \/ Opened(c) \/ ServerKxArrives(c) \/ KeyStored(c)
             \/ HandshakeFails(c) \/ ConnError(c)
    PROVE  FetchInv'
<1> USE DEF FetchInv, CallParts
<1>1. UNCHANGED <<callVars, netVars, closed>>
  BY DEF Reconnect, Opened, ServerKxArrives, KeyStored, HandshakeFails, ConnError
<1>2. TypeOK'
  <2>1. CASE Reconnect
    BY <2>1 DEF TypeOK, Reconnect, Dial, callVars, netVars
  <2>2. CASE Opened(c)
    BY <2>2 DEF TypeOK, Opened, callVars, netVars
  <2>3. CASE ServerKxArrives(c) \/ KeyStored(c)
    BY <2>3 DEF TypeOK, ServerKxArrives, KeyStored, callVars, netVars
  <2>4. CASE HandshakeFails(c) \/ ConnError(c)
    BY <2>4 DEF TypeOK, HandshakeFails, ConnError, SettleConn, callVars, netVars
  <2> QED
    BY <2>1, <2>2, <2>3, <2>4
<1>3. \A d \in Conns : link[d] \in {"open", "closing"} => link'[d] \in {"open", "closing"}
  BY DEF TypeOK, Reconnect, Dial, Opened, ServerKxArrives, KeyStored, HandshakeFails, ConnError
<1>4. closed => ws' = ws
  BY DEF Reconnect, Opened, ServerKxArrives, KeyStored, HandshakeFails, ConnError
<1>5. ClosedLeavesNothingPending' /\ PendingHasTimer' /\ PendingIsRegistered'
  BY <1>1, <1>4 DEF AwaitsResponse, ClosedLeavesNothingPending, PendingHasTimer, PendingIsRegistered, callVars
<1>6. PendingOnLiveConnection'
  BY <1>1, <1>3 DEF PendingOnLiveConnection, AwaitsResponse, PendingIsRegistered, TypeOK, callVars
<1>7. OneCopyOfARequest'
  BY <1>1 DEF OneCopyOfARequest, Answered, IsRequest, callVars, netVars
<1>9. StrandedWasAnswered'
  BY <1>1, StrandedKept DEF Answered, callVars, netVars
<1> QED
  BY <1>2, <1>5, <1>6, <1>7, <1>9

\* client_kx is sent: one more message under way, which is no request.
LEMMA KxSentInv ==
    ASSUME FetchInv, NEW c \in Conns, KxSent(c)
    PROVE  FetchInv'
<1> USE DEF FetchInv, CallParts
<1>1. /\ ws \in Conns
      /\ UNCHANGED <<callVars, closed, ws, key, link, srvKey, down, gone, job, ran>>
      /\ up' = [up EXCEPT ![ws] = Append(@, ClientKx(c))]
      /\ up \in [Conns -> Seq(UpMessages)]
      /\ ClientKx(c) \in UpMessages /\ ClientKx(c).type = "client_kx"
  BY DEF KxSent, WsOpen, TypeOK, ClientKx, UpMessages
<1>2. up'[ws] = Append(up[ws], ClientKx(c)) /\ \A d \in Conns : d # ws => up'[d] = up[d]
  BY <1>1
<1>3. TypeOK'
  <2>1. up' \in [Conns -> Seq(UpMessages)]
    BY <1>1, AppendFacts
  <2> QED
    BY <1>1, <2>1 DEF TypeOK, KxSent, SettleConn, callVars
<1>4. \A r \in Requests, d \in Conns : \A i \in DOMAIN up'[d] :
          IsRequest(d, i, r)' => i \in DOMAIN up[d] /\ IsRequest(d, i, r)
  BY <1>1, <1>2, AppendFacts DEF IsRequest
<1>5. OneCopyOfARequest'
  BY <1>1, <1>4 DEF OneCopyOfARequest, Answered, callVars
<1>6. CallParts'
  BY <1>1 DEF AwaitsResponse, ClosedLeavesNothingPending, PendingHasTimer, PendingIsRegistered, PendingOnLiveConnection, callVars
<1>9. StrandedWasAnswered'
  BY <1>1, StrandedKept DEF Answered, callVars
<1> QED
  BY <1>3, <1>5, <1>6, <1>9

\* A connection is lost, or the client closed: no call is pending afterwards.
LEMMA LossInv ==
    ASSUME FetchInv, (\E c \in Conns : ConnClosed(c)) \/ Close
    PROVE  FetchInv'
<1> USE DEF FetchInv, CallParts
<1>1. /\ UNCHANGED <<wait, timers, sentOn, promise, shake, netVars>>
      /\ pending' = {} /\ key' = None /\ conn' = None
      /\ call' = [r \in Requests |-> IF r \in pending /\ call[r] = "pending" THEN "rejected" ELSE call[r]]
  BY DEF ConnClosed, Close, Settle
<1>2. \A r \in Requests : /\ call'[r] # "pending"
                          /\ call'[r] # call[r] => call[r] = "pending" /\ call'[r] = "rejected"
  BY <1>1 DEF PendingIsRegistered, AwaitsResponse
<1>3. TypeOK'
  <2>1. call' \in [Requests -> Calls]
    BY <1>1 DEF TypeOK, Calls
  <2>2. /\ link' \in [Conns -> {"unused", "connecting", "open", "closing", "closed"}]
        /\ ws' \in Conns \cup {None} /\ closed' \in BOOLEAN
    BY DEF TypeOK, ConnClosed, Close
  <2> QED
    BY <1>1, <2>1, <2>2 DEF TypeOK, netVars
<1>4. closed' => ws' = None
  BY DEF ConnClosed, Close, PendingIsRegistered
<1>5. CallParts'
  BY <1>1, <1>2, <1>4 DEF AwaitsResponse, ClosedLeavesNothingPending, PendingHasTimer, PendingIsRegistered, PendingOnLiveConnection
<1>6. OneCopyOfARequest'
  BY <1>1, <1>2 DEF OneCopyOfARequest, Answered, IsRequest, netVars
<1>9. StrandedWasAnswered'
  BY <1>1, <1>2, StrandedKept DEF Answered, netVars
<1> QED
  BY <1>3, <1>5, <1>6, <1>9

\* fetch before anything is sent. A call that is not pending becomes pending in
\* none of these steps.
LEMMA BeforeSendInv ==
    ASSUME FetchInv, NEW r \in Requests, Fetch(r) \/ Connected(r) \/ BadBody(r)
    PROVE  FetchInv'
<1> USE DEF FetchInv, CallParts
<1>1. /\ UNCHANGED <<pending, timers, sentOn, closed, key, promise, shake, netVars>>
      /\ \E st \in {"waiting", "body", "rejected"} : call' = [call EXCEPT ![r] = st]
      /\ call[r] \in {"idle", "waiting", "body"}
      /\ closed => ws' = ws
  BY DEF Fetch, Connected, BadBody, connVars
<1>2. TypeOK'
  <2>1. call' \in [Requests -> Calls]
    BY <1>1 DEF TypeOK, Calls
  <2>2. /\ link' \in [Conns -> {"unused", "connecting", "open", "closing", "closed"}]
        /\ ws' \in Conns \cup {None} /\ conn' \in Conns \cup {None}
    BY DEF TypeOK, Fetch, Connected, BadBody, Dial, connVars
  <2>3. wait' \in [Requests -> Conns \cup {None}]
    BY <2>2 DEF TypeOK, Fetch, Connected, BadBody
  <2> QED
    BY <1>1, <2>1, <2>2, <2>3 DEF TypeOK, netVars
<1>3. \A d \in Conns : link[d] \in {"open", "closing"} => link'[d] \in {"open", "closing"}
  BY DEF TypeOK, Fetch, Connected, BadBody, Dial, connVars
<1>4. \A q \in Requests : call'[q] = "pending" => call[q] = "pending"
  BY <1>1 DEF TypeOK
<1>5. \A q \in Requests : call'[q] \in {"idle", "waiting", "body"} => call[q] \in {"idle", "waiting", "body"}
  BY <1>1 DEF TypeOK
<1>6. ClosedLeavesNothingPending' /\ PendingHasTimer' /\ PendingIsRegistered'
  BY <1>1, <1>4 DEF AwaitsResponse, ClosedLeavesNothingPending, PendingHasTimer, PendingIsRegistered
<1>7. PendingOnLiveConnection'
  BY <1>1, <1>3, <1>4 DEF PendingOnLiveConnection, AwaitsResponse, PendingIsRegistered, TypeOK
<1>8. OneCopyOfARequest'
  BY <1>1, <1>5 DEF OneCopyOfARequest, Answered, IsRequest, netVars
<1>9. StrandedWasAnswered'
  BY <1>1, StrandedKept DEF TypeOK, Answered, netVars
<1> QED
  BY <1>2, <1>6, <1>7, <1>8, <1>9

\* The request goes out, registered and with its timer running, or the call is
\* rejected and nothing is sent.
LEMMA SendRequestInv ==
    ASSUME FetchInv, NEW r \in Requests, SendRequest(r)
    PROVE  FetchInv'
<1> USE DEF FetchInv, CallParts
<1>1. /\ call[r] = "body" /\ pending' = pending \cup {r}
      /\ UNCHANGED <<wait, connVars, srvKey, down, gone, job, ran>>
  BY DEF SendRequest
<1>0. StrandedWasAnswered'
  BY <1>1, StrandedKept DEF SendRequest, TypeOK, Answered
<1>2. CASE WsOpen /\ key # None
  <2>1. /\ ws \in Conns /\ link[ws] = "open" /\ ~closed
        /\ call' = [call EXCEPT ![r] = "pending"]
        /\ timers' = timers \cup {r}
        /\ sentOn' = [sentOn EXCEPT ![r] = ws]
        /\ up' = [up EXCEPT ![ws] = Append(@, Request(r))]
        /\ up \in [Conns -> Seq(UpMessages)]
        /\ Request(r) \in UpMessages /\ Request(r).id = r
    BY <1>2 DEF SendRequest, WsOpen, TypeOK, Request, UpMessages, PendingIsRegistered
  <2>2. up'[ws] = Append(up[ws], Request(r)) /\ \A d \in Conns : d # ws => up'[d] = up[d]
    BY <2>1
  <2>3. TypeOK'
    <3>1. up' \in [Conns -> Seq(UpMessages)]
      BY <2>1, AppendFacts
    <3> QED
      BY <1>1, <2>1, <3>1 DEF TypeOK, Calls, connVars
  <2>4. PendingIsRegistered'
    BY <1>1, <2>1, NoneIsNoConn DEF TypeOK, PendingIsRegistered, AwaitsResponse, connVars
  <2>9. ClosedLeavesNothingPending' /\ PendingHasTimer'
    BY <1>1, <2>1 DEF TypeOK, AwaitsResponse, ClosedLeavesNothingPending, PendingHasTimer, connVars
  <2>5. PendingOnLiveConnection'
    BY <1>1, <2>1 DEF TypeOK, PendingOnLiveConnection, AwaitsResponse, connVars
  <2>6. \A q \in Requests, d \in Conns : \A i \in DOMAIN up'[d] : IsRequest(d, i, q)' =>
            \/ i \in DOMAIN up[d] /\ IsRequest(d, i, q)
            \/ q = r /\ d = ws /\ i = Len(up[ws]) + 1
    BY <2>1, <2>2, AppendFacts DEF IsRequest
  <2>7. \A d \in Conns : \A i \in DOMAIN up[d] : ~IsRequest(d, i, r)
    BY <1>1 DEF OneCopyOfARequest, Answered
  <2>8. OneCopyOfARequest'
    BY <1>1, <2>1, <2>6, <2>7 DEF TypeOK, OneCopyOfARequest, Answered
  <2> QED
    BY <1>0, <2>3, <2>4, <2>5, <2>8, <2>9
<1>3. CASE ~(WsOpen /\ key # None)
  <2>1. call' = [call EXCEPT ![r] = "rejected"] /\ UNCHANGED <<up, timers, sentOn>>
    BY <1>3 DEF SendRequest
  <2>2. TypeOK'
    BY <1>1, <2>1 DEF TypeOK, Calls, connVars
  <2>3. CallParts'
    BY <1>1, <2>1 DEF TypeOK, AwaitsResponse, ClosedLeavesNothingPending, PendingHasTimer,
       PendingIsRegistered, PendingOnLiveConnection, connVars
  <2>4. OneCopyOfARequest'
    BY <1>1, <2>1 DEF TypeOK, OneCopyOfARequest, Answered, IsRequest
  <2> QED
    BY <1>0, <2>2, <2>3, <2>4
<1> QED
  BY <1>2, <1>3

\* A timer fires: the call it belongs to was registered if it was pending, so
\* that it is settled together with losing its timer.
LEMMA TimeoutInv ==
    ASSUME FetchInv, NEW r \in Requests, Timeout(r)
    PROVE  FetchInv'
<1> USE DEF FetchInv, CallParts
<1>1. /\ timers' = timers \ {r} /\ pending' = pending \ {r}
      /\ UNCHANGED <<wait, sentOn, connVars, netVars>>
      /\ call' = [q \in Requests |->
                    IF q \in pending \cap {r} /\ call[q] = "pending" THEN "rejected" ELSE call[q]]
  BY DEF Timeout, Settle
<1>2. \A q \in Requests : /\ call'[q] = "pending" => call[q] = "pending" /\ q # r
                          /\ call'[q] # call[q] => call[q] = "pending" /\ call'[q] = "rejected"
  BY <1>1 DEF PendingIsRegistered, AwaitsResponse
<1>3. TypeOK'
  BY <1>1 DEF TypeOK, Calls, connVars, netVars
<1>4. CallParts'
  BY <1>1, <1>2 DEF AwaitsResponse, ClosedLeavesNothingPending, PendingHasTimer, PendingIsRegistered,
     PendingOnLiveConnection, connVars
<1>5. OneCopyOfARequest'
  BY <1>1, <1>2 DEF OneCopyOfARequest, Answered, IsRequest, netVars
<1>9. StrandedWasAnswered'
  BY <1>1, <1>2, StrandedKept DEF Answered, netVars
<1> QED
  BY <1>3, <1>4, <1>5, <1>9

\* A response arrives. It settles the call it names, and only if that is
\* registered; a call is still registered as long as it is pending.
LEMMA ClientReceivesInv ==
    ASSUME FetchInv, NEW c \in Conns, ClientReceives(c)
    PROVE  FetchInv'
<1> USE DEF FetchInv, CallParts
<1> DEFINE m == Head(down[c])
<1>1. /\ down \in [Conns -> Seq(DownMessages)] /\ down[c] # <<>>
      /\ down' = [down EXCEPT ![c] = Tail(@)]
      /\ UNCHANGED <<wait, timers, sentOn, connVars, srvKey, up, gone, job, ran>>
  BY DEF ClientReceives, TypeOK
<1>2. /\ down'[c] = Tail(down[c])
      /\ \A d \in Conns : d # c => down'[d] = down[d]
  BY <1>1
<1>0. m \in DownMessages /\ m.id \in Requests /\ m.kind \in Kinds /\ Answered(m.id)
  <2>1. m \in DownMessages /\ 1 \in DOMAIN down[c] /\ m = down[c][1]
    BY <1>1, TailFacts
  <2> QED
    BY <2>1 DEF DownMessages, OneCopyOfARequest, Answered
<1>3. \/ /\ m.id \in pending /\ pending' = pending \ {m.id}
         /\ \E how \in {"resolved", "rejected", "stranded"} :
               call' = [q \in Requests |-> IF q \in {m.id} /\ call[q] = "pending" THEN how ELSE call[q]]
      \/ UNCHANGED <<pending, call>>
  BY <1>0 DEF ClientReceives, Settle, Effect, Kinds
<1>4. \A q \in Requests :
          /\ call'[q] = "pending" => call[q] = "pending"
          /\ call'[q] = "pending" /\ q \in pending => q \in pending'
          /\ call'[q] # call[q] => /\ call[q] = "pending" /\ q = m.id /\ q \notin pending'
                                  /\ call'[q] \in {"resolved", "rejected", "stranded"}
          /\ q \in pending' => q \in pending
  BY <1>3
<1>5. TypeOK'
  <2>1. down' \in [Conns -> Seq(DownMessages)]
    BY <1>1, TailFacts
  <2>2. /\ call' \in [Requests -> Calls]
        /\ pending' \subseteq Requests
    BY <1>3 DEF TypeOK, Calls
  <2> QED
    BY <1>1, <2>1, <2>2 DEF TypeOK, connVars
<1>6. CallParts'
  BY <1>1, <1>4 DEF AwaitsResponse, ClosedLeavesNothingPending, PendingHasTimer, PendingIsRegistered,
     PendingOnLiveConnection, connVars
<1>7. \A d \in Conns : \A i \in DOMAIN down'[d] :
          \E j \in DOMAIN down[d] : down'[d][i] = down[d][j]
  BY <1>1, <1>2, TailFacts
<1>9. \A d \in Conns : \A i \in DOMAIN down'[d] : Answered(down[d][i].id)'
  BY <1>1, <1>7 DEF OneCopyOfARequest, Answered
<1>8. OneCopyOfARequest'
  <2>1. \A r \in Requests : call'[r] \in {"idle", "waiting", "body"} <=> call[r] \in {"idle", "waiting", "body"}
    BY <1>4
  <2>2. \A r, d, i : IsRequest(d, i, r)' <=> IsRequest(d, i, r)
    BY <1>1 DEF IsRequest
  <2>3. \A r \in Requests :
           /\ ran'[r] \in {0, 1}
           /\ job'[r] # None => ran'[r] = 1
           /\ call'[r] \in {"idle", "waiting", "body"} => ran'[r] = 0
    BY <1>1, <2>1 DEF OneCopyOfARequest
  <2>4. \A r \in Requests, d \in Conns : \A i \in DOMAIN up'[d] : IsRequest(d, i, r)' =>
           /\ ran'[r] = 0
           /\ call'[r] \notin {"idle", "waiting", "body"}
           /\ \A e \in Conns : \A j \in DOMAIN up'[e] : IsRequest(e, j, r)' => e = d /\ j = i
    BY <1>1, <2>1, <2>2 DEF OneCopyOfARequest
  <2> QED
    BY <1>9, <2>3, <2>4 DEF OneCopyOfARequest
<1>10. StrandedWasAnswered'
  <2>1. \A q \in Requests : Answered(q) => Answered(q)'
    BY <1>1 DEF Answered
  <2> QED
    BY <1>0, <1>4, <2>1 DEF StrandedWasAnswered
<1> QED
  BY <1>5, <1>6, <1>8, <1>10

\* The server takes a message: a request that is handed to the application was
\* under way once, so that it was not handed over before and is not again.
LEMMA ServerReceivesInv ==
    ASSUME FetchInv, NEW c \in Conns, ServerReceives(c)
    PROVE  FetchInv'
<1> USE DEF FetchInv, CallParts
<1> DEFINE m == Head(up[c])
<1>1. /\ up \in [Conns -> Seq(UpMessages)] /\ up[c] # <<>>
      /\ up' = [up EXCEPT ![c] = Tail(@)]
      /\ UNCHANGED <<callVars, connVars, down, gone>>
  BY DEF ServerReceives, TypeOK
<1>2. /\ up'[c] = Tail(up[c])
      /\ \A d \in Conns : d # c => up'[d] = up[d]
  BY <1>1
<1>3. m \in UpMessages /\ 1 \in DOMAIN up[c] /\ m = up[c][1]
  BY <1>1, TailFacts
<1>4. \/ /\ m.type = "client_kx" /\ UNCHANGED <<job, ran>>
         /\ srvKey' = IF srvKey[c] = None THEN [srvKey EXCEPT ![c] = m.key] ELSE srvKey
      \/ /\ m.type = "http_request" /\ m.id \in Requests
         /\ IsRequest(c, 1, m.id)
         /\ job' = [job EXCEPT ![m.id] = [state |-> "running", on |-> c]]
         /\ ran' = [ran EXCEPT ![m.id] = @ + 1]
         /\ srvKey' = srvKey
      \/ UNCHANGED <<srvKey, job, ran>>
  BY <1>3 DEF ServerReceives, IsRequest, UpMessages
<1> HIDE DEF m
<1>5. TypeOK'
  <2>1. up' \in [Conns -> Seq(UpMessages)]
    BY <1>1, TailFacts
  <2>2. srvKey' \in [Conns -> Conns \cup {None}]
    <3>1. m.key \in Conns
      BY <1>3 DEF UpMessages
    <3>2. srvKey \in [Conns -> Conns \cup {None}]
      BY DEF TypeOK
    <3>3. srvKey' \in {srvKey, [srvKey EXCEPT ![c] = m.key]}
      BY <1>4
    <3> QED
      BY <3>1, <3>2, <3>3
  <2>3. job' \in [Requests -> Jobs \cup {None}] /\ ran' \in [Requests -> Nat]
    <3>1. [state |-> "running", on |-> c] \in Jobs
      BY DEF Jobs
    <3>2. job \in [Requests -> Jobs \cup {None}] /\ ran \in [Requests -> Nat]
      BY DEF TypeOK
    <3>3. \/ /\ m.id \in Requests
             /\ job' = [job EXCEPT ![m.id] = [state |-> "running", on |-> c]]
             /\ ran' = [ran EXCEPT ![m.id] = @ + 1]
          \/ UNCHANGED <<job, ran>>
      BY <1>4
    <3> QED
      BY <3>1, <3>2, <3>3
  <2> QED
    BY <1>1, <2>1, <2>2, <2>3 DEF TypeOK, callVars, connVars
<1>6. CallParts'
  BY <1>1 DEF AwaitsResponse, ClosedLeavesNothingPending, PendingHasTimer, PendingIsRegistered,
     PendingOnLiveConnection, callVars, connVars
<1>7. \A r \in Requests, d \in Conns : \A i \in DOMAIN up'[d] : IsRequest(d, i, r)' =>
          /\ d # c => i \in DOMAIN up[d] /\ IsRequest(d, i, r)
          /\ d = c => i + 1 \in DOMAIN up[d] /\ IsRequest(d, i + 1, r) /\ i + 1 # 1 /\ i \in Nat
  BY <1>1, <1>2, TailFacts DEF IsRequest
<1>9. \A q \in Requests : Answered(q) => Answered(q)'
  <2>1. CASE UNCHANGED <<job, ran>>
    BY <2>1 DEF Answered
  <2>2. CASE /\ m.id \in Requests /\ IsRequest(c, 1, m.id)
             /\ job' = [job EXCEPT ![m.id] = [state |-> "running", on |-> c]]
             /\ ran' = [ran EXCEPT ![m.id] = @ + 1]
    <3>1. ran[m.id] = 0
      BY <1>3, <2>2 DEF OneCopyOfARequest
    <3> QED
      BY <2>2, <3>1 DEF Answered, TypeOK
  <2> QED
    BY <1>4, <2>1, <2>2
<1>10. \A d \in Conns : \A i \in DOMAIN down[d] : down[d][i].id \in Requests
  <2>1. \A d \in Conns : \A i \in DOMAIN down[d] : down[d][i] \in DownMessages
    BY DEF TypeOK
  <2> QED
    BY <2>1 DEF DownMessages
<1>11. \A d \in Conns : \A i \in DOMAIN down'[d] : Answered(down[d][i].id)'
  <2>1. \A d \in Conns : \A i \in DOMAIN down[d] : Answered(down[d][i].id)
    BY DEF OneCopyOfARequest
  <2>2. down' = down
    BY <1>1
  <2> QED
    BY <1>9, <1>10, <2>1, <2>2 DEF Answered
<1>8. OneCopyOfARequest'
  <2>1. CASE UNCHANGED <<job, ran>>
    BY <1>1, <1>7, <1>11, <2>1 DEF OneCopyOfARequest, callVars
  <2>2. CASE /\ m.type = "http_request" /\ m.id \in Requests
             /\ IsRequest(c, 1, m.id)
             /\ job' = [job EXCEPT ![m.id] = [state |-> "running", on |-> c]]
             /\ ran' = [ran EXCEPT ![m.id] = @ + 1]
    <3>0. PICK q \in Requests : q = m.id
      BY <2>2
    <3>1. ran[q] = 0 /\ call[q] \notin {"idle", "waiting", "body"}
      BY <1>3, <2>2, <3>0 DEF OneCopyOfARequest, Answered
    <3>2. \A r \in Requests : r # q => ran'[r] = ran[r] /\ job'[r] = job[r]
      BY <2>2, <3>0 DEF TypeOK
    <3>3. ran'[q] = 1
      BY <2>2, <3>0, <3>1 DEF TypeOK
    <3>4. \A d \in Conns : \A i \in DOMAIN up'[d] : ~IsRequest(d, i, q)'
      <4>1. \A d \in Conns : \A j \in DOMAIN up[d] : IsRequest(d, j, q) => d = c /\ j = 1
        BY <1>3, <2>2, <3>0 DEF OneCopyOfARequest, Answered
      <4> QED
        BY <1>7, <4>1
    <3>5. \A r \in Requests :
             /\ ran'[r] \in {0, 1}
             /\ job'[r] # None => ran'[r] = 1
             /\ call'[r] \in {"idle", "waiting", "body"} => ran'[r] = 0
      BY <1>1, <3>1, <3>2, <3>3 DEF OneCopyOfARequest, Answered, callVars
    <3>6. \A r \in Requests, e \in Conns : \A i \in DOMAIN up'[e] : IsRequest(e, i, r)' =>
             /\ ran'[r] = 0
             /\ call'[r] \notin {"idle", "waiting", "body"}
             /\ \A d \in Conns : \A j \in DOMAIN up'[d] : IsRequest(d, j, r)' => d = e /\ j = i
      <4> SUFFICES ASSUME NEW r \in Requests, NEW e \in Conns, NEW i \in DOMAIN up'[e], IsRequest(e, i, r)'
                   PROVE  /\ ran'[r] = 0
                          /\ call'[r] \notin {"idle", "waiting", "body"}
                          /\ \A d \in Conns : \A j \in DOMAIN up'[d] : IsRequest(d, j, r)' => d = e /\ j = i
        OBVIOUS
      <4>1. r # q
        BY <3>4
      <4>2. ran[r] = 0 /\ call[r] \notin {"idle", "waiting", "body"}
        BY <1>7 DEF OneCopyOfARequest, Answered
      <4>3. ASSUME NEW d \in Conns, NEW j \in DOMAIN up'[d], IsRequest(d, j, r)'
            PROVE  d = e /\ j = i
        BY <1>7, <4>3 DEF OneCopyOfARequest, Answered
      <4> QED
        BY <1>1, <3>2, <4>1, <4>2, <4>3 DEF callVars
    <3> QED
      BY <1>11, <3>5, <3>6 DEF OneCopyOfARequest, Answered
  <2> QED
    BY <1>4, <2>1, <2>2
<1>12. StrandedWasAnswered'
  BY <1>1, <1>9, StrandedKept DEF callVars
<1> QED
  BY <1>5, <1>6, <1>8, <1>12

\* The application answers, once or twice: only a request it was given.
LEMMA AnswerInv ==
    ASSUME FetchInv, NEW r \in Requests, (\E kind \in Kinds : Answer(r, kind)) \/ AnswerAgain(r)
    PROVE  FetchInv'
<1> USE DEF FetchInv, CallParts
<1>1. PICK kind \in Kinds : SendEncrypted(r, job[r].on, kind)
  BY DEF Answer, AnswerAgain, Kinds
<1>2. /\ UNCHANGED <<callVars, connVars, srvKey, up, gone, ran>>
      /\ job[r] # None /\ job \in [Requests -> Jobs \cup {None}]
      /\ \E st \in {"answered", "finished"} : job' = [job EXCEPT ![r].state = st]
  BY DEF Answer, AnswerAgain, TypeOK
<1>3. job[r] \in Jobs /\ ran[r] = 1
  BY <1>2 DEF OneCopyOfARequest, Answered
<1>4. PICK c \in Conns : c = job[r].on
  BY <1>3 DEF Jobs
<1>5. \/ down' = down
      \/ /\ srvKey[c] \in Conns /\ Response(r, srvKey[c], kind) \in DownMessages
         /\ down' = [down EXCEPT ![c] = Append(@, Response(r, srvKey[c], kind))]
  BY <1>1, <1>4 DEF SendEncrypted, TypeOK, Response, DownMessages
<1>6. down \in [Conns -> Seq(DownMessages)]
  BY DEF TypeOK
<1>7. TypeOK'
  <2>1. down' \in [Conns -> Seq(DownMessages)]
    <3>1. \A m \in DownMessages : Append(down[c], m) \in Seq(DownMessages)
      BY <1>6, AppendFacts
    <3> QED
      BY <1>5, <1>6, <3>1
  <2>2. job' \in [Requests -> Jobs \cup {None}]
    BY <1>2, <1>3 DEF Jobs
  <2> QED
    BY <1>2, <2>1, <2>2 DEF TypeOK, callVars, connVars
<1>8. CallParts'
  BY <1>2 DEF AwaitsResponse, ClosedLeavesNothingPending, PendingHasTimer, PendingIsRegistered,
     PendingOnLiveConnection, callVars, connVars
<1>13. Answered(r)' /\ \A q \in Requests : Answered(q) => Answered(q)'
  <2>1. PICK st \in {"answered", "finished"} : job' = [job EXCEPT ![r].state = st]
    BY <1>2
  <2>2. /\ job'[r] = [job[r] EXCEPT !.state = st]
        /\ \A q \in Requests : q # r => job'[q] = job[q]
    BY <1>2, <2>1
  <2>3. job'[r] \in Jobs /\ job'[r].state = st
    BY <1>3, <2>2 DEF Jobs
  <2> QED
    BY <1>2, <1>3, <2>2, <2>3 DEF Answered
<1>15. \A d \in Conns : \A i \in DOMAIN down[d] : Answered(down[d][i].id) /\ down[d][i].id \in Requests
  <2>1. \A d \in Conns : \A i \in DOMAIN down[d] : down[d][i] \in DownMessages
    BY <1>6
  <2> QED
    BY <2>1 DEF DownMessages, OneCopyOfARequest
<1>9. \A d \in Conns : \A i \in DOMAIN down'[d] : Answered(down[d][i].id)'
  <2>1. CASE down' = down
    BY <1>13, <1>15, <2>1 DEF Answered
  <2>2. CASE /\ Response(r, srvKey[c], kind) \in DownMessages
             /\ down' = [down EXCEPT ![c] = Append(@, Response(r, srvKey[c], kind))]
    <3>1. /\ down'[c] = Append(down[c], Response(r, srvKey[c], kind))
          /\ \A d \in Conns : d # c => down'[d] = down[d]
      BY <1>6, <2>2
    <3>2. Response(r, srvKey[c], kind).id = r
      BY DEF Response
    <3>3. \A d \in Conns : \A i \in DOMAIN down'[d] :
              (i \in DOMAIN down[d] /\ down'[d][i] = down[d][i]) \/ down'[d][i].id = r
      BY <1>6, <2>2, <3>1, <3>2, AppendFacts
    <3> QED
      BY <1>13, <1>15, <3>3 DEF Answered
  <2> QED
    BY <1>5, <2>1, <2>2
<1>10. \A q \in Requests : job'[q] # None => job[q] # None
  BY <1>2
<1>11. OneCopyOfARequest'
  <2>1. \A q, d, i : IsRequest(d, i, q)' <=> IsRequest(d, i, q)
    BY <1>2 DEF IsRequest
  <2> QED
    BY <1>2, <1>9, <1>10, <2>1 DEF OneCopyOfARequest, Answered, callVars
<1>12. StrandedWasAnswered'
  BY <1>2, <1>13, StrandedKept DEF callVars
<1> QED
  BY <1>7, <1>8, <1>11, <1>12

\* The server loses a connection and its key.
LEMMA ServerLosesInv ==
    ASSUME FetchInv, NEW c \in Conns, ServerLoses(c)
    PROVE  FetchInv'
<1> USE DEF FetchInv, CallParts
<1>1. UNCHANGED <<callVars, connVars, up, down, job, ran>>
  BY DEF ServerLoses
<1>2. TypeOK'
  BY <1>1 DEF TypeOK, ServerLoses, callVars, connVars
<1>3. CallParts'
  BY <1>1 DEF AwaitsResponse, ClosedLeavesNothingPending, PendingHasTimer, PendingIsRegistered,
     PendingOnLiveConnection, callVars, connVars
<1>4. OneCopyOfARequest'
  BY <1>1 DEF OneCopyOfARequest, Answered, IsRequest, callVars
<1>9. StrandedWasAnswered'
  BY <1>1, StrandedKept DEF Answered, callVars
<1> QED
  BY <1>2, <1>3, <1>4, <1>9

\* FetchInv is inductive.
LEMMA FetchNextInv == FetchInv /\ [Next]_vars => FetchInv'
<1> SUFFICES ASSUME FetchInv, [Next]_vars PROVE FetchInv'
  OBVIOUS
<1>1. CASE Reconnect
  BY <1>1, ConnectionStepInv DEF Reconnect
<1>2. CASE Close
  BY <1>2, LossInv
<1>3. ASSUME NEW c \in Conns,
             \/ Opened(c) \/ ServerKxArrives(c)
             \/ KeyStored(c) \/ KxSent(c) \/ HandshakeFails(c)
             \/ ConnError(c) \/ ConnClosed(c)
             \/ ClientReceives(c) \/ ServerReceives(c) \/ ServerLoses(c)
      PROVE  FetchInv'
  BY <1>3, ConnectionStepInv, KxSentInv, LossInv, ClientReceivesInv, ServerReceivesInv, ServerLosesInv
<1>4. ASSUME NEW r \in Requests,
             \/ Fetch(r) \/ Connected(r) \/ SendRequest(r) \/ BadBody(r) \/ Timeout(r)
             \/ \E kind \in Kinds : Answer(r, kind)
             \/ AnswerAgain(r)
      PROVE  FetchInv'
  BY <1>4, BeforeSendInv, SendRequestInv, TimeoutInv, AnswerInv
<1>5. CASE UNCHANGED vars
  BY <1>5 DEF vars, callVars, connVars, netVars, FetchInv, TypeOK, ClosedLeavesNothingPending,
     PendingHasTimer, PendingIsRegistered, PendingOnLiveConnection, AwaitsResponse, StrandedWasAnswered,
     Answered, OneCopyOfARequest, IsRequest
<1> QED
  BY <1>1, <1>2, <1>3, <1>4, <1>5 DEF Next

\* No call of fetch waits after close(), or without its timer, or unregistered:
\* nothing that is lost between client and server leaves a caller waiting.
THEOREM NoCallIsForgotten == Spec => []FetchInv
<1>1. Init => FetchInv
  BY FetchInitInv
<1>2. FetchInv /\ [Next]_vars => FetchInv'
  BY FetchNextInv
<1> QED
  BY <1>1, <1>2, PTL DEF Spec

\* A call that is pending was sent on a connection whose close event has not been
\* handled: onclose rejects the calls of whichever connection it belongs to.
THEOREM PendingIsOnLiveConnection == Spec => []PendingOnLiveConnection
<1>1. FetchInv => PendingOnLiveConnection
  BY DEF FetchInv
<1> QED
  BY <1>1, NoCallIsForgotten, PTL

-----------------------------------------------------------------------------
(***************************************************************************)
(* fetch implements FetchContract: every step is one of the contract's, or *)
(* rejects a set of calls, which may be empty.                             *)
(***************************************************************************)
Active == {"waiting", "body", "pending", "stranded"}

\* Steps in which no call begins or resolves and the application gets nothing.
LEMMA OnlyRejects ==
    ASSUME ran' = ran,
           \A r \in Requests : \/ call'[r] = call[r]
                               \/ call[r] \in Active /\ call'[r] \in Active \cup {"rejected"}
    PROVE  Contract!ContractNext
<1> DEFINE R == {r \in Requests : call[r] \in Active /\ call'[r] = "rejected"}
<1>1. \A r \in R : Outcome[r] = "active"
  BY DEF Outcome, Active
<1>2. Outcome' = [r \in Requests |-> IF r \in R THEN "rejected" ELSE Outcome[r]]
  BY DEF Outcome, Active
<1>3. Contract!Reject(R)
  BY <1>1, <1>2 DEF Contract!Reject
<1> QED
  BY <1>3 DEF Contract!ContractNext

\* The application is given a request: it has not been before.
LEMMA ServeStep ==
    ASSUME FetchInv, NEW c \in Conns, ServerReceives(c)
    PROVE  Contract!ContractNext
<1> DEFINE m == Head(up[c])
<1>1. call' = call
  BY DEF ServerReceives, callVars
<1>2. CASE ran' = ran
  BY <1>1, <1>2, OnlyRejects
<1>3. CASE m.type = "http_request" /\ ran' = [ran EXCEPT ![m.id] = @ + 1]
  <2>1. up[c] \in Seq(UpMessages) /\ up[c] # <<>>
    BY DEF FetchInv, TypeOK, ServerReceives
  <2>2. m \in UpMessages /\ 1 \in DOMAIN up[c] /\ m = up[c][1]
    BY <2>1, TailFacts
  <2>3. PICK q \in Requests : q = m.id
    BY <1>3, <2>2 DEF UpMessages
  <2>4. IsRequest(c, 1, q)
    BY <1>3, <2>2, <2>3 DEF IsRequest
  <2>5. ran[q] = 0 /\ call[q] # "idle"
    BY <2>2, <2>4 DEF FetchInv, OneCopyOfARequest, Answered
  <2>6. ran' = [ran EXCEPT ![q] = 1]
    BY <1>3, <2>3, <2>5
  <2>7. Outcome' = Outcome /\ Outcome[q] # "idle"
    BY <1>1, <2>5 DEF Outcome
  <2>8. Contract!Serve(q)
    BY <2>5, <2>6, <2>7 DEF Contract!Serve
  <2> QED
    BY <2>8 DEF Contract!ContractNext
<1> QED
  BY <1>2, <1>3 DEF ServerReceives

\* A response settles the call it names: the application made it for that call.
LEMMA ResponseStep ==
    ASSUME FetchInv, NEW c \in Conns, ClientReceives(c)
    PROVE  Contract!ContractNext
<1>1. down[c] \in Seq(DownMessages) /\ down[c] # <<>>
  BY DEF FetchInv, TypeOK, ClientReceives
<1>2. Head(down[c]) \in DownMessages /\ 1 \in DOMAIN down[c] /\ Head(down[c]) = down[c][1]
  BY <1>1, TailFacts
<1>3. PICK q \in Requests : q = Head(down[c]).id /\ Head(down[c]).kind \in Kinds
  BY <1>2 DEF DownMessages
<1>4. ran[q] = 1
  BY <1>2, <1>3 DEF FetchInv, OneCopyOfARequest, Answered
<1>5. /\ ran' = ran
      /\ \/ call' = call
         \/ \E how \in {"resolved", "rejected", "stranded"} :
               call' = [r \in Requests |-> IF r \in {q} /\ call[r] = "pending" THEN how ELSE call[r]]
  BY <1>3 DEF ClientReceives, Settle, Effect, Kinds
<1>6. CASE call[q] = "pending" /\ call' = [r \in Requests |-> IF r \in {q} /\ call[r] = "pending" THEN "resolved" ELSE call[r]]
  <2>1. Outcome[q] = "active" /\ Outcome' = [Outcome EXCEPT ![q] = "resolved"]
    BY <1>6 DEF Outcome
  <2>2. Contract!Resolve(q)
    BY <1>4, <1>5, <2>1 DEF Contract!Resolve
  <2> QED
    BY <2>2 DEF Contract!ContractNext
<1>7. CASE ~(call[q] = "pending" /\ call' = [r \in Requests |-> IF r \in {q} /\ call[r] = "pending" THEN "resolved" ELSE call[r]])
  <2>1. \A r \in Requests : call'[r] = call[r] \/ (call[r] = "pending" /\ call'[r] \in {"rejected", "stranded"})
    <3>1. CASE call' = call
      BY <3>1
    <3>2. ASSUME NEW how \in {"resolved", "rejected", "stranded"},
                 call' = [r \in Requests |-> IF r \in {q} /\ call[r] = "pending" THEN how ELSE call[r]]
          PROVE  \A r \in Requests : call'[r] = call[r] \/ (call[r] = "pending" /\ call'[r] \in {"rejected", "stranded"})
      <4>1. CASE call[q] # "pending"
        BY <3>2, <4>1
      <4>2. CASE how \in {"rejected", "stranded"}
        BY <3>2, <4>2
      <4> QED
        BY <1>7, <3>2, <4>1, <4>2
    <3> QED
      BY <1>5, <3>1, <3>2
  <2> QED
    BY <1>5, <2>1, OnlyRejects DEF Active
<1> QED
  BY <1>6, <1>7

\* fetch is called: the call begins.
LEMMA BeginStep ==
    ASSUME FetchInv, NEW r \in Requests, Fetch(r)
    PROVE  Contract!ContractNext
<1>1. /\ call[r] = "idle" /\ ran' = ran
      /\ \E st \in {"waiting", "body"} : call' = [call EXCEPT ![r] = st]
  BY DEF Fetch, netVars
<1>2. DOMAIN call = Requests
  BY DEF FetchInv, TypeOK
<1>3. Outcome[r] = "idle" /\ Outcome' = [Outcome EXCEPT ![r] = "active"]
  BY <1>1, <1>2 DEF Outcome
<1>4. Contract!Begin(r)
  BY <1>1, <1>3 DEF Contract!Begin
<1> QED
  BY <1>4 DEF Contract!ContractNext

\* Every step of the tunnel client and server is a step of the contract.
LEMMA ContractSimulation ==
    FetchInv /\ [Next]_vars => [Contract!ContractNext]_Contract!contractVars
<1> SUFFICES ASSUME FetchInv, [Next]_vars
             PROVE  Contract!ContractNext \/ UNCHANGED Contract!contractVars
  OBVIOUS
<1>1. DOMAIN call = Requests
  BY DEF FetchInv, TypeOK
<1>2. CASE UNCHANGED vars
  BY <1>2 DEF vars, callVars, netVars, Contract!contractVars, Outcome
<1>3. CASE Reconnect
  BY <1>3, OnlyRejects DEF Reconnect, callVars, netVars
<1>4. CASE Close
  BY <1>4, OnlyRejects DEF Close, Settle, Active, netVars
<1>5. ASSUME NEW c \in Conns,
             \/ Opened(c) \/ ServerKxArrives(c) \/ KeyStored(c) \/ KxSent(c) \/ HandshakeFails(c)
             \/ ConnError(c) \/ ServerLoses(c)
      PROVE  Contract!ContractNext
  BY <1>5, OnlyRejects DEF Opened, ServerKxArrives, KeyStored, KxSent, HandshakeFails, ConnError,
     ServerLoses, callVars, netVars
<1>6. ASSUME NEW c \in Conns, ConnClosed(c)
      PROVE  Contract!ContractNext
  BY <1>6, OnlyRejects DEF ConnClosed, Settle, Active, netVars
<1>7. ASSUME NEW r \in Requests, Connected(r) \/ SendRequest(r) \/ BadBody(r)
      PROVE  Contract!ContractNext
  <2>1. ran' = ran /\ call[r] \in Active /\ \E st \in Active \cup {"rejected"} : call' = [call EXCEPT ![r] = st]
    BY <1>7 DEF Connected, SendRequest, BadBody, Active, netVars
  <2>2. PICK st \in Active \cup {"rejected"} : call' = [call EXCEPT ![r] = st]
    BY <2>1
  <2>3. \A q \in Requests : call'[q] = call[q] \/ (call[q] \in Active /\ call'[q] \in Active \cup {"rejected"})
    BY <1>1, <2>1, <2>2
  <2> QED
    BY <2>1, <2>3, OnlyRejects
<1>8. ASSUME NEW r \in Requests, Timeout(r)
      PROVE  Contract!ContractNext
  BY <1>8, OnlyRejects DEF Timeout, Settle, Active, netVars
<1>9. ASSUME NEW r \in Requests, (\E kind \in Kinds : Answer(r, kind)) \/ AnswerAgain(r)
      PROVE  Contract!ContractNext
  BY <1>9, OnlyRejects DEF Answer, AnswerAgain, callVars
<1> QED
  BY <1>2, <1>3, <1>4, <1>5, <1>6, <1>7, <1>8, <1>9, ServeStep, ResponseStep, BeginStep DEF Next

\* fetch keeps its contract: a call settles at most once, resolves only with a
\* response the application made for it, and its request reaches the application
\* at most once, whatever is lost, delayed, answered twice or overtaken.
THEOREM FetchKeepsItsContract == Spec => ImplementsContract
<1>1. Init => Contract!ContractInit
  BY DEF Init, Contract!ContractInit, Outcome
<1>2. FetchInv /\ [Next]_vars => [Contract!ContractNext]_Contract!contractVars
  BY ContractSimulation
<1> QED
  BY <1>1, <1>2, NoCallIsForgotten, PTL DEF Spec, ImplementsContract, Contract!ContractSpec
=============================================================================
