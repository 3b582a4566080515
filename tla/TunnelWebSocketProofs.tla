----------------------- MODULE TunnelWebSocketProofs -----------------------
(***************************************************************************)
(* TLAPS proofs about TunnelWebSocket: any number of WebSockets, control   *)
(* channels and messages.                                                  *)
(***************************************************************************)
EXTENDS TunnelWebSocket, TLAPS

-----------------------------------------------------------------------------
(***************************************************************************)
(* Queues and streams of messages.                                         *)
(***************************************************************************)

\* What putting messages at the end of a queue does.
LEMMA ConcatFacts ==
    ASSUME NEW S, NEW q \in Seq(S), NEW ms \in Seq(S)
    PROVE  /\ q \o ms \in Seq(S)
           /\ Len(q) \in Nat /\ DOMAIN q = 1..Len(q)
           /\ Len(ms) \in Nat /\ DOMAIN ms = 1..Len(ms)
           /\ DOMAIN (q \o ms) = 1..(Len(q) + Len(ms))
           /\ \A i \in DOMAIN (q \o ms) :
                 (q \o ms)[i] = IF i <= Len(q) THEN q[i] ELSE ms[i - Len(q)]
OBVIOUS

\* What Append does.
LEMMA AppendFacts ==
    ASSUME NEW S, NEW q \in Seq(S), NEW e \in S
    PROVE  /\ Append(q, e) \in Seq(S) /\ <<e>> \in Seq(S)
           /\ Append(q, e) = q \o <<e>>
           /\ Len(q) \in Nat /\ DOMAIN q = 1..Len(q)
           /\ DOMAIN Append(q, e) = 1..(Len(q) + 1)
           /\ \A i \in DOMAIN q : Append(q, e)[i] = q[i]
           /\ Append(q, e)[Len(q) + 1] = e
OBVIOUS

\* What taking the first message of a queue does.
LEMMA TailFacts ==
    ASSUME NEW S, NEW q \in Seq(S), q # <<>>
    PROVE  /\ Tail(q) \in Seq(S) /\ Head(q) \in S /\ Head(q) = q[1]
           /\ Len(q) \in Nat /\ DOMAIN q = 1..Len(q) /\ 1 \in DOMAIN q
           /\ DOMAIN Tail(q) = 1..(Len(q) - 1)
           /\ \A i \in DOMAIN Tail(q) : i + 1 \in DOMAIN q /\ Tail(q)[i] = q[i + 1]
OBVIOUS

\* A set of messages whose numbers are numbers.
Numbered(M) == \A m \in M : m.type = "ws_message" => m.n \in Nat

LEMMA MessagesAreNumbered == Numbered(UpMessages) /\ Numbered(DownMessages)
BY SendsAssumption DEF Numbered, UpMessages, DownMessages, Numbers

\* Later numbers at the end of a channel keep a stream in order; so do messages that
\* are not of the stream.
LEMMA StreamExtended ==
    ASSUME NEW M, Numbered(M), NEW w \in Ids, NEW ds \in Seq(Deliveries),
           NEW chans \in [Chans -> Seq(M)], NEW last \in Nat, Stream(w, ds, chans, last),
           NEW next \in Nat, last <= next, NEW c \in Chans, NEW ms \in Seq(M),
           \A i \in DOMAIN ms : Carries(ms[i], w) => last < ms[i].n /\ ms[i].n <= next,
           \A i, j \in DOMAIN ms :
               Carries(ms[i], w) /\ Carries(ms[j], w) /\ i < j => ms[i].n < ms[j].n
    PROVE  LET new == [chans EXCEPT ![c] = @ \o ms]
           IN  new \in [Chans -> Seq(M)] /\ Stream(w, ds, new, next)
<1> DEFINE new == [chans EXCEPT ![c] = @ \o ms]
           l == Len(chans[c])
<1>1. /\ chans[c] \in Seq(M) /\ l \in Nat /\ DOMAIN chans[c] = 1..l
      /\ new \in [Chans -> Seq(M)]
      /\ new[c] = chans[c] \o ms
      /\ \A d \in Chans : d # c => new[d] = chans[d]
  BY ConcatFacts
<1>2. \A d \in Chans : \A i \in DOMAIN new[d] :
         \/ i \in DOMAIN chans[d] /\ new[d][i] = chans[d][i] /\ (d = c => i <= l)
         \/ /\ d = c /\ i \in Nat /\ i > l
            /\ i - l \in DOMAIN ms /\ new[d][i] = ms[i - l]
  BY <1>1, ConcatFacts
<1>3. \A d \in Chans : \A i \in DOMAIN new[d] :
         i \in Nat /\ (Carries(new[d][i], w) => new[d][i].n \in Nat)
  <2> SUFFICES ASSUME NEW d \in Chans, NEW i \in DOMAIN new[d]
               PROVE  i \in Nat /\ (Carries(new[d][i], w) => new[d][i].n \in Nat)
    OBVIOUS
  <2>1. new[d] \in Seq(M)
    BY <1>1
  <2>2. i \in Nat /\ new[d][i] \in M
    BY <2>1
  <2> QED
    BY <2>2 DEF Numbered, Carries
<1>4. InOrder(ds) /\ \A k \in DOMAIN ds : ds[k].n \in Nat /\ ds[k].n <= last /\ ds[k].n <= next
  <2>1. \A k \in DOMAIN ds : ds[k] \in Deliveries
    OBVIOUS
  <2>2. \A k \in DOMAIN ds : ds[k].n \in Nat
    BY <2>1, SendsAssumption DEF Deliveries, Numbers
  <2>3. InOrder(ds) /\ \A k \in DOMAIN ds : ds[k].n <= last
    BY DEF Stream
  <2> QED
    BY <2>2, <2>3
<1> HIDE DEF new, l
<1>5. ASSUME NEW d \in Chans, NEW i \in DOMAIN new[d], Carries(new[d][i], w)
      PROVE  /\ new[d][i].n <= next
             /\ \A k \in DOMAIN ds :
                   ds[k].n # new[d][i].n /\ (ds[k].on = d => ds[k].n < new[d][i].n)
  <2>1. new[d][i].n \in Nat
    BY <1>3, <1>5
  <2>2. CASE i \in DOMAIN chans[d] /\ new[d][i] = chans[d][i]
    <3>1. Carries(chans[d][i], w)
      BY <2>2, <1>5
    <3>2. chans[d][i].n <= last
      BY <3>1, <2>2 DEF Stream
    <3>3. \A k \in DOMAIN ds :
             ds[k].n # chans[d][i].n /\ (ds[k].on = d => ds[k].n < chans[d][i].n)
      BY <3>1, <2>2 DEF Stream
    <3> QED
      BY <2>1, <2>2, <3>2, <3>3
  <2>3. CASE d = c /\ i - l \in DOMAIN ms /\ new[d][i] = ms[i - l]
    <3>1. last < new[d][i].n /\ new[d][i].n <= next
      BY <2>3, <1>5
    <3> QED
      BY <3>1, <2>1, <1>4
  <2> QED
    BY <1>2, <2>2, <2>3
<1>6. ASSUME NEW d \in Chans, NEW i \in DOMAIN new[d], Carries(new[d][i], w),
             NEW e \in Chans, NEW j \in DOMAIN new[e], Carries(new[e][j], w)
      PROVE  /\ e # d => new[d][i].n # new[e][j].n
             /\ e = d /\ i < j => new[d][i].n < new[e][j].n
  <2> DEFINE Old(f, k) == k \in DOMAIN chans[f] /\ new[f][k] = chans[f][k] /\ (f = c => k <= l)
             Fresh(f, k) == f = c /\ k > l /\ k - l \in DOMAIN ms /\ new[f][k] = ms[k - l]
  <2>1. (Old(d, i) \/ Fresh(d, i)) /\ (Old(e, j) \/ Fresh(e, j))
    BY <1>2
  <2>2. i \in Nat /\ j \in Nat /\ new[d][i].n \in Nat /\ new[e][j].n \in Nat
    BY <1>3, <1>6
  <2>3. CASE Old(d, i) /\ Old(e, j)
    BY <2>3, <1>6 DEF Stream
  <2>4. CASE Old(d, i) /\ Fresh(e, j)
    <3>1. new[d][i].n <= last
      BY <2>4, <1>6 DEF Stream
    <3>2. last < new[e][j].n
      BY <2>4, <1>6
    <3> QED
      BY <3>1, <3>2, <2>2
  <2>5. CASE Fresh(d, i) /\ Old(e, j)
    <3>1. new[e][j].n <= last
      BY <2>5, <1>6 DEF Stream
    <3>2. last < new[d][i].n
      BY <2>5, <1>6
    <3>3. ~(e = d /\ i < j)
      BY <2>5, <2>2, <1>1
    <3> QED
      BY <3>1, <3>2, <3>3, <2>2
  <2>6. CASE Fresh(d, i) /\ Fresh(e, j)
    <3>1. i < j => i - l < j - l
      BY <2>2, <1>1
    <3> QED
      BY <3>1, <2>6, <1>6
  <2> QED
    BY <2>1, <2>3, <2>4, <2>5, <2>6
<1>7. Stream(w, ds, new, next)
  BY <1>4, <1>5, <1>6 DEF Stream
<1> QED
  BY <1>1, <1>7 DEF new

\* Taking the first message of a channel keeps a stream in order, and so does
\* delivering it.
LEMMA StreamTaken ==
    ASSUME NEW M, Numbered(M), NEW w \in Ids, NEW ds \in Seq(Deliveries),
           NEW chans \in [Chans -> Seq(M)], NEW last \in Nat, Stream(w, ds, chans, last),
           NEW c \in Chans, chans[c] # <<>>
    PROVE  LET new == [chans EXCEPT ![c] = Tail(@)]
               m == Head(chans[c])
           IN  /\ new \in [Chans -> Seq(M)]
               /\ Stream(w, ds, new, last)
               /\ Carries(m, w) => Stream(w, Append(ds, [n |-> m.n, on |-> c]), new, last)
<1> DEFINE new == [chans EXCEPT ![c] = Tail(@)]
           m == Head(chans[c])
           Back(d, i) == IF d = c THEN i + 1 ELSE i
<1>1. /\ chans[c] \in Seq(M) /\ m = chans[c][1] /\ 1 \in DOMAIN chans[c] /\ m \in M
      /\ new \in [Chans -> Seq(M)]
      /\ new[c] = Tail(chans[c])
      /\ \A d \in Chans : d # c => new[d] = chans[d]
  BY TailFacts
<1>2. ASSUME NEW d \in Chans, NEW i \in DOMAIN new[d]
      PROVE  /\ i \in Nat /\ i >= 1
             /\ Back(d, i) \in DOMAIN chans[d] /\ new[d][i] = chans[d][Back(d, i)]
             /\ Carries(new[d][i], w) => new[d][i].n \in Nat
  <2>1. new[d] \in Seq(M)
    BY <1>1
  <2>2. i \in Nat /\ i >= 1 /\ new[d][i] \in M
    BY <2>1
  <2>3. Back(d, i) \in DOMAIN chans[d] /\ new[d][i] = chans[d][Back(d, i)]
    BY <1>1, TailFacts
  <2> QED
    BY <2>2, <2>3 DEF Numbered, Carries
<1>3. ASSUME NEW d \in Chans, NEW i \in DOMAIN new[d], Carries(new[d][i], w)
      PROVE  /\ new[d][i].n <= last
             /\ \A k \in DOMAIN ds :
                   ds[k].n # new[d][i].n /\ (ds[k].on = d => ds[k].n < new[d][i].n)
             /\ Carries(m, w) => m.n # new[d][i].n /\ (d = c => m.n < new[d][i].n)
  <2>1. Back(d, i) \in DOMAIN chans[d] /\ Carries(chans[d][Back(d, i)], w)
        /\ new[d][i] = chans[d][Back(d, i)]
    BY <1>2, <1>3
  <2>2. d = c => 1 < Back(d, i)
    BY <1>2
  <2>3. ASSUME Carries(m, w) PROVE m.n # new[d][i].n /\ (d = c => m.n < new[d][i].n)
    <3>1. Carries(chans[c][1], w) /\ 1 \in DOMAIN chans[c] /\ m.n \in Nat
      BY <2>3, <1>1 DEF Numbered, Carries
    <3>2. /\ d # c => chans[c][1].n # chans[d][Back(d, i)].n
          /\ d = c /\ 1 < Back(d, i) => chans[c][1].n < chans[d][Back(d, i)].n
      BY <3>1, <2>1 DEF Stream
    <3>3. new[d][i].n \in Nat
      BY <1>2, <1>3
    <3> QED
      BY <3>1, <3>2, <3>3, <2>1, <2>2, <1>1
  <2> QED
    BY <2>1, <2>3 DEF Stream
<1>4. ASSUME NEW d \in Chans, NEW i \in DOMAIN new[d], Carries(new[d][i], w),
             NEW e \in Chans, NEW j \in DOMAIN new[e], Carries(new[e][j], w)
      PROVE  /\ e # d => new[d][i].n # new[e][j].n
             /\ e = d /\ i < j => new[d][i].n < new[e][j].n
  <2>1. /\ Back(d, i) \in DOMAIN chans[d] /\ new[d][i] = chans[d][Back(d, i)]
        /\ Back(e, j) \in DOMAIN chans[e] /\ new[e][j] = chans[e][Back(e, j)]
    BY <1>2
  <2>2. e = d /\ i < j => Back(d, i) < Back(e, j)
    BY <1>2
  <2> HIDE DEF Back, new
  <2> QED
    BY <2>1, <2>2, <1>4 DEF Stream
<1>5. Stream(w, ds, new, last)
  BY <1>3, <1>4 DEF Stream
<1>6. ASSUME Carries(m, w)
      PROVE  Stream(w, Append(ds, [n |-> m.n, on |-> c]), new, last)
  <2> DEFINE e == [n |-> m.n, on |-> c]
             es == Append(ds, e)
  <2>1. /\ Len(ds) \in Nat /\ DOMAIN ds = 1..Len(ds) /\ DOMAIN es = 1..(Len(ds) + 1)
        /\ \A k \in DOMAIN ds : es[k] = ds[k]
        /\ es[Len(ds) + 1] = e /\ e.n = m.n /\ e.on = c
    OBVIOUS
  <2>2. /\ m.n \in Nat /\ m.n <= last
        /\ \A k \in DOMAIN ds : ds[k].n # m.n /\ (ds[k].on = c => ds[k].n < m.n)
    BY <1>1, <1>6 DEF Stream, Numbered, Carries
  <2> HIDE DEF e, es, new, m
  <2>3. \A k \in DOMAIN es : (k \in DOMAIN ds /\ es[k] = ds[k]) \/ (k = Len(ds) + 1 /\ es[k] = e)
    BY <2>1
  <2>4. InOrder(es)
    <3> SUFFICES ASSUME NEW i \in DOMAIN es, NEW j \in DOMAIN es, i < j
                 PROVE  es[i].n # es[j].n /\ (es[i].on = es[j].on => es[i].n < es[j].n)
      BY DEF InOrder
    <3>1. i \in DOMAIN ds /\ es[i] = ds[i]
      BY <2>1, <2>3
    <3>2. CASE j \in DOMAIN ds /\ es[j] = ds[j]
      BY <3>1, <3>2 DEF Stream, InOrder
    <3>3. CASE es[j] = e
      BY <3>1, <3>3, <2>1, <2>2
    <3> QED
      BY <2>3, <3>2, <3>3
  <2>5. \A k \in DOMAIN es : es[k].n <= last
    BY <2>1, <2>2, <2>3 DEF Stream
  <2>6. \A d \in Chans : \A i \in DOMAIN new[d] : Carries(new[d][i], w) =>
           /\ new[d][i].n <= last
           /\ \A k \in DOMAIN es :
                 es[k].n # new[d][i].n /\ (es[k].on = d => es[k].n < new[d][i].n)
    BY <2>1, <2>3, <1>3, <1>6
  <2> QED
    BY <2>4, <2>5, <2>6, <1>4 DEF Stream, es, e
<1> QED
  BY <1>1, <1>5, <1>6

\* A stream stays in order when more messages were sent than are under way.
LEMMA StreamRaised ==
    ASSUME NEW M, Numbered(M), NEW w \in Ids, NEW ds \in Seq(Deliveries),
           NEW chans \in [Chans -> Seq(M)], NEW last \in Nat, Stream(w, ds, chans, last),
           NEW next \in Nat, last <= next
    PROVE  Stream(w, ds, chans, next)
<1>1. \A k \in DOMAIN ds : ds[k].n <= next
  <2>1. \A k \in DOMAIN ds : ds[k] \in Deliveries /\ ds[k].n <= last
    BY DEF Stream
  <2>2. \A k \in DOMAIN ds : ds[k].n \in Nat
    BY <2>1, SendsAssumption DEF Deliveries, Numbers
  <2> QED
    BY <2>1, <2>2
<1>2. \A c \in Chans : \A i \in DOMAIN chans[c] : Carries(chans[c][i], w) => chans[c][i].n <= next
  <2> SUFFICES ASSUME NEW c \in Chans, NEW i \in DOMAIN chans[c], Carries(chans[c][i], w)
               PROVE  chans[c][i].n <= next
    OBVIOUS
  <2>1. chans[c][i] \in M
    OBVIOUS
  <2>2. chans[c][i].n \in Nat
    BY <2>1 DEF Numbered, Carries
  <2>3. chans[c][i].n <= last
    BY DEF Stream
  <2> QED
    BY <2>2, <2>3
<1> QED
  BY <1>1, <1>2 DEF Stream

-----------------------------------------------------------------------------
(***************************************************************************)
(* The invariant: one lemma per kind of step.                              *)
(***************************************************************************)

\* What is on the wire for one WebSocket, the three parts of StreamsAreOrdered.
QueueOrdered(w) == Increasing(queue[w]) /\ \A i \in DOMAIN queue[w] : queue[w][i] <= sends[w]
UpOrdered(w) == Stream(w, got[w], up, PastQueue(w))
DownOrdered(w) == Stream(w, heard[w], down, replies[w])

LEMMA StreamParts ==
    StreamsAreOrdered <=> \A w \in Ids : QueueOrdered(w) /\ UpOrdered(w) /\ DownOrdered(w)
BY DEF StreamsAreOrdered, QueueOrdered, UpOrdered, DownOrdered

\* Numbers are numbers.
LEMMA Counts ==
    ASSUME TypeOK, NEW w \in Ids
    PROVE  /\ sends[w] \in Nat /\ replies[w] \in Nat /\ PastQueue(w) \in Nat
           /\ \A i \in DOMAIN queue[w] : queue[w][i] \in Nat
           /\ Len(queue[w]) \in Nat /\ DOMAIN queue[w] = 1..Len(queue[w])
           /\ queue[w] # <<>> => 1 \in DOMAIN queue[w]
           /\ queue[w] \in Seq(Numbers) /\ got[w] \in Seq(Deliveries) /\ heard[w] \in Seq(Deliveries)
<1>1. /\ sends[w] \in Nat /\ replies[w] \in Nat
      /\ queue[w] \in Seq(Numbers) /\ got[w] \in Seq(Deliveries) /\ heard[w] \in Seq(Deliveries)
  BY SendsAssumption DEF TypeOK
<1>2. /\ \A i \in DOMAIN queue[w] : queue[w][i] \in Numbers
      /\ Len(queue[w]) \in Nat /\ DOMAIN queue[w] = 1..Len(queue[w])
      /\ queue[w] # <<>> => 1 \in DOMAIN queue[w]
  BY <1>1
<1>3. PastQueue(w) \in Nat
  BY <1>1, <1>2, SendsAssumption DEF PastQueue, Numbers
<1> QED
  BY <1>1, <1>2, <1>3, SendsAssumption DEF Numbers

LEMMA InitInv == Init => MockInv
<1> SUFFICES ASSUME Init PROVE MockInv
  OBVIOUS
<1>1. TypeOK
  <2>1. /\ queue \in [Ids -> Seq(Numbers)]
        /\ heard \in [Ids -> Seq(Deliveries)] /\ got \in [Ids -> Seq(Deliveries)]
        /\ up \in [Chans -> Seq(UpMessages)] /\ down \in [Chans -> Seq(DownMessages)]
    BY DEF Init
  <2>2. sends \in [Ids -> 0..MaxSends] /\ replies \in [Ids -> 0..MaxSends]
    BY SendsAssumption DEF Init
  <2>3. ended \in BOOLEAN
    BY DEF Init
  <2> QED
    BY <2>1, <2>2, <2>3 DEF Init, TypeOK
<1>2. OpenMeansFlushed /\ OpenMockIsTracked /\ RegisteredIsLive
  BY DEF Init, OpenMeansFlushed, OpenMockIsTracked, RegisteredIsLive
<1>3. StreamsAreOrdered
  <2>0. DOMAIN <<>> = {}
    OBVIOUS
  <2>1. \A w \in Ids : DOMAIN queue[w] = {} /\ DOMAIN got[w] = {} /\ DOMAIN heard[w] = {}
    BY <2>0, Zenon DEF Init
  <2>2. \A c \in Chans : DOMAIN up[c] = {} /\ DOMAIN down[c] = {}
    BY <2>0, Zenon DEF Init
  <2> QED
    BY <2>1, <2>2 DEF StreamsAreOrdered, Stream, InOrder, Increasing
<1> QED
  BY <1>1, <1>2, <1>3 DEF MockInv

\* A step that sends and delivers nothing.
LEMMA QuietStep ==
    ASSUME MockInv, UNCHANGED <<queue, sends, up, got, heard, down, replies>>
    PROVE  StreamsAreOrdered'
<1>1. \A w \in Ids : PastQueue(w)' = PastQueue(w)
  BY DEF PastQueue
<1> QED
  BY <1>1 DEF MockInv, StreamsAreOrdered, Stream, Carries

\* Channels are dialled, handshaken and lost, mocks are made and closed with them.
LEMMA ChannelStep ==
    ASSUME MockInv,
           \/ CloseTunnel
           \/ \E w \in Ids : New(w)
           \/ \E c \in Chans : Dial(c) \/ Handshake(c) \/ Fails(c) \/ ChannelClosed(c)
    PROVE  MockInv'
<1>1. UNCHANGED <<queue, sends, up, got, heard, down, replies, lost, entry, mock, clients>>
  BY DEF CloseTunnel, New, Dial, Handshake, Fails, ChannelClosed, CloseAll,
         clientVars, chanVars, serverVars
<1>2. StreamsAreOrdered'
  BY <1>1, QuietStep
<1>3. TypeOK'
  <2>1. CASE CloseTunnel
    BY <2>1, <1>1 DEF MockInv, TypeOK, CloseTunnel, CloseAll
  <2>2. CASE \E w \in Ids : New(w)
    BY <2>2, <1>1 DEF MockInv, TypeOK, New, chanVars
  <2>3. CASE \E c \in Chans : Dial(c) \/ Handshake(c) \/ Fails(c)
    BY <2>3, <1>1 DEF MockInv, TypeOK, Dial, Handshake, Fails, clientVars
  <2>4. CASE \E c \in Chans : ChannelClosed(c)
    BY <2>4, <1>1 DEF MockInv, TypeOK, ChannelClosed, CloseAll
  <2> QED
    BY <2>1, <2>2, <2>3, <2>4
<1>4. OpenMeansFlushed' /\ RegisteredIsLive'
  <2>1. CASE CloseAll
    BY <2>1, <1>1 DEF MockInv, OpenMeansFlushed, RegisteredIsLive, CloseAll
  <2>2. CASE \E w \in Ids : New(w)
    BY <2>2, <1>1 DEF MockInv, TypeOK, OpenMeansFlushed, RegisteredIsLive, New
  <2>3. CASE UNCHANGED <<state, registered>>
    BY <2>3, <1>1 DEF MockInv, OpenMeansFlushed, RegisteredIsLive
  <2> QED
    BY <2>1, <2>2, <2>3 DEF CloseTunnel, Dial, Handshake, Fails, ChannelClosed, clientVars
<1>5. OpenMockIsTracked'
  BY <1>1 DEF MockInv, OpenMockIsTracked
<1> QED
  BY <1>2, <1>3, <1>4, <1>5 DEF MockInv

\* The server loses a channel and with it the mocks that are tracked under it.
LEMMA ServerLosesStep ==
    ASSUME MockInv, NEW c \in Chans, ServerLoses(c)
    PROVE  MockInv'
<1>1. UNCHANGED <<clientVars, chanVars, up, down, replies, got>>
  BY DEF ServerLoses
<1>2. StreamsAreOrdered'
  BY <1>1, QuietStep DEF clientVars
<1>3. TypeOK'
  BY <1>1 DEF MockInv, TypeOK, ServerLoses, clientVars, chanVars
<1>4. OpenMeansFlushed' /\ RegisteredIsLive'
  BY <1>1 DEF MockInv, OpenMeansFlushed, RegisteredIsLive, clientVars
<1>5. OpenMockIsTracked'
  BY DEF MockInv, TypeOK, OpenMockIsTracked, ServerLoses
<1> QED
  BY <1>2, <1>3, <1>4, <1>5 DEF MockInv

\* What is sent goes to the end of the current channel, if at all.
LEMMA TransmitFacts ==
    ASSUME TypeOK, NEW ms \in Seq(UpMessages), Transmit(ms)
    PROVE  up' = up \/ (cur \in Chans /\ up' = [up EXCEPT ![cur] = @ \o ms])
BY DEF TypeOK, Transmit, CanSend

\* A stream that something was transmitted on.
LEMMA StreamTransmitted ==
    ASSUME TypeOK, NEW ms \in Seq(UpMessages), Transmit(ms),
           NEW w \in Ids, NEW last \in Nat, Stream(w, got[w], up, last),
           NEW next \in Nat, last <= next,
           \A i \in DOMAIN ms : Carries(ms[i], w) => last < ms[i].n /\ ms[i].n <= next,
           \A i, j \in DOMAIN ms :
               Carries(ms[i], w) /\ Carries(ms[j], w) /\ i < j => ms[i].n < ms[j].n
    PROVE  up' \in [Chans -> Seq(UpMessages)] /\ Stream(w, got[w], up', next)
<1>1. up \in [Chans -> Seq(UpMessages)] /\ got[w] \in Seq(Deliveries) /\ Numbered(UpMessages)
  BY Counts, MessagesAreNumbered DEF TypeOK
<1>2. CASE up' = up
  BY <1>1, <1>2, StreamRaised
<1>3. CASE cur \in Chans /\ up' = [up EXCEPT ![cur] = @ \o ms]
  BY <1>1, <1>3, StreamExtended
<1> QED
  BY <1>2, <1>3, TransmitFacts

\* An event is no message of any WebSocket.
LEMMA EventFacts ==
    ASSUME NEW w \in Ids
    PROVE  /\ \A t \in {"ws_connect", "ws_close"} : Event(w, t) \in UpMessages
           /\ \A t \in {"open", "close", "error"} : Event(w, t) \in DownMessages
           /\ \A t \in {"ws_connect", "ws_close", "open", "close", "error"} :
                 \A v \in Ids : ~Carries(Event(w, t), v)
BY DEF Event, UpMessages, DownMessages, Carries

\* A message is its WebSocket's and no other's.
LEMMA MessageFacts ==
    ASSUME NEW w \in Ids, NEW n \in Numbers
    PROVE  /\ Message(w, n) \in UpMessages /\ Message(w, n) \in DownMessages
           /\ Message(w, n).n = n /\ Carries(Message(w, n), w)
           /\ \A v \in Ids : v # w => ~Carries(Message(w, n), v)
BY DEF Message, UpMessages, DownMessages, Carries

\* connect() and close() of a mock.
LEMMA ConnectCloseStep ==
    ASSUME MockInv, NEW w \in Ids, Connect(w) \/ CloseMock(w)
    PROVE  MockInv'
<1>1. /\ UNCHANGED <<queue, sends, heard, chanVars, down, serverVars>>
      /\ \/ UNCHANGED <<state, registered>>
         \/ state' = [state EXCEPT ![w] = "closing"] /\ registered' = registered \ {w}
      /\ dialling' \subseteq dialling
  BY DEF Connect, CloseMock
<1>2. PICK t \in {"ws_connect", "ws_close"} : Transmit(<<Event(w, t)>>)
  BY DEF Connect, CloseMock
<1> DEFINE ms == <<Event(w, t)>>
<1>3. /\ ms \in Seq(UpMessages) /\ Transmit(ms)
      /\ \A v \in Ids : \A i \in DOMAIN ms : ~Carries(ms[i], v)
  BY <1>2, EventFacts
<1> HIDE DEF ms
<1>4. TypeOK /\ StreamsAreOrdered
  BY DEF MockInv
<1>5. ASSUME NEW v \in Ids
      PROVE  up' \in [Chans -> Seq(UpMessages)] /\ Stream(v, got[v], up', PastQueue(v))
  <2>1. Stream(v, got[v], up, PastQueue(v)) /\ PastQueue(v) \in Nat /\ PastQueue(v) <= PastQueue(v)
    BY <1>4, Counts DEF StreamsAreOrdered
  <2> QED
    BY <2>1, <1>3, <1>4, StreamTransmitted
<1>6. up' \in [Chans -> Seq(UpMessages)]
  BY <1>5
<1>7. TypeOK'
  BY <1>1, <1>4, <1>6 DEF TypeOK, chanVars, serverVars
<1>8. StreamsAreOrdered'
  <2>1. \A v \in Ids : PastQueue(v)' = PastQueue(v)
    BY <1>1 DEF PastQueue
  <2>2. \A v \in Ids : UpOrdered(v)'
    BY <2>1, <1>1, <1>5 DEF UpOrdered, serverVars
  <2>3. \A v \in Ids : QueueOrdered(v)' /\ DownOrdered(v)'
    BY <1>1, <1>4, StreamParts DEF QueueOrdered, DownOrdered, serverVars
  <2> QED
    BY <2>2, <2>3, StreamParts DEF StreamsAreOrdered, QueueOrdered, UpOrdered, DownOrdered
<1>9. OpenMeansFlushed' /\ RegisteredIsLive' /\ OpenMockIsTracked'
  BY <1>1 DEF MockInv, TypeOK, OpenMeansFlushed, RegisteredIsLive, OpenMockIsTracked, serverVars
<1> QED
  BY <1>7, <1>8, <1>9 DEF MockInv

\* send() on a mock that is connecting: behind the queue.
LEMMA QueuedStep ==
    ASSUME MockInv, NEW w \in Ids, Send(w), state[w] = "connecting"
    PROVE  MockInv'
<1>1. /\ UNCHANGED <<up, state, registered, dialling, heard, chanVars, down, serverVars>>
      /\ sends[w] < MaxSends /\ sends' = [sends EXCEPT ![w] = @ + 1]
      /\ queue' = [queue EXCEPT ![w] = Append(@, sends[w] + 1)]
  BY DEF Send, MockInv, TypeOK
<1>2. TypeOK /\ StreamsAreOrdered
  BY DEF MockInv
<1>3. sends[w] + 1 \in Numbers /\ sends'[w] = sends[w] + 1 /\ sends'[w] \in Nat
  BY <1>1, <1>2, SendsAssumption DEF TypeOK, Numbers
<1>4. /\ queue'[w] \in Seq(Numbers) /\ Len(queue[w]) \in Nat /\ DOMAIN queue[w] = 1..Len(queue[w])
      /\ DOMAIN queue'[w] = 1..(Len(queue[w]) + 1)
      /\ \A i \in DOMAIN queue[w] : queue'[w][i] = queue[w][i]
      /\ queue'[w][Len(queue[w]) + 1] = sends[w] + 1
      /\ \A v \in Ids : v # w => queue'[v] = queue[v] /\ sends'[v] = sends[v]
  BY <1>1, <1>2, <1>3, AppendFacts DEF TypeOK
<1>5. TypeOK'
  <2>1. queue' \in [Ids -> Seq(Numbers)]
    BY <1>1, <1>2, <1>4 DEF TypeOK
  <2>2. sends' \in [Ids -> 0..MaxSends]
    BY <1>1, <1>2, <1>3, SendsAssumption DEF TypeOK
  <2> QED
    BY <1>1, <1>2, <2>1, <2>2 DEF TypeOK, chanVars, serverVars
<1>6. QueueOrdered(w)'
  <2>1. \A i \in DOMAIN queue[w] : queue[w][i] \in Nat /\ queue[w][i] <= sends[w]
    BY <1>2, Counts DEF StreamsAreOrdered
  <2>2. \A i, j \in DOMAIN queue[w] : i < j => queue[w][i] < queue[w][j]
    BY <1>2 DEF StreamsAreOrdered, Increasing
  <2>3. sends[w] \in Nat
    BY <1>2, Counts
  <2>4. \A i \in DOMAIN queue'[w] : i \in DOMAIN queue[w] \/ i = Len(queue[w]) + 1
    BY <1>4
  <2>5. \A i \in DOMAIN queue'[w] : queue'[w][i] <= sends'[w]
    BY <2>1, <2>3, <2>4, <1>3, <1>4
  <2>6. \A i, j \in DOMAIN queue'[w] : i < j => queue'[w][i] < queue'[w][j]
    <3> SUFFICES ASSUME NEW i \in DOMAIN queue'[w], NEW j \in DOMAIN queue'[w], i < j
                 PROVE  queue'[w][i] < queue'[w][j]
      OBVIOUS
    <3>1. i \in DOMAIN queue[w] /\ queue'[w][i] = queue[w][i]
      BY <1>4
    <3>2. CASE j \in DOMAIN queue[w]
      BY <3>1, <3>2, <2>2, <1>4
    <3>3. CASE j = Len(queue[w]) + 1
      BY <3>1, <3>3, <2>1, <2>3, <1>4
    <3> QED
      BY <2>4, <3>2, <3>3
  <2> QED
    BY <2>5, <2>6 DEF QueueOrdered, Increasing
<1>7. PastQueue(w)' = PastQueue(w)
  <2>1. sends[w] \in Nat /\ queue'[w] # <<>>
    BY <1>2, <1>4, Counts
  <2>2. CASE queue[w] = <<>>
    BY <2>1, <2>2, <1>4 DEF PastQueue
  <2>3. CASE queue[w] # <<>>
    <3>1. 1 \in DOMAIN queue[w]
      BY <2>3, <1>2, Counts
    <3> QED
      BY <2>1, <2>3, <3>1, <1>4 DEF PastQueue
  <2> QED
    BY <2>2, <2>3
<1>8. StreamsAreOrdered'
  <2>1. \A v \in Ids : PastQueue(v)' = PastQueue(v)
    BY <1>4, <1>7 DEF PastQueue
  <2>2. \A v \in Ids : UpOrdered(v)' /\ DownOrdered(v)'
    BY <2>1, <1>1, <1>2, StreamParts DEF UpOrdered, DownOrdered, serverVars
  <2>3. \A v \in Ids : QueueOrdered(v)'
    BY <1>4, <1>6, <1>2, StreamParts DEF QueueOrdered
  <2> QED
    BY <2>2, <2>3 DEF StreamsAreOrdered, QueueOrdered, UpOrdered, DownOrdered
<1>9. OpenMeansFlushed' /\ RegisteredIsLive' /\ OpenMockIsTracked'
  BY <1>1, <1>4 DEF MockInv, OpenMeansFlushed, RegisteredIsLive, OpenMockIsTracked, serverVars
<1> QED
  BY <1>5, <1>8, <1>9 DEF MockInv

\* send() on an open mock: on the wire, or lost.
LEMMA SentStep ==
    ASSUME MockInv, NEW w \in Ids, Send(w), state[w] = "open"
    PROVE  MockInv'
<1>1. /\ UNCHANGED <<queue, state, registered, dialling, heard, chanVars, down, serverVars>>
      /\ sends[w] < MaxSends /\ sends' = [sends EXCEPT ![w] = @ + 1]
      /\ Transmit(<<Message(w, sends[w] + 1)>>)
  BY DEF Send, MockInv, TypeOK
<1>2. TypeOK /\ StreamsAreOrdered /\ queue[w] = <<>>
  BY DEF MockInv, OpenMeansFlushed
<1>3. /\ sends[w] + 1 \in Numbers /\ sends[w] \in Nat /\ sends'[w] = sends[w] + 1
      /\ \A v \in Ids : v # w => sends'[v] = sends[v]
  BY <1>1, <1>2, SendsAssumption DEF TypeOK, Numbers
<1> DEFINE ms == <<Message(w, sends[w] + 1)>>
<1>4. /\ ms \in Seq(UpMessages) /\ Transmit(ms) /\ DOMAIN ms = {1}
      /\ Carries(ms[1], w) /\ ms[1].n = sends[w] + 1
      /\ \A v \in Ids : v # w => ~Carries(ms[1], v)
  BY <1>1, <1>3, MessageFacts
<1> HIDE DEF ms
<1>5. PastQueue(w) = sends[w] /\ PastQueue(w)' = sends[w] + 1
  BY <1>1, <1>2, <1>3 DEF PastQueue
<1>6. \A v \in Ids : v # w => PastQueue(v)' = PastQueue(v)
  BY <1>1, <1>3 DEF PastQueue
<1>7. ASSUME NEW v \in Ids
      PROVE  up' \in [Chans -> Seq(UpMessages)] /\ Stream(v, got[v], up', PastQueue(v)')
  <2>1. Stream(v, got[v], up, PastQueue(v)) /\ PastQueue(v) \in Nat
    BY <1>2, Counts DEF StreamsAreOrdered
  <2>2. PastQueue(v)' \in Nat /\ PastQueue(v) <= PastQueue(v)'
    BY <2>1, <1>3, <1>5, <1>6
  <2>3. \A i \in DOMAIN ms : Carries(ms[i], v) => PastQueue(v) < ms[i].n /\ ms[i].n <= PastQueue(v)'
    BY <1>3, <1>4, <1>5
  <2>4. \A i, j \in DOMAIN ms : ~(i < j)
    BY <1>4
  <2> QED
    BY <2>1, <2>2, <2>3, <2>4, <1>2, <1>4, StreamTransmitted
<1>8. TypeOK'
  <2>1. up' \in [Chans -> Seq(UpMessages)]
    BY <1>7
  <2>2. sends' \in [Ids -> 0..MaxSends]
    BY <1>1, <1>2, <1>3, SendsAssumption DEF TypeOK
  <2> QED
    BY <1>1, <1>2, <2>1, <2>2 DEF TypeOK, chanVars, serverVars
<1>9. StreamsAreOrdered'
  <2>1. \A v \in Ids : UpOrdered(v)'
    BY <1>1, <1>7 DEF UpOrdered, serverVars
  <2>2. \A v \in Ids : DownOrdered(v)'
    BY <1>1, <1>2, StreamParts DEF DownOrdered, serverVars
  <2>3. \A v \in Ids : v # w => QueueOrdered(v)'
    BY <1>1, <1>2, <1>3, StreamParts DEF QueueOrdered
  <2>4. QueueOrdered(w)'
    BY <1>1, <1>2 DEF QueueOrdered, Increasing
  <2> QED
    BY <2>1, <2>2, <2>3, <2>4 DEF StreamsAreOrdered, QueueOrdered, UpOrdered, DownOrdered
<1>10. OpenMeansFlushed' /\ RegisteredIsLive' /\ OpenMockIsTracked'
  BY <1>1 DEF MockInv, OpenMeansFlushed, RegisteredIsLive, OpenMockIsTracked, serverVars
<1> QED
  BY <1>8, <1>9, <1>10 DEF MockInv

\* The server's application sends or closes: behind what it sent before, on the
\* channel its mock is tracked under.
LEMMA AppStep ==
    ASSUME MockInv, NEW w \in Ids, AppSend(w) \/ AppClose(w)
    PROVE  MockInv'
<1>1. /\ UNCHANGED <<clientVars, chanVars, up, lost, entry, clients, got>>
      /\ mock' = mock \/ mock' = [mock EXCEPT ![w] = "closed"]
  BY DEF AppSend, AppClose
<1>2. TypeOK /\ StreamsAreOrdered /\ entry[w] \in Chans
  BY DEF MockInv, OpenMockIsTracked, AppSend, AppClose
<1> DEFINE c == entry[w]
<1>3. /\ \A v \in Ids : replies[v] \in Nat
      /\ down \in [Chans -> Seq(DownMessages)] /\ Numbered(DownMessages)
  BY <1>2, Counts, MessagesAreNumbered DEF TypeOK
<1>4. PICK m \in DownMessages :
         /\ down' = [down EXCEPT ![c] = @ \o <<m>>]
         /\ \A v \in Ids :
               /\ replies'[v] \in 0..MaxSends /\ replies[v] <= replies'[v]
               /\ Carries(m, v) => replies[v] < m.n /\ m.n <= replies'[v]
         /\ replies' \in [Ids -> 0..MaxSends]
  <2>1. CASE AppSend(w)
    <3> DEFINE n == replies[w] + 1
    <3>1. /\ n \in Numbers /\ replies' = [replies EXCEPT ![w] = n] /\ n \in 0..MaxSends
          /\ down' = [down EXCEPT ![c] = Append(@, Message(w, n))]
      BY <2>1, <1>2, SendsAssumption DEF AppSend, TypeOK, Numbers
    <3>2. Append(down[c], Message(w, n)) = down[c] \o <<Message(w, n)>> /\ Message(w, n) \in DownMessages
      BY <3>1, <1>2, <1>3, MessageFacts, AppendFacts
    <3>3. \A v \in Ids : Carries(Message(w, n), v) => v = w
      BY <3>1, MessageFacts
    <3>4. Message(w, n).n = n
      BY DEF Message
    <3>5. \A v \in Ids : v # w => replies'[v] = replies[v]
      BY <3>1, <1>2 DEF TypeOK
    <3>6. replies'[w] = n /\ replies[w] < n /\ replies[w] <= n
      BY <3>1, <1>2, <1>3 DEF TypeOK
    <3>7. replies' \in [Ids -> 0..MaxSends]
      BY <3>1, <1>2 DEF TypeOK
    <3>8. \A v \in Ids : replies'[v] \in 0..MaxSends /\ replies[v] <= replies'[v]
      BY <3>5, <3>6, <3>7, <1>3
    <3>9. down' = [down EXCEPT ![c] = @ \o <<Message(w, n)>>]
      BY <3>1, <3>2
    <3> HIDE DEF n
    <3> Message(w, n) \in DownMessages
      BY <3>2
    <3> WITNESS Message(w, n) \in DownMessages
    <3>10. n <= n
      BY <3>1, SendsAssumption DEF Numbers
    <3> QED
      BY <3>3, <3>4, <3>6, <3>7, <3>8, <3>9, <3>10
  <2>2. CASE AppClose(w)
    <3>1. /\ replies' = replies /\ down' = [down EXCEPT ![c] = Append(@, Event(w, "close"))]
          /\ Event(w, "close") \in DownMessages
          /\ \A v \in Ids : ~Carries(Event(w, "close"), v)
      BY <2>2, EventFacts DEF AppClose
    <3>2. Append(down[c], Event(w, "close")) = down[c] \o <<Event(w, "close")>>
      BY <3>1, <1>2, <1>3, AppendFacts
    <3>3. \A v \in Ids : replies[v] \in 0..MaxSends /\ replies[v] <= replies[v]
      <4>1. \A v \in Ids : replies[v] \in 0..MaxSends
        BY <1>2 DEF TypeOK
      <4>2. \A k \in Nat : k <= k
        OBVIOUS
      <4>3. \A v \in Ids : replies[v] <= replies[v]
        BY <4>2, <1>3, Zenon
      <4> QED
        BY <4>1, <4>3, Zenon
    <3>4. down' = [down EXCEPT ![c] = @ \o <<Event(w, "close")>>]
      BY <3>1, <3>2
    <3>5. replies' \in [Ids -> 0..MaxSends]
      BY <3>1, <1>2 DEF TypeOK
    <3> Event(w, "close") \in DownMessages
      BY <3>1
    <3> WITNESS Event(w, "close") \in DownMessages
    <3> QED
      BY <3>1, <3>3, <3>4, <3>5
  <2> QED
    BY <2>1, <2>2
<1> DEFINE ms == <<m>>
<1>5. ms \in Seq(DownMessages) /\ DOMAIN ms = {1} /\ ms[1] = m /\ down' = [down EXCEPT ![c] = @ \o ms]
  BY <1>4
<1> HIDE DEF ms, c
<1>6. ASSUME NEW v \in Ids
      PROVE  down' \in [Chans -> Seq(DownMessages)] /\ Stream(v, heard[v], down', replies'[v])
  <2>1. Stream(v, heard[v], down, replies[v]) /\ heard[v] \in Seq(Deliveries)
    BY <1>2, Counts DEF StreamsAreOrdered
  <2>2. replies'[v] \in Nat /\ replies[v] <= replies'[v]
    BY <1>4, SendsAssumption
  <2>3. \A i \in DOMAIN ms : Carries(ms[i], v) => replies[v] < ms[i].n /\ ms[i].n <= replies'[v]
    BY <1>4, <1>5
  <2>4. \A i, j \in DOMAIN ms : ~(i < j)
    BY <1>5
  <2>5. c \in Chans
    BY <1>2 DEF c
  <2> QED
    BY <2>1, <2>2, <2>3, <2>4, <2>5, <1>3, <1>5, StreamExtended
<1>7. TypeOK'
  <2>1. down' \in [Chans -> Seq(DownMessages)]
    BY <1>6
  <2> QED
    BY <1>1, <1>2, <1>4, <2>1 DEF TypeOK, clientVars, chanVars
<1>8. StreamsAreOrdered'
  <2>1. \A v \in Ids : DownOrdered(v)'
    BY <1>1, <1>6 DEF DownOrdered, clientVars
  <2>2. \A v \in Ids : PastQueue(v)' = PastQueue(v)
    BY <1>1 DEF PastQueue, clientVars
  <2>3. \A v \in Ids : UpOrdered(v)' /\ QueueOrdered(v)'
    BY <2>2, <1>1, <1>2, StreamParts DEF UpOrdered, QueueOrdered, clientVars
  <2> QED
    BY <2>1, <2>3 DEF StreamsAreOrdered, QueueOrdered, UpOrdered, DownOrdered
<1>9. OpenMeansFlushed' /\ RegisteredIsLive' /\ OpenMockIsTracked'
  BY <1>1 DEF MockInv, TypeOK, OpenMeansFlushed, RegisteredIsLive, OpenMockIsTracked, clientVars
<1> QED
  BY <1>7, <1>8, <1>9 DEF MockInv

\* The client takes a message from a channel.
LEMMA DownTaken ==
    ASSUME TypeOK, StreamsAreOrdered, NEW c \in Chans, down[c] # <<>>,
           down' = [down EXCEPT ![c] = Tail(@)]
    PROVE  LET m == Head(down[c]) IN
           /\ m \in DownMessages /\ m.id \in Ids
           /\ m.type = "ws_message" => [n |-> m.n, on |-> c] \in Deliveries
           /\ down' \in [Chans -> Seq(DownMessages)]
           /\ \A v \in Ids :
                 /\ Stream(v, heard[v], down', replies[v])
                 /\ Carries(m, v) => Stream(v, Append(heard[v], [n |-> m.n, on |-> c]), down', replies[v])
<1> DEFINE m == Head(down[c])
<1>1. down \in [Chans -> Seq(DownMessages)] /\ Numbered(DownMessages)
  BY MessagesAreNumbered DEF TypeOK
<1>2. m \in DownMessages
  BY <1>1, TailFacts
<1> HIDE DEF m
<1>3. m.id \in Ids /\ (m.type = "ws_message" => [n |-> m.n, on |-> c] \in Deliveries)
  BY <1>2 DEF DownMessages, Deliveries
<1>4. down' \in [Chans -> Seq(DownMessages)]
  BY <1>1, TailFacts
<1>5. \A v \in Ids :
         /\ Stream(v, heard[v], down', replies[v])
         /\ Carries(m, v) => Stream(v, Append(heard[v], [n |-> m.n, on |-> c]), down', replies[v])
  BY <1>1, Counts, StreamTaken DEF StreamsAreOrdered, m
<1> QED
  BY <1>2, <1>3, <1>4, <1>5 DEF m

\* The queue of a mock that opens, as it goes out.
LEMMA FlushFacts ==
    ASSUME TypeOK, StreamsAreOrdered, NEW w \in Ids
    PROVE  LET ms == Messages(w, queue[w]) IN
           /\ ms \in Seq(UpMessages)
           /\ \A i \in DOMAIN ms : ms[i].n \in Nat /\ PastQueue(w) < ms[i].n /\ ms[i].n <= sends[w]
           /\ \A i, j \in DOMAIN ms : i < j => ms[i].n < ms[j].n
           /\ \A v \in Ids : v # w => \A i \in DOMAIN ms : ~Carries(ms[i], v)
           /\ PastQueue(w) <= sends[w]
<1> DEFINE ms == Messages(w, queue[w])
           q == queue[w]
<1>1. /\ q \in Seq(Numbers) /\ Len(q) \in Nat /\ DOMAIN q = 1..Len(q)
      /\ sends[w] \in Nat /\ \A i \in DOMAIN q : q[i] \in Numbers /\ q[i] \in Nat
  BY Counts
<1>2. /\ \A i \in DOMAIN q : q[i] <= sends[w]
      /\ \A i, j \in DOMAIN q : i < j => q[i] < q[j]
  BY DEF StreamsAreOrdered, Increasing
<1>3. ms = [i \in 1..Len(q) |-> Message(w, q[i])] /\ DOMAIN ms = DOMAIN q
  BY <1>1 DEF Messages
<1>4. \A i \in DOMAIN q : /\ ms[i] \in UpMessages /\ ms[i].n = q[i]
                          /\ \A v \in Ids : v # w => ~Carries(ms[i], v)
  BY <1>1, <1>3, MessageFacts
<1>5. ms \in Seq(UpMessages)
  <2>1. ms \in [1..Len(q) -> UpMessages]
    BY <1>1, <1>3, <1>4
  <2>2. \A l \in Nat : [1..l -> UpMessages] \subseteq Seq(UpMessages)
    OBVIOUS
  <2> QED
    BY <2>1, <2>2, <1>1, Zenon
<1>6. \A i \in DOMAIN q : PastQueue(w) < q[i]
  <2> SUFFICES ASSUME NEW i \in DOMAIN q PROVE PastQueue(w) < q[i]
    OBVIOUS
  <2>1. 1 \in DOMAIN q /\ q # <<>> /\ i >= 1 /\ i \in Nat
    BY <1>1
  <2>2. PastQueue(w) = q[1] - 1
    BY <2>1 DEF PastQueue
  <2>3. q[1] <= q[i]
    BY <2>1, <1>1, <1>2
  <2> QED
    BY <2>1, <2>2, <2>3, <1>1
<1>7. PastQueue(w) <= sends[w]
  <2>1. CASE q = <<>>
    BY <2>1, <1>1 DEF PastQueue
  <2>2. CASE q # <<>>
    <3>1. 1 \in DOMAIN q
      BY <2>2, <1>1
    <3>2. PastQueue(w) < q[1] /\ q[1] <= sends[w] /\ q[1] \in Nat /\ PastQueue(w) \in Nat
      BY <3>1, <1>1, <1>2, <1>6, Counts
    <3> QED
      BY <3>2, <1>1
  <2> QED
    BY <2>1, <2>2
<1> HIDE DEF ms, q
<1> QED
  BY <1>1, <1>2, <1>3, <1>4, <1>5, <1>6, <1>7 DEF ms

\* The open event: the queue goes out behind all that was sent.
LEMMA OpenEventStep ==
    ASSUME MockInv, NEW c \in Chans, ClientReceives(c), NEW w \in Ids, w = Head(down[c]).id,
           state' = [state EXCEPT ![w] = "open"], queue' = [queue EXCEPT ![w] = <<>>],
           Transmit(Messages(w, queue[w])), w \in registered, UNCHANGED <<registered, heard>>
    PROVE  MockInv'
<1>1. /\ UNCHANGED <<dialling, sends, chanVars, serverVars>>
      /\ down[c] # <<>> /\ down' = [down EXCEPT ![c] = Tail(@)]
  BY DEF ClientReceives
<1>2. TypeOK /\ StreamsAreOrdered
  BY DEF MockInv
<1>3. /\ queue'[w] = <<>> /\ \A v \in Ids : v # w => queue'[v] = queue[v]
      /\ queue' \in [Ids -> Seq(Numbers)] /\ state' \in [Ids -> {"none", "connecting", "open", "closing", "closed"}]
  BY <1>2 DEF TypeOK
<1>4. PastQueue(w)' = sends[w] /\ \A v \in Ids : v # w => PastQueue(v)' = PastQueue(v)
  BY <1>1, <1>3 DEF PastQueue
<1> DEFINE ms == Messages(w, queue[w])
<1>5. /\ ms \in Seq(UpMessages) /\ Transmit(ms)
      /\ \A i \in DOMAIN ms : PastQueue(w) < ms[i].n /\ ms[i].n <= sends[w]
      /\ \A i, j \in DOMAIN ms : i < j => ms[i].n < ms[j].n
      /\ \A v \in Ids : v # w => \A i \in DOMAIN ms : ~Carries(ms[i], v)
      /\ PastQueue(w) <= sends[w]
  BY <1>2, FlushFacts
<1> HIDE DEF ms
<1>6. ASSUME NEW v \in Ids
      PROVE  up' \in [Chans -> Seq(UpMessages)] /\ Stream(v, got[v], up', PastQueue(v)')
  <2>1. Stream(v, got[v], up, PastQueue(v)) /\ PastQueue(v) \in Nat /\ sends[v] \in Nat
    BY <1>2, Counts DEF StreamsAreOrdered
  <2>2. PastQueue(v)' \in Nat /\ PastQueue(v) <= PastQueue(v)'
    BY <2>1, <1>4, <1>5
  <2>3. \A i \in DOMAIN ms : Carries(ms[i], v) => PastQueue(v) < ms[i].n /\ ms[i].n <= PastQueue(v)'
    BY <1>4, <1>5
  <2> QED
    BY <2>1, <2>2, <2>3, <1>2, <1>5, StreamTransmitted
<1>7. TypeOK'
  <2>1. up' \in [Chans -> Seq(UpMessages)] /\ down' \in [Chans -> Seq(DownMessages)]
    BY <1>1, <1>2, <1>6, DownTaken
  <2> QED
    BY <1>1, <1>2, <1>3, <2>1 DEF TypeOK, chanVars, serverVars
<1>8. StreamsAreOrdered'
  <2>1. \A v \in Ids : UpOrdered(v)'
    BY <1>1, <1>6 DEF UpOrdered, serverVars
  <2>2. \A v \in Ids : DownOrdered(v)'
    BY <1>1, <1>2, DownTaken DEF DownOrdered, serverVars
  <2>3. \A v \in Ids : v # w => QueueOrdered(v)'
    BY <1>1, <1>2, <1>3, StreamParts DEF QueueOrdered
  <2>4. QueueOrdered(w)'
    BY <1>3 DEF QueueOrdered, Increasing
  <2> QED
    BY <2>1, <2>2, <2>3, <2>4 DEF StreamsAreOrdered, QueueOrdered, UpOrdered, DownOrdered
<1>9. OpenMeansFlushed' /\ RegisteredIsLive' /\ OpenMockIsTracked'
  BY <1>1, <1>2, <1>3 DEF MockInv, TypeOK, OpenMeansFlushed, RegisteredIsLive, OpenMockIsTracked, serverVars
<1> QED
  BY <1>7, <1>8, <1>9 DEF MockInv

\* Any message for the client.
LEMMA ClientReceivesStep ==
    ASSUME MockInv, NEW c \in Chans, ClientReceives(c)
    PROVE  MockInv'
<1> DEFINE m == Head(down[c])
           w == m.id
<1>1. /\ UNCHANGED <<dialling, sends, chanVars, serverVars>>
      /\ down[c] # <<>> /\ down' = [down EXCEPT ![c] = Tail(@)]
  BY DEF ClientReceives
<1>2. TypeOK /\ StreamsAreOrdered
  BY DEF MockInv
<1>3. /\ w \in Ids /\ (m.type = "ws_message" => [n |-> m.n, on |-> c] \in Deliveries)
      /\ down' \in [Chans -> Seq(DownMessages)]
      /\ \A v \in Ids :
            /\ Stream(v, heard[v], down', replies[v])
            /\ Carries(m, v) => Stream(v, Append(heard[v], [n |-> m.n, on |-> c]), down', replies[v])
  BY <1>1, <1>2, DownTaken
<1>4. \/ /\ w \in registered /\ state' = [state EXCEPT ![w] = "open"]
         /\ queue' = [queue EXCEPT ![w] = <<>>] /\ Transmit(Messages(w, queue[w]))
         /\ UNCHANGED <<registered, heard>>
      \/ /\ state' = [state EXCEPT ![w] = "closed"] /\ registered' = registered \ {w}
         /\ UNCHANGED <<queue, heard, up>>
      \/ /\ m.type = "ws_message" /\ heard' = [heard EXCEPT ![w] = Append(@, [n |-> m.n, on |-> c])]
         /\ UNCHANGED <<state, registered, queue, up>>
      \/ UNCHANGED <<state, registered, queue, heard, up>>
  BY DEF ClientReceives
<1>5. CASE /\ w \in registered /\ state' = [state EXCEPT ![w] = "open"]
           /\ queue' = [queue EXCEPT ![w] = <<>>] /\ Transmit(Messages(w, queue[w]))
           /\ UNCHANGED <<registered, heard>>
  BY <1>3, <1>5, OpenEventStep
<1>6. CASE /\ UNCHANGED <<queue, up>>
           /\ \/ UNCHANGED <<state, registered>>
              \/ state' = [state EXCEPT ![w] = "closed"] /\ registered' = registered \ {w}
           /\ \/ UNCHANGED heard
              \/ /\ m.type = "ws_message"
                 /\ heard' = [heard EXCEPT ![w] = Append(@, [n |-> m.n, on |-> c])]
  <2> HIDE DEF m
  <2>1. /\ heard' \in [Ids -> Seq(Deliveries)]
        /\ \A v \in Ids : \/ heard'[v] = heard[v]
                          \/ Carries(m, v) /\ heard'[v] = Append(heard[v], [n |-> m.n, on |-> c])
    <3>1. heard \in [Ids -> Seq(Deliveries)]
      BY <1>2 DEF TypeOK
    <3>2. CASE UNCHANGED heard
      BY <3>1, <3>2
    <3>3. CASE /\ m.type = "ws_message"
               /\ heard' = [heard EXCEPT ![w] = Append(@, [n |-> m.n, on |-> c])]
      <4>1. Append(heard[w], [n |-> m.n, on |-> c]) \in Seq(Deliveries)
        BY <3>1, <3>3, <1>3, AppendFacts
      <4>2. Carries(m, w)
        BY <3>3 DEF Carries
      <4> HIDE DEF w
      <4> QED
        BY <3>1, <3>3, <4>1, <4>2, <1>3
    <3> QED
      BY <1>6, <3>2, <3>3
  <2>2. TypeOK'
    BY <1>1, <1>2, <1>3, <1>6, <2>1 DEF TypeOK, chanVars, serverVars
  <2>3. StreamsAreOrdered'
    <3>1. \A v \in Ids : DownOrdered(v)'
      BY <2>1, <1>1, <1>3 DEF DownOrdered, serverVars
    <3>2. \A v \in Ids : PastQueue(v)' = PastQueue(v)
      BY <1>1, <1>6 DEF PastQueue
    <3>3. \A v \in Ids : UpOrdered(v)' /\ QueueOrdered(v)'
      BY <3>2, <1>1, <1>2, <1>6, StreamParts DEF UpOrdered, QueueOrdered, serverVars
    <3> QED
      BY <3>1, <3>3 DEF StreamsAreOrdered, QueueOrdered, UpOrdered, DownOrdered
  <2>4. OpenMeansFlushed' /\ RegisteredIsLive' /\ OpenMockIsTracked'
    BY <1>1, <1>3, <1>6 DEF MockInv, TypeOK, OpenMeansFlushed, RegisteredIsLive, OpenMockIsTracked, serverVars
  <2> QED
    BY <2>2, <2>3, <2>4 DEF MockInv
<1> QED
  BY <1>4, <1>5, <1>6

\* The server takes a message from a channel.
LEMMA UpTaken ==
    ASSUME TypeOK, StreamsAreOrdered, NEW c \in Chans, up[c] # <<>>,
           up' = [up EXCEPT ![c] = Tail(@)]
    PROVE  LET m == Head(up[c]) IN
           /\ m \in UpMessages /\ m.id \in Ids
           /\ m.type = "ws_message" => [n |-> m.n, on |-> c] \in Deliveries
           /\ up' \in [Chans -> Seq(UpMessages)]
           /\ \A v \in Ids :
                 /\ Stream(v, got[v], up', PastQueue(v))
                 /\ Carries(m, v) => Stream(v, Append(got[v], [n |-> m.n, on |-> c]), up', PastQueue(v))
<1> DEFINE m == Head(up[c])
<1>1. up \in [Chans -> Seq(UpMessages)] /\ Numbered(UpMessages)
  BY MessagesAreNumbered DEF TypeOK
<1>2. m \in UpMessages
  BY <1>1, TailFacts
<1> HIDE DEF m
<1>3. m.id \in Ids /\ (m.type = "ws_message" => [n |-> m.n, on |-> c] \in Deliveries)
  BY <1>2 DEF UpMessages, Deliveries
<1>4. up' \in [Chans -> Seq(UpMessages)]
  BY <1>1, TailFacts
<1>5. \A v \in Ids :
         /\ Stream(v, got[v], up', PastQueue(v))
         /\ Carries(m, v) => Stream(v, Append(got[v], [n |-> m.n, on |-> c]), up', PastQueue(v))
  BY <1>1, Counts, StreamTaken DEF StreamsAreOrdered, m
<1> QED
  BY <1>2, <1>3, <1>4, <1>5 DEF m

\* ws_connect: the greeting of the application, if any, and the event go out behind
\* what it sent before.
LEMMA GreetingIsOrdered ==
    ASSUME TypeOK, StreamsAreOrdered, NEW c \in Chans, NEW w \in Ids, TunnelConnect(c, w)
    PROVE  /\ down' \in [Chans -> Seq(DownMessages)] /\ replies' \in [Ids -> 0..MaxSends]
           /\ \A v \in Ids : Stream(v, heard[v], down', replies'[v])
<1>1. PICK greet \in 0..1, last \in {"open", "error"} :
         /\ replies[w] + greet <= MaxSends
         /\ replies' = [replies EXCEPT ![w] = @ + greet]
         /\ down' = [down EXCEPT ![c] = @ \o [i \in 1..greet |-> Message(w, replies'[w])]
                                          \o <<Event(w, last)>>]
  BY DEF TunnelConnect
<1> DEFINE ms == [i \in 1..greet |-> Message(w, replies'[w])]
           es == <<Event(w, last)>>
           mid == [down EXCEPT ![c] = @ \o ms]
<1>2. /\ \A v \in Ids : replies[v] \in Nat /\ heard[v] \in Seq(Deliveries)
      /\ down \in [Chans -> Seq(DownMessages)] /\ Numbered(DownMessages)
      /\ \A v \in Ids : Stream(v, heard[v], down, replies[v])
  BY Counts, MessagesAreNumbered DEF TypeOK, StreamsAreOrdered
<1>3. /\ replies'[w] = replies[w] + greet /\ \A v \in Ids : v # w => replies'[v] = replies[v]
      /\ replies[w] + greet \in 0..MaxSends
      /\ replies' \in [Ids -> 0..MaxSends]
  BY <1>1, <1>2, SendsAssumption DEF TypeOK
<1>4. /\ \A v \in Ids : replies'[v] \in Nat
      /\ \A v \in Ids : replies[v] <= replies'[v]
  BY <1>1, <1>2, <1>3
<1>5. ASSUME NEW i \in 1..greet
      PROVE  /\ i = 1 /\ greet = 1 /\ replies'[w] \in Numbers
             /\ ms[i] \in DownMessages /\ ms[i].n = replies'[w] /\ replies[w] < replies'[w]
             /\ \A v \in Ids : v # w => ~Carries(ms[i], v)
  <2>1. i = 1 /\ greet = 1
    BY <1>1
  <2>2. replies'[w] \in Numbers /\ replies[w] < replies'[w]
    BY <2>1, <1>1, <1>2, <1>3 DEF Numbers
  <2> QED
    BY <2>1, <2>2, MessageFacts
<1>6. ms \in Seq(DownMessages) /\ DOMAIN ms = 1..greet
  <2>1. ms \in [1..greet -> DownMessages] /\ greet \in Nat
    BY <1>1, <1>5
  <2>2. \A l \in Nat : [1..l -> DownMessages] \subseteq Seq(DownMessages)
    OBVIOUS
  <2> QED
    BY <2>1, <2>2, Zenon
<1>7. /\ es \in Seq(DownMessages) /\ DOMAIN es = {1}
      /\ \A v \in Ids : \A i \in DOMAIN es : ~Carries(es[i], v)
  BY <1>1, EventFacts
<1>8. down' = [mid EXCEPT ![c] = @ \o es]
  BY <1>1, <1>2
<1> HIDE DEF ms, es
<1>9. ASSUME NEW v \in Ids
      PROVE  mid \in [Chans -> Seq(DownMessages)] /\ Stream(v, heard[v], mid, replies'[v])
  <2>1. \A i \in DOMAIN ms : Carries(ms[i], v) => replies[v] < ms[i].n /\ ms[i].n <= replies'[v]
    BY <1>4, <1>5, <1>6
  <2>2. \A i, j \in DOMAIN ms : ~(i < j)
    BY <1>5, <1>6
  <2> QED
    BY <2>1, <2>2, <1>2, <1>4, <1>6, StreamExtended
<1> HIDE DEF mid
<1>10. ASSUME NEW v \in Ids
       PROVE  down' \in [Chans -> Seq(DownMessages)] /\ Stream(v, heard[v], down', replies'[v])
  <2>1. replies'[v] \in Nat /\ replies'[v] <= replies'[v]
    BY <1>4
  <2> QED
    BY <2>1, <1>2, <1>7, <1>8, <1>9, StreamExtended
<1> QED
  BY <1>3, <1>10

\* Any message for the server.
LEMMA ServerReceivesStep ==
    ASSUME MockInv, NEW c \in Chans, ServerReceives(c)
    PROVE  MockInv'
<1> DEFINE m == Head(up[c])
           w == m.id
<1>1. /\ UNCHANGED <<clientVars, chanVars, lost>>
      /\ up[c] # <<>> /\ c \notin lost /\ up' = [up EXCEPT ![c] = Tail(@)]
  BY DEF ServerReceives
<1>2. TypeOK /\ StreamsAreOrdered
  BY DEF MockInv
<1>3. /\ w \in Ids /\ (m.type = "ws_message" => [n |-> m.n, on |-> c] \in Deliveries)
      /\ up' \in [Chans -> Seq(UpMessages)]
      /\ \A v \in Ids :
            /\ Stream(v, got[v], up', PastQueue(v))
            /\ Carries(m, v) => Stream(v, Append(got[v], [n |-> m.n, on |-> c]), up', PastQueue(v))
  BY <1>1, <1>2, UpTaken
<1>4. \/ TunnelConnect(c, w)
      \/ m.type = "ws_message" /\ TunnelMessage(c, w, m.n)
      \/ TunnelClose(w)
  BY DEF ServerReceives
<1>5. OpenMeansFlushed' /\ RegisteredIsLive' /\ \A v \in Ids : QueueOrdered(v)'
  BY <1>1, <1>2, StreamParts DEF MockInv, OpenMeansFlushed, RegisteredIsLive, QueueOrdered, clientVars
<1>6. \A v \in Ids : PastQueue(v)' = PastQueue(v)
  BY <1>1 DEF PastQueue, clientVars
<1> HIDE DEF m
<1>7. OpenMockIsTracked' /\ entry' \in [Ids -> Chans \cup {None}]
      /\ mock' \in [Ids -> {"none", "open", "closed"}] /\ clients' \subseteq Ids
  <2> HIDE DEF w
  <2>1. CASE TunnelConnect(c, w)
    BY <2>1, <1>1, <1>2, <1>3, NoneIsNoChan DEF TunnelConnect, TypeOK, MockInv, OpenMockIsTracked
  <2>2. CASE TunnelMessage(c, w, m.n)
    BY <2>2, <1>1, <1>2 DEF TunnelMessage, TypeOK, MockInv, OpenMockIsTracked
  <2>3. CASE TunnelClose(w)
    BY <2>3, <1>1, <1>2, <1>3 DEF TunnelClose, TypeOK, MockInv, OpenMockIsTracked
  <2> QED
    BY <1>4, <2>1, <2>2, <2>3
<1>8. /\ down' \in [Chans -> Seq(DownMessages)] /\ replies' \in [Ids -> 0..MaxSends]
      /\ \A v \in Ids : Stream(v, heard[v], down', replies'[v])
  <2>1. CASE TunnelConnect(c, w)
    BY <2>1, <1>2, <1>3, GreetingIsOrdered
  <2>2. CASE UNCHANGED <<down, replies>>
    BY <2>2, <1>2 DEF TypeOK, StreamsAreOrdered
  <2> QED
    BY <1>4, <2>1, <2>2 DEF TunnelMessage, TunnelClose
<1>9. /\ got' \in [Ids -> Seq(Deliveries)]
      /\ \A v \in Ids : \/ got'[v] = got[v]
                        \/ Carries(m, v) /\ got'[v] = Append(got[v], [n |-> m.n, on |-> c])
  <2>1. got \in [Ids -> Seq(Deliveries)]
    BY <1>2 DEF TypeOK
  <2>2. CASE UNCHANGED got
    BY <2>1, <2>2
  <2>3. CASE m.type = "ws_message" /\ got' = [got EXCEPT ![w] = Append(@, [n |-> m.n, on |-> c])]
    <3>1. Append(got[w], [n |-> m.n, on |-> c]) \in Seq(Deliveries)
      BY <2>1, <2>3, <1>3, AppendFacts
    <3>2. Carries(m, w)
      BY <2>3 DEF Carries
    <3> HIDE DEF w
    <3> QED
      BY <2>1, <2>3, <3>1, <3>2, <1>3
  <2> QED
    BY <1>4, <2>2, <2>3 DEF TunnelConnect, TunnelMessage, TunnelClose
<1>10. TypeOK'
  BY <1>1, <1>2, <1>3, <1>7, <1>8, <1>9 DEF TypeOK, clientVars, chanVars
<1>11. StreamsAreOrdered'
  <2>1. \A v \in Ids : UpOrdered(v)'
    BY <1>3, <1>6, <1>9 DEF UpOrdered
  <2>2. \A v \in Ids : DownOrdered(v)'
    BY <1>1, <1>8 DEF DownOrdered, clientVars
  <2> QED
    BY <2>1, <2>2, <1>5 DEF StreamsAreOrdered, QueueOrdered, UpOrdered, DownOrdered
<1> QED
  BY <1>5, <1>7, <1>10, <1>11 DEF MockInv

\* Every step keeps the invariant.
LEMMA NextInv == MockInv /\ [Next]_vars => MockInv'
<1> SUFFICES ASSUME MockInv, [Next]_vars PROVE MockInv'
  OBVIOUS
<1>1. CASE UNCHANGED vars
  <2>1. UNCHANGED <<clientVars, chanVars, up, down, serverVars>>
    BY <1>1 DEF vars
  <2>2. StreamsAreOrdered'
    BY <2>1, QuietStep DEF clientVars, serverVars
  <2> QED
    BY <2>1, <2>2 DEF MockInv, TypeOK, OpenMeansFlushed, OpenMockIsTracked, RegisteredIsLive,
                      clientVars, chanVars, serverVars
<1>2. ASSUME NEW w \in Ids, Send(w) PROVE MockInv'
  <2>1. state[w] = "connecting" \/ state[w] = "open"
    BY <1>2 DEF Send
  <2> QED
    BY <1>2, <2>1, QueuedStep, SentStep
<1> QED
  BY <1>1, <1>2, ChannelStep, ServerLosesStep, ConnectCloseStep, AppStep, ClientReceivesStep,
     ServerReceivesStep DEF Next

-----------------------------------------------------------------------------
(***************************************************************************)
(* Theorems.                                                               *)
(***************************************************************************)

\* MockInv, for any number of WebSockets, control channels and messages: queues are
\* flushed when a mock opens, an open mock of the server is always one that the loss
\* of its channel reaches, and no message is sent over or overtakes another.
THEOREM MockInvariance == Spec => []MockInv
<1> QED
  BY InitInv, NextInv, PTL DEF Spec

\* Each end hears the other's messages of a channel in the order of the send() calls
\* and none twice, though they are queued before open, flushed on whatever channel is
\* current, sent while another channel is being lost, or dropped.
THEOREM MessagesAreHeardInOrder == Spec => []HeardInOrder
<1>1. MockInv => HeardInOrder
  BY DEF MockInv, StreamsAreOrdered, Stream, HeardInOrder
<1> QED
  BY <1>1, MockInvariance, PTL

\* A mock that its user closed, or that was told it is closed, neither opens again
\* nor hears another message: events that are under way find it unregistered.
THEOREM ClosedMocksAreSilent == Spec => ClosedMockIsSilent
<1> DEFINE Silent(w) == state[w] \in {"closing", "closed"} =>
                            state'[w] \in {"closing", "closed"} /\ heard'[w] = heard[w]
<1>1. MockInv /\ [Next]_vars => [\A w \in Ids : Silent(w)]_vars
  <2> SUFFICES ASSUME MockInv, Next, NEW v \in Ids, state[v] \in {"closing", "closed"}
               PROVE  state'[v] \in {"closing", "closed"} /\ heard'[v] = heard[v]
    OBVIOUS
  <2>1. TypeOK /\ v \notin registered
    BY DEF MockInv, RegisteredIsLive
  <2>2. CASE CloseTunnel \/ \E c \in Chans : ChannelClosed(c)
    BY <2>1, <2>2 DEF CloseTunnel, ChannelClosed, CloseAll
  <2>3. ASSUME NEW w \in Ids, New(w) \/ CloseMock(w)
        PROVE  state'[v] \in {"closing", "closed"} /\ heard'[v] = heard[v]
    BY <2>1, <2>3 DEF New, CloseMock, TypeOK
  <2>4. ASSUME NEW w \in Ids, Connect(w) \/ Send(w) \/ AppSend(w) \/ AppClose(w)
        PROVE  state'[v] \in {"closing", "closed"} /\ heard'[v] = heard[v]
    BY <2>4 DEF Connect, Send, AppSend, AppClose, clientVars
  <2>5. ASSUME NEW c \in Chans,
               Dial(c) \/ Handshake(c) \/ Fails(c) \/ ServerReceives(c) \/ ServerLoses(c)
        PROVE  state'[v] \in {"closing", "closed"} /\ heard'[v] = heard[v]
    BY <2>5 DEF Dial, Handshake, Fails, ServerReceives, ServerLoses, clientVars
  <2>6. ASSUME NEW c \in Chans, ClientReceives(c)
        PROVE  state'[v] \in {"closing", "closed"} /\ heard'[v] = heard[v]
    <3>1. \/ UNCHANGED <<state, heard>>
          \/ \E w \in registered :
                /\ \/ state' = [state EXCEPT ![w] = "open"]
                   \/ state' = [state EXCEPT ![w] = "closed"]
                   \/ state' = state
                /\ heard' = heard \/ \E d : heard' = [heard EXCEPT ![w] = d]
      BY <2>6 DEF ClientReceives
    <3> QED
      BY <3>1, <2>1 DEF TypeOK
  <2> QED
    BY <2>2, <2>3, <2>4, <2>5, <2>6 DEF Next
<1>2. [\A w \in Ids : Silent(w)]_vars <=>
         [\A w \in Ids : state[w] \in {"closing", "closed"} =>
              /\ state'[w] \in {"closing", "closed"}
              /\ heard'[w] = heard[w]]_vars
  OBVIOUS
<1> HIDE DEF Silent
<1> QED
  BY <1>1, <1>2, MockInvariance, PTL DEF Spec, ClosedMockIsSilent
=============================================================================
