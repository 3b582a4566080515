---------------------------- MODULE KettleProofs ----------------------------
(***************************************************************************)
(* TLAPS proofs about VcekCache and Kettle: any number of quote requests,  *)
(* cache keys, retries, restarts and visits.                               *)
(***************************************************************************)
EXTENDS Kettle, TLAPS

-----------------------------------------------------------------------------
(***************************************************************************)
(* The certificates of the quote service.                                  *)
(***************************************************************************)

States == {"idle", "report", "fetching", "sharing", "served", "failed", "lost"}

\* CacheInv is about cacheVars alone.
LEMMA CacheStays ==
    ASSUME CacheInv, UNCHANGED cacheVars
    PROVE  CacheInv'
<1>1. CacheTypeOK'
  BY DEF CacheInv, CacheTypeOK, cacheVars
<1>2. SlotIsInFlight' /\ AwaitedIsInFlight' /\ CachedUnderItsKey' /\ CertMatchesReport'
  BY DEF CacheInv, cacheVars, SlotIsInFlight, AwaitedIsInFlight, Running, CachedUnderItsKey,
     CertMatchesReport
<1> QED
  BY <1>1, <1>2 DEF CacheInv

LEMMA CacheInitInv == CacheInit => CacheInv
<1> SUFFICES ASSUME CacheInit PROVE CacheInv
  OBVIOUS
<1>1. CacheTypeOK
  BY RetriesAssumption, RestartsAssumption DEF CacheInit, CacheTypeOK
<1>2. SlotIsInFlight /\ AwaitedIsInFlight /\ CachedUnderItsKey /\ CertMatchesReport
  BY DEF CacheInit, SlotIsInFlight, AwaitedIsInFlight, CachedUnderItsKey, CertMatchesReport
<1> QED
  BY <1>1, <1>2 DEF CacheInv

\* A request that nobody awaits and that does not wait may change its state.
LEMMA PassiveStepKeepsCacheInv ==
    ASSUME CacheInv, NEW r \in Requests, NEW s \in States,
           state[r] \in {"idle", "report"}, s \in {"report", "failed"},
           state' = [state EXCEPT ![r] = s],
           UNCHANGED <<key, fetch, attempt, cert, slot, cache, disk, restarts>>
    PROVE  CacheInv'
<1>1. state \in [Requests -> States]
  BY DEF CacheInv, CacheTypeOK, States
<1>2. CacheTypeOK'
  <2>1. state' \in [Requests -> States]
    BY <1>1
  <2> QED
    BY <2>1 DEF CacheInv, CacheTypeOK, States
<1>3. \A q \in Requests : q # r => state'[q] = state[q]
  BY <1>1
<1>4. state'[r] = s
  BY <1>1
<1>5. SlotIsInFlight'
  <2> SUFFICES ASSUME slot # Free PROVE Running(slot.by)' /\ key[slot.by] = slot.key
    BY DEF SlotIsInFlight
  <2>1. slot.by \in Requests
    BY DEF CacheInv, CacheTypeOK
  <2> QED
    BY <1>3, <2>1 DEF CacheInv, SlotIsInFlight, Running
<1>6. AwaitedIsInFlight'
  BY <1>3, <1>4 DEF CacheInv, AwaitedIsInFlight, Running
<1>7. CachedUnderItsKey' /\ CertMatchesReport'
  BY <1>3, <1>4 DEF CacheInv, CachedUnderItsKey, CertMatchesReport
<1> QED
  BY <1>2, <1>5, <1>6, <1>7 DEF CacheInv

LEMMA AskKeepsCacheInv ==
    ASSUME CacheInv, NEW r \in Requests, Ask(r)
    PROVE  CacheInv'
BY PassiveStepKeepsCacheInv DEF Ask, States

\* fetchVcekWithRetry: served from the cache, sharing or starting a fetch.
LEMMA FetchVcekKeepsCacheInv ==
    ASSUME CacheInv, NEW r \in Requests, NEW k \in Keys, FetchVcek(r, k)
    PROVE  CacheInv'
<1>1. /\ state \in [Requests -> States] /\ key \in [Requests -> Keys \cup {None}]
      /\ fetch \in [Requests -> Requests \cup {None}] /\ cert \in [Requests -> Keys \cup {None}]
      /\ slot \in {Free} \cup [by : Requests, key : Keys]
  BY DEF CacheInv, CacheTypeOK, States
<1>2. state[r] = "report" /\ key' = [key EXCEPT ![r] = k] /\ UNCHANGED <<attempt, cache, disk, restarts>>
  BY DEF FetchVcek
<1>3. key' \in [Requests -> Keys \cup {None}] /\ key'[r] = k /\ \A q \in Requests : q # r => key'[q] = key[q]
  BY <1>1, <1>2
<1>4. CachedUnderItsKey'
  BY <1>2 DEF CacheInv, CachedUnderItsKey
<1>5. CASE /\ cache[k] # None
           /\ state' = [state EXCEPT ![r] = "served"]
           /\ cert' = [cert EXCEPT ![r] = cache[k]]
           /\ UNCHANGED <<fetch, slot>>
  <2>1. cache[k] = k
    BY <1>5 DEF CacheInv, CachedUnderItsKey
  <2>2. /\ state' \in [Requests -> States] /\ cert' \in [Requests -> Keys \cup {None}]
        /\ state'[r] = "served" /\ cert'[r] = k
        /\ \A q \in Requests : q # r => state'[q] = state[q] /\ cert'[q] = cert[q]
    BY <1>1, <1>5, <2>1 DEF States
  <2>3. CacheTypeOK'
    BY <1>1, <1>2, <1>3, <1>5, <2>2 DEF CacheInv, CacheTypeOK, States
  <2>4. SlotIsInFlight'
    BY <1>1, <1>2, <1>3, <1>5, <2>2 DEF CacheInv, SlotIsInFlight, Running
  <2>5. AwaitedIsInFlight'
    BY <1>1, <1>2, <1>3, <1>5, <2>2 DEF CacheInv, AwaitedIsInFlight, Running
  <2>6. CertMatchesReport'
    BY <1>3, <2>2 DEF CacheInv, CertMatchesReport
  <2> QED
    BY <1>4, <2>3, <2>4, <2>5, <2>6 DEF CacheInv
<1>6. CASE /\ slot.key = k
           /\ state' = [state EXCEPT ![r] = "sharing"]
           /\ fetch' = [fetch EXCEPT ![r] = slot.by]
           /\ UNCHANGED <<cert, slot>>
  <2>1. slot # Free /\ slot.by \in Requests
    BY <1>1, <1>6, NoneIsFresh DEF Free
  <2>2. Running(slot.by) /\ key[slot.by] = k /\ slot.by # r
    BY <1>2, <1>6, <2>1 DEF CacheInv, SlotIsInFlight, Running
  <2>3. /\ state' \in [Requests -> States] /\ fetch' \in [Requests -> Requests \cup {None}]
        /\ state'[r] = "sharing" /\ fetch'[r] = slot.by
        /\ \A q \in Requests : q # r => state'[q] = state[q] /\ fetch'[q] = fetch[q]
    BY <1>1, <1>6, <2>1 DEF States
  <2>4. CacheTypeOK'
    BY <1>1, <1>2, <1>3, <1>6, <2>3 DEF CacheInv, CacheTypeOK, States
  <2>5. SlotIsInFlight'
    BY <1>3, <1>6, <2>1, <2>2, <2>3 DEF SlotIsInFlight, Running
  <2>6. AwaitedIsInFlight'
    <3>1. ASSUME NEW q \in Requests, q # r PROVE AwaitedIsInFlight!(q)'
      BY <1>1, <1>2, <1>3, <2>3, <3>1 DEF CacheInv, AwaitedIsInFlight, Running
    <3>2. AwaitedIsInFlight!(r)'
      BY <1>3, <2>1, <2>2, <2>3 DEF Running
    <3> QED
      BY <3>1, <3>2 DEF AwaitedIsInFlight
  <2>7. CertMatchesReport'
    BY <1>3, <1>6, <2>3 DEF CacheInv, CertMatchesReport
  <2> QED
    BY <1>4, <2>4, <2>5, <2>6, <2>7 DEF CacheInv
<1>7. CASE /\ state' = [state EXCEPT ![r] = "fetching"]
           /\ fetch' = [fetch EXCEPT ![r] = r]
           /\ slot' = [by |-> r, key |-> k]
           /\ UNCHANGED cert
  <2>1. /\ state' \in [Requests -> States] /\ fetch' \in [Requests -> Requests \cup {None}]
        /\ state'[r] = "fetching" /\ fetch'[r] = r
        /\ \A q \in Requests : q # r => state'[q] = state[q] /\ fetch'[q] = fetch[q]
    BY <1>1, <1>7 DEF States
  <2>2. slot' \in {Free} \cup [by : Requests, key : Keys]
    BY <1>7
  <2>3. CacheTypeOK'
    BY <1>1, <1>2, <1>3, <1>7, <2>1, <2>2 DEF CacheInv, CacheTypeOK, States
  <2>4. SlotIsInFlight'
    BY <1>3, <1>7, <2>1 DEF SlotIsInFlight, Running
  <2>5. AwaitedIsInFlight'
    BY <1>1, <1>2, <1>3, <2>1, NoneIsFresh DEF CacheInv, AwaitedIsInFlight, Running
  <2>6. CertMatchesReport'
    BY <1>3, <1>7, <2>1 DEF CacheInv, CertMatchesReport
  <2> QED
    BY <1>4, <2>3, <2>4, <2>5, <2>6 DEF CacheInv
<1> QED
  BY <1>5, <1>6, <1>7 DEF FetchVcek

\* A fetch that settles takes with it all that await it, and empties the slot.
LEMMA SettlingKeepsAwaited ==
    ASSUME CacheInv, NEW r \in Requests, Running(r), NEW s \in {"served", "failed"}, Settle(r, s),
           slot' = Free, UNCHANGED <<key, fetch, attempt, restarts>>
    PROVE  /\ state' \in [Requests -> States]
           /\ \A q \in Requests : q \in Awaiting(r) => state'[q] = s /\ key[q] = key[r]
           /\ \A q \in Requests : q \notin Awaiting(r) => state'[q] = state[q]
           /\ SlotIsInFlight' /\ AwaitedIsInFlight'
<1>1. state \in [Requests -> States]
  BY DEF CacheInv, CacheTypeOK, States
<1>2. state' \in [Requests -> States]
  BY <1>1 DEF Settle, States
<1>3. \A q \in Requests : q \in Awaiting(r) => state'[q] = s
  BY DEF Settle
<1>4. \A q \in Requests : q \notin Awaiting(r) => state'[q] = state[q]
  BY DEF Settle
<1>5. \A q \in Requests : q \in Awaiting(r) => key[q] = key[r]
  BY DEF Awaiting, CacheInv, AwaitedIsInFlight, Running
<1>6. SlotIsInFlight'
  BY DEF SlotIsInFlight
<1>7. ASSUME NEW q \in Requests, state'[q] = "fetching" PROVE fetch'[q] = q /\ key'[q] # None
  BY <1>3, <1>4, <1>7 DEF CacheInv, AwaitedIsInFlight
<1>8. ASSUME NEW q \in Requests, state'[q] = "sharing"
      PROVE  \E t \in Requests : fetch'[q] = t /\ Running(t)' /\ key'[q] = key'[t]
  <2>1. q \notin Awaiting(r) /\ state[q] = "sharing"
    BY <1>3, <1>4, <1>8
  <2>2. PICK t \in Requests : fetch[q] = t /\ Running(t) /\ key[q] = key[t]
    BY <2>1 DEF CacheInv, AwaitedIsInFlight
  <2>3. t # r
    BY <2>1, <2>2 DEF Awaiting
  <2>4. fetch[t] = t
    BY <2>2 DEF CacheInv, AwaitedIsInFlight, Running
  <2>5. t \notin Awaiting(r)
    BY <2>3, <2>4 DEF Awaiting
  <2> QED
    BY <1>4, <2>2, <2>5 DEF Running
<1>9. AwaitedIsInFlight'
  BY <1>7, <1>8 DEF AwaitedIsInFlight
<1> QED
  BY <1>2, <1>3, <1>4, <1>5, <1>6, <1>9

LEMMA FetchedKeepsCacheInv ==
    ASSUME CacheInv, NEW r \in Requests, Fetched(r)
    PROVE  CacheInv'
<1>1. /\ cert \in [Requests -> Keys \cup {None}] /\ cache \in [Keys -> Keys \cup {None}]
      /\ disk \in [Keys -> Keys \cup {None, Torn}] /\ key \in [Requests -> Keys \cup {None}]
  BY DEF CacheInv, CacheTypeOK
<1>2. /\ Running(r) /\ Settle(r, "served") /\ slot' = Free
      /\ UNCHANGED <<key, fetch, attempt, restarts>>
  BY DEF Fetched
<1>3. key[r] \in Keys
  BY <1>1, <1>2 DEF CacheInv, AwaitedIsInFlight, Running
<1>4. /\ state' \in [Requests -> States]
      /\ \A q \in Requests : q \in Awaiting(r) => state'[q] = "served" /\ key[q] = key[r]
      /\ \A q \in Requests : q \notin Awaiting(r) => state'[q] = state[q]
      /\ SlotIsInFlight' /\ AwaitedIsInFlight'
  BY <1>2, SettlingKeepsAwaited
<1>5. /\ cert' \in [Requests -> Keys \cup {None}]
      /\ \A q \in Requests : cert'[q] = IF q \in Awaiting(r) THEN key[r] ELSE cert[q]
  BY <1>1, <1>3 DEF Fetched
<1>6. cache' \in [Keys -> Keys \cup {None}] /\ \A k \in Keys : cache'[k] \in {k, None}
  BY <1>1, <1>3 DEF Fetched, CacheInv, CachedUnderItsKey
<1>7. disk' \in [Keys -> Keys \cup {None, Torn}] /\ \A k \in Keys : disk'[k] \in {k, None, Torn}
  <2>1. CASE disk' = [disk EXCEPT ![key[r]] = key[r]]
    BY <1>1, <1>3, <2>1 DEF CacheInv, CachedUnderItsKey
  <2>2. CASE UNCHANGED disk
    BY <1>1, <2>2 DEF CacheInv, CachedUnderItsKey
  <2> QED
    BY <2>1, <2>2 DEF Fetched
<1>8. CacheTypeOK'
  BY <1>2, <1>4, <1>5, <1>6, <1>7 DEF CacheInv, CacheTypeOK, States
<1>9. CertMatchesReport'
  BY <1>2, <1>4, <1>5 DEF CacheInv, CertMatchesReport
<1> QED
  BY <1>4, <1>6, <1>7, <1>8, <1>9 DEF CacheInv, CachedUnderItsKey

LEMMA GiveUpKeepsCacheInv ==
    ASSUME CacheInv, NEW r \in Requests, GiveUp(r)
    PROVE  CacheInv'
<1>1. /\ Running(r) /\ Settle(r, "failed") /\ slot' = Free
      /\ UNCHANGED <<key, fetch, attempt, restarts>> /\ UNCHANGED <<cert, cache, disk>>
  BY DEF GiveUp
<1>2. /\ state' \in [Requests -> States]
      /\ \A q \in Requests : q \in Awaiting(r) => state'[q] = "failed"
      /\ \A q \in Requests : q \notin Awaiting(r) => state'[q] = state[q]
      /\ SlotIsInFlight' /\ AwaitedIsInFlight'
  BY <1>1, SettlingKeepsAwaited
<1>3. CacheTypeOK'
  BY <1>1, <1>2 DEF CacheInv, CacheTypeOK, States
<1>4. CachedUnderItsKey' /\ CertMatchesReport'
  BY <1>1, <1>2 DEF CacheInv, CachedUnderItsKey, CertMatchesReport
<1> QED
  BY <1>2, <1>3, <1>4 DEF CacheInv

LEMMA RetryKeepsCacheInv ==
    ASSUME CacheInv, NEW r \in Requests, Retry(r)
    PROVE  CacheInv'
<1>1. attempt' \in [Requests -> 0..MaxRetries - 1]
  <2>1. attempt \in [Requests -> 0..MaxRetries - 1]
    BY DEF CacheInv, CacheTypeOK
  <2>2. attempt[r] + 1 \in 0..MaxRetries - 1
    BY <2>1, RetriesAssumption DEF Retry
  <2> QED
    BY <2>1, <2>2 DEF Retry
<1>2. CacheTypeOK'
  BY <1>1 DEF CacheInv, CacheTypeOK, Retry
<1>3. SlotIsInFlight' /\ AwaitedIsInFlight' /\ CachedUnderItsKey' /\ CertMatchesReport'
  BY DEF Retry, CacheInv, SlotIsInFlight, AwaitedIsInFlight, Running, CachedUnderItsKey, CertMatchesReport
<1> QED
  BY <1>2, <1>3 DEF CacheInv

LEMMA CacheStepKeepsCacheInv ==
    ASSUME CacheInv, NEW r \in Requests, CacheStep(r)
    PROVE  CacheInv'
<1>1. CASE NoReport(r)
  BY <1>1, PassiveStepKeepsCacheInv DEF NoReport, States
<1> QED
  BY <1>1, FetchVcekKeepsCacheInv, FetchedKeepsCacheInv, RetryKeepsCacheInv, GiveUpKeepsCacheInv
  DEF CacheStep

\* Whatever a crash leaves of a file, the next process starts with certificates.
LEMMA RestartKeepsCacheInv ==
    ASSUME CacheInv, Restart
    PROVE  CacheInv'
<1>1. /\ state \in [Requests -> States] /\ key \in [Requests -> Keys \cup {None}]
      /\ disk \in [Keys -> Keys \cup {None, Torn}]
  BY DEF CacheInv, CacheTypeOK, States
<1>2. PICK written \in {disk} \cup {[disk EXCEPT ![key[r]] = Torn] : r \in {q \in Requests : Running(q)}} :
          /\ disk' = written
          /\ cache' = [k \in Keys |-> IF written[k] = Torn THEN None ELSE written[k]]
  BY DEF Restart
<1>3. written \in [Keys -> Keys \cup {None, Torn}] /\ \A k \in Keys : written[k] \in {k, None, Torn}
  <2>1. CASE written = disk
    BY <1>1, <2>1 DEF CacheInv, CachedUnderItsKey
  <2>2. CASE written # disk
    <3>1. PICK r \in Requests : written = [disk EXCEPT ![key[r]] = Torn]
      BY <2>2
    <3> QED
      BY <1>1, <3>1 DEF CacheInv, CachedUnderItsKey
  <2> QED
    BY <2>1, <2>2
<1>4. cache' \in [Keys -> Keys \cup {None}] /\ \A k \in Keys : cache'[k] \in {k, None}
  BY <1>2, <1>3
<1>5. state' \in [Requests -> States]
  BY <1>1 DEF Restart, States
<1>6. \A r \in Requests : state'[r] \notin {"fetching", "sharing"} /\ (state'[r] = "served" => state[r] = "served")
  BY <1>1 DEF Restart
<1>7. restarts' \in 0..MaxRestarts
  BY RestartsAssumption DEF Restart, CacheInv, CacheTypeOK
<1>8. slot' = Free /\ UNCHANGED <<key, fetch, attempt, cert>>
  BY DEF Restart
<1>9. CacheTypeOK'
  BY <1>2, <1>3, <1>4, <1>5, <1>7, <1>8 DEF CacheInv, CacheTypeOK, States
<1>10. SlotIsInFlight' /\ AwaitedIsInFlight' /\ CertMatchesReport'
  BY <1>6, <1>8 DEF CacheInv, SlotIsInFlight, AwaitedIsInFlight, CertMatchesReport
<1> QED
  BY <1>2, <1>3, <1>4, <1>9, <1>10 DEF CacheInv, CachedUnderItsKey

-----------------------------------------------------------------------------
(***************************************************************************)
(* The kettle: one lemma per part of the invariant.                        *)
(***************************************************************************)

LEMMA KettleInitInv == Init => KettleInv
<1> SUFFICES ASSUME Init PROVE KettleInv
  OBVIOUS
<1>1. CacheInv
  BY CacheInitInv DEF Init
<1>2. TypeOK
  BY DEF Init, TypeOK
<1>3. StopWaitsForWorkerd /\ CleanExitLeavesNoWorkerd
  BY DEF Init, StopWaitsForWorkerd, CleanExitLeavesNoWorkerd, WorkerdRuns
<1>4. LoadingIsPromised /\ OnInitRunsOnce
  BY DEF Init, LoadingIsPromised, OnInitRunsOnce
<1> QED
  BY <1>1, <1>2, <1>3, <1>4 DEF KettleInv

\* Broken connections leave every request with an answer or a wait it had.
LEMMA BrokenConnectionsAreTyped ==
    ASSUME TypeOK, ConnectionsBreak
    PROVE  ask' \in [Requests -> {"idle", "waiting", "quote", "error"}]
BY DEF TypeOK, ConnectionsBreak

LEMMA RespondIsTyped ==
    ASSUME TypeOK, NEW r \in Requests, NEW answer \in {"quote", "error"}, Respond(r, answer)
    PROVE  /\ ask' \in [Requests -> {"idle", "waiting", "quote", "error"}]
           /\ job' \in [Requests -> {"none", "which", "cli", "snpguest", "done"}]
BY DEF TypeOK, Respond

LEMMA EndsIsTyped ==
    ASSUME TypeOK, NEW way \in {"graceful", "drained", "failed", "signal"}, Ends(way)
    PROVE  TypeOK'
<1>1. ask' \in [Requests -> {"idle", "waiting", "quote", "error"}]
  BY BrokenConnectionsAreTyped DEF Ends
<1>2. job' \in [Requests -> {"none", "which", "cli", "snpguest", "done"}]
  BY DEF Ends
<1> QED
  BY <1>1, <1>2 DEF TypeOK, Ends, appVars

LEMMA NodeStepIsTyped ==
    ASSUME TypeOK, NodeStep
    PROVE  TypeOK'
<1>1. CASE Parse \/ Build \/ Spawn \/ PortOpens \/ Up
  BY <1>1 DEF Parse, Build, Spawn, PortOpens, Up, TypeOK, askVars, appVars
<1>2. CASE StartFails \/ NodeDies \/ SignalledEarly \/ Exit \/ Drain
  BY <1>2, EndsIsTyped DEF StartFails, NodeDies, SignalledEarly, Exit, Drain
<1>3. CASE Stop
  <2>1. ask' \in [Requests -> {"idle", "waiting", "quote", "error"}]
    BY <1>3, BrokenConnectionsAreTyped DEF Stop
  <2> QED
    BY <1>3, <2>1 DEF Stop, TypeOK, appVars
<1>4. CASE QuotesClosed \/ KillTimer \/ Reap
  BY <1>4 DEF QuotesClosed, KillTimer, Reap, TypeOK, nodeVars, askVars, appVars
<1>5. CASE Respawn
  <2>1. /\ loader' \in [Visits -> {"none", "import", "onInit"}]
        /\ visit' \in [Visits -> {"idle", "waiting", "served", "failed"}]
    BY <1>5 DEF Respawn, TypeOK
  <2> QED
    BY <1>5, <2>1 DEF Respawn, TypeOK, askVars
<1> QED
  BY <1>1, <1>2, <1>3, <1>4, <1>5 DEF NodeStep

LEMMA WorkerdStepIsTyped ==
    ASSUME TypeOK, Listens \/ WorkerdEnds \/ Evict
    PROVE  TypeOK'
<1>1. CASE Listens
  BY <1>1 DEF Listens, TypeOK, nodeVars, askVars, appVars
<1>2. CASE WorkerdEnds
  <2>1. ask' \in [Requests -> {"idle", "waiting", "quote", "error"}]
    BY <1>2, BrokenConnectionsAreTyped DEF WorkerdEnds
  <2>2. /\ loader' \in [Visits -> {"none", "import", "onInit"}]
        /\ visit' \in [Visits -> {"idle", "waiting", "served", "failed"}]
    BY <1>2 DEF WorkerdEnds, TypeOK
  <2> QED
    BY <1>2, <2>1, <2>2 DEF WorkerdEnds, TypeOK, nodeVars
<1>3. CASE Evict
  BY <1>3 DEF Evict, TypeOK, nodeVars, askVars
<1> QED
  BY <1>1, <1>2, <1>3

LEMMA QuoteStepIsTyped ==
    ASSUME TypeOK, NEW r \in Requests, QuoteStep(r)
    PROVE  TypeOK'
<1>1. /\ ask \in [Requests -> {"idle", "waiting", "quote", "error"}]
      /\ job \in [Requests -> {"none", "which", "cli", "snpguest", "done"}]
  BY DEF TypeOK
<1>2. UNCHANGED <<nodeVars, workerd, signal, appVars>>
  BY DEF QuoteStep, GetQuote, ToolFound, ToolMissing, CliEnds, Certificates, Answer
<1>3. /\ ask' \in [Requests -> {"idle", "waiting", "quote", "error"}]
      /\ job' \in [Requests -> {"none", "which", "cli", "snpguest", "done"}]
  <2>1. CASE GetQuote(r)
    BY <1>1, <2>1 DEF GetQuote
  <2>2. CASE ToolFound(r) \/ Certificates(r)
    BY <1>1, <2>2 DEF ToolFound, Certificates, askVars
  <2>3. CASE ToolMissing(r) \/ CliEnds(r) \/ Answer(r)
    BY <2>3, RespondIsTyped DEF ToolMissing, CliEnds, Answer
  <2> QED
    BY <2>1, <2>2, <2>3 DEF QuoteStep
<1> QED
  BY <1>2, <1>3 DEF TypeOK, nodeVars, appVars

LEMMA VisitStepIsTyped ==
    ASSUME TypeOK, NEW v \in Visits, VisitStep(v)
    PROVE  TypeOK'
<1>1. UNCHANGED <<nodeVars, workerd, signal, askVars>>
  BY DEF VisitStep, Visit, Imported, Initialised, LoadFails, Visited
<1>2. /\ loader \in [Visits -> {"none", "import", "onInit"}] /\ inits \in Nat
      /\ visit \in [Visits -> {"idle", "waiting", "served", "failed"}]
      /\ app \in {"none", "promised", "ready", "broken"}
  BY DEF TypeOK
<1>3. /\ loader' \in [Visits -> {"none", "import", "onInit"}] /\ inits' \in Nat
      /\ visit' \in [Visits -> {"idle", "waiting", "served", "failed"}]
      /\ app' \in {"none", "promised", "ready", "broken"}
  <2>1. CASE Visit(v)
    BY <1>2, <2>1 DEF Visit
  <2>2. CASE Imported(v)
    BY <1>2, <2>2 DEF Imported
  <2>3. CASE Initialised(v) \/ LoadFails(v) \/ Visited(v)
    BY <1>2, <2>3 DEF Initialised, LoadFails, Visited
  <2> QED
    BY <2>1, <2>2, <2>3 DEF VisitStep
<1> QED
  BY <1>1, <1>3 DEF TypeOK, nodeVars, askVars

\* Only Respawn, ToolFound and Certificates touch what the quote service holds.
LEMMA NextKeepsCacheInv ==
    ASSUME CacheInv, Next
    PROVE  CacheInv'
<1>1. CASE Respawn
  BY <1>1, RestartKeepsCacheInv DEF Respawn
<1>2. ASSUME NodeStep, ~Respawn PROVE UNCHANGED cacheVars
  BY <1>2 DEF NodeStep, Parse, Build, Spawn, PortOpens, Up, StartFails, NodeDies, Stop, SignalledEarly,
     QuotesClosed, KillTimer, Reap, Exit, Drain, Ends
<1>3. ASSUME Listens \/ WorkerdEnds \/ Evict PROVE UNCHANGED cacheVars
  BY <1>3 DEF Listens, WorkerdEnds, Evict
<1>4. ASSUME NEW r \in Requests, GetQuote(r) \/ ToolMissing(r) \/ CliEnds(r) \/ Answer(r)
      PROVE  UNCHANGED cacheVars
  BY <1>4 DEF GetQuote, ToolMissing, CliEnds, Answer
<1>5. ASSUME NEW r \in Requests, ToolFound(r) PROVE CacheInv'
  BY <1>5, AskKeepsCacheInv, CacheStays DEF ToolFound
<1>6. ASSUME NEW r \in Requests, Certificates(r) PROVE CacheInv'
  BY <1>6, CacheStepKeepsCacheInv DEF Certificates
<1>7. ASSUME NEW v \in Visits, VisitStep(v) PROVE UNCHANGED cacheVars
  BY <1>7 DEF VisitStep, Visit, Imported, Initialised, LoadFails, Visited
<1> QED
  BY <1>1, <1>2, <1>3, <1>4, <1>5, <1>6, <1>7, CacheStays DEF Next, QuoteStep

\* The order of signals, timers and exits.
LEMMA NextKeepsStop ==
    ASSUME TypeOK, StopWaitsForWorkerd, CleanExitLeavesNoWorkerd, Next
    PROVE  StopWaitsForWorkerd' /\ CleanExitLeavesNoWorkerd'
<1> USE DEF StopWaitsForWorkerd, CleanExitLeavesNoWorkerd, WorkerdRuns, Alive
<1>1. CASE Parse \/ Build \/ Spawn \/ PortOpens \/ Up
  BY <1>1 DEF Parse, Build, Spawn, PortOpens, Up
<1>2. CASE StartFails \/ NodeDies \/ SignalledEarly
  BY <1>2 DEF StartFails, NodeDies, SignalledEarly, Ends
<1>3. CASE Exit \/ Drain
  BY <1>3 DEF Exit, Drain, Ends
<1>4. CASE Stop
  BY <1>4 DEF Stop
<1>5. CASE QuotesClosed \/ KillTimer
  BY <1>5 DEF QuotesClosed, KillTimer, nodeVars
<1>6. CASE Reap
  BY <1>6 DEF Reap
<1>7. CASE Respawn
  BY <1>7 DEF Respawn
<1>8. CASE Listens \/ WorkerdEnds
  BY <1>8 DEF Listens, WorkerdEnds, nodeVars
<1>9. ASSUME NEW r \in Requests, QuoteStep(r) PROVE UNCHANGED <<nodeVars, workerd>>
  BY <1>9 DEF QuoteStep, GetQuote, ToolFound, ToolMissing, CliEnds, Certificates, Answer
<1>10. ASSUME NEW v \in Visits, VisitStep(v) PROVE UNCHANGED <<nodeVars, workerd>>
  BY <1>10 DEF VisitStep, Visit, Imported, Initialised, LoadFails, Visited
<1>11. ASSUME Evict PROVE UNCHANGED <<nodeVars, workerd>>
  BY <1>11 DEF Evict
<1>12. CASE UNCHANGED <<nodeVars, workerd>>
  BY <1>12 DEF nodeVars
<1> QED
  BY <1>1, <1>2, <1>3, <1>4, <1>5, <1>6, <1>7, <1>8, <1>9, <1>10, <1>11, <1>12 DEF Next, NodeStep

\* The promise is stored before anything is awaited, so one visit loads.
LEMMA NextKeepsLoading ==
    ASSUME TypeOK, LoadingIsPromised, OnInitRunsOnce, Next
    PROVE  LoadingIsPromised' /\ OnInitRunsOnce'
<1>1. loader \in [Visits -> {"none", "import", "onInit"}] /\ inits \in Nat
  BY DEF TypeOK
<1>2. ASSUME UNCHANGED <<app, loader, inits>> PROVE LoadingIsPromised' /\ OnInitRunsOnce'
  BY <1>2 DEF LoadingIsPromised, OnInitRunsOnce
<1>3. ASSUME app' = "none", inits' = 0, loader' = [v \in Visits |-> "none"]
      PROVE  LoadingIsPromised' /\ OnInitRunsOnce'
  BY <1>3 DEF LoadingIsPromised, OnInitRunsOnce
<1>4. ASSUME NodeStep, ~Respawn PROVE UNCHANGED <<app, loader, inits>>
  BY <1>4 DEF NodeStep, Parse, Build, Spawn, PortOpens, Up, StartFails, NodeDies, Stop, SignalledEarly,
     QuotesClosed, KillTimer, Reap, Exit, Drain, Ends, appVars
<1>5. ASSUME NEW r \in Requests, QuoteStep(r) PROVE UNCHANGED <<app, loader, inits>>
  BY <1>5 DEF QuoteStep, GetQuote, ToolFound, ToolMissing, CliEnds, Certificates, Answer, appVars
<1>6. CASE Listens
  BY <1>2, <1>6 DEF Listens, appVars
<1>7. CASE WorkerdEnds \/ Respawn
  BY <1>3, <1>7 DEF WorkerdEnds, Respawn
<1>8. ASSUME NEW v \in Visits, Visit(v) PROVE LoadingIsPromised' /\ OnInitRunsOnce'
  BY <1>1, <1>8 DEF Visit, LoadingIsPromised, OnInitRunsOnce
<1>9. ASSUME NEW v \in Visits, Imported(v) PROVE LoadingIsPromised' /\ OnInitRunsOnce'
  <2>1. \A w \in Visits : w # v => loader[w] = "none" /\ loader'[w] = "none"
    BY <1>1, <1>9 DEF Imported, OnInitRunsOnce
  <2>2. app = "promised" /\ inits = 0 /\ inits' \in {0, 1} /\ app' \in {"promised", "ready"}
    BY <1>1, <1>9 DEF Imported, LoadingIsPromised
  <2>3. loader'[v] = "none" \/ (loader'[v] = "onInit" /\ app' = "promised")
    BY <1>1, <1>9 DEF Imported
  <2> QED
    BY <2>1, <2>2, <2>3 DEF LoadingIsPromised, OnInitRunsOnce
<1>10. ASSUME NEW v \in Visits, Initialised(v) \/ LoadFails(v) PROVE LoadingIsPromised' /\ OnInitRunsOnce'
  <2>1. \A w \in Visits : loader'[w] = "none"
    BY <1>1, <1>10 DEF Initialised, LoadFails, OnInitRunsOnce
  <2> QED
    BY <1>10, <2>1 DEF Initialised, LoadFails, LoadingIsPromised, OnInitRunsOnce
<1>11. ASSUME NEW v \in Visits, Visited(v) PROVE LoadingIsPromised' /\ OnInitRunsOnce'
  BY <1>2, <1>11 DEF Visited
<1>12. CASE Evict
  <2>1. \A w \in Visits : loader'[w] = "none"
    BY <1>1, <1>12 DEF Evict, LoadingIsPromised
  <2> QED
    BY <1>12, <2>1 DEF Evict, LoadingIsPromised, OnInitRunsOnce
<1> QED
  BY <1>2, <1>4, <1>5, <1>6, <1>7, <1>8, <1>9, <1>10, <1>11, <1>12 DEF Next, VisitStep

LEMMA KettleNextInv == KettleInv /\ [Next]_vars => KettleInv'
<1> SUFFICES ASSUME KettleInv, [Next]_vars PROVE KettleInv'
  OBVIOUS
<1>1. CASE Next
  <2>1. TypeOK'
    BY <1>1, NodeStepIsTyped, WorkerdStepIsTyped, QuoteStepIsTyped, VisitStepIsTyped DEF KettleInv, Next
  <2>2. CacheInv'
    BY <1>1, NextKeepsCacheInv DEF KettleInv
  <2>3. StopWaitsForWorkerd' /\ CleanExitLeavesNoWorkerd'
    BY <1>1, NextKeepsStop DEF KettleInv
  <2>4. LoadingIsPromised' /\ OnInitRunsOnce'
    BY <1>1, NextKeepsLoading DEF KettleInv
  <2> QED
    BY <2>1, <2>2, <2>3, <2>4 DEF KettleInv
<1>2. CASE UNCHANGED vars
  <2>1. CacheInv'
    BY <1>2, CacheStays DEF KettleInv, vars
  <2>2. TypeOK'
    BY <1>2 DEF KettleInv, TypeOK, vars, nodeVars, askVars, appVars
  <2>3. StopWaitsForWorkerd' /\ CleanExitLeavesNoWorkerd' /\ LoadingIsPromised' /\ OnInitRunsOnce'
    BY <1>2 DEF KettleInv, vars, nodeVars, appVars, StopWaitsForWorkerd, CleanExitLeavesNoWorkerd,
       WorkerdRuns, Alive, LoadingIsPromised, OnInitRunsOnce
  <2> QED
    BY <2>1, <2>2, <2>3 DEF KettleInv
<1> QED
  BY <1>1, <1>2

\* KettleInv holds in every state, however processes end, restart and are signalled.
THEOREM KettleInvariance == Spec => []KettleInv
BY KettleInitInv, KettleNextInv, PTL DEF Spec

\* A quote goes out with the certificate of the chip and TCB that signed it, for any
\* number of requests, keys and restarts.
THEOREM CertificatesMatchReports == Spec => []CertMatchesReport
<1>1. KettleInv => CertMatchesReport
  BY DEF KettleInv, CacheInv
<1> QED
  BY <1>1, KettleInvariance, PTL

\* A kettle that exits with code 0 leaves no workerd behind.
THEOREM CleanExitsLeaveNoWorkerd == Spec => []CleanExitLeavesNoWorkerd
<1>1. KettleInv => CleanExitLeavesNoWorkerd
  BY DEF KettleInv
<1> QED
  BY <1>1, KettleInvariance, PTL

\* Any number of visits, and one of them calls onInit, at most once by each Durable
\* Object, though objects are evicted and made anew.
THEOREM OnInitIsRunOnce == Spec => []OnInitRunsOnce
<1>1. KettleInv => OnInitRunsOnce
  BY DEF KettleInv
<1> QED
  BY <1>1, KettleInvariance, PTL
=============================================================================
