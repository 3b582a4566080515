----------------------------- MODULE VcekCache -----------------------------
(***************************************************************************)
(* The VCEK certificates of QuoteBinding (kettle/src/quote.ts): a memory   *)
(* cache, its copy on disk, and one slot (vcekFetchPromise, vcekFetchKey)  *)
(* that lets concurrent quote requests share a fetch from AMD's KDS.       *)
(*                                                                         *)
(* A cache key is the chip id and the reported TCB of a request's          *)
(* attestation report; the certificate KDS returns for a report is named   *)
(* by its key.  A fetch is known by the request that started it.  The      *)
(* processing of one event runs up to its last microtask, so settling a    *)
(* fetch, the finally block of its starter and the continuation of those   *)
(* that share it are one step.  Kettle composes this module with the       *)
(* process that runs it.                                                   *)
(***************************************************************************)
EXTENDS Naturals, FiniteSets

CONSTANTS
    Requests,    \* calls of getSevSnpQuote
    Keys,        \* chip id and reported TCB
    MaxRetries,  \* VCEK_FETCH_MAX_RETRIES
    MaxRestarts, \* bound: restarts of the quote service
    None

ASSUME RetriesAssumption == MaxRetries \in Nat \ {0}
ASSUME RestartsAssumption == MaxRestarts \in Nat
ASSUME NoneIsFresh == None \notin Requests \cup Keys

Torn == "torn"   \* a cache file whose write was cut short

ASSUME TornIsNoKey == Torn \notin Keys \cup {None}

VARIABLES
    state,     \* per request, how far it has come
    key,       \* per request, the cache key of its report
    fetch,     \* per request, the fetch it awaits
    attempt,   \* per request that started a fetch, the attempt it is at (from 0)
    cert,      \* per request, the certificate it returned with its report
    slot,      \* vcekFetchPromise, vcekFetchKey: the fetch and its key
    cache,     \* vcekCache
    disk,      \* the files of VCEK_CACHE_DIR
    restarts

cacheVars == <<state, key, fetch, attempt, cert, slot, cache, disk, restarts>>

Free == [by |-> None, key |-> None]

CacheTypeOK ==
    /\ state \in [Requests -> {"idle", "report", "fetching", "sharing", "served", "failed", "lost"}]
    /\ key \in [Requests -> Keys \cup {None}]
    /\ fetch \in [Requests -> Requests \cup {None}]
    /\ attempt \in [Requests -> 0..MaxRetries - 1]
    /\ cert \in [Requests -> Keys \cup {None}]
    /\ slot \in {Free} \cup [by : Requests, key : Keys]
    /\ cache \in [Keys -> Keys \cup {None}]
    /\ disk \in [Keys -> Keys \cup {None, Torn}]
    /\ restarts \in 0..MaxRestarts

CacheInit ==
    /\ state = [r \in Requests |-> "idle"]
    /\ key = [r \in Requests |-> None]
    /\ fetch = [r \in Requests |-> None]
    /\ attempt = [r \in Requests |-> 0]
    /\ cert = [r \in Requests |-> None]
    /\ slot = Free
    /\ cache = [k \in Keys |-> None]
    /\ disk = [k \in Keys |-> None]
    /\ restarts = 0

Running(r) == state[r] = "fetching"

-----------------------------------------------------------------------------
\* getSevSnpQuote up to its first await: snpguest report is started.
Ask(r) ==
    /\ state[r] = "idle"
    /\ state' = [state EXCEPT ![r] = "report"]
    /\ UNCHANGED <<key, fetch, attempt, cert, slot, cache, disk, restarts>>

\* snpguest report failed, or left no report to take a key from.
NoReport(r) ==
    /\ state[r] = "report"
    /\ state' = [state EXCEPT ![r] = "failed"]
    /\ UNCHANGED <<key, fetch, attempt, cert, slot, cache, disk, restarts>>

\* Mutant: whoever finds a fetch in progress shares it.
FetchVcek_AnyKey(r, k) ==
    /\ state[r] = "report"
    /\ key' = [key EXCEPT ![r] = k]
    /\ \/ /\ slot # Free
          /\ state' = [state EXCEPT ![r] = "sharing"]
          /\ fetch' = [fetch EXCEPT ![r] = slot.by]
          /\ UNCHANGED slot
       \/ /\ slot = Free
          /\ state' = [state EXCEPT ![r] = "fetching"]
          /\ fetch' = [fetch EXCEPT ![r] = r]
          /\ slot' = [by |-> r, key |-> k]
    /\ UNCHANGED <<attempt, cert, cache, disk, restarts>>

\* fetchVcekWithRetry up to its first await: answer from the cache, share the
\* fetch in the slot if it is for this key, or start one and take the slot over.
FetchVcek(r, k) ==
    /\ state[r] = "report"
    /\ key' = [key EXCEPT ![r] = k]
    /\ \/ /\ cache[k] # None
          /\ state' = [state EXCEPT ![r] = "served"]
          /\ cert' = [cert EXCEPT ![r] = cache[k]]
          /\ UNCHANGED <<fetch, slot>>
       \/ /\ cache[k] = None /\ slot.key = k
          /\ state' = [state EXCEPT ![r] = "sharing"]
          /\ fetch' = [fetch EXCEPT ![r] = slot.by]
          /\ UNCHANGED <<cert, slot>>
       \/ /\ cache[k] = None /\ slot.key # k
          /\ state' = [state EXCEPT ![r] = "fetching"]
          /\ fetch' = [fetch EXCEPT ![r] = r]
          /\ slot' = [by |-> r, key |-> k]
          /\ UNCHANGED cert
    /\ UNCHANGED <<attempt, cache, disk, restarts>>

\* Those that await the fetch of a request, that request included.
Awaiting(r) == {q \in Requests : fetch[q] = r /\ state[q] \in {"fetching", "sharing"}}

Settle(r, how) ==
    state' = [q \in Requests |-> IF q \in Awaiting(r) THEN how ELSE state[q]]

\* snpguest fetch succeeded and left a certificate: it is cached, saved if the
\* disk lets it, and handed to all that wait. The finally block empties the
\* slot, whoever has it by now.
Fetched(r) ==
    /\ Running(r)
    /\ Settle(r, "served")
    /\ cert' = [q \in Requests |-> IF q \in Awaiting(r) THEN key[r] ELSE cert[q]]
    /\ cache' = [cache EXCEPT ![key[r]] = key[r]]
    /\ \/ disk' = [disk EXCEPT ![key[r]] = key[r]]
       \/ UNCHANGED disk
    /\ slot' = Free
    /\ UNCHANGED <<key, fetch, attempt, restarts>>

\* A retryable failure, and attempts left: wait and try again.
Retry(r) ==
    /\ Running(r)
    /\ attempt[r] + 1 < MaxRetries
    /\ attempt' = [attempt EXCEPT ![r] = @ + 1]
    /\ UNCHANGED <<state, key, fetch, cert, slot, cache, disk, restarts>>

\* Mutant: no finally, the rejected promise stays in the slot.
GiveUp_KeepsSlot(r) ==
    /\ Running(r)
    /\ Settle(r, "failed")
    /\ UNCHANGED <<key, fetch, attempt, cert, slot, cache, disk, restarts>>

\* Mutant: only the request that started the fetch hears of its failure.
GiveUp_Alone(r) ==
    /\ Running(r)
    /\ state' = [state EXCEPT ![r] = "failed"]
    /\ slot' = Free
    /\ UNCHANGED <<key, fetch, attempt, cert, cache, disk, restarts>>

\* A failure that is not retryable, at any attempt, or the last attempt.
GiveUp(r) ==
    /\ Running(r)
    /\ Settle(r, "failed")
    /\ slot' = Free
    /\ UNCHANGED <<key, fetch, attempt, cert, cache, disk, restarts>>

\* Mutant: a file that does not parse is taken for a certificate.
Restart_TrustsDisk ==
    /\ restarts < MaxRestarts
    /\ restarts' = restarts + 1
    /\ \E written \in {disk} \cup {[disk EXCEPT ![key[r]] = Torn] : r \in {q \in Requests : Running(q)}} :
          /\ disk' = written
          /\ cache' = written
    /\ state' = [r \in Requests |->
                    IF state[r] \in {"report", "fetching", "sharing"} THEN "lost" ELSE state[r]]
    /\ slot' = Free
    /\ UNCHANGED <<key, fetch, attempt, cert>>

\* The process dies, perhaps while it writes the file of a fetch that has just
\* succeeded, and the next one loads the files that parse.
Restart ==
    /\ restarts < MaxRestarts
    /\ restarts' = restarts + 1
    /\ \E written \in {disk} \cup {[disk EXCEPT ![key[r]] = Torn] : r \in {q \in Requests : Running(q)}} :
          /\ disk' = written
          /\ cache' = [k \in Keys |-> IF written[k] = Torn THEN None ELSE written[k]]
    /\ state' = [r \in Requests |->
                    IF state[r] \in {"report", "fetching", "sharing"} THEN "lost" ELSE state[r]]
    /\ slot' = Free
    /\ UNCHANGED <<key, fetch, attempt, cert>>

CacheStep(r) ==
    \/ NoReport(r)
    \/ \E k \in Keys : FetchVcek(r, k)
    \/ Fetched(r) \/ Retry(r) \/ GiveUp(r)

-----------------------------------------------------------------------------
(***************************************************************************)
(* Properties.                                                             *)
(***************************************************************************)

\* A quote goes out with the certificate of the chip and TCB that signed it,
\* though the cache outlives processes, the TCB may change under a running
\* service and one fetch may serve several requests.
CertMatchesReport ==
    \A r \in Requests : state[r] = "served" => cert[r] = key[r]

\* The slot holds a fetch in progress for its key. A promise that has been
\* rejected never lingers there to fail every later request for its key.
SlotIsInFlight ==
    slot # Free => Running(slot.by) /\ key[slot.by] = slot.key

\* Who waits for a certificate waits for a fetch in progress of its own key.
AwaitedIsInFlight ==
    \A r \in Requests :
        /\ state[r] = "fetching" => fetch[r] = r /\ key[r] # None
        /\ state[r] = "sharing" => \E q \in Requests : fetch[r] = q /\ Running(q) /\ key[r] = key[q]

\* A cached certificate is that of its key; a file may be torn as well.
CachedUnderItsKey ==
    \A k \in Keys : cache[k] \in {k, None} /\ disk[k] \in {k, None, Torn}

\* Only certificates are ever in the cache, each under its key, whatever a crash
\* left on disk, and nothing that has ended is in the slot or awaited.
CacheInv ==
    /\ CacheTypeOK
    /\ SlotIsInFlight
    /\ AwaitedIsInFlight
    /\ CachedUnderItsKey
    /\ CertMatchesReport

\* quote.ts: "Mutex for VCEK fetch operations to prevent concurrent fetches",
\* "Handles concurrent requests by deduplicating in-flight fetches." It holds
\* while all requests have the same key.
OneFetchPerKey ==
    \A k \in Keys : Cardinality({r \in Requests : Running(r) /\ key[r] = k}) <= 1
=============================================================================
