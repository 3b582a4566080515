# TLA+ models of teekit

teekit lets a client talk to a program in a trusted execution environment
through a tunnel that is opened only after the client has verified a hardware
quote and that the quote is bound to the key it is about to use. This directory
holds TLA+ models of the parts of teekit that carry that promise and the
promises around it, TLC runs on small instances, and TLAPS proofs for all
instances. Paths below are relative to the repository root (`src/` in
`PROJECT.json`), file names without a path to the package of their section.

## Inventory

### Tunnel (`packages/tunnel`)

| Part | State | Operations | Depends on |
|---|---|---|---|
| Server, key exchange (`server.ts`) | X25519 key pair, current quote, `keyReady`, symmetric key per control socket | `initialize`, `#getQuote`, `#sendServerKx`, `client_kx`, close, restart | the host's `getQuote` callback |
| Client, connection and handshake (`client.ts`) | `ws`, `connectionPromise`, `symmetricKey`, server key and binding data, `closed`, reconnect timers | `ensureConnection`, `onopen`, `onerror`, `onclose`, the `server_kx` handler, `close` | qvl, the server |
| HTTP over the tunnel (both) | `pendingRequests` with timers; the server's requests in progress | `fetch`, `#handleTunnelResponse`, timeout, the server's dispatch to Express or Hono | client connection |
| WebSockets over the tunnel (`ClientRAWebSocket.ts`, `ServerRAWebSocket.ts`, both) | mocks with `readyState` and queue, `webSocketConnections`, the server's `sockets`, `wss.clients` | connect, send, close, events, loss of the channel | client connection |
| Heartbeat (`server.ts`) | `livenessBySocket`, the clock | ping, pong, sweep, terminate | control sockets |
| Service worker (`sw.ts`, `swMiddleware.ts`, `registerServiceWorker.ts`) | its own sockets and requests | intercept, forward, fall back to the network | the server |
| Helpers (`crypto.ts`, `typeguards.ts`, `encryptedOnly*.ts`, ...) | none | encodings, tests of a flag | |

What is hard: everything in the client shares one set of fields, whichever
socket an event handler belongs to. The `server_kx` handler is suspended in
several awaits while sockets are lost and replaced; reconnect timers, callers
and `close()` race; the server starts several quotes at once and restarts with
another key pair while clients hold the old one; responses arrive late, twice,
after the request was given up, or in a form that no `Response` can be built
from.

What makes it correct: a key is only sent and installed after its own quote was
validated and found bound to the key it is sealed to; a key is never replaced;
`fetch` settles once, with the answer to its own request; requests and
WebSockets do not outlive their channel; messages arrive in order; dead peers
are found and live ones kept; who waits on a live connection gets an answer.

### Quote verification (`packages/qvl`)

| Part | State | Operations |
|---|---|---|
| Intel (`verifyTdx.ts`, `verifySgx.ts`, `tcb.ts`, `verifyQeIdentity.ts`, `utils.ts`) | none | `verifyPCKChain`, `verifyTdx`, `verifySgx`, QE report signature and binding, CRLs, TCB level, measurements |
| AMD (`verifySev.ts`, `parseSev.ts`) | none | `verifySevSnp`, `verifySevSnpCertChain` |
| Parsing (`structs*.ts`, `parse*.ts`, `x509.ts`) | none | binary layouts |

What is hard: the certificates come in any order, with duplicates and look-alikes,
and may name each other as issuers; leaf and parents are picked by name and judged
afterwards; TCB levels are picked by first match and list only some components; a
revocation list may be torn. What makes it correct: what is accepted has a path to a
pinned root, a genuine chain is found in whatever order it comes, the search for it
ends, and a TCB verdict never favours the older platform.

### Kettle (`packages/kettle`) and the VM images (`packages/images`)

| Part | State | Operations |
|---|---|---|
| Quote service (`quote.ts`, `startQuoteService.ts`) | VCEK cache in memory and on disk, the fetch in progress | quote request, fetch, retry, share a fetch, restart |
| Launcher and workers (`launcher.ts`, `startWorker.ts`, `worker/`) | the Node process, workerd, the Durable Object's `appPromise` | parse, build, spawn, visit, stop, exit, restart by systemd |
| VM persistence (`sealing-key.sh`, `db-persist.sh`, `kettle-launcher.sh`, units) | databases in memory, encrypted copies on disk, per image | boot, restore, run, shut down, crash |
| VM certificates (`certbot-launcher.sh`, `certbot-persist.sh`, unit) | `/etc/letsencrypt` and nginx in memory, an encrypted copy on disk that all images share | restore, validate, ACME, cache, configure nginx |
| SGX persistence (`sgx-persist.sh`, `gramine-kettle-launcher.sh`) | plain copies of sealed files | restore, sync by a timer, save |
| Build and deployment | outside | sequences of CLI calls |

What is hard: requests for different chips or TCBs share one slot; a write is
cut short by a crash; two processes end in either order while a signal handler
waits for one of them; visits arrive while the application is imported, and
after workerd has evicted it; an encrypted copy is three writes one after the
other, and one that is being restored may stop half way; two images take turns on
one disk. What makes it correct: a quote gets its own certificate, every quote
request is answered, stopping ends, unfinished files are never taken for data,
images do not see each other's data or certificates, and nothing on disk keeps
the system from starting.

## Modules

| Module | Models | Uses |
|---|---|---|
| `ServerKeys` | the server's key exchange, against any client | |
| `TunnelHandshake` | one client and the server, composed | extends `ServerKeys` |
| `TunnelHandshakeProofs` | inductive invariants and theorems of both, and that the tunnel implements the server | `TunnelHandshake` |
| `FetchContract` | what `fetch` promises, abstractly | |
| `TunnelFetch` | `fetch` over channels that come and go | implements `FetchContract` |
| `TunnelFetchProofs` | its inductive invariant, theorems and refinement | `TunnelFetch` |
| `TunnelWebSocket` | tunneled WebSockets | |
| `TunnelWebSocketProofs` | its inductive invariant and theorems | `TunnelWebSocket` |
| `Heartbeat` | the sweep, with a clock | |
| `HeartbeatProofs` | its inductive invariant and theorems | `Heartbeat` |
| `ServiceWorker` | the service worker's tunnel and its fallback | implements `FetchContract` |
| `ServiceWorkerProofs` | its inductive invariant and refinement | `ServiceWorker` |
| `Collateral` | TCB levels, measurement items and CRLs of qvl, as operators | |
| `QuoteVerifier` | one call of each verifier of qvl | extends `Collateral` |
| `QuoteVerifierProofs` | facts about the checks and the walk, and the theorems | `QuoteVerifier` |
| `VcekCache` | VCEK certificates of the quote service | |
| `Kettle` | a kettle: Node, quote service, workerd, Durable Object | extends `VcekCache` |
| `KettleProofs` | inductive invariants and theorems of both | `Kettle` |
| `DbPersist` | databases of a VM over boots, shutdowns and crashes | |
| `CertCache` | the VM's TLS certificate beside them | extends `DbPersist` |
| `CertCacheProofs` | inductive invariants and theorems of both | `CertCache` |
| `MC*` | values of the constants for TLC, and symmetry | the module named |

`PROJECT.json` gives the source lines of every definition. Definitions whose
comment begins with "Mutant" are variants with a plausible bug, used to see that
a property fails where it should; no specification refers to them.

### How state and actions correspond to the code

**ServerKeys.** `pub`, `quote`, `keyReady` are the fields the several calls of
`#getQuote` share; `getQuote[c]` says where the call of the constructor or of a
control socket stands. A key pair is named by the process and the call that made
it, so a quote is named by the key pair it was made for. `StartGetQuote`
replaces the key pair (before the await), `QuoteArrives` the quote (after it).
`OpenControl` is `onOpen` or the `connection` event up to that await,
`Announce` and `AbandonControl` what follows it. `Restart` is a new process.
`AnyClientKx` lets a client seal any key to any public key it was announced.

**TunnelHandshake.** A socket carries at most one `server_kx`, so its promise,
its handler and the symmetric key the handler makes are named after it. The
handler runs through "verify" (all awaits before the key is stored), "checks"
(custom and measurement checks) and "bound"/"unbound" (the digest of the binding
check, whose operands are the shared fields read when it starts). Node and
workerd differ in what opens a control socket (`OpenOnMessage`). Verification
itself is a verdict here; `QuoteVerifier` models it. A new socket is one that has
not been used (`NewSocket`; which one means nothing).

**TunnelFetch.** The handshake is reduced to what a request can see: the promise
it may wait for, the moment the key is stored, the later moment `client_kx` is
sent, the loss of the connection. `SendRequest` is the rest of `fetch` after its
awaits, `Answer` and `AnswerAgain` what an application may do. A response is of one
of the `Kinds` that the client tells apart: one it resolves with, one it rejects
with, and one from which `new Headers` or `new Response` throws (status 304 or 205,
for the server always sends a body). `#handleTunnelResponse` has deleted the entry
by then, and the timer finds none, so such a call is "stranded": nothing is left
that could settle it.

**TunnelWebSocket.** A channel is "opening", "keyed", "ready", "closing",
"closed"; a new one may be dialled while the old one is "closing". Messages are
numbered per WebSocket in the order of the `send()` calls; what an application
hears is remembered with the channel it came on.

**Heartbeat.** Time is discrete and a sweep may be late by `Jitter`. A peer
answers within `MaxRtt` until it dies silently.

**ServiceWorker.** `ws`, `symmetricKey`, `connectionPromise` and
`pendingRequests` are the script's globals; every socket's handlers work on them.
A connection is numbered in the order of dialling and its promise is named after
it. A handler is one step; the continuations that its microtasks run (`Resume`,
`Fallback`) come before the next event (`MicrotasksDone`). `Closed` is `onerror`,
if the connection failed, and `onclose`. Reading a body is a task of its own, and
a body that was read cannot be sent to the network again. `Killed` is the browser
ending an idle or busy worker. A response that cannot be built leaves its request
"stranded", as in `TunnelFetch`. The worker sends no hello, so that only a `host` that
calls `onOpen` announces its key (`Announces`). The server receives a request and
answers it, once, in one step; what an application may do in between is in
`TunnelFetch`.

**Collateral, QuoteVerifier.** A certificate is its names, serial, keys,
BasicConstraints, PCE SVN and whether it is in date; a signature is the key it was
made with. `FindLeaf` and `Walk` are the loops of `verifyPCKChain`; `JudgeTdx`,
`JudgeSgx` and `JudgeSevSnp` are the checks, in the order of the code, with the
first that fails as the verdict. The loop of `verifyPCKChain` has no bound; the
model stops it one turn after it must have come to a certificate twice (`MaxWalk`),
and leaves that call where it is. `GoesRound` says of a list that this happens to
it. A TCB level is a function on the components it lists; `getTcbStatus` is the
first level met. A CRL is a sequence of entries, of which some end the reading and
some make it fail. The calls that are explored are a constant, given by
`MCQuoteVerifier` as a union of boxes.

**VcekCache.** `slot` is `vcekFetchPromise` with `vcekFetchKey`; a fetch is known
by the request that started it. The continuation of one event runs to its last
microtask, so settling a fetch and its `finally` are one step.

**Kettle.** `phase` is how far the Node process has come, `workerd` and `signal`
its child, `ask` and `job` the two ends of a quote request, `app` and `loader` the
Durable Object's `appPromise` and the function behind it. The setup of a behaviour
fixes the command, the manifest, the TEE and who asks for what. workerd may take an
idle Durable Object out of memory (`Evict`); `inits` counts the calls of `onInit` by
the object that is there. `Ends` is the end
of Node, which does not end workerd; `Respawn` is systemd, which does, and restarts
after a failure only. `Drain` is Node ending because nothing keeps it alive: the
quote server and the kill timer are unref'd.

**DbPersist.** A copy of a database is named by the last write it holds and the
image it was made under, which stands for both the directory (by measurement) and
the sealing key. `WriteEnc`, `WriteMac`, `WriteMeta` are the writes of a backup,
each of which may fail on a full disk; the file the HMAC is made of may be short,
and gets an HMAC all the same (`set -e` is suspended there); the metadata is
truncated and then written, in two steps. `Crash` may come between any two steps. An
accepted backup may fail to decrypt and leave the database as it was. `live` is in
memory: the image has no writable root. `db-persist.service` sets
`DefaultDependencies=no` and has no `Conflicts=shutdown.target`; the model supposes
that systemd runs its ExecStop.

**CertCache.** `step` is how far certbot-launcher has come. The cache file is
named by the first hostname alone; the key that it was written with is the
image's. `letsencrypt` has two places: `first` is `live/<first host>`, where nginx is
pointed, and `other` any directory of another name. A tar that fails half way leaves
what it has extracted, unvalidated (`Extracted`). certbot is external: it leaves a
certificate for all hostnames at `first`, or beside files that are in its way there,
or keeps the one it finds (`Obtained`). A day is long against the launcher's minutes.

## Runs

| Run | Specification and bounds | Shows |
|---|---|---|
| `handshake` | two sockets, two processes, one lost connection, TDX on Node, SGX without a strategy on Node, SEV-SNP on workerd | no key is sent or installed that was not attested; no dial after `close()`; announced keys stay usable, installed ones are never replaced and go with their socket; while the promise of an open socket is pending, something is left to be done for it (`PendingIsOwed`); where the first message opens a socket, it is the hello and not a key (`TunnelInv`) |
| `handshake_live` | two sockets, one process, one loss, TDX on Node and SEV-SNP on workerd, fair | every control socket is answered or closed; the promise of a live socket settles; a client that lost its connection dials again |
| `handshake_keys_diverge` | as above, two losses | violation, see Findings |
| `handshake_hangs` | one socket, fair | violation, see Findings |
| `fetch` | two calls, two connections | `fetch` implements `FetchContract`; but for calls whose response cannot be built, nothing is left pending on a lost connection (`PendingOnLiveConnection`), after `close()` or without a timer; a request is in one place at a time (`FetchInv`) |
| `fetch_too_early` | two calls, one connection | violation, see Findings |
| `websocket` | one WebSocket, two messages each way, two channels, fair | messages are heard in order and once; the queue before open, the server's tracking, and the order of what was heard, is under way and is queued (`MockInv`); silence after close, close events on loss |
| `heartbeat` | two sockets, interval 3, timeout 4, lateness 1, four sweeps | live peers are kept, dead ones found in two intervals, keys go with them and the records say who answered (`HeartbeatInv`) |
| `service_worker` | a GET and a POST, three sockets, one end of the worker, either host, fair | `tunnelFetch` implements `FetchContract`; what went to the network is never answered by the tunnel too, and a request is in one place at a time (`WorkerInv`); what was sent ends, unless its response cannot be built; behind a host with `onOpen` a request waits no longer than its socket lives |
| `quote_verifier` | every list of up to three of nine certificates with every single fault of a quote; every platform under every list of up to two of six TCB levels; every CRL of up to three entries; items and policies; fair | what is accepted has a trust path, a level in good standing and a matching item; the walk comes to no certificate twice unless certificates name each other as issuers, and order does not matter (`VerifierInv`); the TCB verdict is monotone; with the same exception every call ends |
| `kettle` | two quote requests for two keys, two visits, six setups, two attempts, one restart, fair | a quote gets its own certificate, failures do not linger and nobody waits for a fetch that has ended (`KettleInv`), every quote request settles, `stop()` ends the process, a clean exit leaves no workerd, `onInit` runs at most once per Durable Object, whichever visits overlap |
| `vm_persist` | one database, a certificate of two days, two hostnames, two images, three boots, one failure, fair | unfinished backups are not restored, images are isolated in memory and on disk (`VmInv`), HTTPS starts only with a certificate of this image for the first hostname, complete and in date unless a left-over lies in the way of certbot's (`ServedCertIsOurs`), nothing on disk blocks a start |

### Bounds and why they are enough

Two sockets (connections, channels) are the smallest number with a stale handler or
a stale channel next to a live one. Two sockets that are both still alive need a
third: the first fails, its late close event clears the shared promise while the
second is connecting, and a third is dialled. The second's hello then goes to the
third (`client.ts:214`), and a host without `onOpen` never hears of it; this is the
exception in `LiveHandshakeSettles` (`NeverIntroduced`). Three sockets are too many
for a liveness run. The safety properties are proved for any number of sockets,
among them `PendingIsOwed`: whose promise is pending on an open socket has had its
hello lost in this way, or someone's next step is for it. Two processes give one
restart with clients that hold the old key. Two requests give a response that could
settle the wrong call. Two cache keys let the slot be taken over while a third
request shares it. Three boots of two images are the least in which an image returns
to a disk another one used. A certificate that lives two days, over two days, is
restored with days to spare, with none, and expires under a running VM; databases
and certificates are explored in setups of their own, as they meet only in boots,
shutdowns and crashes, which both have. Three sockets of the service worker are one
that is lost, one that replaces it and one whose handlers meet both. Three
certificates are the length of a real chain; the nine include look-alikes for each
member (another key, out of date, no room for an intermediate, an issuer that is no
CA, one issued by the leaf it issues). Two levels, two components and three security
versions are what a first match can get wrong; the six levels include one that lists
a component less, one without a PCE SVN and one that differs between SGX and TDX.
Four sweeps let a socket come, miss a ping, be terminated and be followed by
another. Symmetry of requests and of connections is used in `fetch`, where only
safety is checked.

Deadlock is not checked: every system here may come to rest (a closed client, a
VM that is off for good, a bound that is used up).

### Fairness

Weak fairness is given to what the event loop, the network stack or systemd do by
themselves: sockets connect or fail, both ends learn of a close, messages on a live
socket arrive, awaited promises settle, timers fire, kettle is restarted, a
verification goes on. It is not given to applications (calls of `fetch`, `close`,
`send`), to losses, or to failures. In `Kettle` it includes that `snpguest` and
`trustauthority-cli` end: `execFile` is called without a timeout, so this is an
assumption on external programs. Nothing makes workerd obey SIGTERM, or the
application load. Eviction of a Durable Object has no fairness either. In
`ServiceWorker` a server whose host calls `onOpen` sends `server_kx` on a connection
it accepted or closes it, which `handshake_live` shows of the server; nothing is
supposed of other hosts. In `DbPersist` kettle's start is fair, and its restart
after a failure, as its unit says `Restart=on-failure`; in `CertCache` the steps of
the launcher, with the assumption that certbot ends. Shutting down and booting are
the operator's.

## Findings

1. *Keys diverge after a reconnect* (`handshake_keys_diverge`). The handler of a
   lost socket is still in its checks; a new socket is dialled and completes its
   handshake; the old handler then finishes, having stored its own key over the
   new one's or sending its `client_kx` on the new socket, where the server
   already has a key. Both ends of the new socket hold different keys, and
   messages are dropped until the next reconnect.
2. *A connection attempt that never settles* (`handshake_hangs`). The server
   closes the socket before `server_kx` (1011 when the quote fails); `onclose`
   forgets the shared promise without rejecting it. `fetch` arms its timeout only
   afterwards, so its caller waits for ever, although the client has reconnected.
3. *Requests before the handshake is over* (`fetch_too_early`). The symmetric key
   is stored when the quote has been verified, before the measurements and the
   key binding are checked. A second `fetch` finds an open socket and a key and
   sends. The server drops the request, since `client_kx` has not arrived, and the call
   waits for its timeout.

### Statements that are written down and do not hold

The named ones are definitions in the modules that no run checks; TLC finds a
short counterexample to each under the bounds of its component's run (three
sockets for `CloseClosesControlChannel`, three requests for `OneFetchPerKey`).

- Every call of `fetch` settles. The client takes the call out of
  `pendingRequests`, where its timer looks for it, and then builds the response
  (`client.ts:656`). For status 304 or 205 `new Response` throws, as the server sends
  a body (`server.ts:709`, `server.ts:803`); the message handler logs the exception,
  and the call is left for good. The service worker does the same (`sw.ts:136`). The
  state "stranded" is this case, and the exception in `PendingOnLiveConnection`,
  `FetchInv`, `WorkerInv` and `SentRequestEnds`.
- A service worker behind a host without `onOpen` waits for ever: it sends no hello
  (`sw.ts:72`), and such a host opens a control socket on its first message.
  `WaitsOnlyForLiveSocket` is stated for the other hosts.
- The promise of a live socket settles, with three sockets on a host without
  `onOpen`: see Bounds.
- Verification ends (`verifyTdx.ts:202`): certificates that name each other as issuers
  keep the walk going round, and they come with the quote. `VerificationEnds` and
  `ChainClimbs` say that this is the only case.
- `OnInitRunsOncePerWorkerd` (`Kettle`), from "runs once when app is first loaded"
  (`worker/worker.ts:108`): an idle Durable Object is evicted, and the next one calls
  `onInit` again in the same workerd.
- `AnnouncedQuoteIsBound` (`ServerKeys`): the constructor's `#getQuote` and that of
  the first control socket overlap; the socket's call replaces the key pair, then
  the constructor's quote arrives and sets `keyReady`, and a second socket is announced
  the new key with the old quote. The client's binding check refuses it.
- `CloseClosesControlChannel` (`TunnelHandshake`, three sockets): the first socket
  fails and a second is dialled; then the close event of the first clears the
  shared promise while the second is still connecting, so a third is dialled and
  becomes `this.ws`. `close()` closes only the third; the second opens and stays.
- `ClientCloseReachesServer` (`TunnelWebSocket`): `close()` on a mock whose
  `connect()` is still in its await sends nothing (no key yet); `connect()` then
  sends `ws_connect` once it is ready, and the server has an open mock nobody will
  close until the channel goes.
- Messages on two channels (comment of `HeardInOrder`): a WebSocket may send on
  the new channel while messages of the old one are under way; nothing orders them.
- `OneFetchPerKey` (`VcekCache`): requests for k1, then k2 (which takes the slot
  over), then k1 again start two fetches for k1, against the comment on
  `vcekFetchPromise`. Harmless: both return the same certificate.
- `FailureFallsBack` (`ServiceWorker`), from "On failure, fall back to network"
  (`sw.ts`): a socket that is closed without an error before `server_kx` leaves
  its requests waiting for ever (the service worker's form of finding 2), as does a
  host without `onOpen`; a request whose body was read cannot be fetched again, so it
  fails; one whose response cannot be built does neither.
- `AppMatchesManifest` (`Kettle`), from "Verify SHA256 hash for all files"
  (`launcher.ts`): only `file://` applications are compared with the manifest's
  hash; an `http(s)://` one runs whatever its hash.
- `DeadWorkerdIsReplaced` (`Kettle`): when workerd dies, Node has nothing left to
  wait for and ends with code 0, which `Restart=on-failure` does not restart.
- `ServedCertCoversHosts` (`CertCache`), from "Obtain a single SAN certificate for
  all specified hostnames" (`CONFIG.md`): when hostnames are added behind the first
  one, the cached certificate without them is restored, as `validate_certs` asks for
  the first only. The note there that a new certificate is obtained at each boot
  predates the cache.
- `ServedCertIsCurrent` (`CertCache`): nothing renews a certificate while a VM runs.
- `ServedCertIsValid` (`CertCache`): after a tar that failed, nothing validates what
  it left (`certbot-launcher.sh:416`). If certbot then puts its certificate into a
  directory of another name, nginx is still pointed at `live/<first host>`
  (`certbot-launcher.sh:295`), and serves a left-over that may be expired or
  incomplete.
- `ShutdownPersists` (`DbPersist`): nothing orders the stop of kettle before the
  ExecStop of `db-persist`. tar may see a file change and fail, so that there is no
  new backup; writes made after a database was archived are lost; and the archive
  may mix two states of the database.
- `verifySev.ts` says of `date` "Set to null to skip time validation"; the code
  passes `config.date ?? Date.now()`, so null means now. It also says that without
  `arkCert` the pinned ARKs are used; they are compared only with an ARK that is
  given. Neither is part of a run; `JudgeSevSnp` follows the code.
- A CRL that is torn lists nothing (`parseCrlRevokedSerials` returns an empty list
  when reading fails, whatever it has read), so `AcceptedIsTrusted` is stated for
  intact CRLs; a certificate is revoked by serial number alone, whoever issued it.
- An empty list of pinned ARKs switches the comparison off (`verifySev.ts:576`),
  while an empty list of Intel roots refuses everything. `SevAcceptedIsTrusted` is
  therefore stated for callers that pin at least one; the proof cannot do without.
- Two certificates of one name, as after a change of a CA's key: the walk follows
  the first of them, so a chain that is sound with the second may be refused,
  depending on the order. Comments on `verifyPCKChain` promise only to identify the
  leaf and walk up; `OrderDoesNotMatter` supposes distinct names.
- `verifyQeIdentity.ts` is called by none of the verifiers.

## Proofs

Eight modules hold theorems; TLAPS checks them to the last leaf. Each proof of an
invariant has one lemma per action or kind of action, and below it one step per
conjunct that the action can disturb. `TunnelInv`, `FetchInv`, `MockInv`, `WorkerInv`,
`HeartbeatInv`, `KettleInv` and `VmInv` are inductive and are invariants of their runs
as well. The theorems hold for any sets of sockets, requests, images and so on, and for
any values of the bounds.
What a proof supposes of the constants is an ASSUME of the model, and TLC evaluates it
in the run. The assumptions that `None` is no member of a set are about the encoding
alone.

**TunnelHandshakeProofs** begins with the server alone, against any client, from
`ProcsAssumption` (at least one process) and that the constructor is no socket:
`ServerInvariance`, `AnnouncedKeysStayLive`, `ClosedSocketsHoldNoKey`,
`KeysAreNeverReplaced`. That an announced key stays live is
not inductive: a later `#getQuote` would replace the key pair. The invariant
`ServerInv` therefore adds what the code relies on without saying so: no call can
start once `keyReady` (`KeysAndAnnouncements`), a socket is announced to once per life
(`AnnouncedOnce`), and all announcements of a process carry one key
(`OneKeyPerProcess`).

Then client and server together, for any set of configurations:
`ChannelKeysAreAttested`, `SentKeysAreAttested`, `ClosedClientNeverDials`,
`TunnelKeepsServerKeysSafe` and `ChannelKeysAreNeverReplaced`. The difficulty is the
binding check, which reads the client's shared fields: it compares the handler's own
quote with whatever server key is stored at that moment. `HandshakeInv` extends
`ServerInv` by `HandlersAndBinding`: the stored key is one that some socket was
announced, and a handler that passed the check has a bound quote. That the key
compared and the key sealed to are the same then follows from `OneKeyPerProcess`: one
process announces one key, and a quote names the process that made it. The server's
own steps are preserved by the lemmas of the first part.

Last, the refinement: `TunnelImplementsServer` says that the composed system
implements `ServerSpec`, so that its loose client (any announced key, on any open
socket, at any time) really stands for `TunnelClient`. A `client_kx` that is received
is an `AnyClientKx` because a key on the wire was announced to its handler
(`SentKeyIsAttested`). The step that needs an argument is the first message on a host
without `onOpen`, which opens the socket and is then handled, so that one step of the
code might open a socket and install a key. `HelloIsFirst` excludes it: handlers send
on `this.ws`, which may belong to another handshake, but `this.ws` is open only after
its own `onopen` sent the hello on it, and no socket becomes `this.ws` again once
replaced. `TunnelInvariance` proves it together with `HandshakeInv`.

`PendingPromisesAreOwed` is what safety can say of a handshake that hangs: while the
promise of an open socket is pending, its hello, its quote, its `server_kx` or its
handler is on the way, or the server's end is gone. `PromisesAndSockets` makes it
inductive: each step that takes one of these away puts the next in its place, and a
handler that ends settles its promise.

**TunnelFetchProofs**: `NoCallIsForgotten` (`FetchInv`),
`PendingIsOnLiveConnection`, and `FetchKeepsItsContract`, the refinement of
`FetchContract`. A call that waits is registered, has a timer and waits on a live
connection, or its response could not be built; what makes this inductive is that
all three are set and cleared in the same handlers. That a call is stranded by a
response only, and not by a loss or a timer, is `StrandedWasAnswered`. The
refinement needs more: that the application is given a request once does not follow
from `pendingRequests`, as a request may be under way on a connection that is gone.
`OneCopyOfARequest` says that a request is not yet sent, or at one place of one
queue, or with the application, and that a response is under way only for a request
that was served. Then each step is simulated: `Fetch` is `Begin`, the server's
receipt is `Serve`, the client's is `Resolve` or `Reject`, timeouts and closes are
`Reject` of several calls, and all others stutter.

**TunnelWebSocketProofs**, for any number of WebSockets, channels and messages:
`MockInvariance`, `MessagesAreHeardInOrder`, `ClosedMocksAreSilent`. The server
dispatches messages by connection id, whichever channel they come on, and a mock may
queue before it opens, so the order in which they are heard does not follow from the
order of a channel alone. `StreamsAreOrdered` says why it holds: of one WebSocket, in
each direction, what was delivered, what is under way on a channel behind it and what
is still queued carry increasing numbers, with no number in two places; `PastQueue` is
where the queue begins. Two lemmas do the work for both directions: what appending a
later message at the end of a channel does to such a stream (`StreamExtended`), and
what taking the first one does (`StreamTaken`). While a mock is
connecting, `send()` only queues, and the open event flushes the whole queue before
anything is sent directly (`OpenMeansFlushed`). Silence
after close needs that only mocks that are connecting or open can be reached
(`RegisteredIsLive`): every close takes the mock out of `webSocketConnections` in the
same step.

**ServiceWorkerProofs**: `RequestsLeaveOnce` (`WorkerInv`) and
`WorkerKeepsContract`. The argument is the same, over handlers that write shared
globals whichever socket they belong to and a worker that may be ended at any time:
the invariant says nothing of whose key or socket is stored, only of where requests
are, so it survives them. A response that arrives is for a request that was served
once (`OneCopyOfARequest`), and it settles or strands only what is still in
`pendingRequests` (`PendingIsRegistered`), which excludes what has gone to the
network (`NoDowngradeOfAnswered`).

**HeartbeatProofs**, from `HeartbeatAssumption` (a live peer answers within less
than an interval; an interval and the lateness of a sweep are within the timeout):
`HeartbeatInvariance`, `ResponsivePeersAreKept`, `DeadPeersAreReaped`. What a sweep
does depends on records of the time since the last one, so the invariant relates
them to the last sweep: a live peer that has a ping outstanding will answer before
the next sweep, and one with `isAlive` was heard since the last (`LivePeerAnswers`);
a dead one has `isAlive` only if no sweep has come since it died
(`DeadPeerIsSilent`). The second sweep after a death then terminates.

**QuoteVerifierProofs**, for any call (any certificates, in any number, order and
repetition, any TCB levels, CRLs, items and policies), from `CertsAssumption` and
`CallsAssumption` (what the parsers return: security versions within their width,
integers for dates, lists for lists); nothing is supposed of who names whom as
issuer: `CallInvariance`, `AcceptedQuotesAreTrusted`,
`TcbVerdictsAreMonotone`, `SevAcceptedReportsAreTrusted`, `VerifierInvariance`.
- `CallInv` says that the chain goes from the leaf along issuer names, each time to
  another certificate, that it is judged only at its top (`Walking`), and that a verdict
  is that of the first failing check (`Judged`).
- If the chain comes to a certificate twice, what it visits in between is a set that the
  walk cannot leave, and the leaf leads into it (`ComingBackIsGoingRound`, `Trapped`).
  So a walk that does not go round visits no certificate twice and takes no more turns
  than there are certificates (`ClimbsWithoutRepetition`); and a walk that has ended has
  not gone round, as its last certificate is in no such set and each one before it is in
  one only with its successor (`EndedIsNotTrapped`).
- A chain that has ended is thus one of the paths of the reference definition; with the
  checks on it that passed, it is a trust path.
- Monotony of the TCB verdict: meeting a level is monotone in the platform, the first
  level met exists by well-foundedness of the naturals, and, where the levels in good
  standing come first, what the newer platform meets first is no later.
- Order: in one sound path with distinct names, the leaf is the only certificate that
  issued no other, and each has one issuer, so the walk rebuilds the path whatever the
  order.

**KettleProofs**, from `RetriesAssumption` (one attempt at least) and the form of
setups: `KettleInvariance`, `CertificatesMatchReports`,
`CleanExitsLeaveNoWorkerd`, `OnInitIsRunOnce`. A quote is served with what the fetch
it waits for returns, so the invariant follows waiting: the slot holds a running
fetch for its key (`SlotIsInFlight`), who shares one shares a running one of its own
key, though the slot may have been taken over since (`AwaitedIsInFlight`), and
memory and disk hold a certificate only under its key (`CachedUnderItsKey`). A
graceful end needs that `stop()` has the exit event before it resolves
(`StopWaitsForWorkerd`); one `onInit` per Durable Object, that the promise is stored
before the first await (`LoadingIsPromised`), and that an object is not evicted while a
visit waits for it.

**CertCacheProofs**, from `DaysAssumption` (a fresh certificate passes
`validate_certs`, one attempt at least): `VmInvariance`, `GarbageIsNeverRestored`,
`ServedCertsAreOurs`. What is restored was on disk through any number of crashes and
other images, so the invariants speak of files: a backup holds what its own image
wrote, intact or not, and never restored garbage (`BackupsAreOurs`); what is being
written is the running image's (`JobIsOurs`); what is still to be tried is there
(`TodoIsThere`). What a cache file holds was obtained by the image whose key seals it,
for the first hostname the file is named by, and what is incomplete there lies beside
another (`CachedCertsAreTheirs`, `Theirs`, `MadeUpFor`), since left-overs of a failed
tar are sealed together with what certbot obtained after it. Between success and nginx
there is a certificate in date (`Ready`, `LauncherIsOnItsWay`), since a day is long
against the launcher's minutes.

What the attempts showed: `OrderDoesNotMatter` is false for two certificates of one
name and `SevAcceptedIsTrusted` for an empty list of pinned ARKs (see Findings).
The instances TLC explores hold no counterexample to either; the statements now name
both conditions.

Only model-checked: liveness (`EveryControlSocketAnswered`, `LiveHandshakeSettles`,
`ReconnectsByItself`, `LostChannelClosesMocks`, `SentRequestEnds`,
`WaitsOnlyForLiveSocket`, `QuoteRequestSettles`, `StopCompletes`,
`VerificationEnds`, `CachesNeverBlockStart`), as fairness and ENABLED are out of the
prover's reach. Every invariant, action property and refinement that a passing run
checks is a theorem. Of `VerificationEnds`, `ChainClimbs` proves the part that is
about safety: unless it goes round, the walk takes no more turns than there are
certificates. Of `LiveHandshakeSettles`, `PendingIsOwed` is that part.

## Not modelled

- DER, PEM and struct parsing, hashing and cryptography: a signature or a box
  either matches a key or does not. QE identity, which no verifier calls.
- Bodies, headers and streaming of HTTP; contents of WebSocket messages.
- Blobs: a host that delivers them makes the server await between the arrival and
  the handling of a message. `ServerKeys` handles a message in one step.
- `config.x25519Binding`, by which an application replaces the binding check
  (`client.ts:491`, `client.ts:535`): the properties are about the check that is built in.
- Details of `TunnelWebSocket`: an `onclose` of the application that throws
  (`client.ts:241`); that the close event of an old socket also clears the key of the
  new one (`client.ts:257`; `TunnelHandshake` has it); a missing Hono context
  (`server.ts:839`).
- The delay and the double answer of an application behind a service worker:
  `ServiceWorker` answers at once and once.
- The heartbeat's clean-up of keys of sockets that are gone (`server.ts:1088`) has
  nothing to clean in the model, as the close handler removes the key.
- Several manifests on one VM: `kettle-launcher.sh:87` then swallows the failure of a
  kettle and ends with code 0, so that systemd does not restart it. `Kettle` and
  `DbPersist` are about one.
- Tunnel helpers (encodings, type guards, `encryptedOnly`, an event emitter):
  stateless, or a test of a flag. Registration of the service worker and the
  middleware that serves its script.
- SGX persistence (`sgx-persist.sh`, `gramine-kettle-launcher.sh`, their units):
  copies of files that the enclave has sealed, by rsync, with no step between two
  copies that another part of the repository sees. Reading them showed: on a blank
  disk `restore_data` runs `ls` on directories that are not there under `set -e`,
  so the first `sgx-persist.service` fails and its `ExecStop` never saves, and the
  sync unit, which requires it, runs the restore again; the `.backup.1` copies are
  deleted by the next `rsync --delete`; the `continue` in the retry loop of the
  launcher passes neither the counter nor the handling that its comment names.
- Build tools, images, deployment scripts and demos: sequences of external
  commands and example applications.

## Plan

All modules of the inventory that carry state are written, and what can be proved of
their runs is proved. What a later change could add:

1. Blobs in `ServerKeys` (`server.ts:374`): a `client_kx` whose handling is split by an
   await, for hosts that deliver them. `ClosedSocketHoldsNoKey` would then have to be
   about sockets whose last message has been handled.
2. Properties for hazards that have none because the code promises nothing there:
   `close()` with two dialled sockets (`client.ts:1039`), the restart of a kettle from
   the backup of the previous shutdown (`kettle-launcher.sh:22`), workerd dying under a
   running kettle (`startWorker.ts:259`). Each is modelled; for the first and the last
   the statement one would want is under Findings, among those that do not hold.
3. x509 name and date decoding, on which `Collateral` relies as verdicts.
