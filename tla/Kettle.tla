------------------------------- MODULE Kettle -------------------------------
(***************************************************************************)
(* One kettle: the Node process of the commands launch and start-worker    *)
(* (launcher.ts, startWorker.ts, utils.ts), the quote service it runs      *)
(* (startQuoteService.ts, quote.ts), the workerd process it spawns, and in *)
(* it the Durable Object that loads the application (worker/worker.ts) and *)
(* asks for quotes (worker/index.ts).                                      *)
(*                                                                         *)
(* A node process goes from parse over build, quotes (the quote service    *)
(* starts), spawn (workerd starts) and settle (the half second after its   *)
(* port opened) to up, where it has signal handlers, then to stopping and  *)
(* exited.  The disk copies of certificates survive it, see VcekCache.     *)
(* systemd restarts a launcher that failed (kettle-launcher.service) and   *)
(* kills what it left behind; it restarts none that exited with code 0.    *)
(*                                                                         *)
(* A setup fixes what one behaviour does: the command, where the manifest  *)
(* says the application is and whether what is there has the manifest's    *)
(* sha256, the TEE that detectTeeType finds ("sample": the quotes of       *)
(* KETTLE_TESTING), and who will ask for a quote or visit the application. *)
(***************************************************************************)
EXTENDS VcekCache

CONSTANTS
    Visits,   \* HTTP requests to the worker
    Setups    \* bound: the setups that are explored

ASSUME SetupsAssumption ==
    Setups \subseteq [command : {"launch", "start-worker"},
                      at : {"file", "http"}, listed : BOOLEAN,
                      tee : {"sev-snp", "tdx", "sgx", "sample"},
                      quotes : SUBSET Requests, visits : SUBSET Visits]

VARIABLES
    setup,
    phase,    \* of the Node process
    how,      \* how it ended
    waits,    \* the promises of stop() that have not resolved
    workerd,  \* its process; "reaped" once its exit event was emitted
    signal,   \* the last signal workerd was sent
    ask,      \* per quote request, getQuoteFromService
    job,      \* per quote request, the handler of POST /quote
    app,      \* appPromise of the Durable Object
    loader,   \* per visit, the function behind appPromise, if it runs it
    inits,    \* calls of onInit by this Durable Object
    visit     \* per visit, its response

nodeVars == <<setup, phase, how, waits>>
askVars == <<ask, job>>
appVars == <<app, loader, inits, visit>>
vars == <<nodeVars, workerd, signal, askVars, appVars, cacheVars>>

TypeOK ==
    /\ setup \in Setups
    /\ phase \in {"parse", "build", "quotes", "spawn", "settle", "up", "stopping", "exited"}
    /\ how \in {"running", "graceful", "drained", "failed", "signal"}
    /\ waits \subseteq {"workerd", "quotes"}
    /\ workerd \in {"none", "starting", "listening", "exited", "reaped"}
    /\ signal \in {"none", "SIGTERM", "SIGKILL"}
    /\ ask \in [Requests -> {"idle", "waiting", "quote", "error"}]
    /\ job \in [Requests -> {"none", "which", "cli", "snpguest", "done"}]
    /\ app \in {"none", "promised", "ready", "broken"}
    /\ loader \in [Visits -> {"none", "import", "onInit"}]
    /\ inits \in Nat
    /\ visit \in [Visits -> {"idle", "waiting", "served", "failed"}]

Init ==
    /\ CacheInit
    /\ setup \in Setups
    /\ phase = IF setup.command = "launch" THEN "parse" ELSE "build"
    /\ how = "running" /\ waits = {}
    /\ workerd = "none" /\ signal = "none"
    /\ ask = [r \in Requests |-> "idle"]
    /\ job = [r \in Requests |-> "none"]
    /\ app = "none" /\ inits = 0
    /\ loader = [v \in Visits |-> "none"]
    /\ visit = [v \in Visits |-> "idle"]

Alive == phase # "exited"
WorkerdRuns == workerd \in {"starting", "listening"}

\* The quote service accepts connections: it was started, and not yet stopped.
Serving == phase \in {"spawn", "settle", "up"}

-----------------------------------------------------------------------------
(***************************************************************************)
(* The Node process.                                                       *)
(***************************************************************************)

\* Requests on connections to the quote service that break fail in the worker.
ConnectionsBreak == ask' = [r \in Requests |-> IF ask[r] = "waiting" THEN "error" ELSE ask[r]]

\* The Node process is gone, and nothing it was doing goes on. Its child is not
\* told.
Ends(way) ==
    /\ phase' = "exited" /\ how' = way
    /\ ConnectionsBreak
    /\ job' = [r \in Requests |-> "none"]
    /\ waits' = {}
    /\ UNCHANGED <<setup, workerd, signal, appVars, cacheVars>>

\* parseManifest: a manifest that cannot be read, is no JSON or lacks a field,
\* an application that is missing or over 5 MB, ends the launch; so does a
\* sha256 that differs, for a file:// application. An http(s) one is run
\* whatever its sha256.
Parse ==
    /\ phase = "parse"
    /\ setup.at = "file" => setup.listed
    /\ phase' = "build"
    /\ UNCHANGED <<setup, how, waits, workerd, signal, askVars, appVars, cacheVars>>

\* The bundle is built, or comes ready made, and startWorker finds its files; it
\* starts the quote service.
Build ==
    /\ phase = "build"
    /\ phase' = "quotes"
    /\ UNCHANGED <<setup, how, waits, workerd, signal, askVars, appVars, cacheVars>>

\* The port of the quote service opened in time: workerd is spawned.
Spawn ==
    /\ phase = "quotes"
    /\ phase' = "spawn" /\ workerd' = "starting"
    /\ UNCHANGED <<setup, how, waits, signal, askVars, appVars, cacheVars>>

\* waitForPortOpen(workerPort) connected.
PortOpens ==
    /\ phase = "spawn" /\ workerd = "listening"
    /\ phase' = "settle"
    /\ UNCHANGED <<setup, how, waits, workerd, signal, askVars, appVars, cacheVars>>

\* Half a second later startWorker returns and the signal handlers are set,
\* whether workerd still runs or not.
Up ==
    /\ phase = "settle"
    /\ phase' = "up"
    /\ UNCHANGED <<setup, how, waits, workerd, signal, askVars, appVars, cacheVars>>

\* Whatever throws on the way up ends the process with code 1: a manifest, a
\* build, a missing file, a port that is taken, a binary that is not there, or
\* workerd not listening after 15 seconds. Nothing is stopped first.
StartFails ==
    /\ phase \in {"parse", "build", "quotes"} \/ (phase = "spawn" /\ workerd # "listening")
    /\ Ends("failed")

\* Node itself dies at any time.
NodeDies ==
    /\ Alive
    /\ Ends("failed")

\* Mutant: stop() sends SIGTERM and does not wait for the exit event.
Stop_NoWait ==
    /\ phase = "up"
    /\ phase' = "stopping" /\ waits' = {"quotes"}
    /\ signal' = IF WorkerdRuns THEN "SIGTERM" ELSE signal
    /\ ConnectionsBreak
    /\ UNCHANGED <<setup, how, workerd, job, appVars, cacheVars>>

\* SIGINT or SIGTERM with the handlers set: stop() sends workerd a SIGTERM,
\* destroys the connections of the quote service and closes it. (kill() returns
\* false for a process that is gone; it does not throw.) A second signal calls
\* stop() again, which changes nothing of this.
Stop ==
    /\ phase = "up"
    /\ phase' = "stopping" /\ waits' = {"workerd", "quotes"}
    /\ signal' = IF WorkerdRuns THEN "SIGTERM" ELSE signal
    /\ ConnectionsBreak
    /\ UNCHANGED <<setup, how, workerd, job, appVars, cacheVars>>

\* The same signals on the way up end the process by default.
SignalledEarly ==
    /\ phase \in {"parse", "build", "quotes", "spawn", "settle"}
    /\ Ends("signal")

QuotesClosed ==
    /\ phase = "stopping" /\ "quotes" \in waits
    /\ waits' = waits \ {"quotes"}
    /\ UNCHANGED <<setup, phase, how, workerd, signal, askVars, appVars, cacheVars>>

\* Mutant: no timer, SIGTERM is all.
KillTimer_Never == FALSE /\ UNCHANGED vars

\* Three seconds after SIGTERM: SIGKILL. The timer does not keep the process
\* alive, but the child does while it runs.
KillTimer ==
    /\ phase = "stopping" /\ "workerd" \in waits
    /\ workerd # "reaped" /\ signal # "SIGKILL"
    /\ signal' = "SIGKILL"
    /\ UNCHANGED <<nodeVars, workerd, askVars, appVars, cacheVars>>

\* The exit event of the child: the promise of shutdown() resolves if it was
\* there to hear it.
Reap ==
    /\ Alive /\ workerd = "exited"
    /\ workerd' = "reaped"
    /\ waits' = waits \ {"workerd"}
    /\ UNCHANGED <<setup, phase, how, signal, askVars, appVars, cacheVars>>

\* launch: process.exit(0) after stop().
Exit ==
    /\ phase = "stopping" /\ waits = {}
    /\ setup.command = "launch"
    /\ Ends("graceful")

\* Nothing keeps the process alive: the server is unref'd, the child is gone, no
\* handler of a quote awaits a program or a timer. It ends with code 0. So ends
\* start-worker after stop(), stop() of a child that was gone before, and a
\* kettle whose workerd died.
Drain ==
    /\ phase \in {"up", "stopping"}
    /\ workerd = "reaped"
    /\ "quotes" \notin waits
    /\ \A r \in Requests : job[r] \in {"none", "done"}
    /\ Ends("drained")

\* systemd, Restart=on-failure: what is left of the control group is killed, and
\* a new process starts, which loads the certificates on disk.
Respawn ==
    /\ ~Alive /\ how = "failed" /\ setup.command = "launch"
    /\ Restart
    /\ phase' = "parse" /\ how' = "running"
    /\ workerd' = "none" /\ signal' = "none"
    /\ app' = "none" /\ inits' = 0
    /\ loader' = [v \in Visits |-> "none"]
    /\ visit' = [v \in Visits |-> IF visit[v] = "waiting" THEN "failed" ELSE visit[v]]
    /\ UNCHANGED <<setup, waits, askVars>>

-----------------------------------------------------------------------------
(***************************************************************************)
(* The workerd process.                                                    *)
(***************************************************************************)
Listens ==
    /\ workerd = "starting"
    /\ workerd' = "listening"
    /\ UNCHANGED <<nodeVars, signal, askVars, appVars, cacheVars>>

\* It ends: by itself, on an uncaught exception (v8Flags), or by a signal. The
\* Durable Object is gone with it.
WorkerdEnds ==
    /\ WorkerdRuns
    /\ workerd' = "exited"
    /\ ConnectionsBreak
    /\ app' = "none" /\ inits' = 0
    /\ loader' = [v \in Visits |-> "none"]
    /\ visit' = [v \in Visits |-> IF visit[v] = "waiting" THEN "failed" ELSE visit[v]]
    /\ UNCHANGED <<nodeVars, signal, job, cacheVars>>

WorkerdKilled == signal = "SIGKILL" /\ WorkerdEnds

-----------------------------------------------------------------------------
(***************************************************************************)
(* Quotes.                                                                 *)
(***************************************************************************)

\* getQuoteFromService posts the key. getQuote up to its first await: sample
\* quotes are at hand, SGX is refused, the others look for their tool. A service
\* that is stopping or gone takes no connection.
GetQuote(r) ==
    /\ workerd = "listening"
    /\ r \in setup.quotes /\ ask[r] = "idle"
    /\ \/ /\ ~Serving
          /\ ask' = [ask EXCEPT ![r] = "error"]
          /\ UNCHANGED job
       \/ /\ Serving /\ setup.tee \in {"sample", "sgx"}
          /\ ask' = [ask EXCEPT ![r] = IF setup.tee = "sample" THEN "quote" ELSE "error"]
          /\ job' = [job EXCEPT ![r] = "done"]
       \/ /\ Serving /\ setup.tee \in {"sev-snp", "tdx"}
          /\ ask' = [ask EXCEPT ![r] = "waiting"]
          /\ job' = [job EXCEPT ![r] = "which"]
    /\ UNCHANGED <<nodeVars, workerd, signal, appVars, cacheVars>>

\* res.end: the worker hears it if it still waits on its connection.
Respond(r, answer) ==
    /\ job' = [job EXCEPT ![r] = "done"]
    /\ ask' = [ask EXCEPT ![r] = IF @ = "waiting" THEN answer ELSE @]

\* `which` found the tool: TDX calls its one program, SEV-SNP goes on in
\* VcekCache.
ToolFound(r) ==
    /\ Alive /\ job[r] = "which"
    /\ \/ /\ setup.tee = "tdx"
          /\ job' = [job EXCEPT ![r] = "cli"]
          /\ UNCHANGED cacheVars
       \/ /\ setup.tee = "sev-snp"
          /\ job' = [job EXCEPT ![r] = "snpguest"]
          /\ Ask(r)
    /\ UNCHANGED <<nodeVars, workerd, signal, ask, appVars>>

\* The tool or its configuration is missing (501, 502).
ToolMissing(r) ==
    /\ Alive /\ job[r] = "which"
    /\ Respond(r, "error")
    /\ UNCHANGED <<nodeVars, workerd, signal, appVars, cacheVars>>

\* trustauthority-cli ends, with output that parses or not.
CliEnds(r) ==
    /\ Alive /\ job[r] = "cli"
    /\ \E answer \in {"quote", "error"} : Respond(r, answer)
    /\ UNCHANGED <<nodeVars, workerd, signal, appVars, cacheVars>>

Certificates(r) ==
    /\ Alive /\ job[r] = "snpguest"
    /\ CacheStep(r)
    /\ UNCHANGED <<nodeVars, workerd, signal, askVars, appVars>>

\* getSevSnpQuote returns or throws.
Answer(r) ==
    /\ Alive /\ job[r] = "snpguest"
    /\ state[r] \in {"served", "failed"}
    /\ Respond(r, IF state[r] = "served" THEN "quote" ELSE "error")
    /\ UNCHANGED <<nodeVars, workerd, signal, appVars, cacheVars>>

-----------------------------------------------------------------------------
(***************************************************************************)
(* The Durable Object.                                                     *)
(***************************************************************************)

\* Mutant: appPromise is stored when the module has been imported.
Visit_StoresLater(v) ==
    /\ workerd = "listening" /\ v \in setup.visits /\ visit[v] = "idle"
    /\ visit' = [visit EXCEPT ![v] = "waiting"]
    /\ loader' = IF app = "none" THEN [loader EXCEPT ![v] = "import"] ELSE loader
    /\ UNCHANGED <<nodeVars, workerd, signal, askVars, app, inits, cacheVars>>

\* fetch calls getApp: the first one stores the promise and imports app.js.
Visit(v) ==
    /\ workerd = "listening" /\ v \in setup.visits /\ visit[v] = "idle"
    /\ visit' = [visit EXCEPT ![v] = "waiting"]
    /\ loader' = IF app = "none" THEN [loader EXCEPT ![v] = "import"] ELSE loader
    /\ app' = IF app = "none" THEN "promised" ELSE app
    /\ UNCHANGED <<nodeVars, workerd, signal, askVars, inits, cacheVars>>

\* app.js is imported and the database answers: onInit is called, if there is
\* one.
Imported(v) ==
    /\ workerd = "listening" /\ loader[v] = "import"
    /\ \/ /\ loader' = [loader EXCEPT ![v] = "onInit"]
          /\ inits' = inits + 1
          /\ app' = "promised"
       \/ /\ loader' = [loader EXCEPT ![v] = "none"]
          /\ app' = "ready"
          /\ UNCHANGED inits
    /\ UNCHANGED <<nodeVars, workerd, signal, askVars, visit, cacheVars>>

Initialised(v) ==
    /\ workerd = "listening" /\ loader[v] = "onInit"
    /\ loader' = [loader EXCEPT ![v] = "none"]
    /\ app' = "ready"
    /\ UNCHANGED <<nodeVars, workerd, signal, askVars, inits, visit, cacheVars>>

\* No fetch in app.js, a database that does not answer, or onInit threw: the
\* promise is rejected, and stays.
LoadFails(v) ==
    /\ workerd = "listening" /\ loader[v] # "none"
    /\ loader' = [loader EXCEPT ![v] = "none"]
    /\ app' = "broken"
    /\ UNCHANGED <<nodeVars, workerd, signal, askVars, inits, visit, cacheVars>>

\* The promise has settled: the application answers, or the visit fails.
Visited(v) ==
    /\ workerd = "listening" /\ visit[v] = "waiting"
    /\ app \in {"ready", "broken"}
    /\ visit' = [visit EXCEPT ![v] = IF app = "ready" THEN "served" ELSE "failed"]
    /\ UNCHANGED <<nodeVars, workerd, signal, askVars, app, loader, inits, cacheVars>>

\* workerd takes an idle object out of memory (startWorker asks for no
\* preventEviction); the next visit makes a new one, which has loaded nothing.
Evict ==
    /\ workerd = "listening" /\ app \in {"ready", "broken"}
    /\ \A v \in Visits : visit[v] # "waiting"
    /\ \A r \in Requests : ask[r] # "waiting"
    /\ app' = "none" /\ inits' = 0
    /\ UNCHANGED <<nodeVars, workerd, signal, askVars, loader, visit, cacheVars>>

-----------------------------------------------------------------------------
NodeStep ==
    \/ Parse \/ Build \/ Spawn \/ PortOpens \/ Up \/ StartFails \/ NodeDies
    \/ Stop \/ SignalledEarly \/ QuotesClosed \/ KillTimer \/ Reap \/ Exit \/ Drain
    \/ Respawn

QuoteStep(r) ==
    \/ GetQuote(r) \/ ToolFound(r) \/ ToolMissing(r) \/ CliEnds(r)
    \/ Certificates(r) \/ Answer(r)

VisitStep(v) == Visit(v) \/ Imported(v) \/ Initialised(v) \/ LoadFails(v) \/ Visited(v)

Next ==
    \/ NodeStep \/ Listens \/ WorkerdEnds \/ Evict
    \/ \E r \in Requests : QuoteStep(r)
    \/ \E v \in Visits : VisitStep(v)

Spec == Init /\ [][Next]_vars

(***************************************************************************)
(* Timers fire, events are delivered, a killed process ends.  snpguest and *)
(* trustauthority-cli end: they run without a timeout, so this is assumed  *)
(* of them.  Nothing makes workerd obey SIGTERM, or the application load.  *)
(***************************************************************************)
FairSpec ==
    /\ Spec
    /\ WF_vars(QuotesClosed) /\ WF_vars(KillTimer) /\ WF_vars(WorkerdKilled)
    /\ WF_vars(Reap) /\ WF_vars(Exit) /\ WF_vars(Drain)
    /\ \A r \in Requests :
          WF_vars(ToolFound(r) \/ ToolMissing(r) \/ CliEnds(r) \/ Certificates(r) \/ Answer(r))

-----------------------------------------------------------------------------
(***************************************************************************)
(* Properties.                                                             *)
(***************************************************************************)

\* A kettle that exits with code 0 leaves no workerd: systemd would not restart
\* it, nor would a later kettle find its port free.
CleanExitLeavesNoWorkerd ==
    how \in {"graceful", "drained"} => ~WorkerdRuns

\* The application's onInit "runs once when app is first loaded"
\* (worker/worker.ts), though visits arrive while app.js is imported: at most once
\* by each Durable Object. (Not so in each workerd: OnInitRunsOncePerWorkerd.)
OnInitRunsOnce ==
    /\ inits <= 1
    /\ \A v, w \in Visits : loader[v] # "none" /\ loader[w] # "none" => v = w

\* What "once" would take of a workerd: the object that called onInit stays for as
\* long as workerd does. An idle one is evicted, and the next visit's object calls
\* onInit again; not part of a run.
OnInitRunsOncePerWorkerd == [][inits = 1 /\ workerd' = "listening" => inits' = 1]_vars

\* Why an object calls it once: while the promise is not stored nothing was loaded, and who loads
\* has stored it.
LoadingIsPromised ==
    /\ app = "none" => inits = 0
    /\ \A v \in Visits :
          /\ loader[v] # "none" => app = "promised"
          /\ loader[v] = "import" => inits = 0

\* stop() has the exit event of workerd before its promise resolves.
StopWaitsForWorkerd ==
    /\ Alive => how = "running"
    /\ phase = "stopping" /\ "workerd" \notin waits => workerd = "reaped"

\* What the quote service holds, see CacheInv, outlives every way a process may
\* end, and no order of signals, exits and visits runs a process twice, or onInit twice in
\* an object.
KettleInv ==
    /\ TypeOK
    /\ CacheInv
    /\ StopWaitsForWorkerd
    /\ CleanExitLeavesNoWorkerd
    /\ LoadingIsPromised
    /\ OnInitRunsOnce

\* A worker that asked for a quote gets one or an error, with every tool and
\* cache behind it, and when a process on either side dies: what ServerKeys
\* assumes of the getQuote function it is given.
QuoteRequestSettles == \A r \in Requests : ask[r] = "waiting" ~> ask[r] # "waiting"

\* stop() ends the process, also with a workerd that ignores SIGTERM or was gone
\* before.
StopCompletes == phase = "stopping" ~> phase = "exited"

\* launcher.ts: "Verify SHA256 hash for all files". Only file:// applications
\* are; not part of a run.
AppMatchesManifest ==
    setup.command = "launch" /\ phase = "up" => setup.listed

\* A kettle that runs serves: not so when workerd dies, which ends Node with
\* code 0 after the quotes in progress, and is not restarted; not part of a run.
DeadWorkerdIsReplaced == (phase = "up" /\ workerd = "reaped") ~> workerd = "listening"
=============================================================================
