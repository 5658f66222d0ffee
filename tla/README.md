# A TLA+ model of urlcode's runtime

urlcode serves a reviewed project file over HTTP: routes, functions, host
policies and extensions such as the bundled store and auth. Most of the code is
sequential and well tested. What is hard to test is the part where many requests,
timers, worker threads, reloads and a shutdown meet, and that is what this
directory models: TLA+ modules translated from the source, TLC configurations that
check them on small instances, and TLAPS proofs of the properties that matter most
for every value of the constants.

File and line references are to the repository; `core/` stands for
`packages/core/src/` and `store/` for `packages/store/src/`.

## 1. The system

### Components, their state and their operations

| Component | State | Operations | Talks to |
| --- | --- | --- | --- |
| Self-hosted server (`core/server.ts`, `core/host-request.ts`) | `current`, `reloading`, `retired`, `draining`, `shuttingDown`, `inFlight`, `healthInFlight` | request handler, probes, `reload()`, `close()` | Runtime, StreamHost |
| Runtime (`core/runtime.ts`) | `active`, `streamsOpen`, `closing`, `finish` | `createRuntime()`, `handle()`, `dispatch()`, `track()`, `close()` | pools, policies, plugins, extensions |
| Extension registry (`core/extensions.ts`) | the activated instances, warnings channels | prepare, `activate()`, `handoff()`, `close()` | extensions, the registry of the runtime replaced |
| Sandbox pool (`core/functions.ts`, `core/function-worker.ts`) | `slots`, `starting`, `restarts`, `restartTimers`, `closed`; a worker: its guest engine | `start()`, `spawn()`, `execute()`, `scheduleRespawn()`, `close()`; worker messages, `error`, `exit` | worker threads |
| Stream host (`core/http-stream.ts`) | `open`; per stream `reason`, `bytes`, `committed`, `wake` | `start()`, `stop()`, `endAll()` | producers, `node:http` responses |
| Origin cache (`core/policies/cache.ts`) | `entries`, `pending`, `bytes`, `inflight` | `onRequest`, `onResponse`, `onError`, `close` | dispatch() |
| Throttle (`core/policies/throttle.ts`) | the key table | `onRequest`, `onResponse` | dispatch() |
| Other policies (`core/policies/`) | none across requests | per-request functions | dispatch() |
| Trusted functions (`core/trusted-functions.ts`) | the import epoch | `start()`, `execute()`, `close()` | dispatch() |
| Egress, proxy, signals (`core/egress.ts`, `proxy.ts`, `signals.ts`) | active and resolving counts, pending deliveries | `request()`, `emit()`, `close()` | DNS, upstreams |
| Server lock (`core/server-lock.ts`) | the locks this process holds, by reference | acquire, release, `serverLockHeld()`, `beginImmediateWithin()` | SQLite |
| Store (`store/`) | one connection by reference, collections, audit log and tap, memberships | activation, reads, write transactions, audit peek and ack, backup | SQLite, the server lock |
| Auth (`packages/auth/src/`) | sessions, links, accounts | sign-in, authorize, sign-out | SQLite |
| MCP (`packages/mcp/src/`) | none across requests | tool calls over the pipeline | dispatch() |
| Configuration and routing (`core/config.ts`, `router.ts`, `match.ts`, `body-validation.ts`) | none | compile, match, validate | createRuntime(), dispatch() |
| Plugins, observability (`core/plugins.ts`, `observability.ts`) | sinks and counters | activate, request and response hooks, close | dispatch(), the operator |
| Add-ons and staging (`core/addon-install.ts`, `source-stage.ts`, `upgrade.ts`) | files and the dependency tree | install, remove, upgrade, roll back | npm, the file system |
| Build and adapters (`core/build-*.ts`, `prerender.ts`, `cloudflare.ts`, `aws.ts`, `vercel.ts`) | none | convert, generate | createRuntime() |
| Tools (`core/cli.ts`, `readiness.ts`, `explain.ts`, ...) | none | print | the file system |

### How they interact

`startServer()` builds a runtime and hands each admitted request to the runtime
that is `current`. `reload()` builds a second runtime while the first serves,
swaps `current`, and closes the old one in the background. Both runtimes may be
open at once, so an extension that owns an exclusive resource (the store: a
database and its server lock) passes it on by reference. A request runs through
`dispatch()`: plugins and policies, the cache among them, then an asset, a
proxy, a function or an extension; then the response phase. Sandboxed functions
go to a worker thread; a result that carries a stream goes to the StreamHost and
stops counting as a short request. `close()` drains, closes the listener, cuts
what is left at a deadline, waits for a reload in progress and closes every
runtime; each runtime waits for its own requests and streams.

### What is hard about it, and what makes it correct

* **Server and runtime.** One process, but every `await` lets another request,
  a reload step, a disconnect or the shutdown in. Correct means: the counters
  that gate admission and `close()` are exact; no runtime lets its resources go
  under a request; the serving runtime is always open; the exclusive resource is
  opened once; close() ends and leaves nothing behind.
* **Sandbox pool.** Workers are real threads: their messages are queued, may
  arrive after a timer has given up on them, and `terminate()` takes time. Correct
  means: no slot is lost for good, no call is lost or answered twice, an
  evaluation is not cut (a process abort, #708), crash loops back off, close() ends.
* **Streams.** Producer, client, two timers, the byte limit and the shutdown race
  to end a stream. Correct means: the client is never shown a complete-looking
  body that is not complete, the producer is always stopped, the slot always freed.
* **Origin cache.** Requests wait for other requests. Correct means: nobody waits
  for nobody, nobody receives what was not to be shared, the store's accounts are
  true, a stale entry is served once per refresh.
* **Store.** Retired and serving runtimes, a second process and the operator's
  commands meet at one database; claims, quotas, balances, intervals and the audit
  tap relate rows that single requests do not see together. Correct means: the
  database is served by one process, through an open connection; balances and
  intervals stay what the rules promise under every declaration that was recorded;
  a retry is not applied again while its claim must be retained; the tap counts as
  lost exactly what it lost.
* **Egress and signals.** A lookup goes on when its request is over, a signal is
  delivered after its response, and a closing runtime closes its clients before its
  requests are done. Correct means: nothing works for a caller that has its answer,
  every count comes back to zero, every request settles and close() ends.
* **Site commands.** A dozen files and a dependency tree change together, any step
  may fail, and the rollback may fail as well. Correct means: a command is done or
  undone as a whole, or says what it could not undo; the code falls short of that where
  the rollback itself fails (section 3, AddonSite).
* **Throttle, trusted functions (planned).** Window arithmetic; work that continues
  after its deadline.

`PROJECT.json` lists each hazard at its line with the properties that cover it.

## 2. Plan

Done, in this order: `Lease`, `Runtime` and `Server`, which composes them;
`SandboxPool`; `StreamHost`; `OriginCache`; `Collection`, `AuditTap` and `Store`,
which composes them; `Outbound`; `AddonSite` and `AddonInstall`, which implements
it; `Accounts`, which the cache and the store share; a proof module for each of the
seven subjects and one of lemmas, `AccountsProofs`.

Next, the most important first:

1. `Throttle`: the sliding window against a log of request times, the LRU table.
2. `TrustedFunctions`: the deadline against an invocation that continues, and
   middleware whose `next()` is called late or twice.
3. `Routing`: route precedence and method selection as operators, checked against
   a reference definition over bounded route tables.
4. `Auth`: sessions and one-time links under expiry and concurrent use.
5. Packages given by spec in `AddonInstall`, and a process that dies in the middle
   of a command.

Every safety property that a passing run checks is proved. The theorems to come belong
to the modules above, and to what no run states yet: which activation's declaration is
the one recorded while several are live, and that a write of a retired activation never
passes the fence of a newer one.

## 3. The modules

### Runtime, Server, Lease

`Runtime.tla` is the life of every runtime ever created: `phase[r]` runs from
`building` (project loaded, pools started) over `offered` and `activated` (the
extension's hand-off) to `open`, and over `closing` (close() awaits its egress
clients) and `waiting` (blocked on `finish`) to `releasing` and `closed`. `active`
and `streamsOpen` are the variables of the same name; `Settles` and `Leave` are
`settle()` with the decrement before it. `ReturnStream` keeps the order of
the code: the `finally` of `dispatch()` settles a waiting close() and only then
does `track()` count the stream. `holders` and `openings` are the references to the
exclusive resource and how often it was opened (`store/store.ts`, `acquire`).

`Server.tla` extends it with the host: `ArriveAdmitted` takes a slot and captures
`current`, `BodyRead` is the end of the body and the call of `handle()`,
`HandlerStep` its result, `Respond`, `Disconnect`, `StartStream`, `CancelStream`
and `EndStream` the ways the response ends; `Reload...` is `reload()` between its
awaits, `CloseCalled` to `CloseReturns` is `close()`. The routing, policy and
function work of a request is the interval between `BodyRead` and `HandlerStep`.

`Lease.tla` is what `ExtensionHandoff` promises (`core/extensions.ts:134`): a
resource shared by reference, a replacement that takes its reference from a
serving runtime that holds one, and a serving runtime that keeps its own until the
server stops. `Server` implements it with `held <- holders`, `serving <- current`
and `stopped <- Closing(current)`.

Abstractions: the loopback host check (421) answers like any request without a
slot and is folded into `AnswerAtOnce`; keep-alive and the lingering close are
part of `Disconnect`; the file watcher is `ReloadBegin` at any time; there is one
exclusive resource and its openings succeed.

### SandboxPool

`slots`, `timers` and `restarts` are the pool's maps; per worker, `thread` is what
the thread does, `mail` the message it posted that is not delivered, `initialized`,
`startup`, `ready` and `pending` the closure and slot of `spawn()`. `Fail` is
`fail()` with everything it does, parameterised by whether the exit handler
follows; a failed initial spawn closes the pool as `start()` does. A worker posts
one message at a time, told to terminate or not, and all it posted is delivered
before its exit. Delays are abstract: a timer fires at any time after it is set.

`NeverLatched` states what the comment at `core/functions.ts:181`, RESILIENCE.md:59 and
MONITORING.md:101 say, and contradicts CAPACITY.md:92, according to which more than three
exits a minute leave a slot unavailable until a reload or restart. The code counts no
exits per minute and never stops replacing; the table of CAPACITY.md is out of date.

### StreamHost

One action per stretch of `start()` and `run()` between two awaits. `Settle` is
the producer's `next()` settling and `Resume...` the loop resuming: between the
two any timer may stop the stream, which is the race the code guards with
`reason !== undefined`. `response` is what the client has been sent: nothing, a
committed head, a body with its terminating chunk or a truncated one. Faults of the
host itself (a throwing `setHeader`) are left out.

### OriginCache

The cache within the request pipeline that calls it. A flight is named by the
request that leads it and an entry by the request whose result it stores, which is
what lets the properties say whose result a client received. `order` is the
insertion order of the `entries` map, which `touch()` and `evict()` maintain.
`Protected` routes name an extension policy (with `cacheSensitive: false`; others
have no origin cache): there an answer may be given around the response phase,
`AnswerAround`. Abstractions: one `MaxEntries` for all routes; an entry's age is
fresh, stale or old; a later response policy that throws after the store is left
out; routes with secrets have no origin cache.

### Accounts

The two helpers that the cache and the store have in common: `Total`, the sum over a
finite set, and `Without`, a sequence without one of its elements. They are
defined by cardinalities and by an index instead of by folds: the prover cannot do
the induction that a fold needs, and knows cardinalities and indices from the library.
`Total` counts units, so it is exact for negative numbers too, as balances are.

### Collection, AuditTap, Store

`Collection.tla` is what one owned collection decides inside a write transaction
(`store/collection.ts`): each action is a `...In` function with all its checks, and
`idempotent` the claim of its key and the pruning of older ones. `AuditTap.tla` is
the audit log as operators on one record (`store/audit.ts`). `Store.tla` composes
them under the connection (`acquire`, `release`, an opening that fails), the server
lock (`core/server-lock.ts`), the declaration fence and the operator's commands.
`Write` is the transaction: fence, claim, step, events. What is two steps of the
code because another process can come in between is two actions: `CheckRows` and
`RecordDeclaration`, `PeekRead` and `PeekMark`. `Crash` is the end of a process at any
point: SQLite rolls back what it had not committed and the lock is free.

Properties need two things the database does not keep: `applied` lists every keyed
write, `handed` and `dropped` the events a peek returned and those that were pruned
unseen. Every declaration modelled has the same interval rule and the same
transitions (see the head of `Collection`). Not modelled: reading, listing and
queries, the stored answer of a replay (that a retry writes nothing is), ETags,
unique fields, counters, collections without owners or with a shared key,
transactions over several collections by the host, changes of the schema version,
index clean-up, backup.

Two gaps in the code are in the model as the code has them. `Collection.open` checks
the stored rows before, and outside, the transaction that records the declaration
(`store/store.ts:268`); only balances are checked again inside. And when a failed
reload closes, the declaration recorded again is checked for balances but not for
`maxRecords` (`store/store.ts:297`). With more rows than it allows, its bound on
balances is about rows that are not there, and `CreditsFit` states of such a table only
that the check itself still holds; once the rows are within `maxRecords` it states what
the check is for, that no transfer can leave the safe integers.

### Outbound

Proxied requests, signals and the two egress clients of every runtime of a process,
with the DNS budget they share. `request` is `EgressClient.request()` up to its first
await: refused, waiting for a lookup, or connected. `LookupSettles` is everything that
follows a lookup, for a request that was aborted as well. `Settle` is what the end
of a request does in one turn of the event loop: the caller is answered, the client
forgets it, and the broker counts its signal. `Deliver` is a step of its own because
`emit()` makes its request in a later turn, in which the client may be closed or busy.
`Close` is the part of `close()` before its first await. Abstractions: whether a URL, a
header or an address is refused is a choice; a dispatch proxies once and emits one
signal at most; one `Concurrency` for both clients.

### AddonSite, AddonInstall

`AddonSite.tla` is the contract of the site commands (`core/addon-install.ts:33`:
"every change is rolled back if any step fails, node_modules included"): an add, a
removal or an upgrade changes the site as a whole, to a state in which its parts
agree, or refuses and leaves it as it was, with the exceptions below. `AddonInstall.tla` is the code: one action per
file written, for npm, for each way to fail, and for the two halves of `rollBack`, each
of which succeeds or fails part-way.
`saved` is at once the command's snapshot and, between commands, the site itself, so
the refinement mapping is `files <- saved.files`, `modules <- saved.modules` and
`broken <- (at = "broken")`: the contract sees a command when it is over.

What the code does not undo is in the contract, stated there in `Refused`, `Changed` and
`HalfRestored`. These are the exceptions to the comments that every change is rolled back
if any step fails, node_modules included (`core/addon-install.ts:33`, `core/upgrade.ts:62`):

* a routes or scaffold file whose exclusive write fails half-way stays, because
  `created` is told of it only afterwards (`core/addon-install.ts:769`); a retry then
  refuses the routes file and keeps the scaffold file as the operator's;
* without a lock, what the command added to node_modules goes, but a package it
  replaced or removed is not put back;
* the restoring of node_modules may itself fail, `npm ci` with a lock or a removal
  (496-499) without one: the error says so (`advised`). Until someone repairs
  node_modules, a removal may miss dependants, whose descriptors it reads there, and
  naming an unrecorded add-on again records the files as they then are. The error
  advises `npm ci`, which cannot run where there is no lock;
* the restoring of the files may fail (`RestoreFilesFails`). `rollBack` awaits
  `state.restore()` outside its try (508), so the files after the one that failed stay as
  the failed command left them, the tree is not restored, the error of the command is
  lost, and nothing is named, against the comment at 504, "a tree that cannot be
  restored is named, never hidden". A full disk can cause both the failure and this. The
  contract then promises that scaffold files that were there are kept, and nothing more.

A site in that last state is `broken`. What further commands would do to it is not
modelled: `at = "broken"` lets only `Repair` follow, by which the operator, outside the
code, has a sound site put back. Commands of the code have no such guard.

Abstractions: one route and one scaffold file per extension; `files.pkg` and the lock
map packages to versions; a version stands for the bytes pinned; a check or a write
may fail for any reason (`Fails`). A command is not interrupted by the death of its
process, for which the code has no recovery, and two commands do not run at once,
against which it has no guard.

## 4. What TLC checks

| Run | Instance | Properties | States |
| --- | --- | --- | --- |
| `server` | 2 requests (each also a probe), 3 runtimes, every limit 1 | `TypeOK`, `CountersExact`, `DispatchKeepsRuntime`, `ServingRuntimeOpen`, `OpenedOnce`, `NothingLeftBehind`, `HandoffSpec`, `WaitsForOpenStreams`, `CloseTerminates`, `RetiredCloses`, deadlock | 0.5 M |
| `server_stream` | as above | `StreamKeepsRuntime`: violated | |
| `server_body` | as above | `AdmittedAreServed`: violated | |
| `sandbox_pool` | 2 calls, 2 slots, 3 workers | `TypeOK`, `NeverLatched`, `ReadyServes`, `CallsTracked`, `EvaluationNotCut`, `BacksOff`, `CallsAnswered`, `CloseCompletes` | 0.2 M |
| `sandbox_late` | 1 call, 1 slot, 4 workers | `NoWorkerLeft`: violated | |
| `stream_host` | 2 streams, 1 slot, 2 bytes | `TypeOK`, `HonestEnding`, `ProducerStopped`, `SlotsExact`, `FirstReasonWins`, `StreamEnds` | 0.2 M |
| `origin_cache` | 3 requests, 2 keys, 1 waiter, ordinary routes | `FlightsLed`, `WaitersReleased`, `CloseEnds` | 0.3 M |
| `origin_store` | 4 requests, 3 keys, 2 sizes, protected routes; symmetric in requests and in keys (no liveness is checked there) | `TypeOK`, `StoreExact`, `SharesStorable`, `StaleOnce` | 0.9 M |
| `origin_protected` | 3 requests, 2 keys, protected routes | `WaitersReleased`: violated | |
| `store` | 4 activations of 3 registrations in 2 processes; 3 records, 2 principals, 2 keys, 4 declarations; four workloads; symmetric in records and in two activations | `TypeOK`, `ServedUnderLock`, `CreditsFit`, `NoOverlap`, `RetryWindow`, `LossExact` | 0.3 M |
| `outbound` | 2 dispatches of a runtime that closes, 1 of another that records signals; a client and a broker of 1, 2 lookups | `OutboundExact`, `OutboundSettles` | 0.07 M |
| `site_commands` | 2 extensions, 1 requiring the other, an artifact that the second of 2 versions does not release | `SiteCommandsAtomic`, deadlock | 0.7 M |

Why the bounds are enough: with every limit at 1, two requests reach each limit
and the refusal beyond it, and one request can hold a slot, a stream or a worker
while the other is affected by it. Three runtimes are a serving one, its
replacement and a second replacement while the first retired one still waits; a
rejected build uses one as well. Three workers for two slots make the initial ones
and a replacement; the violation needs a fourth for the second replacement of one
slot. Three requests on a key are a leader, a waiter and one waiter too many; four
requests over three keys overflow both bounds of the store and replace, hit and
evict. The store is checked one workload at a time (`opening`, `record`, `retry`, `tap`),
each a group of operations that touch the same state, because all of them at once
exceed what can be enumerated; three records of two owners are enough for an interval
between two others and for a transfer that a third balance must not feel, and five
claims push a claim out of a window of two. Two lookups reach the limit of the
process, one each from two clients. Two versions and a chain of one requirement let
every command fail at every step with every other before and after it. `MaxTorn` lets one
extension have a torn file at a time. The bound on workers and runtimes limits how often they are created, never
what happens to those created.

Deadlock is checked for the server, whose only end is `Stopped`, and for the site
commands, which can always be called again (or the site repaired). A pool, a host, a cache, a store or a
client may simply have no more calls, so their configurations switch it off.

### What the four violations show

* `server_stream`: a runtime that waits in close() for its last dispatch goes on as
  soon as that dispatch is over, although it returned a stream: the stream is
  counted afterwards (`core/runtime.ts:538`, then 317 and 228). The extensions and
  modules it uses are released under it, against the comment at 225 and
  RIM-STREAM-001. `WaitsForOpenStreams` shows that streams counted before are waited
  for.
* `server_body`: a request admitted before a reload that is still sending its body
  is handed to the retired runtime and answered 503 while the new one serves.
* `sandbox_late`: a replacement whose init timeout fired and whose `ready` is
  delivered afterwards is replaced twice; the second replacement overwrites the first
  in its slot, which no later close() terminates. Once close() has returned, a
  worker thread is left running.
* `origin_protected`: where a plugin answers after the cache's request phase, or a
  middleware answers for an error of its `next()`, nobody settles the flight: its
  waiters wait for ever, and close() with them. `origin_cache` shows that on
  ordinary routes they never do.

### Two disagreements that passing runs show

* `sandbox_pool`: `NeverLatched` holds where CAPACITY.md:92 says a slot stays
  unavailable (section 3, SandboxPool).
* `site_commands`: the contract has to admit `HalfRestored`, a rollback that stops at a
  file and names nothing, where `core/addon-install.ts:33` and 504 promise a full one or a
  named one (section 3, AddonSite). The run reaches it by `RestoreFilesFails`.

### Fairness

Liveness is checked under weak fairness of the program's own steps, and of nothing
a client, an operator or a guest does.

* `Server`: `Program`, the disjunction of the server's own steps, is weakly fair.
  Function handlers are bounded by function timeouts, streams by their duration limit,
  connections by `closeTimeoutMs`; a request's body, the reading of an answer, a
  reload and the call of close() are not in it. The `handle()` and `authorize()` of an
  extension have no timeout in the code: that they return is an assumption about the
  installed extensions, on which `CloseTerminates` and `RetiredCloses` depend for the
  routes that use them.
* `SandboxPool`: timers fire, posted messages and exits are delivered, a thread told
  to terminate stops, close()'s awaits resume. A guest need not answer, nor a worker
  ever start.
* `StreamHost`: the duration timer fires and the loop resumes. Neither producer nor
  client owes anything.
* `Outbound`: timeouts fire, a queued signal is delivered, a dispatch goes on and
  close() resumes. A lookup or an upstream need never answer.
* `Store` and `AddonInstall` state no fairness: their properties are about safety.
* `OriginCache`: each dispatched request goes on (its handler is bounded by its
  timeout, or, on an extension's route, assumed to return) and close() resumes; no
  request need be sent.

## 5. What is proved

TLAPS proves the following for every number of requests, runtimes, slots, workers,
streams, keys and every limit, from the named assumptions on the constants: finite
sets of requests, streams, dispatches, records and add-ons, limits that are positive, a
largest safe integer that is a natural number, and declarations that are normalised as
`config` leaves them (`Normal`: a whole number of records, per owner and in all,
finitely many transfers, whole minimums).

* `ServerProofs`: `TypeCorrect`, `CountersCorrect`, `DispatchSafe`, `ServingSafe`,
  `OpenedOnceSafe`, `CloseComplete`, `HandoffRefined`, `StreamsWaitedFor`.
* `SandboxPoolProofs`: `PoolTypeCorrect`, `SlotsRecover`, `ReadySlotsServe`,
  `CallsAreTracked`, `EvaluationCompletes`, `BackoffKept`; and two facts no run has as
  a property, `OutcomesFinal` and `OnlyLateWorkersLeft`.
* `StreamHostProofs`: `StreamTypeCorrect`, `StreamsEndHonestly`, `ProducersStop`,
  `StreamSlotsExact`, `FirstReasonKept`.
* `OriginCacheProofs`: `SpecTypeOK`, `SpecStoreExact`, `SpecStaleOnce`,
  `ResultsShared`, and `FlightsAreLed` assuming that no route is protected.
* `StoreProofs`: `SpecTypeOK`, `SpecServedUnderLock`, `SpecLossExact`, `SpecNoOverlap`,
  `SpecRetryWindow`, `SpecCreditsFit`; and `OneProcessServes`, which says of two
  processes what `ServedUnderLock` says of references.
* `OutboundProofs`: `OutboundCorrect`.
* `AddonProofs`: `SiteCommandsRefined`, the refinement of `AddonSite` by `AddonInstall`,
  for any add-ons (finitely many), versions and releases.
* `AccountsProofs` has the lemmas on sums over sets and on sequences without
  repetition that the cache and the store both cite: what `Total` does when an element
  comes, goes or changes, what `Append`, `Without` and a suffix do to the set of a
  sequence, and that finite sets of integers have bounds.

Each proof rests on one or a few inductive invariants, each stated as a conjunction of
named parts and preserved action by action; the theorems follow from them.

* **Server.** Counting needs cardinalities: lemmas about how the cardinality of the
  set of requests at a place changes when one request moves give `CountersExact`.
  `ServingRuntimeOpen` is not inductive: that the serving runtime is open depends on
  who may call its close(), so the invariant relates the phase of every runtime to
  its role (serving, being built, retired, discarded or not yet created) and to how
  far close() of the server has gone. From it follow that an activation always finds
  a reference to share, that nothing is left at the end, and each step of the
  refinement to `Lease`.
* **SandboxPool.** `NeverLatched` holds because a slot without a live worker has a
  timer; the invariant says which states of `thread`, `startup`, `initialized` and
  `terminated` go together, that only an initialized worker is ready or has a call
  pending, and that a slot's worker was created for that slot. What runs after close()
  needs another one, `ReplacedInv`: as long as no `ready` came after its init timeout, a
  slot has at most one restart timer, has it only when its worker is gone, and every
  thread that was not told to terminate is that of its slot. So the sequence that
  `sandbox_late` shows is the only way a thread outlives close().
* **StreamHost.** The invariant says for each place of the loop what the bytes
  written are of the bytes produced (all of them, or all but the chunk in hand), and
  ties `open`, `reason` and `response` to that place.
* **OriginCache.** What is stored under a key was put there by a leader for that key
  with a storable result; the same holds of a flight settled with an entry. Without
  protected routes, a leader keeps its flight until it settles it. The accounts are
  exact because `order` never repeats a key: each step of a store (the old entry out, the
  new one in, the oldest ones evicted) moves `order`, `entries` and `bytes` together.
  `StaleOnce` counts over the history: an entry that is flagged has been served at most
  once more than refreshes of its key have failed, one that is not flagged at most as
  often, and only a failure takes the flag off, which it pays for by counting as one.
* **Store.** Six invariants, for six parts of the state. `LockInv` is
  `ServedUnderLock` with the types it needs: stated as exact counts of references and
  lock shares, the property is inductive. `TapInv` relates the log to its histories:
  an event that is stored and that no sink has acknowledged was handed to a peek
  exactly if it lies at or below `peeked`, and a connection's `consumed` never exceeds that. `RowsInv` types the records
  and says that the booked intervals of an owner are disjoint; a write compares its
  interval with one neighbour only, and a lemma shows that this suffices. `ServeInv` says
  that whatever is live serves a declaration, also the one recorded again after a failed
  reload. `RetryInv` makes the claims the newest part of the history of keyed writes,
  and says of each write whose claim is gone that as many keyed writes came after it as
  some declaration retains. `CreditInv` bounds the supply: the sum of what the balances
  stand above the declaration's floor, plus the floor's depth for every record that may
  still be created, fits in the safe integers. A transfer keeps the sum of the balances,
  and its `min` keeps the debited record at or above the floor, so that bound does not
  grow; creating or deleting a record without credits moves its share between the two
  terms. A balance that could overflow would then take more above the floor than there is.
* **Outbound.** `OutInv` adds to `OutboundExact` which request may be where: one that
  is active or pending has no answer and was made by its dispatch, one whose lookup
  is under way is active or was aborted, and one that was not made yet is nowhere.
  Without it a lookup that settles could open a connection for a request whose caller
  has its answer, and a signal could be counted twice. The actions share three lemmas:
  what settles a set of requests, what accepts one, and what does neither.
* **AddonInstall.** `AddonSite` sees the site as the last command left it (`saved`), so
  every step of a command stutters but its last, and what that one leaves must be known
  from the state. `Inv` says for each command and each step of it what every part of the
  site is by then, in terms of `saved` and of what the command makes of package.json and
  the records; for a command that failed, what its rollback does not bring back. Three
  lemmas (`AddDone`, `RemoveDone`, `UpgradeDone`) show that what a finished command
  leaves agrees, two (`RestoresFiles`, `RestoresTree`) that a failed one leaves what
  `Refused` allows, `BreaksThen` that a rollback that fails at a file leaves what
  `HalfRestored` allows, and `RepairThen` that `Inv`, which does not hold of a broken
  site, holds again after it. The theorem does not say that a failed command always leaves
  the site as it was: that is false of the code.

## 6. What is only model-checked, and what is not modelled

Liveness (`CloseTerminates`, `RetiredCloses`, `CallsAnswered`, `CloseCompletes`,
`StreamEnds`, `WaitersReleased`, `CloseEnds`, `OutboundSettles`) stays with TLC: the prover does not
reason about fairness and ENABLED. The properties of the four runs that expect a
violation are false of the code. Everything else that a run checks is proved.

Not modelled: the components listed in section 1 without a module, for the reasons
in `PROJECT.json`. Those of the plan follow; the build tools, the adapters and the
command-line tools are sequential conversions of files and text, where unit tests
reach what a model would. Time is abstract throughout: a delay is "later", so
properties about how long something takes are out of scope. Nor modelled: a second call
of the server's close(); a crash between the COMMIT of a peek and the return of its rows
(`Store`), which is one step here; and what site commands do on a half-restored site.
