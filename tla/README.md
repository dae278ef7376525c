# A TLA+ model of openrusty

openrusty is an HTTP gateway in Rust: it accepts connections, runs WASM plugins
over the phases of each request, forwards the request to a peer of an upstream,
and replaces its configuration and plugins while it runs. This directory models
the parts of it in which several tasks share state, checks them with TLC on
small instances and proves with TLAPS, for every instance, what each of them promises;
section 4 names the few promises that only TLC has checked. Paths below are relative to
`crates/`.

## 1. Inventory

| Component | State | Operations | Interacts with | What is hard | What makes it correct |
|---|---|---|---|---|---|
| Health registry (`openrusty-proxy/src/health.rs`) | per upstream a block of slots (failure window, down marking, mirrored active verdict, in-flight gauge), and a table of active verdicts by address | `register`, `record_failure/success`, `record_probe`, `inc/dec_in_flight`, reads | attempt loops, probes, reloads | outcomes go by index, gauges by address, blocks are replaced under both | markings are earned and bursts caught; reloads are neutral; gauges count exactly the attempts there are |
| Attempt loops (`openrusty-server/src/pipeline/mod.rs`, `pipeline_peer.rs`, `ws.rs`, `openrusty-proxy/src/forward.rs`) | locals of a request, pinned snapshots | pick, acquire, await, record, release, retry | health registry, balancers, plugins | cancellation at the await, retries after an unknown delivery, outdated peer lists | a non-idempotent request is delivered once; no peer is asked twice; every acquisition is released once |
| Hot reload (`openrusty-server/src/reload.rs`, `state.rs`), plugin registry (`openrusty-wasm/src/registry.rs`) | reload gate, plugin snapshot, runtime snapshot, dynamic registry, probe task, admin token | `reload`, `apply_config`, `publish`, `PluginRegistry::reload`, `apply_runtime` | requests pin both snapshots | failure and cancellation between steps, two publishers | all or nothing, ordered, plugin state is carried over |
| Shutdown and accept loops (`shutdown.rs`, `h2c.rs`, `tls/accept.rs`, `transparent.rs`, `main.rs`) | watch flag, connection counter | accept, drive, `run`, `run_fast` | every connection task | loops and connections end on their own while main counts | nothing is cut within the grace; the process always ends |
| Dynamic routes (`dynamic_routes.rs`, `dynamic_admin.rs`, `state.rs`) | route table in an ArcSwap | bind, unbind, reconcile, lookup | reloads, admin API, every unrouted request | compare-and-swap against a plain store; configured and runtime bindings in one bounded table | no binding is lost; the most specific one serves |
| Plugin chain and request pipeline (`openrusty-wasm/src/session.rs`, `runner.rs`, `openrusty-server/src/pipeline/mod.rs`, `ws.rs`, `body_filter.rs`, `resp_shortcut.rs`) | instances, carried body and statistics of a request; the streaming body | run a phase, short-circuit, filter a body, log, drain statistics | attempt loops, metrics | plugins that fail in any phase; end, error and drop of a body; responses built after the log | phases in order, the log phase once per plugin, fail-closed is final, logged status is served |
| Plugin store (`openrusty-wasm/src/host_state.rs`, `linker_kv.rs`, `openrusty-sdk`) | entries, byte total, scan cursors | set, get, delete, scan, sweep, the guest's two-phase reads | concurrent requests of a plugin | check, insert and accounting are separate steps over a sharded map | the total accounts for exactly the entries; scans read a whole snapshot |
| Host imports (`linker.rs`, `linker_req.rs`, `linker_rewrite.rs`) | the facts of a request and of its response, frozen once sent | set and delete headers, set the target, the body and the peer | the pipelines, `build_outgoing` | imports called in any phase, replays on retry | what is sent is well formed and the client's |
| Affinity plugin (`plugins/vllm-kv-scheduler`) | task records and times in the store | extract the task, look it up, choose, record, renew | the store, the balancer phase | look-then-write between instances | a task stays together; the limit is exceeded only by what decided at one time |
| Balancers (`openrusty-proxy/src/balancer.rs`) | effective weights that outlive each pick | `swrr_next`, `ip_hash_pick`, `least_conn_pick` | health, attempts | candidates that change from pick to pick | weights stay bounded, nobody starves |
| Client pool and DNS (`openrusty-proxy/src/client.rs`, `resolve.rs`) | two maps of clients | prewarm, get or create, evict | `apply_runtime` from two callers, requests on old snapshots | eviction against creation | every published peer has its client |
| Active probing (`active_probe.rs`) | one task, probes in flight | sweep, probe, mirror, re-arm | health registry, reloads | a probe answered after its list was replaced | verdicts and slots agree |
| Interception and egress (`transparent.rs`, `egress.rs`, `openrusty-proxy/src/detect.rs`) | bytes read ahead, a deadline | loop guard, sniff, decide, dial, relay | accept loops, the HTTP pipeline | bytes arrive in any pieces and the deadline cuts in | no byte is lost, repeated or sent where the policy forbids |
| Configuration, start, `-t`, socket activation (`openrusty-core/src/config*`, `main.rs`, `check.rs`, `listeners.rs`, `sd_listen.rs`) | the stages of `main` | validate, log, TLS, plugins, runtime, adopt or bind | everything | which stage fails, and what `-t` does not see | all or nothing; the test agrees with the start |
| Module cache (`openrusty-wasm/src/dynamic.rs`) | compiled modules by version, a gate per name | stat, look, compile, insert | uploads, removals, cancelled requests | the file changes between the look and the read | what runs is no older than the file that was seen |
| Ingress plane (`openrusty-k8s`, `ingress/mod.rs`) and TLS resolver | per kind and namespace a stream position, objects and a hand-over; the merged pair; the SNI table | list, watch, resync, debounce, fold, render, apply | the API server, `apply_runtime` | gone revisions, stalls, refused lists, folds that overtake each other | snapshots are states of the cluster, what is published is closed, the gateway converges |
| Kubernetes client and credentials (`openrusty-k8s/src/auth`, `client.rs`) | none | find the source, read it, build the client | the environment | which source wins when one is broken | a named source is final |
| Injector and init container (`openrusty-server/src/inject`, `init`) | the pod's nat table | inject, plan, run the plan again | the kernel, the kubelet | a command fails between two others while traffic flows | what must pass is never redirected |
| Admin plane (`app.rs`, `admin_auth.rs`) | routers built at boot, the token | guard, handlers | reloads, dynamic registry, shutdown | the token rotates between guard and handler | what changes the process was authorised |
| Metrics, log text, sample plugins | counters, text | | | data only | not modelled |

`PROJECT.json` lists every component with its status, the hazards of the code at
their lines, and for every definition the lines it models.

## 2. Modules

    PeerHealth            operators of one upstream's registry (no behaviour)
      ^        ^
      |        +--- HealthTimeline   one registry over time, probes in flight
      +------------ ProxyAttempts    concurrent attempt loops and publishers of lists
    Balancer, ClientPool, AffinityScheduler   the choice of a peer, the clients that reach it
    RuntimeSwap           reloads, plugin snapshots, the ingress task, pins
    RequestPhases         one request through the phases and the plugin chain
    PluginEdits           what plugins change of a request and its response
    PluginStore           the key-value store; implements KvLedger
    DynamicBindings, ModuleCache   dynamic routes and the modules behind them
    ConfigRules           what a configuration may say (no behaviour)
      ^------------ Startup, Sidecar, AdminPlane
    Drain, Intercept      accept loops, connections, shutdown; one intercepted connection
    ClusterAccess, ClusterRender   credentials; objects to routes (no behaviour)
      ^------------ IngressWatch   the ingress plane from the API server to the runtime
    xProofs               lemmas and theorems (TLAPS) about module x: PeerHealth,
                          ProxyAttempts, RuntimeSwap, RequestPhases, IngressWatch
    ProcessProofs         about Drain, Startup, Sidecar, AdminPlane, Intercept
    PluginsProofs         about DynamicBindings, ModuleCache, PluginStore
    PeersProofs           about HealthTimeline, ClientPool, AffinityScheduler
    MCx                   constants and symmetry for TLC

Modules that share no state are checked side by side: `MCServing`, `MCRequests` and
`MCProcess` each extend several of them (Balancer and PluginEdits are instances) and
have a variable `part`. A behaviour is one of the part it starts with, the other parts
stay as they began, so a run of such a module is the union of the runs of its parts.
In each of them one module has the names `Init`, `Next`, `Spec` and `vars` (HealthTimeline,
DynamicBindings, Drain); the others say `AttemptsSpec`, `SwapSpec`, `PhasesSpec`, `BootSpec`,
`HijackSpec`, `AdminSpec`, `TapSpec`, `CacheSpec`, `StoreSpec`, `PoolSpec` and
`AffinitySpec`. The theorems are about these specifications.

Operators marked "Mutation" in the modules are deliberately wrong variants of the
definition that follows them. No specification uses them; each documents a bug
that one of the properties detects.

**PeerHealth.** A block is a sequence of slots. Indices start at 1 where the code
starts at 0. `Register` is `register` with its two lock acquisitions merged: both
locks are held until the block is complete. When an address is repeated the code
inherits from the last slot that has it (the `HashMap` collect) and counts in the
first (`position`); `Inherited` and `AddrSlot` keep that. Validation does not refuse
such a list; `Doubled` are the addresses of a block that repeats them. The gauge
operations hold the map's lock while they count, so each is one step.

**HealthTimeline.** `Traffic` is the outcomes (`Fail`, `Succeed`), `Prober` the
probe task (`ProbeTick` starts a sweep over the current list, `Probe` is an answer
that arrives at any later time, `Spawn` the re-arming after a reload), `Publishers`
the reloads, gated and not. `flying` holds the probes in flight, with the list they
were started for. A probe that is answered after a reload replaced that list writes
its verdict by address but mirrors it into a slot by index; `misled` is history of
the slots this wrote to, until the next verdict or reload puts them right. The
variable `run` is history: the times of the recent consecutive failures of each
address. The consecutive counters of the active plane are compared with their
thresholds only, so they stop to count there. An address that the current list has
twice has two slots: outcomes go to either, a probe mirrors into one, and the
properties that compare an address with its slot leave it out while it is so listed.
TLC explores outcomes and reloads over time without probes (of lists without
repetition), and outcomes, probes and reloads at one time (of all lists but the one
that only swaps the addresses).

**Balancer.** The candidates of every pick are arbitrary. `PickPeer` is the choice of
the configured kind with its effect on the effective weights, `ApplyRuntime` a new
snapshot with fresh weights.

**ClientPool.** One step per critical section: an applier begins, prewarms, evicts
from either map and publishes; a request pins a snapshot, and each of its attempts
takes or creates a client. A name resolves to whatever `Lookups` allows, also to
nothing, which is a failed lookup.

**AffinityScheduler.** A request's program counter goes from import to import:
`AffinityPeer` looks the task up, `Renew` touches its record, `Scan` and `SchedTs`
gather the load of the peers, `Assign` and `Mark` write. `Retry` and `OnLog` are the
other phases. What the records are before each step is open to the other requests.
A scan yields any part of the live records: `scan_begin` refuses a cursor when 64 are
live, of which the SDK's iterator shows nothing but its end, and a cursor can be
reclaimed under a slow scan (PluginStore has both). `blind` is history: the tasks placed
after a scan that did not yield every record, which the bound on a peer's load leaves out.

**ProxyAttempts.** A request is a record of the locals of the loop with a program
counter; its steps are split where the code takes a registry lock or awaits:
`Start`, `PickPeer`/`GiveUpRequest`/`Deny`, `AcquirePeer`, `Outcome`, `Record`, `Release`,
`Credit` (the success a WebSocket handshake records after its release), `CancelRequest`
(the handler is dropped at the await) and `BadHandshake` (the early returns of
`proxy_websocket` after the pick). The last two leave the gauge acquired; the
history variable `abandoned` counts them. A list may repeat an address; when the block
of such a list is replaced its gauge is wrong from then on (inherited from the last
slot, counted in the first), which the history variable `doubled` records. `held` is
the window between `lookup` and the write to the block: a registration in between
orphans the write.
`ReloadRegister` and `ReloadPublish` are the two effects of `apply_runtime`, done
by two publishers, since the ingress task does not take the reload gate. Which
peer a pick takes is open, so every balancer and every plugin pin is covered.

**RuntimeSwap.** A caller's program counter follows `reload`/`apply_config` and
`publish` from await to await. `GiveUp` is an error return or the drop of the
caller, possible only where the code fails or awaits. A host state is identified
by the build that created it. Direct callers of `PluginRegistry::reload` stand
for embedders: the method is public and documents that concurrent calls are safe.

**Drain.** The watch flag, the accept tasks, one task per connection and main.
`conn.shutting` is the local of `drive`, `conn.told` says that hyper was asked to
shut down gracefully. hyper itself (`Request`, `Respond`, `CloseIdle`) is
external: a connection that was told takes no further request. A handler that
panics (`Panic`) unwinds its task before the decrement of the counter.

**RequestPhases.** One request of one of three kinds: proxied (`handle_request`),
WebSocket (`proxy_websocket`) or dynamic (`dispatch`, `invoke`). `pc` is the phase
that runs or the place of the handler between phases; `next` and `last` are the
loop variable and the result of `run_phase`. `Call` and `InstantiateFails` are one
iteration of that loop: a plugin may return any decision, fail (the policy
decides) and write a body in any phase. The attempt loop appears by its outcomes
(`PickPeer`, `NoPeer`, `TryNext`, `UpstreamFails`, `Respond`); ProxyAttempts has its
details. `FinalFilter` and `FinalLog` are the two guarded calls which the end, the
error and the drop of a `FilteredBody` share. `Dropped` is the drop of the handler
at an await. `past` is history. A chain is never empty here: without plugins
every phase returns at once.

**DynamicBindings.** The table is a record of the exact bindings, the prefix list
in search order and the keys the configuration owns; a path is the sequence of its
segments, for one method. An admin call loads, computes and swaps in separate
steps. `fresh` stands for the pointer comparison: it is reset by every store, also
of an equal table. A reload (`ReloadBegin` to `StoreRoutes`) loads and stores in
separate steps, as `apply_dynamic_routes` does. `Kept` is the `retain` of the prefix
list and `Laid` the loop of `reconcile`, as recursive functions over the list.

**PluginStore.** A worker is a thread; the map, the total and the cursor table are
accessed in separate steps, as in the code. `SetReleased` to `Account` are `kv_set`,
`GuestGet` to `Reap` the guest's read that asks for the length first, `ScanBegin` to
`ScanEnd` a scan and the sweep that every `SWEEP_EVERY`-th call carries. `KvLedger`
is the promise: entries and ledger change together, within a limit. The refinement
maps `held` to the entries and `ledger` to the total without what workers still have
to account; it shows that no displaced or reaped entry is counted twice or not at all.
Writers that take their verdict on one total exceed the quota together, so the limit of
the ledger is the quota and an entry for every worker but one (`Overshoot`); the run
`quota` has the counterexample to the quota itself.

**PluginEdits.** Every import in every stage, with its refusals; `Freeze` builds the
request for a peer, `Answered` and `Stream`, `ShortCircuit` and
`DynamicAnswer` the three kinds of response. A name
is its lower-case form, a value is opaque; one name and one value stand for those that
HTTP does not admit. They are queued like any other and left out where a message is
built (`Sendable`), but an inadmissible value of X-Forwarded-For takes the whole header
with it, the client's address included (`MergeXff`).

**ModuleCache.** An upload writes a temporary file and renames it; a request stats,
looks, takes the gate, looks again, reads and compiles, inserts. `Cancel` drops it at
an await. Files have distinct versions here. In the code a version is modification
time and size: a file put back with both is served from the entry of its first
installation, which is the same content, unless that entry was read after the stat
and holds a later file.

**ConfigRules and Startup.** Every rule of `validate` in its order, over a configuration
reduced to what the rules tell apart; then `main` stage by stage, `openrusty -t` on
the same file, adoption of inherited sockets or binding, and the log's reopening.

**Sidecar.** `Inject` with its annotations and refusals; the plan of the init container
as a sequence of commands; `Exec`, `SkipInsert` (the -C probe found the hook) and `Fail`
run it, and `StartInit` runs it again. `Verdict` reads the nat table as the kernel does.

**Intercept.** One connection: bytes arrive in any pieces, `Detect` sniffs, `Deadline`
and `SniffEof` end the sniff, `RouteEgress` decides, the dials may fail, `Relay` copies.

**AdminPlane.** Routers are built once from the listeners; `AdminAuth` and the handlers
are separate steps, so a reload (`Sighup`, `ReloadOk`, `ReloadFails`) can come between.

**IngressWatch, ClusterAccess, ClusterRender.** `run` loads credentials and builds the
client; a loop per kind and namespace lists, watches, resyncs and hands over; the
merge task folds, renders (`ClusterRender`) and publishes in two stores, the runtime
(`ApplyRuntime`) and then, if a TLS listener gave the process a resolver, the SNI table
(`PublishTls`). The API server may refuse a list, fail, stall, close a stream, declare a
revision gone, or never answer a LIST or an open, which nothing in the code ends
(`Hang`). The cluster changes in `Change`. `FileReload` is a reload of the configuration
file, which replaces the runtime by that of the file. A hand-over that a resync dropped
(`forgotten`), that was folded before a newer one and sent after it (`overtaken`) or that
was refused for its certificates (`refused`), and routes replaced by a reload
(`reloaded`), are history, which `Converges` excepts by name; the first two have
violation runs of their own.

## 3. Runs

| Run | Bounds | Result |
|---|---|---|
| `serving` (MCServing) | the parts below | MirrorAgrees, BurstIsCaught, DownIsEarned, ReloadIsNeutral, SwrrIsFair, PoolFollowsConfig, AffinityIsBounded, FailureChangesNothing, SettledAgreement, PinsOneBehind, RuntimeMonotone, HostStateContinuity, EveryPluginLogs, FailClosedStops, StatusAgrees, PhasesInOrder, EditsAreFaithful hold; 1.5 million states |
| - health, probing | 2 addresses, lists `<<a1,a2>>`, `<<a2>>`, (health) `<<a2,a1>>` and (probing) `<<a2,a2>>`, `max_fails` 2, window 1, timeout 2; health: clock to 6, no probes; probing: one time | |
| - balance | 3 peers of weights 3, 1, 2 | |
| - pool | 3 configurations, 2 appliers, 1 request, 3 applies | |
| - affinity | 2 requests at a time, 3 tasks, 2 peers, 1 task per peer, 3 starts, any part of the records in each scan | |
| - gated, direct | gated: 2 gated callers, the ingress task, 1 request; direct: 1 gated and 1 direct caller, 1 request; 2 configurations, 1 plugin, generations to 2, 2 attempts | |
| - phases | 3 plugins, 2 of them fail closed, 1 retry, 3 peers, 2 chunks, every kind, both values of `log_on_no_route` | |
| - edits | 3 calls of imports, names and values valid and not | |
| `requests` (MCRequests) | the parts below | NonIdempotentOnce, NoRevisit, GaugeBounded, GaugeExact, LookupMostSpecific, TableIsSound, NoLostUpdates, ScanIsComplete, StoreRefinesLedger, CacheIsFresh hold; 1.3 million states |
| - requests | 2 requests of 3 kinds, 1 publisher, lists `<<h1,h2>>` and `<<h2>>`, 1 retry, `max_fails` 1, none abandoned | |
| - publishers | 1 request at a time, 2 publishers, also the list `<<h2,h2>>` until its block is replaced, 1 unreleased attempt | |
| - bindings | 3 paths, 2 modules, an artifact of one of them at first, room for 2 bindings, 2 calls, 1 reload, 2 tries | |
| - store | 2 workers, 3 keys, sizes 1 and 3, quota 6, 1 cursor | |
| - cache | 3 requests, 2 uploads, 1 removal | |
| `drain` (MCProcess) | drain: 2 listeners, 2 connections; boot: about 70 configurations, 29 environments; sidecar: 11 workloads, 2 faults, 3 runs; interception: 6 byte streams, 5 roles and policies; admin: 1 client, 3 tokens, 1 reload | CleanExitCutsNothing, ReportNeverOverstates, DrivenAreTold, ShutdownCompletes, BootIsAllOrNothing, HijackIsSafe, InterceptIsFaithful, AdminIsFenced hold; 0.4 million states |
| `ingress` (MCIngressWatch) | 2 namespaces, 2 kubeconfig files in every state that is told apart; all 4 loops with a quiet cluster, the 2 loops of one namespace with 1 change and 1 fault, or without a resolver and with 1 reload, the 2 ingress loops with 1 change and 1 reload, or with 1 fault | SnapshotConsistent, OnlyResyncForgets, PublishedIsClosed, NamedSourceIsFinal, Converges hold; 0.4 million states |
| `leftover_verdict` (MCHealthTimeline) | health as above, with a configuration without active checking | violates LeftoverVerdictIsHarmless |
| `early_signal` (MCDrain) | 2 listeners, 2 connections | violates EarlySignalDrains |
| `server_name` (MCProcess) | boot as above | violates ValidatedNamesDoNotPanic |
| `ingress_race` (MCRuntimeSwap) | 2 gated callers, 1 direct caller, the ingress task, 1 request | violates IngressNeverDisagrees |
| `lost_binding` (MCDynamicBindings) | bindings as above | violates RuntimeBindingsSurvive |
| `quota` (MCPluginStore) | store as above | violates QuotaHolds |
| `resync_skip` (MCIngressWatch) | the loops of one namespace, 1 change, no fault | violates ResyncMissesNothing |
| `overtaken_fold` (MCIngressWatch) | as `ingress` | violates OnlyFresherReplaces |

Two components are explored in two parts each, since all their actors at once are out
of TLC's reach in the time a run should take; the theorems of section 4 have no such
division. What no part has: two requests with an unreleased attempt between them, two
publishers against two requests, and a direct caller together with the ingress task or
with two gated callers.

Why the bounds are enough for the cases that matter: two requests are needed and
suffice for one attempt to hold a gauge while another releases it; a second
address is what a retry moves to, and dropping and re-adding the first gives every
relation between a pinned and a registered list (same, shorter, longer, moved
index); a single request already acquires under one list and releases under the next
of two publishers. The clock runs over more than two windows and a whole down marking after
the first failure. Three peers of different weights give every subset of
candidates a different order. Three applies let two of them overlap and a third
follow alone. Two affinity requests can both look before either writes; a third
start finds what they left. Two listeners let one stop while the other accepts, and
two connections let one be accepted after `at_signal` was read while another ends.
Two faults let a run of the init container fail, and its rerun too. The byte streams
include every way in which the sniff decides early, late or never.
Two generations let a build lose its race, rebuild, and run out of attempts; the
code's `RELOAD_ATTEMPTS` is 3, and 2 reaches both outcomes. Three plugins put a
fail-open one between two that fail closed; three peers let the WebSocket walk go
past the retry limit of HTTP. Two tries of the compare-and-swap (8 in the code) can
both be lost, to the other call and to the reload; room for two of three paths fills
the table from both sides. In the store one entry expires, so that a writer, a reaper
and the sweep can meet over it; the three operations of the two workers let one be
overtaken twice. The three largest entries are 12 bytes and the limit of the ledger is
10, so a store without a verdict would break it; two writers who share a total reach
10. One change and one fault already let a list, a stream and a hand-over of one
namespace disagree about the cluster, and two loops of one kind overtake each other;
all four loops run together only while the cluster is quiet. Which modules have an
artifact at first decides only whether a binding to one is refused, and one module of
each case is there. A probe meets the index of another address when a list shrinks,
grows or repeats an address, so a list that only swaps them is left to the part without
probes. Every bound is a constant used in a guard (`MaxAbandoned`, `MaxNow`, `MaxGen`,
`MaxChunks`, `MaxCalls`, `MaxReloads`, `MaxApplies`, `MaxStarts`, `MaxOps`, `MaxTime`,
`MaxFaults`, `MaxRuns`, `MaxRemoves`, `MaxRevision`).

Deadlock checking is off in `drain`, where the process ends, in `ingress`, where a
bound ends the changes, and in the violation runs of such modules; in `serving` and
`requests` a part that a bound ends may stutter (`Ended`) and every other must go on.
Symmetry is used for the requests and admin calls of `requests` and in two violation
runs, never with a liveness property. `TypeOK` of a module (`AttemptsTypeOK`,
`SwapTypeOK`, `PhasesTypeOK`) states the types of its variables; it is part of every
inductive invariant of section 4.

Fairness. Drain: weak fairness of the accept tasks' start and stop, of a
connection task's reaction to the flag and its end, of the close of an idle
connection that was told, of main. IngressWatch: weak fairness of the start and the
merge task, and of each watch loop's own steps. Each is a task that tokio polls when
it is ready. Nothing is assumed of clients and upstreams. Of the API server: a request
is answered, fails, or is one of the faults that are never answered (`Hang`), from which
on its loop has no step; `Converges` says what such a loop leaves behind and that the
other loops go on. `ShutdownCompletes` also assumes that the grace expires when main waits that
long, which `tokio::time::timeout` provides; `DrivenAreTold` does not.

### Findings

- `leftover_verdict`: `health.rs` 100-102 calls the active entries of removed
  peers harmless since the index-based paths never consult them; `register`
  copies them into the slot (155-159). A peer that returns to a configuration
  without active checking stays out of rotation.
- `early_signal`: `h2c.rs` 329-330 says that a signal that fired before the
  connection started drains it right away; `drive` samples the flag (339), which
  disarms the only branch that drains.
- `ingress_race`: `ingress/mod.rs` 360-361 says that the runtime can never
  disagree with the compiled plugin set; the generation is read (362) and stored
  (363) without the reload gate.
- `lost_binding`: `state.rs` 319-321 says that runtime-added bindings survive a
  reload; the table is loaded (329) and stored (336) without a comparison, so a
  registration in between is answered with success and lost.
- `server_name`: `client.rs` 161-162 expects a "validated server name", but
  validation (`openrusty-core/src/config/tls.rs` 50) only asks that it is not blank:
  a name that is no DNS name passes validation and `-t` and panics in the start.
- `resync_skip`: `watch.rs` 184-186 says that after a resync an unchanged revision means
  nothing was missed; a tick inside an open debounce window (273-277) drops the pending
  hand-over, and the list that finds the revision unchanged skips it too. The change is
  served only with the next one or after an error of the stream.
- `overtaken_fold`: `docs/sidecar.md` 177-179 and `watch.rs` 25-26 say that a snapshot is
  only ever replaced by a fresher one; a slot is folded under a lock and sent after it is
  released (`ingress/mod.rs` 253), so two loops of one kind can send in the other order.
- `quota`: `host_state.rs` 149-151 says that a concurrent mutation can only make the
  verdict conservative, and 58-61 that a write past the quota is refused; two writers that
  read the same total both pass (158).
- Found in passing runs, whose properties name the exception: `auth/mod.rs` 10-12 says that
  a `$KUBECONFIG` that is set never falls through silently; `":"` has no entry, so `load`
  goes on to the in-cluster account (129), and `NamedSourceIsFinal` asks for an entry.
  `dynamic_routes.rs` 119 says of a runtime binding "not config-owned" and
  `docs/wasm-abi.md` 295-297 that runtime bindings survive; a runtime bind over a
  configured path keeps the configuration's mark (168), so the next reload without that
  path removes it (216-219). `TableIsSound` and `RuntimeBindingsSurvive` go by the mark.

### Behaviours worth knowing

They are in the models as the code has them, and no line of the repository says
otherwise unless one is named.

- Ingress: a LIST or an open that is never answered stops its loop for good (no time
  limit, and the resync timer is not polled at `watch.rs` 157, 201-204). A reload of the
  file replaces the rendered routes until the cluster changes again (`ingress/mod.rs`
  32-36). Between the two stores of a publication new routes meet the old SNI table. A
  pair whose certificates cannot be planned is not applied until the next event. Names
  of rendered upstreams are ambiguous for dashed namespaces and services
  (`render/routes.rs` 23). The token of an exec plugin is not renewed. Validation
  does not refuse a static route whose host and prefix repeat another's; rendered
  routes are merged by key, so `PublishedIsClosed` excepts the static runtime.
- Store: a snapshot is taken shard by shard. The normal end of a scan
  reports -1, where `docs/wasm-abi.md` 133 has 0 for "exhausted". A cursor is reclaimed
  60 s after its scan began, where `docs/wasm-abi.md` 140 says idle for 60 s;
  `ScanIsComplete` goes by the age. A value that keeps
  growing over three tries reads as absent (`ffi.rs` 212).
- Phases: a dynamic module that denies with 204 and has written a body is logged as
  204 and served as 200 (`openrusty-wasm/src/dynamic.rs` 259-268); `StatusAgrees`
  names the case.
- Edits: the headers of a body-less response of a dynamic module are dropped
  (`dynamic_api.rs` 159-165). Rewrites in the balancer phase do not reach the wire.
  `resp_header_set` replaces the first of several equal names only. One value of
  X-Forwarded-For that HTTP does not admit drops the header with the client's address
  (`forward.rs` 187), where 150-153 say that the client is appended and that invalid
  values are skipped.
- Module cache: an entry can hold a later file than its key says; a dropped request
  releases the gate while its compilation runs on; failures are not cached.
- Affinity: look-then-write lets concurrent requests exceed `max_tasks_per_node` or
  split a task; so does a scan that is refused, in which every peer looks idle; records
  name a peer by its index and outlive reloads; `affinity_ttl_s = 0` never expires; a
  refused write is ignored.
- Pool: a request on an old snapshot brings an evicted client back, until the next
  apply (`state.rs` 209-211); overlapping applies evict each other's clients.
- Registry: of an address that a list repeats, the gauge is counted in the first slot and
  inherited from the last, so replacing the list loses it or brings an old one back; a
  probe reaches one of its two mirrors.
- Probing: a probe answered after a reload misleads the slot at its index until the
  next probe of that peer or the next reload (`active_probe.rs` 144).
- Start: the last static certificate pair is the fallback; `-t` does not open the log
  file, TLS material or sockets (`check.rs` 3-5) and accepts a non-regular file that the
  start refuses; inherited sockets are matched by port alone; an upstream with
  endpoints only has no peers until they are resolved.
- Admin: routers are built once, while token and section are read per request, so a
  section enabled by a reload is not mounted.
- Sidecar: a spurious failure of the -C probe inserts a hook twice, which is harmless;
  the skipped port 0 passes `inject` and is refused by the init container; during the
  flush of a rerun traffic passes unredirected.
- Interception: the gateway's address is not compared with the own ports; the deadline
  makes a slow HTTP client an opaque one.

## 4. Proofs

Every theorem below holds for all values of the constants that satisfy the named
assumptions, and rests on one inductive invariant per component: it holds initially,
each action preserves it, and it implies the property. The theorem that says so is
`InvHolds`, or for the modules that share a proof module `BootInvHolds` and so on.
Action properties are shown for the steps from states that satisfy the invariant.

| Proof module | Component | Theorems (and the property of section 3 that they state) |
|---|---|---|
| ProxyAttemptsProofs | ProxyAttempts | TypeCorrect, GaugeNeverInvents (GaugeBounded), GaugeSurvivesReloads (GaugeExact), DeliveredOnce (NonIdempotentOnce), AttemptsAreDistinct (NoRevisit) |
| RuntimeSwapProofs | RuntimeSwap | AllOrNothing (FailureChangesNothing), SettledAgrees (SettledAgreement), PinsAreClose (PinsOneBehind), RuntimeOnlyAdvances (RuntimeMonotone), HostStateIsKept (HostStateContinuity) |
| RequestPhasesProofs | RequestPhases | LogsOnce (EveryPluginLogs), ClosedIsClosed (FailClosedStops), LoggedIsServed (StatusAgrees), PhasesAreOrdered (PhasesInOrder) |
| IngressWatchProofs | IngressWatch | SnapshotsAreStates (SnapshotConsistent), NothingElseForgets (OnlyResyncForgets), ClosedWhenPublished (PublishedIsClosed), NamedSourceDecides (NamedSourceIsFinal) |
| PeersProofs | HealthTimeline | VerdictsAgree (MirrorAgrees), NoBurstEscapes (BurstIsCaught), MarksAreEarned (DownIsEarned), ReloadsAreNeutral (ReloadIsNeutral) |
| | ClientPool | PoolInvHolds, PoolKeepsFollowingConfig (PoolFollowsConfig) |
| | AffinityScheduler | AffinityInvHolds, AffinityStaysBounded (AffinityIsBounded) |
| PluginsProofs | DynamicBindings | TypeCorrect, MostSpecificServes (LookupMostSpecific), TableStaysSound (TableIsSound), NothingIsLost (NoLostUpdates) |
| | ModuleCache | CacheInvHolds, CacheStaysFresh (CacheIsFresh) |
| | PluginStore | StoreInvHolds, ScansStayComplete (ScanIsComplete) |
| ProcessProofs | Drain | TypeCorrect, NothingIsCut (CleanExitCutsNothing), ReportIsHonest (ReportNeverOverstates) |
| | Startup | BootInvHolds, BootStaysAllOrNothing (BootIsAllOrNothing) |
| | Sidecar | HijackInvHolds, HijackStaysSafe (HijackIsSafe) |
| | AdminPlane | AdminInvHolds, AdminStaysFenced (AdminIsFenced) |
| | Intercept | TapInvHolds, InterceptStaysFaithful (InterceptIsFaithful) |

Why the properties are not inductive alone, and what the invariant adds:

- **ProxyAttempts.** `GaugeExact` needs that the registered block has every address not
  in `dropped`, otherwise an acquisition could be a no-op; `NoRevisit` needs that
  between attempts the addresses asked are exactly those tried, and that the current
  peer is not among them (`AttemptOK`); `NonIdempotentOnce` needs that a
  non-idempotent request which goes on has not been seen by any peer (`DeliveryOK`).
  The lemmas of `PeerHealthProofs` say what each registry operation does to the
  gauges: recording an outcome does nothing (`OutcomeKeepsGauges`), acquiring and
  releasing move one gauge by one (`IncGauge`, `DecGauge`), registering keeps the
  gauges of the addresses that stay and zeroes the others (`RegisterGauge`), as long
  as the block replaced has the address once; the new list may have it twice.
  `HoldersChange` counts the attempts that hold an address.
- **HealthTimeline.** The block is the configured list position by position
  (`BlockOK`), or an outcome by index would count for another address; and what a
  slot counts is explained by the history of its address (`RunOK`): the failures in
  the open window are the newest of `run`, and all but the MaxFails - 1 newest of the
  others are more than a window older than its start. So 2 * MaxFails - 1 failures
  that left an address unmarked are spread over more than a window.
- **RuntimeSwap.** The holder of the gate is the only caller that can be between its
  two publications (`GateOK`, `PartialOK`); a generation identifies a snapshot among
  those observed (`ObservedOK`, `BuiltOK`), so a compare-and-swap succeeds only with
  a build made from the published snapshot; otherwise host state could fork.
- **RequestPhases.** For each place of the handler: the phases that have run
  (`TopOK`), how far the body is (`StreamOK`), which plugins have logged (`LogOK`),
  whether a failure closed the request (`ClosedOK`) and how the answer relates to
  the body carried so far (`AnswerOK`).
- **DynamicBindings.** A table is sound when its prefix list is in search order
  without repeated paths, no path is bound in both shapes, it has at most
  `MaxBindings` paths and owns only bound ones (`Sound`). A call that can still swap
  holds the published table and, if it binds, has room in it (`Current`): the check
  of the limit and the insertion are separate steps, and only the comparison joins
  them. The table a reload has loaded may be outdated, but is sound. The lemmas say
  what each operator does to the set of entries: `WithoutFacts`, `BindFacts`,
  `UnbindFacts`, `ReconcileFacts`; `KeptFacts`, `InsertFacts` and `LaidFacts` are the
  inductions over lists behind them, done through least counterexamples
  (`LeastNat`). `LookupFacts`: in a sound table the first hit is the longest.
- **Drain.** The counter is the number of the connections that were accepted and
  whose task has not reached its decrement (`CounterOK`); an accept loop that has
  stopped adds none (`LoopsOK`); what main has read is related to what can still
  change (`DrainedOK`, `EndedOK`).
- **IngressWatch.** A revision of the cluster changes one object of a namespace at most
  (`PastOK`), so its contents stay between two of its changes (`NoStepNoChange`).
  Then a snapshot advanced by one event is the state at the event's revision
  (`EventFolds`, `SnapOK`); what is clean has been handed over or dropped by a
  resync tick (`KeptOK`); what is served is made of a pair that renders (`MergeOK`), the
  SNI table of the pair last stored there, which is that of the routes but between the
  two stores.

- **Startup.** What `BootIsAllOrNothing` says of a process that serves or has exited was
  decided stages earlier: each stage remembers what it needed (`BootStages`), and the
  sockets acquired so far are the ones due to the first listeners (`BootSockets`). With
  inherited sockets the due one is given by `match_ports`; `MatchPortsIsPermutation`
  shows that a match that is accepted uses every descriptor once, at its port.
- **Sidecar.** A chain is always a beginning of the planned rules (`HijackTable`), also
  after a failed run, since a rerun flushes before it appends; while a plan runs, its
  position says how long the chain is and whether the hook is in (`HijackRun`). The
  rules that exempt come first, so a beginning redirects nothing that it should not.
- **AdminPlane.** A request that passed the guard has shown a token that was in force
  since it arrived (`GuardIsBeforeHandler`), whatever was rotated in between.
- **Intercept.** What was served and what is still buffered is the beginning of the
  stream that was read (`TapBytes`); each place bounds what may be dialled from it
  (`TapRoutes`). A verdict of the sniff is final: `Classify` gives the same on every
  longer input, so the pieces in which bytes arrive do not matter.
- **ModuleCache.** A version that was written and not installed was seen by nobody
  (`UploadsAreFresh`), so two sightings of one version are of one installation
  (`VersionsAreInstalledOnce`), and an entry is no older than the file it is filed under
  (`EntryIsRecent`), although it may be newer.
- **PluginStore.** Scans have cursors of their own (`CursorsAreOwned`), and what a scan
  has read is what its cursor's position says, in each of the places between peek and
  advance (`ScansProgress`); a cursor that is gone has expired or was read to its end.
- **ClientPool.** An apply overlapped by none has warmed everything before it evicts
  and evicted everything stale before it publishes (`ApplyProgress`), but for what
  requests on an older snapshot brought back meanwhile (`lit`).
- **AffinityScheduler.** `AffinityIsBounded` counts records; what is inductive is the
  bound on records together with the writes still to come (`HeldIsBounded`): a session
  that looked claims its peer until it has written. A session that decides alone
  remembers the record it started from (`SessionsRemember`).

Assumptions, each in the module that declares the constants and evaluated by TLC:
`HealthAssumption`, `TimelineAssumption` and `AttemptsAssumption` (parameters are
naturals, requests are finite, a peer list is any sequence of addresses),
`SwapAssumption` (callers of one kind each, at least one attempt), `PhasesAssumption`
(a chain is not empty; the status plugins choose differs from 503, so that a 503 tells
a closed request), `DrainAssumption` (finite sets of listeners and
connections), `BindingsAssumption` (paths are sequences of segments; the routes of
one section have distinct paths, which validation enforces), `WatchAssumption` and
`RenderAssumption` (a namespace holds objects by name, an unset variable has no entries;
static routes name configured upstreams, which validation enforces), `StartupAssumption`
(a file holds a configuration of the shape that parsing gives; descriptors are distinct),
`SidecarAssumption` (manifests have the fields that are read; ports are naturals),
`AdminAssumption` (the signal handler is no client), `InterceptAssumption` (streams are
sequences of characters), `StoreAssumption` and `AffinityAssumption` (sizes, limits and
times are naturals, finitely many requests and tasks).

Only model-checked:

- liveness (`DrivenAreTold`, `ShutdownCompletes`, `Converges`): it needs fairness and
  ENABLED, which are out of the prover's reach;
- `SwrrIsFair`: the bound on how long a peer waits follows from the sum of the effective
  weights over any sets of candidates; the sum is a fold, whose value for every domain
  is an induction over data;
- `EditsAreFaithful`: what a replayed list of edits leaves of the headers is an
  induction over that list, whose steps filter the headers;
- that PluginStore implements KvLedger (`StoreRefinesLedger`): the footprint sums over
  the entries and the mapped ledger over the workers, by folds again.

## 5. Not modelled

The meaning of message contents beyond what plugins and the sniff tell apart; the
WASM sandbox, guest memory and compilation, which succeed or fail; TOML and the text
of addresses and durations; the matching of routes by host and prefix and the
folding of repeated headers; the I/O of TLS, HTTP, DNS and subprocesses; the JSON
that the injector renders; counters, metrics, status reports and logs, apart from
the phase statistics and the opening of the log; the length of back-offs and
intervals; the generated exports of the SDK and the sample plugins. In the modelled
parts: the u32/u64 width of counters and clocks (a window would have to hold 2^32
failures; the store's total keeps its width) and per-upstream names (upstreams share
nothing but the lock).

## 6. Plan

Done: every module of section 2; the proofs of section 4.

Next, in this order:

1. KvLedger: a footprint and an account of each worker that change by differences, so
   that the step that moves one entry can be proved without an induction over the map.
2. Route matching (`match_route`) against a reference definition on bounded inputs.
3. Probes in flight while the clock runs.
4. A run of its own for the runtime binding over a configured path.
