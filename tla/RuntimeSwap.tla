---------------------------- MODULE RuntimeSwap ----------------------------
(***************************************************************************)
(* Hot reload: the gated reload paths (reload.rs), the compare-and-swap of *)
(* the plugin registry (openrusty-wasm, registry.rs), the publication of   *)
(* the runtime snapshot (state.rs), the merge task of the ingress plane    *)
(* (ingress/mod.rs) and the requests that pin both snapshots               *)
(* (pipeline/mod.rs).                                                      *)
(*                                                                         *)
(* Two kinds of callers build plugin snapshots.  A gated reload (SIGHUP,   *)
(* POST /openrusty/reload, an embedder's apply_config) holds the reload    *)
(* gate from its start to its end and goes on to publish the runtime.      *)
(* PluginRegistry::reload is public as well and promises to be safe under  *)
(* concurrency by itself: direct callers use it without the gate.  The     *)
(* ingress merge task publishes a runtime alone, for the plugin generation *)
(* it has read, and takes no gate either; the certificates it hands to the *)
(* SNI resolver afterwards are not modelled.                               *)
(*                                                                         *)
(* A configuration is abstract; what apply_runtime does to the health      *)
(* registry is the subject of ProxyAttempts.                               *)
(***************************************************************************)
EXTENDS Naturals, FiniteSets

CONSTANTS
  Gated,          \* callers of reload and apply_config
  Direct,         \* callers of PluginRegistry::reload alone
  Ingress,        \* the ingress merge task, if the plane is enabled
  Request,        \* requests that pin snapshots
  Config,         \* configurations
  Plugin,         \* plugin names
  ReloadAttempts, \* RELOAD_ATTEMPTS
  MaxGen,         \* bound: no build starts from this generation on
  NoOne,          \* the holder of a free gate
  NoConfig        \* the configuration of a caller that is idle

ASSUME SwapAssumption ==
  /\ Gated \cap Direct = {}
  /\ ReloadAttempts \in Nat \ {0}
  /\ MaxGen \in Nat
  /\ NoOne \notin Gated \cup Direct
  /\ NoConfig \notin Config

VARIABLES
  plugins, \* the published plugin snapshot: generation, configuration, host states
  runtime, \* the published runtime snapshot: generation and configuration
  aux,     \* what else a reload installs: dynamic registry, probe task, admin token
  gate,    \* the holder of the reload gate
  job,     \* the locals of each caller
  ingress, \* the locals of the ingress merge task
  pinned,  \* the plugin generation a request has pinned, until it pins the runtime
  direct,  \* history: snapshots published by direct callers
  fileCfg  \* history: the configuration of the last completed file reload

swapVars == <<plugins, runtime, aux, gate, job, ingress, pinned, direct, fileCfg>>

Caller == Gated \cup Direct

\* A host state is identified by the build that created it: the generation
\* it is for and its caller.  Absent stands for a name not loaded.
HostState == Nat \X (Caller \cup {NoOne})
Absent == <<0, NoOne>>

Snapshot == [gen : Nat, cfg : Config \cup {NoConfig}, state : [Plugin -> HostState]]

Loaded(snap) == {n \in Plugin : snap.state[n] # Absent}

PCs == {"idle", "load", "resolve", "observe", "build", "cas",
        "runtime", "dynamic", "probe", "finish"}

Job == [pc : PCs, cfg : Config \cup {NoConfig}, file : BOOLEAN, tries : Nat, built : Snapshot,
        partial : BOOLEAN]

\* A caller between two calls.  partial says that it published its plugins
\* and did not complete.
Idle(partial) ==
  [pc |-> "idle", cfg |-> NoConfig, file |-> FALSE, tries |-> 0,
   built |-> [gen |-> 0, cfg |-> NoConfig, state |-> [n \in Plugin |-> Absent]],
   partial |-> partial]

\* Who wrote the runtime: a gated reload (or the boot) or the ingress task.
Origins == {"reload", "ingress"}

Waiting == [pc |-> "wait", gen |-> 0, cfg |-> NoConfig]

Unpinned == [half |-> FALSE, snap |-> 0]

SwapTypeOK ==
  /\ plugins \in Snapshot
  /\ runtime \in [gen : Nat, cfg : Config, by : Origins]
  /\ ingress \in [Ingress -> [pc : {"wait", "apply"}, gen : Nat, cfg : Config \cup {NoConfig}]]
  /\ aux \in [dynamic : Config, probe : Config, token : Config]
  /\ gate \in Gated \cup {NoOne}
  /\ job \in [Caller -> Job]
  /\ pinned \in [Request -> [half : BOOLEAN, snap : Nat]]
  /\ direct \in Nat
  /\ fileCfg \in Config

\* from_config: bootstrap, the first runtime, then main arms the probes.
SwapInit ==
  \E c \in Config, names \in SUBSET Plugin :
    /\ plugins = [gen |-> IF names = {} THEN 0 ELSE 1, cfg |-> c,
                  state |-> [n \in Plugin |-> IF n \in names THEN <<1, NoOne>> ELSE Absent]]
    /\ runtime = [gen |-> plugins.gen, cfg |-> c, by |-> "reload"]
    /\ aux = [dynamic |-> c, probe |-> c, token |-> c]
    /\ gate = NoOne
    /\ job = [r \in Caller |-> Idle(FALSE)]
    /\ ingress = [i \in Ingress |-> Waiting]
    /\ pinned = [q \in Request |-> Unpinned]
    /\ direct = 0
    /\ fileCfg = c

snapshots == <<plugins, runtime, aux>>

(***************************************************************************)
(* The entry points.  try_lock refuses a second gated caller, which then   *)
(* does nothing.  A file reload reads its configuration first.             *)
(***************************************************************************)
BeginJob(r, pc, c, file) ==
  /\ job[r].pc = "idle"
  /\ plugins.gen < MaxGen
  /\ job' = [job EXCEPT ![r] = [Idle(FALSE) EXCEPT !.pc = pc, !.cfg = c, !.file = file]]
  /\ UNCHANGED <<snapshots, ingress, pinned, direct, fileCfg>>

\* Mutation: the gate is taken from its holder.
TryLockForced(r) == gate' = r

TryLock(r) == gate = NoOne /\ gate' = r

ReloadFile(r, c) == r \in Gated /\ TryLock(r) /\ BeginJob(r, "load", c, TRUE)

\* Mutation: the in-memory path does not take the gate.
ApplyConfigUngated(r, c) == r \in Gated /\ BeginJob(r, "resolve", c, FALSE) /\ UNCHANGED gate

ApplyConfig(r, c) == r \in Gated /\ TryLock(r) /\ BeginJob(r, "resolve", c, FALSE)

DirectReload(r, c) == r \in Direct /\ BeginJob(r, "observe", c, FALSE) /\ UNCHANGED gate

(***************************************************************************)
(* The end of a call: the gate guard, if any, is dropped.                  *)
(***************************************************************************)
Unlock(r) == gate' = IF gate = r THEN NoOne ELSE gate

FailJob(r) ==
  /\ job' = [job EXCEPT ![r] = Idle(@.partial)]
  /\ Unlock(r)
  /\ UNCHANGED <<snapshots, ingress, pinned, direct, fileCfg>>

\* Mutation: a call can be dropped between the two publications.
GiveUpLate(r) == job[r].pc \in {"load", "resolve", "build", "runtime"} /\ FailJob(r)

\* A configuration that does not load, TLS material that does not build,
\* plugins that do not compile; or the caller is dropped where it awaits.
GiveUp(r) == job[r].pc \in {"load", "resolve", "build"} /\ FailJob(r)

Advance(r, from, to) ==
  /\ job[r].pc = from
  /\ job' = [job EXCEPT ![r].pc = to]
  /\ UNCHANGED <<snapshots, gate, ingress, pinned, direct, fileCfg>>

LoadFile(r) == Advance(r, "load", "resolve")

\* publish: endpoints are resolved and the TLS plans built.
Resolve(r) == Advance(r, "resolve", "observe")

(***************************************************************************)
(* PluginRegistry::reload.                                                 *)
(***************************************************************************)
Observe(r) ==
  /\ job[r].pc = "observe"
  /\ job' = [job EXCEPT ![r].pc = "build", ![r].built = plugins, ![r].tries = @ + 1]
  /\ UNCHANGED <<snapshots, gate, ingress, pinned, direct, fileCfg>>

\* load_plugins: the modules found in the plugin directory; a name the
\* observed snapshot has keeps its host state, another gets a fresh one.
LoadPlugins(prev, names, fresh) ==
  [n \in Plugin |-> IF n \notin names THEN Absent
                    ELSE IF n \in Loaded(prev) THEN prev.state[n] ELSE fresh]

Build(r, names) ==
  /\ job[r].pc = "build"
  /\ job' = [job EXCEPT ![r].pc = "cas",
                        ![r].built = [gen   |-> job[r].built.gen + 1,
                                      cfg   |-> job[r].cfg,
                                      state |-> LoadPlugins(job[r].built, names, <<job[r].built.gen + 1, r>>)]]
  /\ UNCHANGED <<snapshots, gate, ingress, pinned, direct, fileCfg>>

\* Mutation: a plain store in place of the compare-and-swap.
SwapBlindly(r) ==
  /\ job[r].pc = "cas"
  /\ plugins' = job[r].built
  /\ job' = [job EXCEPT ![r] = IF r \in Gated THEN [@ EXCEPT !.pc = "runtime", !.partial = TRUE]
                                          ELSE Idle(FALSE)]
  /\ direct' = IF r \in Direct THEN direct + 1 ELSE direct
  /\ UNCHANGED <<runtime, aux, gate, ingress, pinned, fileCfg>>

\* The swap compares the observed snapshot, whose generation identifies it.
Swap(r) ==
  /\ job[r].pc = "cas"
  /\ plugins.gen + 1 = job[r].built.gen
  /\ plugins' = job[r].built
  /\ job' = [job EXCEPT ![r] = IF r \in Gated THEN [@ EXCEPT !.pc = "runtime", !.partial = TRUE]
                                          ELSE Idle(FALSE)]
  /\ direct' = IF r \in Direct THEN direct + 1 ELSE direct
  /\ UNCHANGED <<runtime, aux, gate, ingress, pinned, fileCfg>>

SwapLost(r) ==
  /\ job[r].pc = "cas"
  /\ plugins.gen + 1 # job[r].built.gen
  /\ IF job[r].tries < ReloadAttempts
     THEN Advance(r, "cas", "observe")
     ELSE FailJob(r)

(***************************************************************************)
(* The rest of publish and of reload, which awaits nothing.                *)
(***************************************************************************)
ApplyRuntime(r) ==
  /\ job[r].pc = "runtime"
  /\ runtime' = [gen |-> job[r].built.gen, cfg |-> job[r].cfg, by |-> "reload"]
  /\ job' = [job EXCEPT ![r].pc = "dynamic"]
  /\ UNCHANGED <<plugins, aux, gate, ingress, pinned, direct, fileCfg>>

\* apply_dynamic and apply_dynamic_routes: the registry and its config-owned
\* bindings, which nothing here reads.
ApplyDynamic(r) ==
  /\ job[r].pc = "dynamic"
  /\ aux' = [aux EXCEPT !.dynamic = job[r].cfg]
  /\ job' = [job EXCEPT ![r].pc = "probe"]
  /\ UNCHANGED <<plugins, runtime, gate, ingress, pinned, direct, fileCfg>>

\* active_probe::spawn aborts the old task and arms one for the snapshot.
SpawnProbe(r) ==
  /\ job[r].pc = "probe"
  /\ aux' = [aux EXCEPT !.probe = runtime.cfg]
  /\ job' = [job EXCEPT ![r].pc = "finish"]
  /\ UNCHANGED <<plugins, runtime, gate, ingress, pinned, direct, fileCfg>>

\* Mutation: every reload rotates the admin token.
FinishRotates(r) ==
  /\ job[r].pc = "finish"
  /\ aux' = [aux EXCEPT !.token = job[r].cfg]
  /\ fileCfg' = IF job[r].file THEN job[r].cfg ELSE fileCfg
  /\ job' = [job EXCEPT ![r] = Idle(FALSE)]
  /\ Unlock(r)
  /\ UNCHANGED <<plugins, runtime, ingress, pinned, direct>>

FinishJob(r) ==
  /\ job[r].pc = "finish"
  /\ aux' = IF job[r].file THEN [aux EXCEPT !.token = job[r].cfg] ELSE aux
  /\ fileCfg' = IF job[r].file THEN job[r].cfg ELSE fileCfg
  /\ job' = [job EXCEPT ![r] = Idle(FALSE)]
  /\ Unlock(r)
  /\ UNCHANGED <<plugins, runtime, ingress, pinned, direct>>

(***************************************************************************)
(* handle_request pins the plugin snapshot, then the runtime; the rest of  *)
(* the request works on what it pinned.                                    *)
(***************************************************************************)
PinPlugins(q) ==
  /\ ~pinned[q].half
  /\ pinned' = [pinned EXCEPT ![q] = [half |-> TRUE, snap |-> plugins.gen]]
  /\ UNCHANGED <<snapshots, gate, job, ingress, direct, fileCfg>>

PinRuntime(q) ==
  /\ pinned[q].half
  /\ pinned' = [pinned EXCEPT ![q] = Unpinned]
  /\ UNCHANGED <<snapshots, gate, job, ingress, direct, fileCfg>>

(***************************************************************************)
(* apply_pair, once a configuration has been rendered, resolved and its    *)
(* TLS plans built: the generation is read, then the runtime is stored.    *)
(***************************************************************************)
Compose(i, c) ==
  /\ ingress[i].pc = "wait"
  /\ ingress' = [ingress EXCEPT ![i] = [pc |-> "apply", gen |-> plugins.gen, cfg |-> c]]
  /\ UNCHANGED <<snapshots, gate, job, pinned, direct, fileCfg>>

IngressApply(i) ==
  /\ ingress[i].pc = "apply"
  /\ runtime' = [gen |-> ingress[i].gen, cfg |-> ingress[i].cfg, by |-> "ingress"]
  /\ ingress' = [ingress EXCEPT ![i] = Waiting]
  /\ UNCHANGED <<plugins, aux, gate, job, pinned, direct, fileCfg>>

CallerNext(r) ==
  \/ \E c \in Config : ReloadFile(r, c) \/ ApplyConfig(r, c) \/ DirectReload(r, c)
  \/ GiveUp(r) \/ LoadFile(r) \/ Resolve(r) \/ Observe(r)
  \/ \E names \in SUBSET Plugin : Build(r, names)
  \/ Swap(r) \/ SwapLost(r)
  \/ ApplyRuntime(r) \/ ApplyDynamic(r) \/ SpawnProbe(r) \/ FinishJob(r)

SwapNext ==
  \/ \E r \in Caller : CallerNext(r)
  \/ \E i \in Ingress : IngressApply(i) \/ \E c \in Config : Compose(i, c)
  \/ \E q \in Request : PinPlugins(q) \/ PinRuntime(q)

SwapSpec == SwapInit /\ [][SwapNext]_swapVars

-----------------------------------------------------------------------------
(***************************************************************************)
(* A reload never takes the runtime back (reload_gate): two reloads cannot *)
(* publish their plugins in one order and their runtimes in the other.     *)
(* Generations that direct callers added are discounted.                   *)
(***************************************************************************)
RuntimeMonotone ==
  [][runtime'.by = "reload" => runtime'.gen + direct >= runtime.gen]_swapVars

(***************************************************************************)
(* A reload that failed, lost its race or was dropped published nothing    *)
(* (ReloadError::Failed: "nothing changed").                               *)
(***************************************************************************)
FailureChangesNothing == \A r \in Caller : job[r].pc = "idle" => ~job[r].partial

(***************************************************************************)
(* Between reloads everything a reload installs is of one configuration    *)
(* (publish), unless the ingress task has replaced the runtime since: the  *)
(* runtime is of the newest plugin snapshot but for the ones direct        *)
(* callers published, the dynamic registry and the probe task are of the   *)
(* runtime's configuration, and the admin token is the                     *)
(* last file reload's, whatever in-memory configurations came since.       *)
(***************************************************************************)
SettledAgreement ==
  gate = NoOne =>
    /\ aux.token = fileCfg
    /\ runtime.by = "reload" =>
         /\ runtime.gen <= plugins.gen /\ plugins.gen <= runtime.gen + direct
         /\ plugins.gen = runtime.gen => plugins.cfg = runtime.cfg
         /\ aux.dynamic = runtime.cfg /\ aux.probe = runtime.cfg

(***************************************************************************)
(* The two pins of a request are taken one after the other (handle_request *)
(* step 1): whenever the second is taken, a runtime that a reload          *)
(* published is older than the pinned plugins by at most the one gated     *)
(* reload that is between its two publications, and by direct reloads.     *)
(***************************************************************************)
PinsOneBehind ==
  \A q \in Request :
    pinned[q].half /\ runtime.by = "reload" => pinned[q].snap <= runtime.gen + 1 + direct

(***************************************************************************)
(* A plugin that two successive snapshots have keeps its host state: no    *)
(* reload, however it races with others, forks the state that requests on  *)
(* the old and on the new snapshot share (load_plugins, compare_and_swap). *)
(***************************************************************************)
HostStateContinuity ==
  [][\A n \in Loaded(plugins) \cap Loaded(plugins') :
       plugins'.state[n] = plugins.state[n]]_swapVars

(***************************************************************************)
(* The comment in apply_pair: the ingress task reuses the current plugin   *)
(* generation "so the runtime can never disagree with the compiled plugin  *)
(* set".  Once no reload and no ingress apply is under way, the runtime is *)
(* of the published plugin generation.                                     *)
(***************************************************************************)
IngressNeverDisagrees ==
  (gate = NoOne /\ \A i \in Ingress : ingress[i].pc = "wait") => runtime.gen + direct >= plugins.gen
=============================================================================
