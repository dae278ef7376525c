------------------------- MODULE RuntimeSwapProofs -------------------------
(***************************************************************************)
(* Hot reload for every number of callers, requests, configurations and    *)
(* plugins: a reload publishes everything or nothing, what is published    *)
(* agrees once no reload is under way, the runtime is at most one          *)
(* publication behind, and no race forks a plugin's host state.            *)
(*                                                                         *)
(* The argument: the gate makes its holder the only caller that can be     *)
(* between its two publications, and a snapshot's generation identifies it *)
(* among the observed ones, so the compare-and-swap only ever succeeds     *)
(* with a snapshot built from the published one.                           *)
(***************************************************************************)
EXTENDS RuntimeSwap, TLAPS

\* Past the swap: the caller has published its plugins and goes on.
Publishing(r) == job[r].pc \in {"runtime", "dynamic", "probe", "finish"}

\* The gate is held by exactly the gated caller that is not idle.
GateOK ==
  /\ \A r \in Gated : job[r].pc # "idle" <=> gate = r
  /\ \A r \in Direct : job[r].pc \in {"idle", "observe", "build", "cas"}

PartialOK == \A r \in Caller : job[r].partial => Publishing(r)

\* What a caller has observed or built, against the published snapshot.
ObservedOK(r) ==
  job[r].pc = "build" =>
    /\ job[r].built.gen <= plugins.gen
    /\ job[r].built.gen = plugins.gen => job[r].built = plugins

BuiltOK(r) ==
  job[r].pc = "cas" =>
    /\ job[r].built.gen <= plugins.gen + 1
    /\ job[r].built.cfg = job[r].cfg
    /\ job[r].built.gen = plugins.gen + 1 =>
         \A n \in Loaded(plugins) \cap Loaded(job[r].built) :
           job[r].built.state[n] = plugins.state[n]

\* What a caller past its swap relies on, and what it has installed so far.
PublishingOK(r) ==
  Publishing(r) =>
    /\ job[r].built.gen <= plugins.gen
    /\ plugins.gen <= job[r].built.gen + direct
    /\ plugins.gen = job[r].built.gen => plugins.cfg = job[r].cfg
    /\ job[r].pc # "runtime" /\ runtime.by = "reload" =>
         runtime.gen = job[r].built.gen /\ runtime.cfg = job[r].cfg
    /\ job[r].pc \in {"probe", "finish"} => aux.dynamic = job[r].cfg
    /\ job[r].pc = "finish" /\ runtime.by = "reload" => aux.probe = job[r].cfg

\* SettledAgreement's second part, as long as no caller is past its swap.
Settled ==
  runtime.by = "reload" =>
    /\ runtime.gen <= plugins.gen /\ plugins.gen <= runtime.gen + direct
    /\ plugins.gen = runtime.gen => plugins.cfg = runtime.cfg
    /\ aux.dynamic = runtime.cfg /\ aux.probe = runtime.cfg

SettledOK == (\A r \in Gated : ~Publishing(r)) => Settled

\* Nothing anyone holds is newer than the published plugins.
NewestOK ==
  /\ runtime.gen <= plugins.gen
  /\ runtime.by = "reload" => plugins.gen <= runtime.gen + 1 + direct
  /\ \A i \in Ingress : ingress[i].gen <= plugins.gen
  /\ \A i \in Ingress : ingress[i].pc = "apply" => ingress[i].cfg \in Config
  /\ \A q \in Request : pinned[q].snap <= plugins.gen

Inv ==
  /\ SwapTypeOK
  /\ \A r \in Caller : job[r].pc # "idle" => job[r].cfg \in Config
  /\ GateOK
  /\ PartialOK
  /\ \A r \in Caller : ObservedOK(r) /\ BuiltOK(r) /\ PublishingOK(r)
  /\ SettledOK
  /\ NewestOK
  /\ aux.token = fileCfg

-----------------------------------------------------------------------------
LEMMA JobChange ==
  ASSUME SwapTypeOK, NEW r \in Caller, NEW j \in Job, job' = [job EXCEPT ![r] = j]
  PROVE  /\ job' \in [Caller -> Job]
         /\ job'[r] = j
         /\ \A x \in Caller \ {r} : job'[x] = job[x]
BY DEF SwapTypeOK

\* A caller between two calls that published nothing or everything.
Rest ==
  [pc |-> "idle", cfg |-> NoConfig, file |-> FALSE, tries |-> 0,
   built |-> [gen |-> 0, cfg |-> NoConfig, state |-> [n \in Plugin |-> Absent]],
   partial |-> FALSE]

LEMMA RestIsIdle ==
  /\ Rest \in Job /\ Rest.pc = "idle" /\ Rest.partial = FALSE
  /\ Idle(FALSE) = Rest
<1> DEFINE none == [gen |-> 0, cfg |-> NoConfig, state |-> [n \in Plugin |-> Absent]]
<1>1. none \in Snapshot
  BY DEF Snapshot, Absent, HostState
<1>2. Rest = [pc |-> "idle", cfg |-> NoConfig, file |-> FALSE, tries |-> 0,
              built |-> none, partial |-> FALSE]
  BY DEF Rest
<1> HIDE DEF none
<1>3. Rest \in Job
  BY <1>1, <1>2 DEF Job, PCs
<1>4. Rest.pc = "idle" /\ Rest.partial = FALSE
  BY <1>2
<1>5. Idle(FALSE) = Rest
  BY Zenon DEF Idle, Rest
<1> QED
  BY <1>3, <1>4, <1>5, Zenon

LEMMA InitInv == SwapInit => Inv
<1> SUFFICES ASSUME SwapInit PROVE Inv
  OBVIOUS
<1>1. PICK c \in Config, names \in SUBSET Plugin :
        /\ plugins = [gen |-> IF names = {} THEN 0 ELSE 1, cfg |-> c,
                      state |-> [n \in Plugin |-> IF n \in names THEN <<1, NoOne>> ELSE Absent]]
        /\ runtime = [gen |-> plugins.gen, cfg |-> c, by |-> "reload"]
        /\ aux = [dynamic |-> c, probe |-> c, token |-> c]
        /\ fileCfg = c
  BY DEF SwapInit
<1>2. /\ gate = NoOne /\ job = [r \in Caller |-> Rest]
      /\ ingress = [i \in Ingress |-> Waiting] /\ pinned = [q \in Request |-> Unpinned] /\ direct = 0
  BY RestIsIdle DEF SwapInit
<1>3. plugins \in Snapshot /\ plugins.gen \in {0, 1} /\ plugins.cfg = c
  BY <1>1 DEF Snapshot, HostState, Absent
<1>4. \A r \in Caller : job[r] \in Job /\ job[r].pc = "idle" /\ job[r].partial = FALSE
  BY <1>2, RestIsIdle
<1>5. job \in [Caller -> Job]
  BY <1>2, RestIsIdle
<1>6. SwapTypeOK
  BY <1>1, <1>2, <1>3, <1>5 DEF SwapTypeOK, Origins, Waiting, Unpinned
<1>7. GateOK /\ PartialOK
  BY <1>2, <1>4, SwapAssumption DEF GateOK, PartialOK, Caller
<1>8. NewestOK
  BY <1>1, <1>2, <1>3 DEF NewestOK, Waiting, Unpinned
<1>9. SettledOK
  BY <1>1, <1>2, <1>3 DEF SettledOK, Settled
<1> QED
  BY <1>1, <1>4, <1>6, <1>7, <1>8, <1>9 DEF Inv, ObservedOK, BuiltOK, PublishingOK, Publishing

(***************************************************************************)
(* A caller that publishes nothing: before its swap, or at its end.        *)
(***************************************************************************)
LEMMA LocalStep ==
  ASSUME Inv, NEW r \in Caller, NEW j \in Job,
         job' = [job EXCEPT ![r] = j],
         UNCHANGED <<snapshots, ingress, pinned, direct, fileCfg>>,
         ~Publishing(r), j.pc \notin {"runtime", "dynamic", "probe", "finish"}, j.partial = FALSE,
         j.pc # "idle" => j.cfg \in Config,
         gate' \in Gated \cup {NoOne},
         \A x \in Gated : job'[x].pc # "idle" <=> gate' = x,
         r \in Direct => j.pc \in {"idle", "observe", "build", "cas"},
         ObservedOK(r)', BuiltOK(r)'
  PROVE  Inv'
<1>0. /\ job' \in [Caller -> Job] /\ job'[r] = j
      /\ \A x \in Caller \ {r} : job'[x] = job[x]
  BY JobChange DEF Inv
<1>1. SwapTypeOK'
  BY <1>0 DEF Inv, SwapTypeOK, snapshots
<1>2. GateOK' /\ PartialOK'
  BY <1>0 DEF Inv, GateOK, PartialOK, Publishing, Caller
<1>3. \A x \in Caller : ObservedOK(x)' /\ BuiltOK(x)' /\ PublishingOK(x)'
  <2> TAKE x \in Caller
  <2>1. CASE x = r
    BY <1>0, <2>1 DEF PublishingOK, Publishing
  <2>2. CASE x # r
    BY <1>0, <2>2 DEF Inv, ObservedOK, BuiltOK, PublishingOK, Publishing, Loaded, snapshots
  <2> QED
    BY <2>1, <2>2
<1>4. SettledOK'
  BY <1>0 DEF Inv, SettledOK, Settled, Publishing, snapshots, Caller
<1>5. NewestOK'
  BY DEF Inv, NewestOK, snapshots
<1>6. \A x \in Caller : job'[x].pc # "idle" => job'[x].cfg \in Config
  BY <1>0 DEF Inv
<1> QED
  BY <1>1, <1>2, <1>3, <1>4, <1>5, <1>6 DEF Inv, snapshots

(***************************************************************************)
(* The entry points take the gate, or need none.                           *)
(***************************************************************************)
LEMMA BeginStep ==
  ASSUME Inv, NEW r \in Caller, NEW c \in Config,
         ReloadFile(r, c) \/ ApplyConfig(r, c) \/ DirectReload(r, c)
  PROVE  Inv'
<1> PICK pc \in {"load", "resolve", "observe"}, file \in BOOLEAN :
      /\ BeginJob(r, pc, c, file)
      /\ r \in Gated => gate = NoOne /\ gate' = r
      /\ r \in Direct => pc = "observe" /\ gate' = gate
  BY SwapAssumption DEF ReloadFile, ApplyConfig, DirectReload, TryLock
<1> DEFINE j == [Rest EXCEPT !.pc = pc, !.cfg = c, !.file = file]
<1>1. j \in Job /\ j.pc = pc /\ j.cfg = c /\ j.partial = FALSE
  <2>1. j \in Job
    BY RestIsIdle DEF Job, PCs
  <2>2. j.pc = pc /\ j.cfg = c
    BY DEF Rest
  <2>3. j.partial = FALSE
    BY DEF Rest
  <2> QED
    BY <2>1, <2>2, <2>3
<1> HIDE DEF j
<1>2. /\ job' = [job EXCEPT ![r] = j] /\ job[r].pc = "idle"
      /\ UNCHANGED <<snapshots, ingress, pinned, direct, fileCfg>>
  BY RestIsIdle DEF BeginJob, j
<1>3. job'[r] = j /\ \A x \in Caller \ {r} : job'[x] = job[x]
  BY <1>1, <1>2, JobChange DEF Inv
<1>4. gate' \in Gated \cup {NoOne} /\ \A x \in Gated : job'[x].pc # "idle" <=> gate' = x
  BY <1>1, <1>3, SwapAssumption DEF Inv, SwapTypeOK, GateOK, Caller
<1>5. ObservedOK(r)' /\ BuiltOK(r)'
  BY <1>1, <1>3 DEF ObservedOK, BuiltOK
<1> QED
  BY <1>1, <1>2, <1>4, <1>5, LocalStep DEF Publishing

(***************************************************************************)
(* A call ends before its swap and drops the gate.                         *)
(***************************************************************************)
LEMMA FailStep ==
  ASSUME Inv, NEW r \in Caller, ~Publishing(r), job[r].pc # "idle", FailJob(r)
  PROVE  Inv'
<1>1. job[r].partial = FALSE /\ job[r].partial \in BOOLEAN
  BY DEF Inv, PartialOK, SwapTypeOK, Job
<1>2. job' = [job EXCEPT ![r] = Rest]
  <2>1. Idle(job[r].partial) = Rest
    BY <1>1 DEF Idle, Rest
  <2> QED
    BY <2>1, Zenon DEF FailJob
<1>3. job'[r] = Rest /\ \A x \in Caller \ {r} : job'[x] = job[x]
  BY <1>2, RestIsIdle, JobChange DEF Inv
<1>4. gate' \in Gated \cup {NoOne} /\ \A x \in Gated : job'[x].pc # "idle" <=> gate' = x
  BY <1>3, RestIsIdle, SwapAssumption DEF Inv, SwapTypeOK, GateOK, Caller, FailJob, Unlock
<1>5. ObservedOK(r)' /\ BuiltOK(r)'
  BY <1>3, RestIsIdle DEF ObservedOK, BuiltOK
<1> QED
  BY <1>2, <1>4, <1>5, RestIsIdle, LocalStep DEF FailJob

(***************************************************************************)
(* A caller steps on before its swap.                                      *)
(***************************************************************************)
LEMMA AdvanceStep ==
  ASSUME Inv, NEW r \in Caller,
         NEW from \in {"load", "resolve", "cas"}, NEW to \in {"resolve", "observe"},
         Advance(r, from, to), from # "cas" => r \notin Direct, to # "observe" => r \notin Direct
  PROVE  Inv'
<1> DEFINE j == [job[r] EXCEPT !.pc = to]
<1>1. j \in Job /\ j.pc = to /\ j.cfg = job[r].cfg /\ j.partial = job[r].partial
  BY DEF Inv, SwapTypeOK, Job, PCs
<1>2. job' = [job EXCEPT ![r] = j]
  BY DEF Advance, Inv, SwapTypeOK
<1> HIDE DEF j
<1>3. job'[r] = j /\ \A x \in Caller \ {r} : job'[x] = job[x]
  BY <1>1, <1>2, JobChange DEF Inv
<1>4. job[r].pc = from /\ gate' = gate /\ UNCHANGED <<snapshots, ingress, pinned, direct, fileCfg>>
  BY DEF Advance
<1>5. ~Publishing(r) /\ j.partial = FALSE /\ j.cfg \in Config
  BY <1>1, <1>4 DEF Inv, PartialOK, Publishing
<1>6. gate' \in Gated \cup {NoOne} /\ \A x \in Gated : job'[x].pc # "idle" <=> gate' = x
  BY <1>1, <1>3, <1>4 DEF Inv, SwapTypeOK, GateOK, Caller
<1>7. ObservedOK(r)' /\ BuiltOK(r)'
  BY <1>1, <1>3 DEF ObservedOK, BuiltOK
<1> QED
  BY <1>1, <1>2, <1>4, <1>5, <1>6, <1>7, LocalStep

LEMMA ObserveStep ==
  ASSUME Inv, NEW r \in Caller, Observe(r)
  PROVE  Inv'
<1> DEFINE j == [job[r] EXCEPT !.pc = "build", !.built = plugins, !.tries = @ + 1]
<1>1. /\ j \in Job /\ j.pc = "build" /\ j.cfg = job[r].cfg /\ j.partial = job[r].partial
      /\ j.built = plugins
  <2>1. job[r] \in Job /\ plugins \in Snapshot
    BY DEF Inv, SwapTypeOK
  <2>2. j \in Job
    <3>1. job[r].tries + 1 \in Nat
      BY <2>1 DEF Job
    <3> QED
      BY <2>1, <3>1 DEF Job, PCs
  <2>3. j.pc = "build" /\ j.cfg = job[r].cfg /\ j.built = plugins
    BY <2>1 DEF Job
  <2>4. j.partial = job[r].partial
    BY <2>1 DEF Job
  <2> QED
    BY <2>2, <2>3, <2>4
<1>2. job' = [job EXCEPT ![r] = j]
  BY DEF Observe, Inv, SwapTypeOK
<1> HIDE DEF j
<1>3. job'[r] = j /\ \A x \in Caller \ {r} : job'[x] = job[x]
  BY <1>1, <1>2, JobChange DEF Inv
<1>4. job[r].pc = "observe" /\ gate' = gate /\ UNCHANGED <<snapshots, ingress, pinned, direct, fileCfg>>
  BY DEF Observe
<1>5. ~Publishing(r) /\ j.partial = FALSE /\ j.cfg \in Config
  BY <1>1, <1>4 DEF Inv, PartialOK, Publishing
<1>6. gate' \in Gated \cup {NoOne} /\ \A x \in Gated : job'[x].pc # "idle" <=> gate' = x
  BY <1>1, <1>3, <1>4 DEF Inv, SwapTypeOK, GateOK, Caller
<1>7. ObservedOK(r)' /\ BuiltOK(r)'
  BY <1>1, <1>3, <1>4 DEF ObservedOK, BuiltOK, snapshots, Inv, SwapTypeOK, Snapshot
<1> QED
  BY <1>1, <1>2, <1>4, <1>5, <1>6, <1>7, LocalStep

(***************************************************************************)
(* load_plugins keeps the host state of every name it finds again.         *)
(***************************************************************************)
LEMMA LoadPluginsKeeps ==
  ASSUME NEW prev \in Snapshot, NEW names \in SUBSET Plugin, NEW fresh \in HostState
  PROVE  /\ LoadPlugins(prev, names, fresh) \in [Plugin -> HostState]
         /\ \A n \in Loaded(prev) :
              LoadPlugins(prev, names, fresh)[n] \in {prev.state[n], Absent}
BY DEF LoadPlugins, Loaded, Snapshot, HostState, Absent

LEMMA BuildStep ==
  ASSUME Inv, NEW r \in Caller, NEW names \in SUBSET Plugin, Build(r, names)
  PROVE  Inv'
<1> DEFINE old == job[r].built
           state == LoadPlugins(old, names, <<old.gen + 1, r>>)
           new == [gen |-> old.gen + 1, cfg |-> job[r].cfg, state |-> state]
           j == [job[r] EXCEPT !.pc = "cas", !.built = new]
<1>1. old \in Snapshot /\ old.gen \in Nat /\ job[r].cfg \in Config \cup {NoConfig}
  BY DEF Inv, SwapTypeOK, Job, Snapshot
<1>2. /\ state \in [Plugin -> HostState]
      /\ \A n \in Loaded(old) : state[n] \in {old.state[n], Absent}
  <2>1. <<old.gen + 1, r>> \in HostState
    BY <1>1 DEF HostState
  <2> HIDE DEF old
  <2> QED
    BY <1>1, <2>1, LoadPluginsKeeps
<1>3. new \in Snapshot /\ new.gen = old.gen + 1 /\ new.cfg = job[r].cfg /\ new.state = state
  BY <1>1, <1>2 DEF Snapshot
<1>4. job[r].pc = "build" /\ gate' = gate /\ UNCHANGED <<snapshots, ingress, pinned, direct, fileCfg>>
  BY DEF Build
<1>5. job' = [job EXCEPT ![r] = j]
  BY DEF Build, Inv, SwapTypeOK
<1> HIDE DEF new
<1>6. j \in Job /\ j.pc = "cas" /\ j.cfg = job[r].cfg /\ j.partial = job[r].partial /\ j.built = new
  <2>1. job[r] \in Job
    BY DEF Inv, SwapTypeOK
  <2>2. j \in Job
    BY <1>3, <2>1 DEF Job, PCs
  <2>3. j.pc = "cas" /\ j.cfg = job[r].cfg /\ j.built = new
    BY <2>1 DEF Job
  <2>4. j.partial = job[r].partial
    BY <2>1 DEF Job
  <2> QED
    BY <2>2, <2>3, <2>4
<1> HIDE DEF j
<1>7. job'[r] = j /\ \A x \in Caller \ {r} : job'[x] = job[x]
  BY <1>5, <1>6, JobChange DEF Inv
<1>8. ~Publishing(r) /\ j.partial = FALSE /\ j.cfg \in Config
  BY <1>4, <1>6 DEF Inv, PartialOK, Publishing
<1>9. gate' \in Gated \cup {NoOne} /\ \A x \in Gated : job'[x].pc # "idle" <=> gate' = x
  BY <1>4, <1>6, <1>7 DEF Inv, SwapTypeOK, GateOK, Caller
<1>10. old.gen <= plugins.gen /\ plugins.gen \in Nat /\ (old.gen = plugins.gen => old = plugins)
  BY <1>4 DEF Inv, ObservedOK, SwapTypeOK, Snapshot
<1>11. old.gen = plugins.gen =>
         \A n \in Loaded(plugins) \cap Loaded(new) : new.state[n] = plugins.state[n]
  BY <1>2, <1>3, <1>10 DEF Loaded
<1>12. ObservedOK(r)' /\ BuiltOK(r)'
  BY <1>1, <1>3, <1>4, <1>6, <1>7, <1>10, <1>11 DEF ObservedOK, BuiltOK, snapshots, Loaded
<1> QED
  BY <1>4, <1>5, <1>6, <1>8, <1>9, <1>12, LocalStep

(***************************************************************************)
(* Only the holder of the gate is between its two publications.            *)
(***************************************************************************)
LEMMA OnePublishes ==
  ASSUME Inv, NEW r \in Caller, Publishing(r)
  PROVE  /\ r \in Gated /\ gate = r
         /\ \A x \in Caller \ {r} : ~Publishing(x)
BY SwapAssumption DEF Inv, GateOK, Publishing, Caller

(***************************************************************************)
(* Every caller still to swap is outdated by a successful swap.            *)
(***************************************************************************)
LEMMA SwapOutdates ==
  ASSUME Inv, NEW r \in Caller, Swap(r), NEW x \in Caller, job'[x] = job[x]
  PROVE  ObservedOK(x)' /\ BuiltOK(x)'
<1>1. plugins.gen \in Nat /\ plugins'.gen = plugins.gen + 1
  BY DEF Inv, SwapTypeOK, Snapshot, Swap
<1>2. job[x].built.gen \in Nat
  BY DEF Inv, SwapTypeOK, Job, Snapshot
<1> QED
  BY <1>1, <1>2 DEF Inv, ObservedOK, BuiltOK

LEMMA GatedSwap ==
  ASSUME Inv, NEW r \in Gated, Swap(r)
  PROVE  Inv'
<1> DEFINE j == [job[r] EXCEPT !.pc = "runtime", !.partial = TRUE]
<1>1. r \in Caller /\ r \notin Direct
  BY SwapAssumption DEF Caller
<1>2. job[r] \in Job /\ job \in [Caller -> Job]
  BY <1>1 DEF Inv, SwapTypeOK
<1>3. j \in Job /\ j.pc = "runtime" /\ j.built = job[r].built /\ j.cfg = job[r].cfg
  <2>1. j \in Job
    BY <1>2 DEF Job, PCs
  <2>2. j.pc = "runtime" /\ j.built = job[r].built /\ j.cfg = job[r].cfg
    BY <1>2 DEF Job
  <2> QED
    BY <2>1, <2>2
<1>4. /\ job' = [job EXCEPT ![r] = j] /\ plugins' = job[r].built /\ job[r].pc = "cas"
      /\ plugins.gen + 1 = job[r].built.gen /\ direct' = direct
      /\ UNCHANGED <<runtime, aux, gate, ingress, pinned, fileCfg>>
  BY <1>1 DEF Swap
<1> HIDE DEF j
<1>5. /\ job' \in [Caller -> Job] /\ job'[r] = j
      /\ \A x \in Caller \ {r} : job'[x] = job[x]
  BY <1>1, <1>3, <1>4, JobChange DEF Inv
<1>6. gate = r /\ \A x \in Caller \ {r} : ~Publishing(x)
  BY <1>4, SwapAssumption DEF Inv, GateOK, Publishing, Caller
<1>7. \A x \in Gated : ~Publishing(x)
  BY <1>4, <1>6 DEF Publishing, Caller
<1>8. /\ plugins.gen \in Nat /\ plugins'.gen = plugins.gen + 1 /\ plugins' \in Snapshot
      /\ runtime.gen \in Nat /\ direct \in Nat
  BY <1>2, <1>4 DEF Inv, SwapTypeOK, Job, Snapshot
<1>9. SwapTypeOK'
  BY <1>4, <1>5, <1>8 DEF Inv, SwapTypeOK
<1>10. GateOK' /\ PartialOK'
  BY <1>1, <1>3, <1>4, <1>5, <1>6 DEF Inv, GateOK, PartialOK, Publishing, Caller
<1>11. \A x \in Caller : ObservedOK(x)' /\ BuiltOK(x)' /\ PublishingOK(x)'
  <2> TAKE x \in Caller
  <2>1. CASE x = r
    BY <1>1, <1>3, <1>4, <1>5, <1>8, <2>1
    DEF Inv, BuiltOK, ObservedOK, PublishingOK, Publishing
  <2>2. CASE x # r
    BY <1>1, <1>5, <1>6, <2>2, SwapOutdates DEF PublishingOK, Publishing
  <2> QED
    BY <2>1, <2>2
<1>12. SettledOK'
  BY <1>3, <1>5 DEF SettledOK, Publishing
<1>13. NewestOK'
  <2>1. runtime.gen <= plugins'.gen
    BY <1>8 DEF Inv, NewestOK
  <2>2. runtime.by = "reload" => plugins'.gen <= runtime.gen + 1 + direct
    BY <1>7, <1>8 DEF Inv, SettledOK, Settled
  <2>3. /\ \A i \in Ingress : ingress[i].gen <= plugins'.gen
        /\ \A q \in Request : pinned[q].snap <= plugins'.gen
    BY <1>8 DEF Inv, NewestOK, SwapTypeOK
  <2> QED
    BY <1>4, <2>1, <2>2, <2>3 DEF Inv, NewestOK
<1>14. \A x \in Caller : job'[x].pc # "idle" => job'[x].cfg \in Config
  BY <1>1, <1>3, <1>4, <1>5 DEF Inv
<1> QED
  BY <1>4, <1>9, <1>10, <1>11, <1>12, <1>13, <1>14 DEF Inv

LEMMA DirectSwap ==
  ASSUME Inv, NEW r \in Direct, Swap(r)
  PROVE  Inv'
<1>1. r \in Caller /\ r \notin Gated
  BY SwapAssumption DEF Caller
<1>2. job[r] \in Job /\ job \in [Caller -> Job]
  BY <1>1 DEF Inv, SwapTypeOK
<1>3. /\ job' = [job EXCEPT ![r] = Rest] /\ plugins' = job[r].built /\ job[r].pc = "cas"
      /\ plugins.gen + 1 = job[r].built.gen /\ direct' = direct + 1
      /\ UNCHANGED <<runtime, aux, gate, ingress, pinned, fileCfg>>
  BY <1>1, RestIsIdle DEF Swap
<1>4. /\ job' \in [Caller -> Job] /\ job'[r] = Rest
      /\ \A x \in Caller \ {r} : job'[x] = job[x]
  BY <1>1, <1>3, RestIsIdle, JobChange DEF Inv
<1>5. /\ plugins.gen \in Nat /\ plugins'.gen = plugins.gen + 1 /\ plugins' \in Snapshot
      /\ runtime.gen \in Nat /\ direct \in Nat
  BY <1>2, <1>3 DEF Inv, SwapTypeOK, Job, Snapshot
<1>6. SwapTypeOK'
  BY <1>3, <1>4, <1>5 DEF Inv, SwapTypeOK
<1>7. GateOK'
  BY <1>1, <1>3, <1>4, RestIsIdle DEF Inv, GateOK, Caller
<1>8. PartialOK'
  BY <1>4, RestIsIdle DEF Inv, PartialOK, Publishing
<1>9. \A x \in Caller : ObservedOK(x)' /\ BuiltOK(x)' /\ PublishingOK(x)'
  <2> TAKE x \in Caller
  <2>1. CASE x = r
    BY <1>4, <2>1, RestIsIdle DEF ObservedOK, BuiltOK, PublishingOK, Publishing
  <2>2. CASE x # r
    <3>1. job'[x] = job[x]
      BY <1>4, <2>2
    <3>2. ObservedOK(x)' /\ BuiltOK(x)'
      BY <1>1, <3>1, SwapOutdates
    <3>3. PublishingOK(x)'
      <4>1. job[x].built.gen \in Nat
        BY DEF Inv, SwapTypeOK, Job, Snapshot
      <4> QED
        BY <1>3, <1>5, <3>1, <4>1 DEF Inv, PublishingOK, Publishing
    <3> QED
      BY <3>2, <3>3
  <2> QED
    BY <2>1, <2>2
<1>10. SettledOK'
  <2>1. \A x \in Gated : Publishing(x)' <=> Publishing(x)
    BY <1>1, <1>4 DEF Publishing, Caller
  <2> QED
    BY <1>3, <1>5, <2>1 DEF Inv, SettledOK, Settled
<1>11. NewestOK'
  <2>1. runtime.gen <= plugins'.gen
    BY <1>5 DEF Inv, NewestOK
  <2>2. runtime.by = "reload" => plugins'.gen <= runtime.gen + 1 + direct'
    BY <1>3, <1>5 DEF Inv, NewestOK
  <2>3. /\ \A i \in Ingress : ingress[i].gen <= plugins'.gen
        /\ \A q \in Request : pinned[q].snap <= plugins'.gen
    BY <1>5 DEF Inv, NewestOK, SwapTypeOK
  <2> QED
    BY <1>3, <2>1, <2>2, <2>3 DEF Inv, NewestOK
<1>12. \A x \in Caller : job'[x].pc # "idle" => job'[x].cfg \in Config
  BY <1>4, RestIsIdle DEF Inv
<1> QED
  BY <1>3, <1>6, <1>7, <1>8, <1>9, <1>10, <1>11, <1>12 DEF Inv

(***************************************************************************)
(* Past the swap: one more of the things a reload installs.                *)
(***************************************************************************)
LEMMA InstallStep ==
  ASSUME Inv, NEW r \in Caller, NEW to \in {"dynamic", "probe", "finish"},
         Publishing(r), job' = [job EXCEPT ![r].pc = to],
         UNCHANGED <<plugins, gate, ingress, pinned, direct, fileCfg>>,
         runtime' \in [gen : Nat, cfg : Config, by : Origins],
         runtime'.gen <= plugins.gen,
         runtime'.by = "reload" => runtime'.gen = job[r].built.gen /\ runtime'.cfg = job[r].cfg,
         aux' \in [dynamic : Config, probe : Config, token : Config],
         aux'.token = aux.token,
         to # "dynamic" => aux'.dynamic = job[r].cfg,
         to = "finish" /\ runtime'.by = "reload" => aux'.probe = job[r].cfg
  PROVE  Inv'
<1> DEFINE j == [job[r] EXCEPT !.pc = to]
<1>1. j \in Job /\ j.pc = to /\ j.cfg = job[r].cfg /\ j.built = job[r].built
  BY DEF Inv, SwapTypeOK, Job, PCs
<1>2. job' = [job EXCEPT ![r] = j]
  BY DEF Inv, SwapTypeOK
<1> HIDE DEF j
<1>3. /\ job' \in [Caller -> Job] /\ job'[r] = j
      /\ \A x \in Caller \ {r} : job'[x] = job[x]
  BY <1>1, <1>2, JobChange DEF Inv
<1>4. r \in Gated /\ gate = r /\ \A x \in Caller \ {r} : ~Publishing(x)
  BY OnePublishes
<1>5. SwapTypeOK'
  BY <1>3 DEF Inv, SwapTypeOK
<1>6. GateOK' /\ PartialOK'
  BY <1>1, <1>3, <1>4, SwapAssumption DEF Inv, GateOK, PartialOK, Publishing, Caller
<1>7. \A x \in Caller : ObservedOK(x)' /\ BuiltOK(x)' /\ PublishingOK(x)'
  <2> TAKE x \in Caller
  <2>1. CASE x = r
    BY <1>1, <1>3, <2>1 DEF Inv, ObservedOK, BuiltOK, PublishingOK, Publishing
  <2>2. CASE x # r
    BY <1>3, <1>4, <2>2 DEF Inv, ObservedOK, BuiltOK, PublishingOK, Publishing, Loaded
  <2> QED
    BY <2>1, <2>2
<1>8. SettledOK'
  BY <1>1, <1>3, <1>4 DEF SettledOK, Publishing
<1>9. NewestOK'
  <2>1. plugins.gen <= job[r].built.gen + direct /\ direct \in Nat /\ job[r].built.gen \in Nat
    BY DEF Inv, PublishingOK, SwapTypeOK, Job, Snapshot
  <2>2. runtime'.by = "reload" => plugins.gen <= runtime'.gen + 1 + direct
    BY <2>1 DEF Inv, SwapTypeOK, Snapshot
  <2> QED
    BY <2>2 DEF Inv, NewestOK
<1>10. \A x \in Caller : job'[x].pc # "idle" => job'[x].cfg \in Config
  BY <1>1, <1>3 DEF Inv, Publishing
<1> QED
  BY <1>5, <1>6, <1>7, <1>8, <1>9, <1>10 DEF Inv

LEMMA PublishStep ==
  ASSUME Inv, NEW r \in Caller, ApplyRuntime(r) \/ ApplyDynamic(r) \/ SpawnProbe(r)
  PROVE  Inv'
<1>1. /\ Publishing(r) /\ job[r].cfg \in Config /\ job[r].built.gen \in Nat
      /\ job[r].built.gen <= plugins.gen
  BY DEF Inv, SwapTypeOK, Job, Snapshot, PublishingOK, Publishing, ApplyRuntime, ApplyDynamic, SpawnProbe
<1>2. CASE ApplyRuntime(r)
  <2>1. /\ job' = [job EXCEPT ![r].pc = "dynamic"]
        /\ runtime' = [gen |-> job[r].built.gen, cfg |-> job[r].cfg, by |-> "reload"]
        /\ UNCHANGED <<plugins, aux, gate, ingress, pinned, direct, fileCfg>>
    BY <1>2 DEF ApplyRuntime
  <2>2. /\ runtime' \in [gen : Nat, cfg : Config, by : Origins]
        /\ runtime'.gen = job[r].built.gen /\ runtime'.cfg = job[r].cfg
    BY <1>1, <2>1 DEF Origins
  <2> QED
    BY <1>1, <2>1, <2>2, InstallStep DEF Inv, SwapTypeOK
<1>3. CASE ApplyDynamic(r)
  <2>1. /\ job' = [job EXCEPT ![r].pc = "probe"] /\ job[r].pc = "dynamic"
        /\ aux' = [aux EXCEPT !.dynamic = job[r].cfg]
        /\ UNCHANGED <<plugins, runtime, gate, ingress, pinned, direct, fileCfg>>
    BY <1>3 DEF ApplyDynamic
  <2>2. /\ aux' \in [dynamic : Config, probe : Config, token : Config]
        /\ aux'.token = aux.token /\ aux'.dynamic = job[r].cfg
    BY <1>1, <2>1 DEF Inv, SwapTypeOK
  <2>3. runtime.by = "reload" => runtime.gen = job[r].built.gen /\ runtime.cfg = job[r].cfg
    BY <1>1, <2>1 DEF Inv, PublishingOK
  <2> QED
    BY <1>1, <2>1, <2>2, <2>3, InstallStep DEF Inv, SwapTypeOK, NewestOK
<1>4. CASE SpawnProbe(r)
  <2>1. /\ job' = [job EXCEPT ![r].pc = "finish"] /\ job[r].pc = "probe"
        /\ aux' = [aux EXCEPT !.probe = runtime.cfg]
        /\ UNCHANGED <<plugins, runtime, gate, ingress, pinned, direct, fileCfg>>
    BY <1>4 DEF SpawnProbe
  <2>2. /\ aux' \in [dynamic : Config, probe : Config, token : Config]
        /\ aux'.token = aux.token /\ aux'.dynamic = aux.dynamic /\ aux'.probe = runtime.cfg
    BY <1>1, <2>1 DEF Inv, SwapTypeOK
  <2>3. /\ runtime.by = "reload" => runtime.gen = job[r].built.gen /\ runtime.cfg = job[r].cfg
        /\ aux.dynamic = job[r].cfg
    BY <1>1, <2>1 DEF Inv, PublishingOK
  <2> QED
    BY <1>1, <2>1, <2>2, <2>3, InstallStep DEF Inv, SwapTypeOK, NewestOK
<1> QED
  BY <1>2, <1>3, <1>4

(***************************************************************************)
(* The end of a reload: everything it installed is of its configuration.   *)
(***************************************************************************)
LEMMA FinishStep ==
  ASSUME Inv, NEW r \in Caller, FinishJob(r)
  PROVE  Inv'
<1>1. Publishing(r) /\ job[r].pc = "finish" /\ job[r].cfg \in Config /\ job[r].file \in BOOLEAN
  BY DEF Inv, SwapTypeOK, Job, Publishing, FinishJob
<1>2. r \in Gated /\ gate = r /\ \A x \in Caller \ {r} : ~Publishing(x)
  BY <1>1, OnePublishes
<1>3. /\ job' = [job EXCEPT ![r] = Rest] /\ gate' = NoOne
      /\ UNCHANGED <<plugins, runtime, ingress, pinned, direct>>
  BY <1>2, RestIsIdle DEF FinishJob, Unlock
<1>4. /\ aux' \in [dynamic : Config, probe : Config, token : Config] /\ fileCfg' \in Config
      /\ aux'.dynamic = aux.dynamic /\ aux'.probe = aux.probe /\ aux'.token = fileCfg'
  <2>1. CASE job[r].file
    BY <1>1, <2>1 DEF Inv, SwapTypeOK, FinishJob
  <2>2. CASE ~job[r].file
    BY <1>1, <2>2 DEF Inv, SwapTypeOK, FinishJob
  <2> QED
    BY <2>1, <2>2
<1>5. /\ job' \in [Caller -> Job] /\ job'[r] = Rest
      /\ \A x \in Caller \ {r} : job'[x] = job[x]
  BY <1>3, RestIsIdle, JobChange DEF Inv
<1>6. SwapTypeOK'
  BY <1>3, <1>4, <1>5 DEF Inv, SwapTypeOK
<1>7. GateOK'
  BY <1>2, <1>3, <1>5, RestIsIdle, SwapAssumption DEF Inv, GateOK, Caller
<1>8. PartialOK'
  BY <1>5, RestIsIdle DEF Inv, PartialOK, Publishing
<1>9. \A x \in Caller : ObservedOK(x)' /\ BuiltOK(x)' /\ PublishingOK(x)'
  <2> TAKE x \in Caller
  <2>1. CASE x = r
    BY <1>5, <2>1, RestIsIdle DEF ObservedOK, BuiltOK, PublishingOK, Publishing
  <2>2. CASE x # r
    BY <1>2, <1>3, <1>5, <2>2 DEF Inv, ObservedOK, BuiltOK, PublishingOK, Publishing, Loaded
  <2> QED
    BY <2>1, <2>2
<1>10. SettledOK'
  BY <1>1, <1>3, <1>4 DEF Inv, PublishingOK, SettledOK, Settled
<1>11. NewestOK'
  BY <1>3 DEF Inv, NewestOK
<1>12. \A x \in Caller : job'[x].pc # "idle" => job'[x].cfg \in Config
  BY <1>5, RestIsIdle DEF Inv
<1> QED
  BY <1>4, <1>6, <1>7, <1>8, <1>9, <1>10, <1>11, <1>12 DEF Inv

(***************************************************************************)
(* Requests and the ingress task hold nothing of a caller's.  The ingress  *)
(* task may put back a runtime of an older generation.                     *)
(***************************************************************************)
LEMMA OtherStep ==
  ASSUME Inv, UNCHANGED <<plugins, aux, gate, job, direct, fileCfg>>,
         runtime' \in [gen : Nat, cfg : Config, by : Origins],
         runtime' = runtime \/ runtime'.by = "ingress",
         runtime'.gen <= plugins.gen,
         ingress' \in [Ingress -> [pc : {"wait", "apply"}, gen : Nat, cfg : Config \cup {NoConfig}]],
         \A i \in Ingress : ingress'[i].gen <= plugins.gen,
         \A i \in Ingress : ingress'[i].pc = "apply" => ingress'[i].cfg \in Config,
         pinned' \in [Request -> [half : BOOLEAN, snap : Nat]],
         \A q \in Request : pinned'[q].snap <= plugins.gen
  PROVE  Inv'
<1>1. SwapTypeOK'
  BY DEF Inv, SwapTypeOK
<1>2. GateOK' /\ PartialOK'
  BY DEF Inv, GateOK, PartialOK, Publishing
<1>3. \A x \in Caller : ObservedOK(x)' /\ BuiltOK(x)' /\ PublishingOK(x)'
  BY DEF Inv, ObservedOK, BuiltOK, PublishingOK, Publishing, Loaded
<1>4. SettledOK'
  BY DEF Inv, SettledOK, Settled, Publishing
<1>5. NewestOK'
  BY DEF Inv, NewestOK
<1> QED
  BY <1>1, <1>2, <1>3, <1>4, <1>5 DEF Inv

LEMMA PinStep ==
  ASSUME Inv, NEW q \in Request, PinPlugins(q) \/ PinRuntime(q)
  PROVE  Inv'
<1>1. PICK p \in {Unpinned, [half |-> TRUE, snap |-> plugins.gen]} :
        pinned' = [pinned EXCEPT ![q] = p]
  BY DEF PinPlugins, PinRuntime
<1>2. p \in [half : BOOLEAN, snap : Nat] /\ p.snap <= plugins.gen
  <2>1. plugins.gen \in Nat
    BY DEF Inv, SwapTypeOK, Snapshot
  <2>2. CASE p = Unpinned
    BY <2>1, <2>2 DEF Unpinned
  <2>3. CASE p = [half |-> TRUE, snap |-> plugins.gen]
    BY <2>1, <2>3
  <2> QED
    BY <2>2, <2>3
<1>3. /\ pinned' \in [Request -> [half : BOOLEAN, snap : Nat]]
      /\ \A x \in Request : pinned'[x].snap <= plugins.gen
  BY <1>1, <1>2 DEF Inv, SwapTypeOK, NewestOK
<1>4. UNCHANGED <<snapshots, gate, job, ingress, direct, fileCfg>>
  BY DEF PinPlugins, PinRuntime
<1> QED
  BY <1>3, <1>4, OtherStep DEF Inv, SwapTypeOK, NewestOK, snapshots

LEMMA IngressStep ==
  ASSUME Inv, NEW i \in Ingress, IngressApply(i) \/ \E c \in Config : Compose(i, c)
  PROVE  Inv'
<1> DEFINE I == [pc : {"wait", "apply"}, gen : Nat, cfg : Config \cup {NoConfig}]
<1>1. ASSUME NEW t \in I, ingress' = [ingress EXCEPT ![i] = t], t.gen <= plugins.gen,
             t.pc = "apply" => t.cfg \in Config
      PROVE  /\ ingress' \in [Ingress -> I]
             /\ \A x \in Ingress : ingress'[x].gen <= plugins.gen
             /\ \A x \in Ingress : ingress'[x].pc = "apply" => ingress'[x].cfg \in Config
  BY <1>1 DEF Inv, SwapTypeOK, NewestOK
<1>2. CASE IngressApply(i)
  <2>1. Waiting \in I /\ Waiting.gen <= plugins.gen /\ Waiting.pc = "wait"
    BY DEF Waiting, Inv, SwapTypeOK, Snapshot
  <2>2. /\ ingress' = [ingress EXCEPT ![i] = Waiting]
        /\ runtime' = [gen |-> ingress[i].gen, cfg |-> ingress[i].cfg, by |-> "ingress"]
        /\ UNCHANGED <<plugins, aux, gate, job, pinned, direct, fileCfg>>
    BY <1>2 DEF IngressApply
  <2>3. /\ runtime' \in [gen : Nat, cfg : Config, by : Origins]
        /\ runtime'.by = "ingress" /\ runtime'.gen <= plugins.gen
    BY <1>2, <2>2 DEF Inv, SwapTypeOK, NewestOK, Origins, IngressApply
  <2> QED
    BY <1>1, <2>1, <2>2, <2>3, OtherStep DEF Inv, SwapTypeOK, NewestOK
<1>3. ASSUME NEW c \in Config, Compose(i, c) PROVE Inv'
  <2> DEFINE t == [pc |-> "apply", gen |-> plugins.gen, cfg |-> c]
  <2>1. t \in I /\ t.gen <= plugins.gen /\ t.cfg \in Config
    BY DEF Inv, SwapTypeOK, Snapshot
  <2>2. ingress' = [ingress EXCEPT ![i] = t] /\ UNCHANGED <<snapshots, gate, job, pinned, direct, fileCfg>>
    BY <1>3 DEF Compose
  <2> QED
    BY <1>1, <2>1, <2>2, OtherStep DEF Inv, SwapTypeOK, NewestOK, snapshots
<1> QED
  BY <1>2, <1>3

LEMMA NextInv ==
  ASSUME Inv, [SwapNext]_swapVars
  PROVE  Inv'
<1>1. ASSUME NEW r \in Caller, CallerNext(r) PROVE Inv'
  <2>1. CASE \E c \in Config : ReloadFile(r, c) \/ ApplyConfig(r, c) \/ DirectReload(r, c)
    BY <2>1, BeginStep
  <2>2. CASE GiveUp(r)
    BY <2>2, FailStep DEF GiveUp, Publishing
  <2>3. CASE LoadFile(r) \/ Resolve(r)
    <3>1. r \notin Direct
      BY <2>3 DEF Inv, GateOK, LoadFile, Resolve, Advance
    <3> QED
      BY <2>3, <3>1, AdvanceStep DEF LoadFile, Resolve
  <2>4. CASE Observe(r)
    BY <2>4, ObserveStep
  <2>5. CASE \E names \in SUBSET Plugin : Build(r, names)
    BY <2>5, BuildStep
  <2>6. CASE Swap(r)
    BY <2>6, GatedSwap, DirectSwap DEF Caller
  <2>7. CASE SwapLost(r)
    <3>1. job[r].pc = "cas" /\ (Advance(r, "cas", "observe") \/ FailJob(r))
      BY <2>7 DEF SwapLost
    <3> QED
      BY <3>1, AdvanceStep, FailStep DEF Publishing
  <2>8. CASE ApplyRuntime(r) \/ ApplyDynamic(r) \/ SpawnProbe(r)
    BY <2>8, PublishStep
  <2>9. CASE FinishJob(r)
    BY <2>9, FinishStep
  <2> QED
    BY <1>1, <2>1, <2>2, <2>3, <2>4, <2>5, <2>6, <2>7, <2>8, <2>9 DEF CallerNext
<1>2. CASE UNCHANGED swapVars
  <2>1. UNCHANGED <<plugins, runtime, aux, gate, job, ingress, pinned, direct, fileCfg>>
    BY <1>2 DEF swapVars
  <2> QED
    BY <2>1, OtherStep DEF Inv, SwapTypeOK, NewestOK
<1> QED
  BY <1>1, <1>2, PinStep, IngressStep DEF SwapNext

(***************************************************************************)
(* The invariant holds throughout.                                         *)
(***************************************************************************)
THEOREM InvHolds == SwapSpec => []Inv
<1>1. Inv /\ [SwapNext]_swapVars => Inv'
  BY NextInv
<1> QED
  BY InitInv, <1>1, PTL DEF SwapSpec

(***************************************************************************)
(* A reload that failed, lost every race or was dropped has published      *)
(* nothing (ReloadError::Failed), whatever the other callers do.           *)
(***************************************************************************)
THEOREM AllOrNothing == SwapSpec => []FailureChangesNothing
<1>1. Inv => FailureChangesNothing
  BY DEF Inv, PartialOK, Publishing, FailureChangesNothing
<1> QED
  BY InvHolds, <1>1, PTL

(***************************************************************************)
(* Whenever the reload gate is free, everything a reload installs is of    *)
(* one configuration, and the admin token is the last file reload's        *)
(* (publish, reload).                                                      *)
(***************************************************************************)
THEOREM SettledAgrees == SwapSpec => []SettledAgreement
<1>1. Inv => SettledAgreement
  <2> SUFFICES ASSUME Inv, gate = NoOne
               PROVE  aux.token = fileCfg /\ Settled
    BY DEF SettledAgreement, Settled
  <2>1. \A r \in Gated : ~Publishing(r)
    BY SwapAssumption DEF Inv, GateOK, Publishing
  <2> QED
    BY <2>1 DEF Inv, SettledOK
<1> QED
  BY InvHolds, <1>1, PTL

(***************************************************************************)
(* A request's runtime is at most one gated publication older than the     *)
(* plugins it pinned first (handle_request step 1).                        *)
(***************************************************************************)
THEOREM PinsAreClose == SwapSpec => []PinsOneBehind
<1>1. Inv => PinsOneBehind
  <2> SUFFICES ASSUME Inv, NEW q \in Request, runtime.by = "reload"
               PROVE  pinned[q].snap <= runtime.gen + 1 + direct
    BY DEF PinsOneBehind
  <2>1. pinned[q].snap <= plugins.gen /\ plugins.gen <= runtime.gen + 1 + direct
    BY DEF Inv, NewestOK
  <2>2. /\ pinned[q].snap \in Nat /\ plugins.gen \in Nat /\ runtime.gen \in Nat /\ direct \in Nat
    BY DEF Inv, SwapTypeOK, Snapshot
  <2> QED
    BY <2>1, <2>2
<1> QED
  BY InvHolds, <1>1, PTL

(***************************************************************************)
(* No reload takes the runtime back: two gated reloads cannot publish      *)
(* their plugins in one order and their runtimes in the other              *)
(* (reload_gate).                                                          *)
(***************************************************************************)
THEOREM RuntimeOnlyAdvances == SwapSpec => RuntimeMonotone
<1> DEFINE Monotone == runtime'.by = "reload" => runtime'.gen + direct >= runtime.gen
<1>1. Inv /\ [SwapNext]_swapVars => [Monotone]_swapVars
  <2> SUFFICES ASSUME Inv, SwapNext PROVE Monotone
    BY DEF swapVars
  <2>1. /\ runtime.gen \in Nat /\ direct \in Nat /\ plugins.gen \in Nat
        /\ \A r \in Caller : job[r].built.gen \in Nat
    BY DEF Inv, SwapTypeOK, Snapshot, Job
  <2>2. CASE \E r \in Caller : ApplyRuntime(r)
    <3>1. PICK r \in Caller : ApplyRuntime(r)
      BY <2>2
    <3>2. runtime'.gen = job[r].built.gen /\ plugins.gen <= job[r].built.gen + direct
      BY <3>1 DEF ApplyRuntime, Inv, PublishingOK, Publishing
    <3> QED
      BY <2>1, <3>2 DEF Inv, NewestOK
  <2>3. CASE \E i \in Ingress : IngressApply(i)
    BY <2>3 DEF IngressApply
  <2>4. CASE UNCHANGED runtime
    BY <2>1, <2>4
  <2>5. \/ \E r \in Caller : ApplyRuntime(r)
        \/ \E i \in Ingress : IngressApply(i)
        \/ UNCHANGED runtime
    BY DEF SwapNext, CallerNext, ReloadFile, ApplyConfig, DirectReload, BeginJob, GiveUp, FailJob, LoadFile, Resolve,
       Advance, Observe, Build, Swap, SwapLost, ApplyDynamic, SpawnProbe, FinishJob, snapshots,
       Compose, PinPlugins, PinRuntime
  <2> QED
    BY <2>2, <2>3, <2>4, <2>5
<1> QED
  BY InvHolds, <1>1, PTL DEF SwapSpec, RuntimeMonotone

(***************************************************************************)
(* No interleaving of gated and direct reloads forks the host state of a   *)
(* plugin that two successive snapshots have (load_plugins, the            *)
(* compare-and-swap of reload).                                            *)
(***************************************************************************)
THEOREM HostStateIsKept == SwapSpec => HostStateContinuity
<1> DEFINE Kept == \A n \in Loaded(plugins) \cap Loaded(plugins') : plugins'.state[n] = plugins.state[n]
<1>1. Inv /\ [SwapNext]_swapVars => [Kept]_swapVars
  <2> SUFFICES ASSUME Inv, SwapNext PROVE Kept
    BY DEF swapVars
  <2>1. CASE \E r \in Caller : Swap(r)
    BY <2>1 DEF Swap, Inv, BuiltOK
  <2>2. CASE UNCHANGED plugins
    BY <2>2
  <2>3. (\E r \in Caller : Swap(r)) \/ UNCHANGED plugins
    BY DEF SwapNext, CallerNext, ReloadFile, ApplyConfig, DirectReload, BeginJob, GiveUp, FailJob, LoadFile, Resolve,
       Advance, Observe, Build, SwapLost, ApplyRuntime, ApplyDynamic, SpawnProbe, FinishJob, snapshots,
       Compose, IngressApply, PinPlugins, PinRuntime
  <2> QED
    BY <2>1, <2>2, <2>3
<1> QED
  BY InvHolds, <1>1, PTL DEF SwapSpec, HostStateContinuity
=============================================================================
