--------------------------- MODULE HealthTimeline ---------------------------
(***************************************************************************)
(* One upstream's health registry over time: request outcomes, sweeps of   *)
(* the active prober, reloads that reorder, add and remove peers, and the  *)
(* clock.  Requests with an outdated configuration are the subject of      *)
(* ProxyAttempts; here the index of an outcome means the address that      *)
(* holds it.  A probe awaits its answer and keeps the index and the        *)
(* address it had when its sweep began, whatever is reloaded meanwhile.    *)
(***************************************************************************)
EXTENDS PeerHealth

CONSTANTS
  Configs,  \* [peers : Seq(Addr), active : BOOLEAN]: configurations to reload to
  MaxNow    \* bound on the clock

ASSUME TimelineAssumption ==
  /\ \A c \in Configs : c.peers \in Seq(Addr) /\ c.active \in BOOLEAN
  /\ MaxNow \in Nat

VARIABLES
  config,  \* the configuration in effect
  slots,   \* the block registered for it
  table,   \* the active plane, by address
  now,     \* the clock
  flying,  \* the probes that await their answer: index and address
  rearm,   \* a reload is on its way from its registration to spawn
  misled,  \* history: addresses whose slot a probe of an older list wrote or missed
  run,     \* history: per address the times of its latest Burst failures since
           \* it was added, succeeded or was marked down
  repeats  \* history: addresses that some block so far had in two slots, which
           \* count their outcomes apart

vars == <<config, slots, table, now, flying, rearm, misled, run, repeats>>
probeVars == <<flying, rearm, misled>>

(***************************************************************************)
(* The window is anchored at its first failure, so MaxFails failures can   *)
(* straddle two windows; of Burst failures, MaxFails share one.            *)
(***************************************************************************)
Burst == 2 * MaxFails - 1

NoRun == [a \in Addr |-> <<>>]

TypeOK ==
  /\ config \in Configs
  /\ slots \in Seq(Slot)
  /\ table \in [Addr -> ActivePeer]
  /\ now \in Nat
  /\ \A p \in flying : p.addr \in Addr /\ p.idx \in Nat
  /\ rearm \in BOOLEAN
  /\ misled \subseteq Addr
  /\ run \in [Addr -> Seq(Nat)]
  /\ repeats \subseteq Addr

(***************************************************************************)
(* The process clock is far beyond the failure window when it starts.      *)
(***************************************************************************)
Init ==
  /\ config \in Configs
  /\ table = [a \in Addr |-> FreshActive]
  /\ slots = Register(<<>>, table, config.peers)
  /\ now = FailWindow + 1
  /\ flying = {} /\ rearm = FALSE /\ misled = {}
  /\ run = NoRun /\ repeats = Doubled(slots)

Extended(r, t) == LET all == Append(r, t)
                  IN  IF Len(all) <= Burst THEN all ELSE Tail(all)

Fail(i) ==
  /\ i \in DOMAIN slots
  /\ slots' = RecordFailure(slots, i, now)
  /\ LET a == slots[i].addr
     IN  run' = [run EXCEPT ![a] = IF slots'[i].fails = 0 THEN <<>> ELSE Extended(run[a], now)]
  /\ UNCHANGED <<config, table, now, probeVars, repeats>>

Succeed(i) ==
  /\ i \in DOMAIN slots
  /\ slots' = RecordSuccess(slots, i, now)
  /\ run' = [run EXCEPT ![slots[i].addr] = <<>>]
  /\ UNCHANGED <<config, table, now, probeVars, repeats>>

(***************************************************************************)
(* probe_tick: one sweep at a time over the peers of the runtime, if that  *)
(* configuration probes at all.                                            *)
(***************************************************************************)
ProbeTick ==
  /\ config.active /\ flying = {}
  /\ flying' = {[idx |-> i, addr |-> config.peers[i]] : i \in DOMAIN config.peers}
  /\ UNCHANGED <<config, slots, table, now, rearm, misled, run, repeats>>

\* The counters are compared with the thresholds only and saturate there.
Saturated(p) ==
  [healthy   |-> p.healthy,
   fails     |-> IF p.fails > UnhealthyThreshold THEN UnhealthyThreshold ELSE p.fails,
   successes |-> IF p.successes > HealthyThreshold THEN HealthyThreshold ELSE p.successes]

RecordProbe(i, a, ok) ==
  LET p == Saturated(EvaluateActive(table[a], ok))
  IN  /\ table' = [table EXCEPT ![a] = p]
      /\ slots' = Mirror(slots, i, p.healthy)

Held(i) == IF i \in DOMAIN slots THEN {slots[i].addr} ELSE {}

\* probe_peer, from its await on: an answer, an error or the timeout.
Probe(p, ok) ==
  /\ p \in flying
  /\ flying' = flying \ {p}
  /\ RecordProbe(p.idx, p.addr, ok)
  /\ misled' = IF Held(p.idx) = {p.addr} THEN misled \ {p.addr}
               ELSE misled \cup Held(p.idx) \cup {p.addr}
  /\ UNCHANGED <<config, now, rearm, run, repeats>>

PeersOf(c) == {c.peers[i] : i \in DOMAIN c.peers}

(***************************************************************************)
(* A reload registers the new list and later re-arms the prober (Spawn);   *)
(* the ingress plane registers lists and leaves the sweep alone.           *)
(***************************************************************************)
Reload(c, gated) ==
  /\ config' = c
  /\ slots' = Register(slots, table, c.peers)
  /\ run' = [a \in Addr |-> IF a \in PeersOf(config) \cap PeersOf(c)
                            THEN run[a] ELSE <<>>]
  /\ rearm' = (rearm \/ gated)
  /\ misled' = {}
  /\ repeats' = repeats \cup Doubled(slots')
  /\ UNCHANGED <<table, now, flying>>

\* spawn aborts the task with its sweep.
Spawn ==
  /\ rearm
  /\ rearm' = FALSE /\ flying' = {}
  /\ UNCHANGED <<config, slots, table, now, misled, run, repeats>>

Tick ==
  /\ now < MaxNow
  /\ now' = now + 1
  /\ UNCHANGED <<config, slots, table, probeVars, run, repeats>>

Traffic == \E i \in DOMAIN slots : Fail(i) \/ Succeed(i)

Prober ==
  \/ ProbeTick
  \/ \E p \in flying, ok \in BOOLEAN : Probe(p, ok)
  \/ Spawn

Publishers == \E c \in Configs, gated \in BOOLEAN : Reload(c, gated)

Next == Traffic \/ Prober \/ Publishers \/ Tick

Spec == Init /\ [][Next]_vars

-----------------------------------------------------------------------------
(***************************************************************************)
(* Down marking of an address (record_failure, evaluate_failure): it is    *)
(* raised only by the last of MaxFails failures of that very address with  *)
(* no success, no other marking and no absence from the configuration      *)
(* between them, all within FailWindow, and it lasts FailTimeout.  An      *)
(* address that a list named twice is excepted: its slots count apart.     *)
(***************************************************************************)
DownUntil(sl, a) == IF SlotsOf(sl, a) = {} THEN 0 ELSE sl[AddrSlot(sl, a)].downUntil

DownIsEarned ==
  [][\A a \in Addr \ repeats :
       DownUntil(slots', a) > DownUntil(slots, a) =>
         /\ Len(run[a]) >= MaxFails - 1
         /\ \A k \in Len(run[a]) - MaxFails + 2 .. Len(run[a]) :
              now - run[a][k] <= FailWindow
         /\ DownUntil(slots', a) = now + FailTimeout]_vars

(***************************************************************************)
(* A reload is neutral (register): an address in both configurations is    *)
(* routable after it exactly when it was before, wherever it moved, unless *)
(* a probe of an older list had misled it: then the reload repairs it.  Of *)
(* the two slots of an address listed twice, only the last is kept.        *)
(***************************************************************************)
ReloadIsNeutral ==
  [][\A i \in DOMAIN slots, j \in DOMAIN slots' :
       /\ config' # config
       /\ slots[i].addr = slots'[j].addr
       /\ slots[i].addr \notin misled \cup Doubled(slots)
       => (IsHealthy(slots, i, now) <=> IsHealthy(slots', j, now))]_vars

(***************************************************************************)
(* The two copies of the active verdict agree: the slot of an address      *)
(* mirrors the table's entry for it (record_probe, register), although     *)
(* each is written by a different function at a different time.  Only a    *)
(* probe that outlived its list (probe_peer's await) can part them, and    *)
(* they agree again with the next probe of the address or reload.  An      *)
(* address listed twice has two mirrors, and a probe writes one of them.   *)
(***************************************************************************)
MirrorAgrees ==
  \A i \in DOMAIN slots :
    slots[i].addr \notin misled \cup Doubled(slots) =>
      slots[i].activeOk = table[slots[i].addr].healthy

(***************************************************************************)
(* No burst goes unpunished (record_failure): Burst consecutive failures   *)
(* of an address within FailWindow never leave it unmarked, however the    *)
(* windows and the reloads fall between them (an address listed twice      *)
(* spreads them over two slots).                                           *)
(***************************************************************************)
BurstIsCaught ==
  \A a \in Addr \ repeats :
    MaxFails > 0 /\ Len(run[a]) = Burst => run[a][Burst] - run[a][1] > FailWindow

(***************************************************************************)
(* The registry's comment says the table entries of removed peers are      *)
(* harmless because index-based paths never consult them: an address that  *)
(* comes back in a configuration without active health checking, where no  *)
(* probe could ever lift a verdict, comes back in rotation.                *)
(***************************************************************************)
LeftoverVerdictIsHarmless ==
  [][\A j \in DOMAIN slots' :
       /\ config' # config
       /\ ~config'.active
       /\ slots'[j].addr \notin PeersOf(config)
       => slots'[j].activeOk]_vars
=============================================================================
