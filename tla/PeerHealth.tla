---------------------------- MODULE PeerHealth ----------------------------
(***************************************************************************)
(* The health registry of one upstream (crates/openrusty-proxy, health.rs) *)
(* as a value and the operations on it.  A registry holds                  *)
(*                                                                         *)
(*   - a block of slots, one per peer of the configuration it was last     *)
(*     registered with, in the order of that configuration: the passive    *)
(*     plane (failure window, down marking), the mirrored verdict of the   *)
(*     active plane and the in-flight gauge;                               *)
(*   - the table of the active plane, keyed by address, which outlives the *)
(*     blocks.                                                             *)
(*                                                                         *)
(* Operations on a peer's outcome take the peer's INDEX in the caller's    *)
(* own configuration; operations on the gauge take its ADDRESS.  The       *)
(* modules that extend this one decide who calls what, when, and with a    *)
(* configuration of which age.                                             *)
(*                                                                         *)
(* Time is a natural number; FailWindow and FailTimeout are in its unit.   *)
(***************************************************************************)
EXTENDS Integers, Sequences, FiniteSets, FiniteSetsExt

CONSTANTS
  Addr,               \* peer socket addresses
  MaxFails,           \* health.max_fails; 0 turns the passive plane off
  FailWindow,         \* health.fail_window_s
  FailTimeout,        \* health.fail_timeout_s
  UnhealthyThreshold, \* health.active.unhealthy_threshold
  HealthyThreshold    \* health.active.healthy_threshold

ASSUME HealthAssumption ==
  /\ MaxFails \in Nat
  /\ FailWindow \in Nat
  /\ FailTimeout \in Nat
  /\ UnhealthyThreshold \in Nat \ {0}
  /\ HealthyThreshold \in Nat \ {0}

(***************************************************************************)
(* The state of one slot and of one entry of the active table.  An address *)
(* without an entry behaves as the entry FreshActive, so the table is a    *)
(* total function.                                                         *)
(***************************************************************************)
Slot == [addr : Addr, fails : Nat, windowStart : Nat, downUntil : Nat,
         activeOk : BOOLEAN, inFlight : Nat]

FreshSlot(a) == [addr |-> a, fails |-> 0, windowStart |-> 0, downUntil |-> 0,
                 activeOk |-> TRUE, inFlight |-> 0]

ActivePeer == [healthy : BOOLEAN, fails : Nat, successes : Nat]

FreshActive == [healthy |-> TRUE, fails |-> 0, successes |-> 0]

(***************************************************************************)
(* register: a new block for the peer list `list`.  Each address takes the *)
(* state of the (last) slot that held it and the verdict of the active     *)
(* table.                                                                  *)
(***************************************************************************)
SlotsOf(slots, a) == {i \in DOMAIN slots : slots[i].addr = a}

\* The addresses with more than one slot: no validation refuses a list that
\* names an address twice.
Doubled(slots) == {a \in Addr : \E i, j \in SlotsOf(slots, a) : i # j}

\* Mutation: the gauge is not carried over.
InheritedWithoutGauge(slots, a) ==
  IF SlotsOf(slots, a) = {}
  THEN FreshSlot(a)
  ELSE [slots[Max(SlotsOf(slots, a))] EXCEPT !.inFlight = 0]

Inherited(slots, a) ==
  IF SlotsOf(slots, a) = {} THEN FreshSlot(a) ELSE slots[Max(SlotsOf(slots, a))]

\* Mutations: no backfill of the active verdict; state remapped by index.
RegisterWithoutBackfill(slots, table, list) ==
  [i \in DOMAIN list |-> Inherited(slots, list[i])]

RegisterByIndex(slots, table, list) ==
  [i \in DOMAIN list |->
     [(IF i \in DOMAIN slots THEN slots[i] ELSE FreshSlot(list[i]))
        EXCEPT !.addr = list[i], !.activeOk = table[list[i]].healthy]]

Register(slots, table, list) ==
  [i \in DOMAIN list |->
     [Inherited(slots, list[i]) EXCEPT !.activeOk = table[list[i]].healthy]]

(***************************************************************************)
(* Health of a peer by index; an index the block does not have is healthy. *)
(***************************************************************************)
IsHealthy(slots, i, t) ==
  i \in DOMAIN slots => slots[i].downUntil <= t /\ slots[i].activeOk

HealthyIndices(slots, n, t) == {i \in 1..n : IsHealthy(slots, i, t)}

(***************************************************************************)
(* Passive plane.  evaluate_failure answers the end of the down marking,   *)
(* or nothing (NoTrip), for a count that already includes the failure.     *)
(***************************************************************************)
NoTrip == -1

\* Mutation: one failure too late.
EvaluateFailureLate(failsAfter, windowStart, t) ==
  IF /\ MaxFails # 0
     /\ t - windowStart <= FailWindow
     /\ failsAfter > MaxFails
  THEN t + FailTimeout
  ELSE NoTrip

EvaluateFailure(failsAfter, windowStart, t) ==
  IF /\ MaxFails # 0
     /\ t - windowStart <= FailWindow
     /\ failsAfter >= MaxFails
  THEN t + FailTimeout
  ELSE NoTrip

SlotAfterFailure(s, t) ==
  LET stale == t - s.windowStart > FailWindow
      start == IF stale THEN t ELSE s.windowStart
      count == (IF stale THEN 0 ELSE s.fails) + 1
      until == EvaluateFailure(count, start, t)
  IN  [s EXCEPT !.windowStart = start,
                !.fails = IF until = NoTrip THEN count ELSE 0,
                !.downUntil = IF until = NoTrip THEN @ ELSE until]

RecordFailure(slots, i, t) ==
  IF MaxFails = 0 \/ i \notin DOMAIN slots
  THEN slots
  ELSE [slots EXCEPT ![i] = SlotAfterFailure(@, t)]

\* Mutation: a success moves the window and keeps the count.
SlotAfterSuccessKeepsCount(s, t) == [s EXCEPT !.windowStart = t]

SlotAfterSuccess(s, t) == [s EXCEPT !.fails = 0, !.windowStart = t]

RecordSuccess(slots, i, t) ==
  IF i \notin DOMAIN slots
  THEN slots
  ELSE [slots EXCEPT ![i] = SlotAfterSuccess(@, t)]

(***************************************************************************)
(* Active plane: the consecutive counters of an address, then the mirror   *)
(* of the verdict into the slot of an index.                               *)
(***************************************************************************)
EvaluateActive(p, ok) ==
  IF ok
  THEN [healthy   |-> p.healthy \/ p.successes + 1 >= HealthyThreshold,
        fails     |-> 0,
        successes |-> p.successes + 1]
  ELSE [healthy   |-> p.healthy /\ p.fails + 1 < UnhealthyThreshold,
        fails     |-> p.fails + 1,
        successes |-> 0]

Mirror(slots, i, healthy) ==
  IF i \notin DOMAIN slots
  THEN slots
  ELSE [slots EXCEPT ![i].activeOk = healthy]

(***************************************************************************)
(* In-flight gauge, by address: the first slot that holds it.              *)
(***************************************************************************)
AddrSlot(slots, a) == Min(SlotsOf(slots, a))

IncInFlight(slots, a) ==
  IF SlotsOf(slots, a) = {}
  THEN slots
  ELSE [slots EXCEPT ![AddrSlot(slots, a)].inFlight = @ + 1]

\* Mutation: the clamp one too high.
DecInFlightKeepsOne(slots, a) ==
  IF SlotsOf(slots, a) = {}
  THEN slots
  ELSE [slots EXCEPT ![AddrSlot(slots, a)].inFlight = IF @ <= 1 THEN @ ELSE @ - 1]

DecInFlight(slots, a) ==
  IF SlotsOf(slots, a) = {}
  THEN slots
  ELSE [slots EXCEPT ![AddrSlot(slots, a)].inFlight = IF @ = 0 THEN 0 ELSE @ - 1]

Gauge(slots, a) ==
  IF SlotsOf(slots, a) = {} THEN 0 ELSE slots[AddrSlot(slots, a)].inFlight
=============================================================================
