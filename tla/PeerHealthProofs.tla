-------------------------- MODULE PeerHealthProofs --------------------------
(***************************************************************************)
(* What the operations of the health registry preserve, for every block,   *)
(* also one with two slots of an address: the type of the block, the       *)
(* addresses it has, and the in-flight gauge of every address the          *)
(* operation is not about.                                                 *)
(***************************************************************************)
EXTENDS PeerHealth, SequenceTheorems, WellFoundedInduction, TLAPS

Once(sl, a) == \A i, j \in SlotsOf(sl, a) : i = j

Listed(l, a) == \E i \in DOMAIN l : l[i] = a

\* sl2 has the slots of sl, each with its address and its gauge.
SameGauges(sl, sl2) ==
  /\ DOMAIN sl2 = DOMAIN sl
  /\ \A i \in DOMAIN sl : sl2[i].addr = sl[i].addr /\ sl2[i].inFlight = sl[i].inFlight

(***************************************************************************)
(* A set of natural numbers has a smallest element.                        *)
(***************************************************************************)
LessThan == {ss \in Nat \X Nat : ss[1] < ss[2]}

LEMMA SmallestElement ==
  ASSUME NEW S, S \subseteq Nat, S # {}
  PROVE  \E x \in S : \A y \in S : x <= y
<1>1. IsWellFoundedOn(LessThan, Nat)
  BY NatLessThanWellFounded, Zenon DEF OpToRel, LessThan
<1>2. PICK x \in S : \A y \in S : ~ (<<y, x>> \in LessThan)
  BY <1>1, WFMin, Zenon
<1>3. \A y \in S : ~(y < x)
  BY <1>2 DEF LessThan
<1>4. \A y \in S : x <= y
  BY <1>3
<1> QED
  BY <1>4

(***************************************************************************)
(* The types of the fields of a slot.                                      *)
(***************************************************************************)
LEMMA SlotFields ==
  ASSUME NEW s \in Slot
  PROVE  /\ s.addr \in Addr /\ s.fails \in Nat /\ s.windowStart \in Nat
         /\ s.downUntil \in Nat /\ s.activeOk \in BOOLEAN /\ s.inFlight \in Nat
  BY DEF Slot

(***************************************************************************)
(* A slot with another gauge is a slot of the same address.                *)
(***************************************************************************)
LEMMA SlotWithGauge ==
  ASSUME NEW s \in Slot, NEW n \in Nat
  PROVE  /\ [s EXCEPT !.inFlight = n] \in Slot
         /\ [s EXCEPT !.inFlight = n].addr = s.addr
         /\ [s EXCEPT !.inFlight = n].inFlight = n
  BY DEF Slot

(***************************************************************************)
(* A slot with another verdict of the active plane keeps the rest.         *)
(***************************************************************************)
LEMMA SlotWithVerdict ==
  ASSUME NEW s \in Slot, NEW ok \in BOOLEAN
  PROVE  /\ [s EXCEPT !.activeOk = ok] \in Slot
         /\ [s EXCEPT !.activeOk = ok].addr = s.addr
         /\ [s EXCEPT !.activeOk = ok].inFlight = s.inFlight
  BY DEF Slot

(***************************************************************************)
(* A block is a function from 1..n to slots.                               *)
(***************************************************************************)
LEMMA BlockIsFunction ==
  ASSUME NEW sl \in Seq(Slot)
  PROVE  /\ DOMAIN sl = 1..Len(sl) /\ Len(sl) \in Nat
         /\ DOMAIN sl \subseteq Nat
         /\ \A i \in DOMAIN sl : sl[i] \in Slot
  BY LenProperties, ElementOfSeq

(***************************************************************************)
(* Writing one gauge changes nothing else of a block.                      *)
(***************************************************************************)
LEMMA GaugeWrite ==
  ASSUME NEW sl \in Seq(Slot), NEW i \in DOMAIN sl, NEW n \in Nat, NEW new,
         new = [sl EXCEPT ![i] = [sl[i] EXCEPT !.inFlight = n]]
  PROVE  /\ new \in Seq(Slot) /\ DOMAIN new = DOMAIN sl
         /\ \A j \in DOMAIN sl : new[j].addr = sl[j].addr
         /\ \A j \in DOMAIN sl : j # i => new[j] = sl[j]
         /\ new[i].inFlight = n
<1> DEFINE e == [sl[i] EXCEPT !.inFlight = n]
<1>1. sl[i] \in Slot /\ i \in 1..Len(sl) /\ DOMAIN sl = 1..Len(sl)
  BY BlockIsFunction
<1>2. e \in Slot /\ e.addr = sl[i].addr /\ e.inFlight = n
  BY <1>1, SlotWithGauge
<1> HIDE DEF e
<1>3. new = [sl EXCEPT ![i] = e]
  BY DEF e
<1>4. new \in Seq(Slot) /\ DOMAIN new = DOMAIN sl
  BY <1>1, <1>2, <1>3, ExceptSeq
<1>5. new[i] = e /\ \A j \in DOMAIN sl : j # i => new[j] = sl[j]
  BY <1>3
<1> QED
  BY <1>2, <1>4, <1>5

(***************************************************************************)
(* addr_slot finds a slot of the address, and so does the inheritance of a *)
(* registration, which takes the last one.                                 *)
(***************************************************************************)
LEMMA SlotFound ==
  ASSUME NEW sl \in Seq(Slot), NEW a, SlotsOf(sl, a) # {}
  PROVE  /\ AddrSlot(sl, a) \in DOMAIN sl /\ sl[AddrSlot(sl, a)].addr = a
         /\ Max(SlotsOf(sl, a)) \in DOMAIN sl /\ sl[Max(SlotsOf(sl, a))].addr = a
<1> DEFINE S == SlotsOf(sl, a)
           B == {n \in Nat : \A i \in S : i <= n}
<1>1. S \in SUBSET Nat /\ S # {} /\ \A i \in S : i <= Len(sl)
  BY BlockIsFunction DEF SlotsOf
<1>2. Len(sl) \in B
  BY <1>1, BlockIsFunction
<1>3. PICK n \in B : \A m \in B : n <= m
  <2>1. B \subseteq Nat /\ B # {}
    BY <1>2
  <2> HIDE DEF B
  <2> QED
    BY <2>1, SmallestElement
<1>4. n \in S
  <2>1. CASE n = 0
    BY <2>1, <1>1, <1>3
  <2>2. CASE n # 0
    <3>1. n - 1 \in Nat /\ n - 1 \notin B
      BY <2>2, <1>3
    <3> QED
      BY <3>1, <1>1, <1>3
  <2> QED
    BY <2>1, <2>2
<1>5. \E x \in S : \A y \in S : x >= y
  BY <1>1, <1>3, <1>4
<1> HIDE DEF S
<1>6. \E x \in S : \A y \in S : x =< y
  BY <1>1, SmallestElement
<1>7. Min(S) \in S /\ Max(S) \in S
  BY <1>5, <1>6 DEF Min, Max
<1> QED
  BY <1>7 DEF S, SlotsOf, AddrSlot

(***************************************************************************)
(* The gauge of an address with a slot is that of the slot addr_slot finds.*)
(***************************************************************************)
LEMMA GaugeType ==
  ASSUME NEW sl \in Seq(Slot), NEW a
  PROVE  Gauge(sl, a) \in Nat
<1>1. CASE SlotsOf(sl, a) = {}
  BY <1>1 DEF Gauge
<1>2. CASE SlotsOf(sl, a) # {}
  <2>1. sl[AddrSlot(sl, a)] \in Slot
    BY <1>2, SlotFound, BlockIsFunction
  <2> QED
    BY <2>1, <1>2, SlotFields DEF Gauge
<1> QED
  BY <1>1, <1>2

(***************************************************************************)
(* Two blocks with the same addresses and gauges, slot by slot, agree on   *)
(* every gauge and on every address.                                       *)
(***************************************************************************)
LEMMA SameGaugesLemma ==
  ASSUME NEW sl \in Seq(Slot), NEW sl2, SameGauges(sl, sl2)
  PROVE  /\ \A a : SlotsOf(sl2, a) = SlotsOf(sl, a)
         /\ \A a : Gauge(sl2, a) = Gauge(sl, a)
<1>1. ASSUME NEW a PROVE SlotsOf(sl2, a) = SlotsOf(sl, a)
  BY DEF SlotsOf, SameGauges
<1>2. ASSUME NEW a PROVE Gauge(sl2, a) = Gauge(sl, a)
  <2>1. CASE SlotsOf(sl, a) = {}
    BY <2>1, <1>1 DEF Gauge
  <2>2. CASE SlotsOf(sl, a) # {}
    <3>1. AddrSlot(sl2, a) = AddrSlot(sl, a) /\ AddrSlot(sl, a) \in DOMAIN sl
      BY <2>2, <1>1, SlotFound DEF AddrSlot
    <3> QED
      BY <2>2, <3>1, <1>1 DEF Gauge, SameGauges
  <2> QED
    BY <2>1, <2>2
<1> QED
  BY <1>1, <1>2

(***************************************************************************)
(* Recording an outcome (record_failure, record_success) touches neither   *)
(* an address nor a gauge.                                                 *)
(***************************************************************************)
LEMMA OutcomeKeepsGauges ==
  ASSUME NEW sl \in Seq(Slot), NEW i \in Nat, NEW t \in Nat
  PROVE  /\ RecordFailure(sl, i, t) \in Seq(Slot)
         /\ SameGauges(sl, RecordFailure(sl, i, t))
         /\ RecordSuccess(sl, i, t) \in Seq(Slot)
         /\ SameGauges(sl, RecordSuccess(sl, i, t))
<1>1. CASE i \notin DOMAIN sl
  BY <1>1 DEF RecordFailure, RecordSuccess, SameGauges
<1>2. CASE i \in DOMAIN sl
  <2>1. sl[i] \in Slot /\ i \in 1..Len(sl)
    BY <1>2, BlockIsFunction
  <2>2. SlotAfterFailure(sl[i], t) \in Slot
    <3> DEFINE stale == t - sl[i].windowStart > FailWindow
               start == IF stale THEN t ELSE sl[i].windowStart
               count == (IF stale THEN 0 ELSE sl[i].fails) + 1
               until == EvaluateFailure(count, start, t)
               fails == IF until = NoTrip THEN count ELSE 0
               down  == IF until = NoTrip THEN sl[i].downUntil ELSE until
    <3>1. start \in Nat /\ count \in Nat
      BY <2>1, SlotFields
    <3>2. until \in Nat \/ until = NoTrip
      <4> HIDE DEF start, count
      <4> QED
        BY <3>1, HealthAssumption DEF EvaluateFailure
    <3>3. fails \in Nat /\ down \in Nat
      <4> HIDE DEF start, count, until
      <4> QED
        BY <3>1, <3>2, <2>1 DEF Slot
    <3>4. SlotAfterFailure(sl[i], t)
            = [sl[i] EXCEPT !.windowStart = start, !.fails = fails, !.downUntil = down]
      BY DEF SlotAfterFailure
    <3> HIDE DEF start, fails, down
    <3> QED
      BY <3>1, <3>3, <3>4, <2>1 DEF Slot
  <2>3. /\ SlotAfterFailure(sl[i], t).addr = sl[i].addr
        /\ SlotAfterFailure(sl[i], t).inFlight = sl[i].inFlight
    BY <2>1 DEF SlotAfterFailure, Slot
  <2>4. SlotAfterSuccess(sl[i], t) \in Slot
    BY <2>1 DEF SlotAfterSuccess, Slot
  <2>5. /\ SlotAfterSuccess(sl[i], t).addr = sl[i].addr
        /\ SlotAfterSuccess(sl[i], t).inFlight = sl[i].inFlight
    BY <2>1 DEF SlotAfterSuccess, Slot
  <2>6. RecordFailure(sl, i, t) \in Seq(Slot) /\ SameGauges(sl, RecordFailure(sl, i, t))
    <3>1. CASE MaxFails = 0
      BY <3>1 DEF RecordFailure, SameGauges
    <3>2. CASE MaxFails # 0
      <4>1. RecordFailure(sl, i, t) = [sl EXCEPT ![i] = SlotAfterFailure(sl[i], t)]
        BY <3>2, <1>2 DEF RecordFailure
      <4> QED
        BY <4>1, <2>1, <2>2, <2>3, ExceptSeq, BlockIsFunction DEF SameGauges
    <3> QED
      BY <3>1, <3>2
  <2>7. RecordSuccess(sl, i, t) \in Seq(Slot) /\ SameGauges(sl, RecordSuccess(sl, i, t))
    <3>1. RecordSuccess(sl, i, t) = [sl EXCEPT ![i] = SlotAfterSuccess(sl[i], t)]
      BY <1>2 DEF RecordSuccess
    <3> QED
      BY <3>1, <2>1, <2>4, <2>5, ExceptSeq, BlockIsFunction DEF SameGauges
  <2> QED
    BY <2>6, <2>7
<1> QED
  BY <1>1, <1>2

(***************************************************************************)
(* inc_in_flight adds one to the gauge of an address that has a slot and   *)
(* touches nothing else.                                                   *)
(***************************************************************************)
LEMMA IncGauge ==
  ASSUME NEW sl \in Seq(Slot), NEW a \in Addr
  PROVE  /\ IncInFlight(sl, a) \in Seq(Slot)
         /\ \A b : SlotsOf(IncInFlight(sl, a), b) = SlotsOf(sl, b)
         /\ \A b : Gauge(IncInFlight(sl, a), b)
                    = IF b = a /\ SlotsOf(sl, a) # {} THEN Gauge(sl, b) + 1 ELSE Gauge(sl, b)
<1> DEFINE new == IncInFlight(sl, a)
<1>1. CASE SlotsOf(sl, a) = {}
  BY <1>1 DEF IncInFlight
<1>2. CASE SlotsOf(sl, a) # {}
  <2> DEFINE i == AddrSlot(sl, a)
  <2>1. i \in DOMAIN sl /\ sl[i].addr = a
    BY <1>2, SlotFound
  <2> HIDE DEF i
  <2>2. AddrSlot(sl, a) = i
    BY DEF i
  <2>3. sl[i] \in Slot /\ i \in 1..Len(sl)
    BY <2>1, BlockIsFunction
  <2> DEFINE more == sl[i].inFlight + 1
  <2>4. new = [sl EXCEPT ![i] = [sl[i] EXCEPT !.inFlight = more]]
    BY <1>2, <2>2 DEF IncInFlight
  <2>5. more \in Nat
    BY <2>3, SlotFields
  <2> HIDE DEF more
  <2>6. /\ new \in Seq(Slot) /\ DOMAIN new = DOMAIN sl
        /\ \A j \in DOMAIN sl : new[j].addr = sl[j].addr
        /\ \A j \in DOMAIN sl : j # i => new[j] = sl[j]
        /\ new[i].inFlight = more
    BY <2>1, <2>4, <2>5, GaugeWrite
  <2>7. \A b : SlotsOf(new, b) = SlotsOf(sl, b)
    BY <2>6 DEF SlotsOf
  <2>8. ASSUME NEW b
        PROVE  Gauge(new, b) = IF b = a THEN Gauge(sl, b) + 1 ELSE Gauge(sl, b)
    <3>1. CASE SlotsOf(sl, b) = {}
      BY <3>1, <2>7, <1>2 DEF Gauge
    <3>2. CASE SlotsOf(sl, b) # {}
      <4> DEFINE j == AddrSlot(sl, b)
      <4>1. j \in DOMAIN sl /\ sl[j].addr = b
        BY <3>2, SlotFound
      <4>2. Gauge(sl, b) = sl[j].inFlight
        BY <3>2 DEF Gauge
      <4>3. Gauge(new, b) = new[j].inFlight
        BY <3>2, <2>7 DEF Gauge, AddrSlot
      <4>4. b = a => j = i
        BY <2>2
      <4> HIDE DEF j
      <4> QED
        BY <4>1, <4>2, <4>3, <4>4, <2>1, <2>6 DEF more
    <3> QED
      BY <3>1, <3>2
  <2> QED
    BY <1>2, <2>6, <2>7, <2>8
<1> QED
  BY <1>1, <1>2

(***************************************************************************)
(* dec_in_flight takes one from the gauge of an address that has a slot,   *)
(* never below zero, and touches nothing else.                             *)
(***************************************************************************)
LEMMA DecGauge ==
  ASSUME NEW sl \in Seq(Slot), NEW a \in Addr
  PROVE  /\ DecInFlight(sl, a) \in Seq(Slot)
         /\ \A b : SlotsOf(DecInFlight(sl, a), b) = SlotsOf(sl, b)
         /\ \A b : Gauge(DecInFlight(sl, a), b)
                    = IF b = a /\ Gauge(sl, b) # 0 THEN Gauge(sl, b) - 1 ELSE Gauge(sl, b)
<1> DEFINE new == DecInFlight(sl, a)
<1>1. CASE SlotsOf(sl, a) = {}
  BY <1>1 DEF DecInFlight, Gauge
<1>2. CASE SlotsOf(sl, a) # {}
  <2> DEFINE i == AddrSlot(sl, a)
  <2>1. i \in DOMAIN sl /\ sl[i].addr = a
    BY <1>2, SlotFound
  <2> HIDE DEF i
  <2>2. AddrSlot(sl, a) = i
    BY DEF i
  <2>3. sl[i] \in Slot /\ i \in 1..Len(sl)
    BY <2>1, BlockIsFunction
  <2> DEFINE less == IF sl[i].inFlight = 0 THEN 0 ELSE sl[i].inFlight - 1
  <2>4. new = [sl EXCEPT ![i] = [sl[i] EXCEPT !.inFlight = less]]
    BY <1>2, <2>2 DEF DecInFlight
  <2>5. less \in Nat
    BY <2>3, SlotFields
  <2> HIDE DEF less
  <2>6. /\ new \in Seq(Slot) /\ DOMAIN new = DOMAIN sl
        /\ \A j \in DOMAIN sl : new[j].addr = sl[j].addr
        /\ \A j \in DOMAIN sl : j # i => new[j] = sl[j]
        /\ new[i].inFlight = less
    BY <2>1, <2>4, <2>5, GaugeWrite
  <2>7. \A b : SlotsOf(new, b) = SlotsOf(sl, b)
    BY <2>6 DEF SlotsOf
  <2>8. ASSUME NEW b
        PROVE  Gauge(new, b) = IF b = a /\ Gauge(sl, b) # 0 THEN Gauge(sl, b) - 1 ELSE Gauge(sl, b)
    <3>1. CASE SlotsOf(sl, b) = {}
      BY <3>1, <2>7, <1>2 DEF Gauge
    <3>2. CASE SlotsOf(sl, b) # {}
      <4> DEFINE j == AddrSlot(sl, b)
      <4>1. j \in DOMAIN sl /\ sl[j].addr = b
        BY <3>2, SlotFound
      <4>2. Gauge(sl, b) = sl[j].inFlight
        BY <3>2 DEF Gauge
      <4>3. Gauge(new, b) = new[j].inFlight
        BY <3>2, <2>7 DEF Gauge, AddrSlot
      <4>4. b = a => j = i
        BY <2>2
      <4> HIDE DEF j
      <4> QED
        BY <4>1, <4>2, <4>3, <4>4, <2>1, <2>6 DEF less
    <3> QED
      BY <3>1, <3>2
  <2> QED
    BY <2>6, <2>7, <2>8
<1> QED
  BY <1>1, <1>2

(***************************************************************************)
(* What an address inherits is of that address; from a block with one slot *)
(* of it, it inherits the gauge.                                           *)
(***************************************************************************)
LEMMA InheritedSlot ==
  ASSUME NEW sl \in Seq(Slot), NEW a \in Addr
  PROVE  /\ Inherited(sl, a) \in Slot
         /\ Inherited(sl, a).addr = a
         /\ Once(sl, a) => Inherited(sl, a).inFlight = Gauge(sl, a)
<1>1. CASE SlotsOf(sl, a) = {}
  BY <1>1 DEF Inherited, FreshSlot, Slot, Gauge
<1>2. CASE SlotsOf(sl, a) # {}
  <2> DEFINE m == Max(SlotsOf(sl, a))
             n == AddrSlot(sl, a)
  <2>1. /\ m \in DOMAIN sl /\ sl[m].addr = a
        /\ n \in DOMAIN sl /\ sl[n].addr = a
    BY <1>2, SlotFound
  <2>2. Inherited(sl, a) = sl[m] /\ Gauge(sl, a) = sl[n].inFlight
    BY <1>2 DEF Inherited, Gauge
  <2> HIDE DEF m, n
  <2>3. Once(sl, a) => m = n
    BY <2>1 DEF Once, SlotsOf
  <2> QED
    BY <2>1, <2>2, <2>3, BlockIsFunction
<1> QED
  BY <1>1, <1>2

(***************************************************************************)
(* register keeps the gauge of every address the new list has, wherever it *)
(* moved and however often it is named, if the old block had one slot of   *)
(* it, and gives every other address none.                                 *)
(***************************************************************************)
LEMMA RegisterGauge ==
  ASSUME NEW sl \in Seq(Slot),
         NEW table \in [Addr -> ActivePeer],
         NEW l \in Seq(Addr)
  PROVE  /\ Register(sl, table, l) \in Seq(Slot)
         /\ \A a : SlotsOf(Register(sl, table, l), a) # {} <=> Listed(l, a)
         /\ \A a : ~Listed(l, a) => Gauge(Register(sl, table, l), a) = 0
         /\ \A a : Listed(l, a) /\ Once(sl, a)
                     => Gauge(Register(sl, table, l), a) = Gauge(sl, a)
<1> DEFINE new == Register(sl, table, l)
<1>1. DOMAIN l = 1..Len(l) /\ Len(l) \in Nat /\ \A i \in DOMAIN l : l[i] \in Addr
  BY LenProperties, ElementOfSeq
<1>2. DOMAIN new = DOMAIN l
  BY DEF Register
<1>3. ASSUME NEW i \in DOMAIN l
      PROVE  /\ new[i] \in Slot
             /\ new[i].addr = l[i]
             /\ Once(sl, l[i]) => new[i].inFlight = Gauge(sl, l[i])
  <2>1. new[i] = [Inherited(sl, l[i]) EXCEPT !.activeOk = table[l[i]].healthy]
    BY DEF Register
  <2>2. table[l[i]].healthy \in BOOLEAN
    BY <1>1 DEF ActivePeer
  <2>3. /\ Inherited(sl, l[i]) \in Slot
        /\ Inherited(sl, l[i]).addr = l[i]
        /\ Once(sl, l[i]) => Inherited(sl, l[i]).inFlight = Gauge(sl, l[i])
    BY <1>1, InheritedSlot
  <2> HIDE DEF new
  <2> QED
    BY <2>1, <2>2, <2>3, SlotWithVerdict
<1>4. new \in Seq(Slot)
  <2>1. new \in [1..Len(l) -> Slot]
    BY <1>1, <1>2, <1>3 DEF Register
  <2> QED
    BY <2>1, <1>1
<1> HIDE DEF new
<1>5. ASSUME NEW a PROVE SlotsOf(new, a) # {} <=> Listed(l, a)
  BY <1>2, <1>3 DEF SlotsOf, Listed
<1>6. ASSUME NEW a, Listed(l, a), Once(sl, a)
      PROVE  Gauge(new, a) = Gauge(sl, a)
  <2> DEFINE i == AddrSlot(new, a)
  <2>1. i \in DOMAIN new /\ new[i].addr = a
    BY <1>4, <1>5, <1>6, SlotFound
  <2>2. Gauge(new, a) = new[i].inFlight
    BY <1>5, <1>6 DEF Gauge
  <2> HIDE DEF i
  <2> QED
    BY <2>1, <2>2, <1>2, <1>3, <1>6
<1>7. ASSUME NEW a, ~Listed(l, a) PROVE Gauge(new, a) = 0
  BY <1>7, <1>5 DEF Gauge
<1> QED
  BY <1>4, <1>5, <1>6, <1>7 DEF new
=============================================================================
