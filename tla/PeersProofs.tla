---------------------------- MODULE PeersProofs -----------------------------
(***************************************************************************)
(* What the proxy keeps about peers, for every failure window, threshold,  *)
(* capacity and sequence of configurations.                                *)
(* HealthTimeline: when an address is marked down, that no burst of        *)
(* failures escapes, and that the active verdict of an address and its     *)
(* mirror agree. ClientPool: the pool follows the configuration.           *)
(* AffinityScheduler: tasks stick to their peers and peers are not         *)
(* overloaded.                                                             *)
(***************************************************************************)
EXTENDS HealthTimeline, ClientPool, AffinityScheduler, PeerHealthProofs, FiniteSetTheorems

\* The block is that of the configuration, position by position.
BlockOK ==
  /\ DOMAIN slots = DOMAIN config.peers
  /\ \A i \in DOMAIN slots : slots[i].addr = config.peers[i]
  /\ Doubled(slots) \subseteq repeats

\* The slot s and the failures r of its address since the last reset: the
\* last s.fails of them are in the current window, the others came before it,
\* and those more than MaxFails - 1 before it are too old to share a window
\* with its start.
Windowed(s, r, t) ==
  /\ s.windowStart <= t
  /\ \A k \in 1..Len(r) : r[k] <= t
  /\ Len(r) <= Burst
  /\ s.fails <= Len(r) /\ s.fails <= MaxFails - 1
  /\ Len(r) > 0 => s.fails >= 1
  /\ \A k \in 1..Len(r) : k <= Len(r) - s.fails => r[k] <= s.windowStart
  /\ \A k \in 1..Len(r) : k > Len(r) - s.fails => r[k] >= s.windowStart
  /\ \A k \in 1..Len(r) :
       k <= Len(r) - s.fails - (MaxFails - 1) => s.windowStart - r[k] > FailWindow

\* With the passive plane off there is nothing to count.
CountOK(s, r, t) ==
  IF MaxFails = 0 THEN s.fails = 0 /\ r = <<>> ELSE Windowed(s, r, t)

RunOK ==
  /\ \A i \in DOMAIN slots :
       slots[i].addr \notin repeats => CountOK(slots[i], run[slots[i].addr], now)
  /\ \A a \in Addr : SlotsOf(slots, a) = {} => run[a] = <<>>

Inv == TypeOK /\ BlockOK /\ RunOK /\ MirrorAgrees
-----------------------------------------------------------------------------
(***************************************************************************)
(* Lemmas about the passive plane                                          *)
(***************************************************************************)
(***************************************************************************)
(* record_failure on one slot: it trips, it counts within the window, or   *)
(* it opens a new window.                                                  *)
(***************************************************************************)
Trips(s, e, t) ==
  /\ e.fails = 0 /\ e.downUntil = t + FailTimeout /\ e.windowStart \in {t, s.windowStart}
  /\ MaxFails = 1 \/ (t - s.windowStart <= FailWindow /\ s.fails + 1 >= MaxFails)

Counts(s, e, t) ==
  /\ e.fails = s.fails + 1 /\ e.windowStart = s.windowStart /\ e.downUntil = s.downUntil
  /\ t - s.windowStart <= FailWindow /\ s.fails + 1 < MaxFails

Reopens(s, e, t) ==
  /\ e.fails = 1 /\ e.windowStart = t /\ e.downUntil = s.downUntil
  /\ t - s.windowStart > FailWindow /\ MaxFails > 1

LEMMA FailureCases ==
  ASSUME NEW s \in Slot, NEW t \in Nat, MaxFails # 0
  PROVE  /\ SlotAfterFailure(s, t).addr = s.addr
         /\ SlotAfterFailure(s, t).activeOk = s.activeOk
         /\ \/ Trips(s, SlotAfterFailure(s, t), t)
            \/ Counts(s, SlotAfterFailure(s, t), t)
            \/ Reopens(s, SlotAfterFailure(s, t), t)
<1> DEFINE stale == t - s.windowStart > FailWindow
           start == IF stale THEN t ELSE s.windowStart
           count == (IF stale THEN 0 ELSE s.fails) + 1
           until == EvaluateFailure(count, start, t)
           fails == IF until = NoTrip THEN count ELSE 0
           down  == IF until = NoTrip THEN s.downUntil ELSE until
           e == [s EXCEPT !.windowStart = start, !.fails = fails, !.downUntil = down]
<1>1. SlotAfterFailure(s, t) = e
  BY DEF SlotAfterFailure
<1>2. /\ s.windowStart \in Nat /\ s.fails \in Nat /\ MaxFails \in Nat
      /\ FailWindow \in Nat /\ FailTimeout \in Nat
  BY SlotFields, HealthAssumption
<1>3. e.windowStart = start /\ e.fails = fails /\ e.downUntil = down
  <2> HIDE DEF start, fails, down
  <2> QED
    BY DEF Slot
<1>4. e.addr = s.addr /\ e.activeOk = s.activeOk
  <2> HIDE DEF start, fails, down
  <2> QED
    BY DEF Slot
<1>5. CASE stale
  <2>1. start = t /\ count = 1
    BY <1>5
  <2>2. until = IF MaxFails = 1 THEN t + FailTimeout ELSE NoTrip
    <3> HIDE DEF start, count
    <3> QED
      BY <2>1, <1>2 DEF EvaluateFailure
  <2>3. CASE MaxFails = 1
    <3>1. until = t + FailTimeout /\ until # NoTrip
      <4> HIDE DEF until
      <4> QED
        BY <2>2, <2>3, <1>2 DEF NoTrip
    <3>2. fails = 0 /\ down = t + FailTimeout
      <4> HIDE DEF until, count
      <4> QED
        BY <3>1
    <3> HIDE DEF start, fails, down, e
    <3> QED
      BY <3>2, <2>1, <2>3, <1>1, <1>3, <1>4 DEF Trips
  <2>4. CASE MaxFails # 1
    <3>1. fails = 1 /\ down = s.downUntil
      <4> HIDE DEF until, count
      <4> QED
        BY <2>1, <2>2, <2>4
    <3> HIDE DEF start, fails, down, e
    <3> QED
      BY <3>1, <2>1, <2>4, <1>1, <1>2, <1>3, <1>4, <1>5 DEF Reopens
  <2> QED
    BY <2>3, <2>4
<1>6. CASE ~stale
  <2>1. start = s.windowStart /\ count = s.fails + 1 /\ t - s.windowStart <= FailWindow
    BY <1>2, <1>6
  <2>2. until = IF s.fails + 1 >= MaxFails THEN t + FailTimeout ELSE NoTrip
    <3> HIDE DEF start, count
    <3> QED
      BY <2>1, <1>2 DEF EvaluateFailure
  <2>3. CASE s.fails + 1 >= MaxFails
    <3>1. until = t + FailTimeout /\ until # NoTrip
      <4> HIDE DEF until
      <4> QED
        BY <2>2, <2>3, <1>2 DEF NoTrip
    <3>2. fails = 0 /\ down = t + FailTimeout
      <4> HIDE DEF until, count
      <4> QED
        BY <3>1
    <3> HIDE DEF start, fails, down, e
    <3> QED
      BY <3>2, <2>1, <2>3, <1>1, <1>3, <1>4 DEF Trips
  <2>4. CASE ~(s.fails + 1 >= MaxFails)
    <3>1. fails = s.fails + 1 /\ down = s.downUntil
      <4> HIDE DEF until, count
      <4> QED
        BY <2>1, <2>2, <2>4
    <3> HIDE DEF start, fails, down, e
    <3> QED
      BY <3>1, <2>1, <2>4, <1>1, <1>2, <1>3, <1>4 DEF Counts
  <2> QED
    BY <2>3, <2>4
<1> QED
  BY <1>5, <1>6

(***************************************************************************)
(* The history of failures takes one more, and forgets the oldest when it  *)
(* has Burst already.                                                      *)
(***************************************************************************)
LEMMA ExtendedRun ==
  ASSUME NEW r \in Seq(Nat), NEW t \in Nat, MaxFails # 0, Len(r) <= Burst
  PROVE  /\ Extended(r, t) \in Seq(Nat)
         /\ Len(r) < Burst =>
              /\ Len(Extended(r, t)) = Len(r) + 1
              /\ \A k \in 1..Len(r) : Extended(r, t)[k] = r[k]
              /\ Extended(r, t)[Len(r) + 1] = t
         /\ Len(r) = Burst =>
              /\ Len(Extended(r, t)) = Len(r)
              /\ \A k \in 1..(Len(r) - 1) : Extended(r, t)[k] = r[k + 1]
              /\ Extended(r, t)[Len(r)] = t
<1> DEFINE all == Append(r, t)
<1>1. Burst \in Nat /\ Burst >= 1 /\ Len(r) \in Nat
  BY HealthAssumption, LenProperties DEF Burst
<1>2. /\ all \in Seq(Nat) /\ Len(all) = Len(r) + 1 /\ all[Len(r) + 1] = t
      /\ \A k \in 1..Len(r) : all[k] = r[k]
  BY AppendProperties
<1> HIDE DEF all
<1>3. Extended(r, t) = IF Len(all) <= Burst THEN all ELSE Tail(all)
  BY DEF Extended, all
<1>4. CASE Len(r) < Burst
  BY <1>1, <1>2, <1>3, <1>4
<1>5. CASE Len(r) = Burst
  <2>1. Extended(r, t) = Tail(all) /\ all # <<>>
    BY <1>1, <1>2, <1>3, <1>5
  <2>2. /\ Tail(all) \in Seq(Nat) /\ Len(Tail(all)) = Len(all) - 1
        /\ \A k \in 1 .. Len(all) - 1 : Tail(all)[k] = all[k + 1]
    BY <1>2, <2>1, HeadTailProperties
  <2> QED
    BY <1>1, <1>2, <1>5, <2>1, <2>2
<1> QED
  BY <1>1, <1>4, <1>5

(***************************************************************************)
(* The history stays a sequence of times, however long it was.             *)
(***************************************************************************)
LEMMA ExtendedType ==
  ASSUME NEW r \in Seq(Nat), NEW t \in Nat
  PROVE  Extended(r, t) \in Seq(Nat)
<1> DEFINE all == Append(r, t)
<1>1. all \in Seq(Nat) /\ Len(all) = Len(r) + 1
  BY AppendProperties
<1>2. all # <<>>
  BY <1>1, LenProperties
<1>3. Tail(all) \in Seq(Nat)
  BY <1>1, <1>2, HeadTailProperties
<1> HIDE DEF all
<1>4. Extended(r, t) = IF Len(all) <= Burst THEN all ELSE Tail(all)
  BY DEF Extended, all
<1> QED
  BY <1>1, <1>3, <1>4

(***************************************************************************)
(* A failure that does not trip leaves the history in its windows.         *)
(***************************************************************************)
LEMMA FailureKeepsWindows ==
  ASSUME NEW s \in Slot, NEW e \in Slot, NEW r \in Seq(Nat), NEW t \in Nat, MaxFails # 0,
         Windowed(s, r, t), Counts(s, e, t) \/ Reopens(s, e, t)
  PROVE  Windowed(e, Extended(r, t), t)
<1> DEFINE x == Extended(r, t)
           L == Len(r)
           M == MaxFails
           f == s.fails
           ws == s.windowStart
<1>1. /\ L \in Nat /\ M \in Nat /\ M >= 1 /\ FailWindow \in Nat /\ Burst = 2 * M - 1
      /\ f \in Nat /\ ws \in Nat /\ e.fails \in Nat /\ e.windowStart \in Nat
      /\ \A k \in 1..L : r[k] \in Nat
  BY LenProperties, ElementOfSeq, HealthAssumption, SlotFields DEF Burst
<1>2. /\ ws <= t /\ L <= Burst /\ f <= L /\ f <= M - 1 /\ (L > 0 => f >= 1)
      /\ \A k \in 1..L : r[k] <= t
      /\ \A k \in 1..L : k <= L - f => r[k] <= ws
      /\ \A k \in 1..L : k > L - f => r[k] >= ws
      /\ \A k \in 1..L : k <= L - f - (M - 1) => ws - r[k] > FailWindow
  BY DEF Windowed
<1>3. /\ x \in Seq(Nat)
      /\ L < Burst => /\ Len(x) = L + 1 /\ x[L + 1] = t
                      /\ \A k \in 1..L : x[k] = r[k]
      /\ L = Burst => /\ Len(x) = L /\ x[L] = t
                      /\ \A k \in 1..(L - 1) : x[k] = r[k + 1]
  BY <1>2, ExtendedRun
<1> HIDE DEF x, L, M, f, ws
<1>4. SUFFICES /\ e.windowStart <= t
               /\ \A k \in 1..Len(x) : x[k] <= t
               /\ Len(x) <= Burst
               /\ e.fails <= Len(x) /\ e.fails <= M - 1
               /\ Len(x) > 0 => e.fails >= 1
               /\ \A k \in 1..Len(x) : k <= Len(x) - e.fails => x[k] <= e.windowStart
               /\ \A k \in 1..Len(x) : k > Len(x) - e.fails => x[k] >= e.windowStart
               /\ \A k \in 1..Len(x) :
                    k <= Len(x) - e.fails - (M - 1) => e.windowStart - x[k] > FailWindow
  BY DEF Windowed, x, M
<1>5. PICK d \in {0, 1} :
        /\ Len(x) = L + 1 - d /\ Len(x) <= Burst
        /\ \A k \in 1..Len(x) : \/ k + d \in 1..L /\ x[k] = r[k + d]
                                \/ k = Len(x) /\ x[k] = t
  <2>1. CASE L < Burst
    BY <2>1, <1>1, <1>3
  <2>2. CASE L = Burst
    BY <2>2, <1>1, <1>3
  <2> QED
    BY <2>1, <2>2, <1>1, <1>2
<1> DEFINE n == Len(x)
<1>6. n \in Nat /\ n = L + 1 - d /\ n <= Burst
  BY <1>1, <1>5
<1>7. ASSUME NEW k \in 1..n
      PROVE  \/ k + d \in 1..L /\ x[k] = r[k + d] /\ r[k + d] \in Nat
             \/ k = n /\ x[k] = t
  BY <1>1, <1>5
<1> HIDE DEF n
<1>8. ASSUME NEW k \in 1..n PROVE x[k] <= t
  BY <1>1, <1>2, <1>7
<1>9. CASE Counts(s, e, t)
  <2>1. /\ e.fails = f + 1 /\ e.windowStart = ws /\ t - ws <= FailWindow /\ f + 1 < M
    BY <1>9 DEF Counts, f, ws, M
  <2>2. e.fails <= n /\ e.fails <= M - 1 /\ e.fails >= 1
    <3>1. CASE d = 0
      BY <3>1, <2>1, <1>1, <1>2, <1>6
    <3>2. CASE d = 1
      <4>1. L = Burst \/ L < Burst
        BY <1>1, <1>2
      <4> QED
        BY <4>1, <3>2, <2>1, <1>1, <1>2, <1>3, <1>6 DEF n
    <3> QED
      BY <3>1, <3>2
  <2>3. ASSUME NEW k \in 1..n, k <= n - e.fails PROVE x[k] <= e.windowStart
    BY <2>1, <2>3, <1>1, <1>2, <1>6, <1>7
  <2>4. ASSUME NEW k \in 1..n, k > n - e.fails PROVE x[k] >= e.windowStart
    BY <2>1, <2>4, <1>1, <1>2, <1>6, <1>7
  <2>5. ASSUME NEW k \in 1..n, k <= n - e.fails - (M - 1) PROVE e.windowStart - x[k] > FailWindow
    <3>1. k + d \in 1..L /\ x[k] = r[k + d] /\ k + d <= L - f - (M - 1)
      BY <2>1, <2>5, <1>1, <1>2, <1>6, <1>7
    <3> QED
      BY <3>1, <2>1, <1>2
  <2> QED
    BY <2>1, <2>2, <2>3, <2>4, <2>5, <1>2, <1>6, <1>8 DEF n
<1>10. CASE Reopens(s, e, t)
  <2>1. /\ e.fails = 1 /\ e.windowStart = t /\ t - ws > FailWindow /\ M > 1
    BY <1>10 DEF Reopens, ws, M
  <2>2. e.fails <= n /\ e.fails <= M - 1 /\ e.fails >= 1
    <3>1. CASE d = 0
      BY <3>1, <2>1, <1>1, <1>2, <1>6
    <3>2. CASE d = 1
      <4>1. L = Burst \/ L < Burst
        BY <1>1, <1>2
      <4> QED
        BY <4>1, <3>2, <2>1, <1>1, <1>2, <1>3, <1>6 DEF n
    <3> QED
      BY <3>1, <3>2
  <2>3. ASSUME NEW k \in 1..n, k > n - e.fails PROVE x[k] >= e.windowStart
    <3>1. k = n /\ ~(k + d \in 1..L)
      BY <2>1, <2>3, <1>1, <1>6
    <3> QED
      BY <3>1, <2>1, <1>7
  <2>4. ASSUME NEW k \in 1..n, k <= n - e.fails - (M - 1) PROVE e.windowStart - x[k] > FailWindow
    <3>1. k + d \in 1..L /\ x[k] = r[k + d] /\ k + d <= L - f /\ r[k + d] \in Nat
      BY <2>1, <2>4, <1>1, <1>2, <1>6, <1>7
    <3>2. r[k + d] <= ws
      BY <3>1, <1>2
    <3> QED
      BY <3>1, <3>2, <2>1, <1>1
  <2> QED
    BY <2>1, <2>2, <2>3, <2>4, <1>2, <1>6, <1>8 DEF n
<1> QED
  BY <1>9, <1>10
-----------------------------------------------------------------------------
(***************************************************************************)
(* Lemmas about blocks                                                     *)
(***************************************************************************)
(***************************************************************************)
(* A slot rewritten in place changes neither the other slots nor where an  *)
(* address is.                                                             *)
(***************************************************************************)
LEMMA SlotWrite ==
  ASSUME NEW sl \in Seq(Slot), NEW i \in DOMAIN sl, NEW e \in Slot, e.addr = sl[i].addr,
         NEW new, new = [sl EXCEPT ![i] = e]
  PROVE  /\ new \in Seq(Slot) /\ DOMAIN new = DOMAIN sl
         /\ \A j \in DOMAIN sl : new[j].addr = sl[j].addr
         /\ \A j \in DOMAIN sl : j # i => new[j] = sl[j]
         /\ new[i] = e
         /\ \A a : SlotsOf(new, a) = SlotsOf(sl, a)
<1>1. i \in 1..Len(sl) /\ DOMAIN sl = 1..Len(sl)
  BY BlockIsFunction
<1>2. new \in Seq(Slot) /\ DOMAIN new = DOMAIN sl
  BY <1>1, ExceptSeq
<1>3. new[i] = e /\ \A j \in DOMAIN sl : j # i => new[j] = sl[j]
  OBVIOUS
<1>4. \A j \in DOMAIN sl : new[j].addr = sl[j].addr
  BY <1>3
<1>5. \A a : SlotsOf(new, a) = SlotsOf(sl, a)
  BY <1>2, <1>4 DEF SlotsOf
<1> QED
  BY <1>2, <1>3, <1>4, <1>5

(***************************************************************************)
(* An address that is not doubled has one slot at most.                    *)
(***************************************************************************)
LEMMA NotDoubled ==
  ASSUME NEW sl, NEW a \in Addr
  PROVE  a \notin Doubled(sl) <=> Once(sl, a)
  BY DEF Doubled, Once

(***************************************************************************)
(* Blocks with their addresses in the same places double the same ones.    *)
(***************************************************************************)
LEMMA SameDoubled ==
  ASSUME NEW sl, NEW new, DOMAIN new = DOMAIN sl,
         \A j \in DOMAIN sl : new[j].addr = sl[j].addr
  PROVE  Doubled(new) = Doubled(sl) /\ \A a : SlotsOf(new, a) = SlotsOf(sl, a)
<1>1. \A a : SlotsOf(new, a) = SlotsOf(sl, a)
  BY DEF SlotsOf
<1> QED
  BY <1>1 DEF Doubled

(***************************************************************************)
(* What the invariant says of the block and of one slot.                   *)
(***************************************************************************)
LEMMA BlockFacts ==
  ASSUME Inv
  PROVE  /\ slots \in Seq(Slot) /\ \A a \in Addr \ repeats : Once(slots, a)
         /\ table \in [Addr -> ActivePeer] /\ run \in [Addr -> Seq(Nat)] /\ now \in Nat
         /\ \A i \in DOMAIN slots : /\ slots[i] \in Slot /\ slots[i].addr \in Addr
                                    /\ run[slots[i].addr] \in Seq(Nat)
                                    /\ slots[i].addr \notin repeats =>
                                         CountOK(slots[i], run[slots[i].addr], now)
<1>1. TypeOK /\ BlockOK /\ RunOK
  BY DEF Inv
<1>2. /\ slots \in Seq(Slot) /\ table \in [Addr -> ActivePeer] /\ run \in [Addr -> Seq(Nat)]
      /\ now \in Nat /\ config \in Configs
  BY <1>1 DEF TypeOK
<1>3. \A a \in Addr \ repeats : Once(slots, a)
  BY <1>1, NotDoubled DEF BlockOK
<1>4. \A i \in DOMAIN slots : slots[i] \in Slot
  BY <1>2, BlockIsFunction
<1>5. \A i \in DOMAIN slots : slots[i].addr \in Addr
  BY <1>4, SlotFields
<1> QED
  BY <1>1, <1>2, <1>3, <1>4, <1>5 DEF RunOK

(***************************************************************************)
(* One slot and the history of its address are rewritten together (Fail,   *)
(* Succeed): the invariant is kept if the two fit and the verdict stays.   *)
(***************************************************************************)
LEMMA OutcomeStep ==
  ASSUME Inv, NEW i \in DOMAIN slots, NEW e \in Slot, NEW r \in Seq(Nat),
         e.addr = slots[i].addr, e.activeOk = slots[i].activeOk,
         slots' = [slots EXCEPT ![i] = e], run' = [run EXCEPT ![slots[i].addr] = r],
         slots[i].addr \notin repeats => CountOK(e, r, now),
         UNCHANGED <<config, table, now, flying, rearm, misled, repeats>>
  PROVE  Inv'
<1>1. /\ slots \in Seq(Slot) /\ run \in [Addr -> Seq(Nat)]
      /\ \A a \in Addr \ repeats : Once(slots, a)
      /\ slots[i].addr \in Addr
      /\ \A j \in DOMAIN slots :
           /\ slots[j].addr \in Addr
           /\ slots[j].addr \notin repeats => CountOK(slots[j], run[slots[j].addr], now)
  BY BlockFacts
<1>2. /\ slots' \in Seq(Slot) /\ DOMAIN slots' = DOMAIN slots
      /\ \A j \in DOMAIN slots : slots'[j].addr = slots[j].addr
      /\ \A j \in DOMAIN slots : j # i => slots'[j] = slots[j]
      /\ slots'[i] = e
  BY <1>1, SlotWrite
<1>a. Doubled(slots') = Doubled(slots) /\ \A b : SlotsOf(slots', b) = SlotsOf(slots, b)
  BY <1>2, SameDoubled
<1>3. /\ run' \in [Addr -> Seq(Nat)] /\ run'[slots[i].addr] = r
      /\ \A a \in Addr : a # slots[i].addr => run'[a] = run[a]
  BY <1>1
<1>4. TypeOK'
  BY <1>2, <1>3 DEF Inv, TypeOK
<1>5. BlockOK'
  BY <1>2, <1>a DEF Inv, BlockOK
<1>6. RunOK'
  <2>1. ASSUME NEW j \in DOMAIN slots, slots'[j].addr \notin repeats
        PROVE  CountOK(slots'[j], run'[slots'[j].addr], now)
    <3>1. CASE j = i
      BY <2>1, <3>1, <1>2, <1>3
    <3>2. CASE j # i
      <4>1. slots[j].addr # slots[i].addr
        BY <2>1, <3>2, <1>1, <1>2 DEF Once, SlotsOf
      <4> QED
        BY <2>1, <4>1, <3>2, <1>1, <1>2, <1>3
    <3> QED
      BY <3>1, <3>2
  <2>2. ASSUME NEW a \in Addr, SlotsOf(slots', a) = {} PROVE run'[a] = <<>>
    <3>1. SlotsOf(slots, a) = {}
      BY <2>2, <1>a
    <3>2. a # slots[i].addr
      BY <3>1 DEF SlotsOf
    <3> QED
      BY <3>1, <3>2, <1>3 DEF Inv, RunOK
  <2>3. now' = now /\ repeats' = repeats
    OBVIOUS
  <2> QED
    BY <2>1, <2>2, <2>3, <1>2 DEF RunOK
<1>7. MirrorAgrees'
  <2>1. \A j \in DOMAIN slots : slots'[j].activeOk = slots[j].activeOk
    BY <1>2
  <2> QED
    BY <2>1, <1>2, <1>a DEF Inv, MirrorAgrees
<1> QED
  BY <1>4, <1>5, <1>6, <1>7 DEF Inv

(***************************************************************************)
(* A failed attempt (Fail).                                                *)
(***************************************************************************)
LEMMA FailKeeps ==
  ASSUME Inv, NEW i \in DOMAIN slots, Fail(i)
  PROVE  Inv'
<1> DEFINE s == slots[i]
           a == slots[i].addr
           e == SlotAfterFailure(s, now)
           r == IF slots'[i].fails = 0 THEN <<>> ELSE Extended(run[a], now)
<1>1. /\ slots' = RecordFailure(slots, i, now) /\ run' = [run EXCEPT ![a] = r]
      /\ UNCHANGED <<config, table, now, flying, rearm, misled, repeats>>
  BY DEF Fail, probeVars
<1>2. /\ s \in Slot /\ a \in Addr /\ run[a] \in Seq(Nat) /\ now \in Nat
      /\ a \notin repeats => CountOK(s, run[a], now)
      /\ slots \in Seq(Slot) /\ i \in Nat /\ <<>> \in Seq(Nat)
  BY BlockFacts, BlockIsFunction
<1>a. r \in Seq(Nat)
  BY <1>2, ExtendedType
<1>3. CASE MaxFails = 0
  <2>1. slots' = slots /\ (a \notin repeats => s.fails = 0)
    BY <1>1, <1>2, <1>3 DEF RecordFailure, CountOK
  <2>2. slots' = [slots EXCEPT ![i] = s]
    <3>1. slots \in [1..Len(slots) -> Slot]
      BY <1>2, BlockIsFunction
    <3> QED
      BY <2>1, <3>1
  <2>3. a \notin repeats => CountOK(s, r, now)
    BY <2>1, <1>3 DEF CountOK
  <2> HIDE DEF r
  <2> QED
    BY <2>2, <2>3, <1>1, <1>2, <1>a, OutcomeStep
<1>4. CASE MaxFails # 0
  <2>1. slots' = [slots EXCEPT ![i] = e]
    BY <1>1, <1>4 DEF RecordFailure
  <2>2. e.addr = a /\ e.activeOk = s.activeOk /\ (Trips(s, e, now) \/ Counts(s, e, now) \/ Reopens(s, e, now))
    BY <1>2, <1>4, FailureCases
  <2>3. e \in Slot /\ slots'[i] = e
    <3>1. slots' \in Seq(Slot)
      BY <1>1, <1>2, OutcomeKeepsGauges
    <3>2. DOMAIN slots' = DOMAIN slots /\ slots'[i] = e
      BY <2>1
    <3> QED
      BY <3>1, <3>2, BlockIsFunction
  <2> HIDE DEF e
  <2>5. ASSUME a \notin repeats PROVE CountOK(e, r, now)
    <3>a. Windowed(s, run[a], now)
      BY <2>5, <1>2, <1>4 DEF CountOK
    <3>1. CASE Trips(s, e, now)
      <4>1. r = <<>> /\ e.fails = 0 /\ e.windowStart <= now
        BY <3>1, <2>3, <3>a, <1>2, SlotFields DEF Trips, Windowed
      <4>2. MaxFails \in Nat /\ Len(<<>>) = 0 /\ Burst >= 0
        BY <1>4, HealthAssumption DEF Burst
      <4> HIDE DEF r
      <4> QED
        BY <4>1, <4>2, <1>2, <1>4 DEF CountOK, Windowed
    <3>2. CASE Counts(s, e, now) \/ Reopens(s, e, now)
      <4>1. e.fails # 0
        BY <3>2, <1>2, SlotFields DEF Counts, Reopens
      <4>2. r = Extended(run[a], now)
        BY <4>1, <2>3
      <4>3. Windowed(e, Extended(run[a], now), now)
        <5> HIDE DEF s, a
        <5> QED
          BY <3>2, <2>3, <3>a, <1>2, <1>4, FailureKeepsWindows
      <4> HIDE DEF r
      <4> QED
        BY <4>2, <4>3, <1>4 DEF CountOK
    <3> QED
      BY <2>2, <3>1, <3>2
  <2> HIDE DEF r
  <2> QED
    BY <2>1, <2>2, <2>3, <2>5, <1>1, <1>a, OutcomeStep
<1> QED
  BY <1>3, <1>4
(***************************************************************************)
(* A slot without failures and a history without failures fit.             *)
(***************************************************************************)
LEMMA NoFailures ==
  ASSUME NEW s, NEW t \in Nat, s.fails = 0, s.windowStart \in Nat, s.windowStart <= t
  PROVE  CountOK(s, <<>>, t)
<1>1. MaxFails \in Nat /\ Len(<<>>) = 0 /\ (MaxFails # 0 => Burst >= 0)
  BY HealthAssumption DEF Burst
<1> QED
  BY <1>1 DEF CountOK, Windowed

(***************************************************************************)
(* Only the counter and the window of a slot matter to its history.        *)
(***************************************************************************)
LEMMA SameCounts ==
  ASSUME NEW s, NEW e, NEW r, NEW t, CountOK(s, r, t),
         e.fails = s.fails, e.windowStart = s.windowStart
  PROVE  CountOK(e, r, t)
  BY DEF CountOK, Windowed

(***************************************************************************)
(* A successful attempt (Succeed).                                         *)
(***************************************************************************)
LEMMA SucceedKeeps ==
  ASSUME Inv, NEW i \in DOMAIN slots, Succeed(i)
  PROVE  Inv'
<1> DEFINE s == slots[i]
           e == SlotAfterSuccess(s, now)
<1>1. s \in Slot /\ now \in Nat /\ <<>> \in Seq(Nat)
  BY BlockFacts
<1>2. /\ e \in Slot /\ e.addr = s.addr /\ e.activeOk = s.activeOk
      /\ e.fails = 0 /\ e.windowStart = now
  BY <1>1 DEF SlotAfterSuccess, Slot
<1>3. slots' = [slots EXCEPT ![i] = e] /\ run' = [run EXCEPT ![s.addr] = <<>>]
  BY DEF Succeed, RecordSuccess
<1>4. UNCHANGED <<config, table, now, flying, rearm, misled, repeats>>
  BY DEF Succeed, probeVars
<1> HIDE DEF e
<1>5. CountOK(e, <<>>, now)
  BY <1>1, <1>2, NoFailures
<1> QED
  BY <1>1, <1>2, <1>3, <1>4, <1>5, OutcomeStep

(***************************************************************************)
(* evaluate_active keeps the type of an entry of the active table.         *)
(***************************************************************************)
LEMMA VerdictType ==
  ASSUME NEW p \in ActivePeer, NEW ok \in BOOLEAN
  PROVE  /\ Saturated(EvaluateActive(p, ok)) \in ActivePeer
         /\ Saturated(EvaluateActive(p, ok)).healthy \in BOOLEAN
<1>1. /\ p.healthy \in BOOLEAN /\ p.fails \in Nat /\ p.successes \in Nat
      /\ UnhealthyThreshold \in Nat /\ HealthyThreshold \in Nat
  BY HealthAssumption DEF ActivePeer
<1>2. EvaluateActive(p, ok) \in ActivePeer
  <2>1. CASE ok
    BY <2>1, <1>1 DEF EvaluateActive, ActivePeer
  <2>2. CASE ~ok
    BY <2>2, <1>1 DEF EvaluateActive, ActivePeer
  <2> QED
    BY <2>1, <2>2
<1> DEFINE q == EvaluateActive(p, ok)
<1>3. q.healthy \in BOOLEAN /\ q.fails \in Nat /\ q.successes \in Nat
  <2> HIDE DEF q
  <2>1. q \in ActivePeer
    BY <1>2 DEF q
  <2> QED
    BY <2>1 DEF ActivePeer
<1> HIDE DEF q
<1>4. Saturated(q) \in ActivePeer /\ Saturated(q).healthy \in BOOLEAN
  BY <1>1, <1>3 DEF Saturated, ActivePeer
<1> QED
  BY <1>4 DEF q

(***************************************************************************)
(* Writing the mirrored verdict of a slot leaves the rest of it.           *)
(***************************************************************************)
LEMMA VerdictWrite ==
  ASSUME NEW s \in Slot, NEW ok \in BOOLEAN
  PROVE  /\ [s EXCEPT !.activeOk = ok].fails = s.fails
         /\ [s EXCEPT !.activeOk = ok].windowStart = s.windowStart
         /\ [s EXCEPT !.activeOk = ok].downUntil = s.downUntil
         /\ [s EXCEPT !.activeOk = ok].activeOk = ok
<1>1. /\ [s EXCEPT !.activeOk = ok].fails = s.fails
      /\ [s EXCEPT !.activeOk = ok].windowStart = s.windowStart
      /\ [s EXCEPT !.activeOk = ok].downUntil = s.downUntil
  BY DEF Slot
<1>2. [s EXCEPT !.activeOk = ok].activeOk = ok
  BY Zenon DEF Slot
<1> QED
  BY <1>1, <1>2

\* The slot new has the passive state its address had in sl, if it had one
\* slot there, or none.
InheritedCounts(sl, new) ==
  /\ \A j \in DOMAIN sl : sl[j].addr = new.addr /\ Once(sl, new.addr) =>
       /\ new.fails = sl[j].fails /\ new.windowStart = sl[j].windowStart
       /\ new.downUntil = sl[j].downUntil
  /\ SlotsOf(sl, new.addr) = {} => new.fails = 0 /\ new.windowStart = 0 /\ new.downUntil = 0

(***************************************************************************)
(* register, slot by slot: the state of the address in the old block, or a *)
(* fresh one, and the verdict of the active table.                         *)
(***************************************************************************)
LEMMA RegisteredSlot ==
  ASSUME NEW sl \in Seq(Slot), NEW tb \in [Addr -> ActivePeer],
         NEW l \in Seq(Addr), NEW i \in DOMAIN l, NEW new, new = Register(sl, tb, l)[i]
  PROVE  /\ new \in Slot /\ new.addr = l[i] /\ new.activeOk = tb[l[i]].healthy
         /\ InheritedCounts(sl, new)
<1> DEFINE a == l[i]
           old == Inherited(sl, a)
           ok == tb[a].healthy
<1>1. a \in Addr
  BY ElementOfSeq, LenProperties
<1>2. ok \in BOOLEAN
  BY <1>1 DEF ActivePeer
<1>3. new = [old EXCEPT !.activeOk = ok]
  BY DEF Register
<1>4. ASSUME NEW j \in DOMAIN sl, sl[j].addr = a, Once(sl, a) PROVE old = sl[j]
  <2>1. SlotsOf(sl, a) # {} /\ j \in SlotsOf(sl, a)
    BY <1>4 DEF SlotsOf
  <2>2. Max(SlotsOf(sl, a)) \in SlotsOf(sl, a)
    BY <2>1, SlotFound DEF SlotsOf
  <2>3. Max(SlotsOf(sl, a)) = j
    BY <2>1, <2>2, <1>4 DEF Once
  <2> QED
    BY <2>1, <2>3 DEF Inherited
<1>5. SlotsOf(sl, a) = {} => old = FreshSlot(a)
  BY DEF Inherited
<1>6. old \in Slot /\ old.addr = a
  BY <1>1, InheritedSlot
<1> HIDE DEF old, ok
<1>7. /\ new \in Slot /\ new.addr = a /\ new.activeOk = ok /\ new.fails = old.fails
      /\ new.windowStart = old.windowStart /\ new.downUntil = old.downUntil
  BY <1>2, <1>3, <1>6, SlotWithVerdict, VerdictWrite
<1>8. SlotsOf(sl, a) = {} => old.fails = 0 /\ old.windowStart = 0 /\ old.downUntil = 0
  BY <1>5 DEF FreshSlot
<1>9. InheritedCounts(sl, new)
  <2> HIDE DEF a
  <2> QED
    BY <1>4, <1>7, <1>8 DEF InheritedCounts
<1> QED
  BY <1>7, <1>9 DEF ok

\* The block new is that of configuration c, position by position, mirrors the
\* table tb and continues the block sl.
RegisteredFor(c, sl, tb, new) ==
  /\ new \in Seq(Slot) /\ DOMAIN new = DOMAIN c.peers
  /\ \A i \in DOMAIN new :
       /\ new[i] \in Slot /\ new[i].addr = c.peers[i] /\ new[i].addr \in Addr
       /\ new[i].activeOk = tb[c.peers[i]].healthy
  /\ \A i \in DOMAIN new : InheritedCounts(sl, new[i])

(***************************************************************************)
(* A block made by register for a configuration c, whatever the block      *)
(* before it: it is c's, position by position, and mirrors the table.      *)
(***************************************************************************)
LEMMA RegisteredBlock ==
  ASSUME NEW sl \in Seq(Slot), NEW tb \in [Addr -> ActivePeer],
         NEW c \in Configs, NEW new, new = Register(sl, tb, c.peers)
  PROVE  RegisteredFor(c, sl, tb, new)
<1>1. c.peers \in Seq(Addr)
  BY TimelineAssumption
<1>2. new \in Seq(Slot)
  BY <1>1, RegisterGauge
<1>3. DOMAIN new = DOMAIN c.peers
  BY DEF Register
<1>4. ASSUME NEW i \in DOMAIN new
      PROVE  /\ new[i] \in Slot /\ new[i].addr = c.peers[i] /\ new[i].addr \in Addr
             /\ new[i].activeOk = tb[c.peers[i]].healthy
  <2>1. /\ new[i] \in Slot /\ new[i].addr = c.peers[i]
        /\ new[i].activeOk = tb[c.peers[i]].healthy
    BY <1>1, <1>3, RegisteredSlot
  <2> QED
    BY <2>1, SlotFields
<1>5. ASSUME NEW i \in DOMAIN new PROVE InheritedCounts(sl, new[i])
  BY <1>1, <1>3, RegisteredSlot
<1> QED
  BY <1>2, <1>3, <1>4, <1>5 DEF RegisteredFor

(***************************************************************************)
(* The addresses of the configuration are those of the block.              *)
(***************************************************************************)
LEMMA PeersHaveSlots ==
  ASSUME BlockOK, NEW a
  PROVE  a \in PeersOf(config) <=> \E j \in DOMAIN slots : slots[j].addr = a
  BY DEF BlockOK, PeersOf

(***************************************************************************)
(* A reload, or a list from the ingress plane (Reload).                    *)
(***************************************************************************)
LEMMA ReloadKeeps ==
  ASSUME Inv, NEW c \in Configs, NEW gated \in BOOLEAN, Reload(c, gated)
  PROVE  Inv'
<1>1. /\ config' = c /\ slots' = Register(slots, table, c.peers)
      /\ run' = [a \in Addr |-> IF a \in PeersOf(config) \cap PeersOf(c) THEN run[a] ELSE <<>>]
      /\ misled' = {} /\ table' = table /\ now' = now /\ flying' = flying
      /\ repeats' = repeats \cup Doubled(slots')
  BY DEF Reload
<1>2. rearm' \in BOOLEAN
  BY DEF Reload
<1>3. /\ slots \in Seq(Slot) /\ table \in [Addr -> ActivePeer]
      /\ \A a \in Addr \ repeats : Once(slots, a)
      /\ run \in [Addr -> Seq(Nat)] /\ now \in Nat /\ <<>> \in Seq(Nat)
      /\ c.peers \in Seq(Addr)
  BY BlockFacts, TimelineAssumption
<1>c. RegisteredFor(c, slots, table, slots')
  BY <1>1, <1>3, RegisteredBlock
<1>4. /\ slots' \in Seq(Slot) /\ DOMAIN slots' = DOMAIN c.peers
      /\ \A i \in DOMAIN slots' :
           /\ slots'[i] \in Slot /\ slots'[i].addr = c.peers[i] /\ slots'[i].addr \in Addr
           /\ slots'[i].activeOk = table[c.peers[i]].healthy
  BY <1>c DEF RegisteredFor
<1>b. ASSUME NEW a, SlotsOf(slots', a) = {} PROVE a \notin PeersOf(c)
  BY <1>4, <1>b DEF PeersOf, SlotsOf
<1>a. ASSUME NEW i \in DOMAIN slots' PROVE InheritedCounts(slots, slots'[i])
  BY <1>c DEF RegisteredFor
<1>5. run' \in [Addr -> Seq(Nat)]
  BY <1>1, <1>3
<1>6. TypeOK'
  BY <1>1, <1>2, <1>4, <1>5 DEF Inv, TypeOK, Doubled
<1>7. BlockOK'
  BY <1>1, <1>4 DEF BlockOK
<1>8. RunOK'
  <2>1. ASSUME NEW i \in DOMAIN slots', slots'[i].addr \notin repeats'
        PROVE  CountOK(slots'[i], run'[slots'[i].addr], now)
    <3> DEFINE a == slots'[i].addr
    <3>1. a = c.peers[i] /\ a \in Addr /\ a \in PeersOf(c) /\ i \in DOMAIN c.peers
      BY <1>4 DEF PeersOf
    <3>a. a \notin repeats /\ Once(slots, a)
      BY <2>1, <3>1, <1>1, <1>3
    <3>2. /\ \A j \in DOMAIN slots : slots[j].addr = a =>
               slots'[i].fails = slots[j].fails /\ slots'[i].windowStart = slots[j].windowStart
          /\ SlotsOf(slots, a) = {} => slots'[i].fails = 0 /\ slots'[i].windowStart = 0
      BY <3>a, <1>a DEF InheritedCounts
    <3>3. CASE a \in PeersOf(config)
      <4>1. PICK j \in DOMAIN slots : slots[j].addr = a
        BY <3>3, PeersHaveSlots DEF Inv
      <4>2. CountOK(slots[j], run[a], now)
        BY <3>a, <4>1, BlockFacts
      <4>3. run'[a] = run[a]
        BY <1>1, <3>1, <3>3
      <4> QED
        BY <4>1, <4>2, <4>3, <3>2, SameCounts
    <3>4. CASE a \notin PeersOf(config)
      <4>1. SlotsOf(slots, a) = {}
        BY <3>4, PeersHaveSlots DEF Inv, SlotsOf
      <4>2. run'[a] = <<>>
        BY <1>1, <3>1, <3>4
      <4>3. CountOK(slots'[i], <<>>, now)
        BY <4>1, <3>2, <1>3, NoFailures
      <4> QED
        BY <4>2, <4>3
    <3> QED
      BY <3>3, <3>4
  <2>2. ASSUME NEW a \in Addr, SlotsOf(slots', a) = {} PROVE run'[a] = <<>>
    BY <2>2, <1>1, <1>b
  <2> QED
    BY <2>1, <2>2, <1>1 DEF RunOK
<1>9. MirrorAgrees'
  BY <1>1, <1>4 DEF MirrorAgrees
<1> QED
  BY <1>6, <1>7, <1>8, <1>9 DEF Inv

(***************************************************************************)
(* The answer to a probe (Probe): the verdict and its mirror move together *)
(* unless the list has changed under the probe, which misled records.      *)
(***************************************************************************)
LEMMA ProbeKeeps ==
  ASSUME Inv, NEW p \in flying, NEW ok \in BOOLEAN, Probe(p, ok)
  PROVE  Inv'
<1> DEFINE a == p.addr
           i == p.idx
           v == Saturated(EvaluateActive(table[a], ok))
           h == v.healthy
<1>1. /\ table' = [table EXCEPT ![a] = v] /\ slots' = Mirror(slots, i, h)
      /\ misled' = IF Held(i) = {a} THEN misled \ {a} ELSE misled \cup Held(i) \cup {a}
      /\ flying' = flying \ {p} /\ UNCHANGED <<config, now, rearm, run, repeats>>
  BY DEF Probe, RecordProbe
<1>2. a \in Addr /\ i \in Nat
  BY DEF Inv, TypeOK
<1>3. /\ slots \in Seq(Slot) /\ table \in [Addr -> ActivePeer]
      /\ \A j \in DOMAIN slots : /\ slots[j] \in Slot /\ slots[j].addr \in Addr
                                 /\ slots[j].addr \notin repeats =>
                                      CountOK(slots[j], run[slots[j].addr], now)
  BY BlockFacts
<1>4. v \in ActivePeer /\ h \in BOOLEAN
  BY <1>2, <1>3, VerdictType
<1> HIDE DEF v, h
<1>5. /\ table' \in [Addr -> ActivePeer] /\ table'[a] = v
      /\ \A b \in Addr : b # a => table'[b] = table[b]
  BY <1>1, <1>2, <1>3, <1>4
<1>6. misled \subseteq Addr /\ MirrorAgrees /\ TypeOK /\ BlockOK /\ RunOK
  BY DEF Inv, TypeOK
<1>7. CASE i \notin DOMAIN slots
  <2>1. slots' = slots /\ Held(i) = {}
    BY <1>1, <1>7 DEF Mirror, Held
  <2>2. misled' = misled \cup {a}
    BY <2>1, <1>1
  <2>3. TypeOK' /\ BlockOK'
    BY <2>1, <2>2, <1>1, <1>2, <1>5, <1>6 DEF TypeOK, BlockOK
  <2>4. RunOK'
    BY <2>1, <1>1, <1>6 DEF RunOK, SlotsOf
  <2>5. MirrorAgrees'
    BY <2>1, <2>2, <1>3, <1>5, <1>6 DEF MirrorAgrees
  <2> QED
    BY <2>3, <2>4, <2>5 DEF Inv
<1>8. CASE i \in DOMAIN slots
  <2> DEFINE e == [slots[i] EXCEPT !.activeOk = h]
  <2>1. /\ e \in Slot /\ e.addr = slots[i].addr /\ e.fails = slots[i].fails
        /\ e.windowStart = slots[i].windowStart /\ e.activeOk = h
    BY <1>3, <1>4, <1>8, SlotWithVerdict, VerdictWrite
  <2>2. slots' = [slots EXCEPT ![i] = e]
    BY <1>1, <1>8 DEF Mirror
  <2> HIDE DEF e
  <2>3. /\ slots' \in Seq(Slot) /\ DOMAIN slots' = DOMAIN slots
        /\ \A j \in DOMAIN slots : slots'[j].addr = slots[j].addr
        /\ \A j \in DOMAIN slots : j # i => slots'[j] = slots[j]
        /\ slots'[i] = e
    BY <2>1, <2>2, <1>3, <1>8, SlotWrite
  <2>4. Doubled(slots') = Doubled(slots) /\ \A b : SlotsOf(slots', b) = SlotsOf(slots, b)
    BY <2>3, SameDoubled
  <2>5. Held(i) = {slots[i].addr}
    BY <1>8 DEF Held
  <2>6. misled' \subseteq Addr
    BY <2>5, <1>1, <1>2, <1>3, <1>6, <1>8
  <2>7. TypeOK' /\ BlockOK'
    BY <2>3, <2>4, <2>6, <1>1, <1>5, <1>6 DEF TypeOK, BlockOK
  <2>8. RunOK'
    <3>1. ASSUME NEW j \in DOMAIN slots, slots'[j].addr \notin repeats
          PROVE  CountOK(slots'[j], run[slots'[j].addr], now)
      <4>1. CountOK(slots[j], run[slots[j].addr], now)
        BY <3>1, <2>3, <1>3
      <4>2. slots'[j].fails = slots[j].fails /\ slots'[j].windowStart = slots[j].windowStart
        BY <2>1, <2>3
      <4> QED
        BY <4>1, <4>2, <2>3, SameCounts
    <3> QED
      BY <3>1, <2>3, <2>4, <1>1, <1>6 DEF RunOK
  <2>9. MirrorAgrees'
    <3> SUFFICES ASSUME NEW j \in DOMAIN slots',
                        slots'[j].addr \notin misled' \cup Doubled(slots')
                 PROVE  slots'[j].activeOk = table'[slots'[j].addr].healthy
      BY DEF MirrorAgrees
    <3> DEFINE b == slots[j].addr
    <3>1. /\ j \in DOMAIN slots /\ slots'[j].addr = b /\ b \notin misled' /\ b \in Addr
          /\ b \notin Doubled(slots)
      BY <2>3, <2>4, <1>3
    <3>2. CASE slots[i].addr = a
      <4>1. misled' = misled \ {a}
        BY <3>2, <2>5, <1>1
      <4>2. CASE j = i
        BY <4>2, <3>1, <3>2, <2>1, <2>3, <1>5 DEF h
      <4>3. CASE j # i
        <5>1. b # a
          <6>1. Once(slots, b)
            BY <3>1, NotDoubled
          <6> QED
            BY <6>1, <4>3, <3>1, <3>2, <1>8 DEF Once, SlotsOf
        <5>2. b \notin misled /\ slots'[j] = slots[j] /\ table'[b] = table[b]
          BY <5>1, <4>1, <4>3, <3>1, <2>3, <1>5
        <5> QED
          BY <5>2, <3>1, <1>6 DEF MirrorAgrees
      <4> QED
        BY <4>2, <4>3
    <3>3. CASE slots[i].addr # a
      <4>1. misled' = misled \cup {slots[i].addr, a}
        BY <3>3, <2>5, <1>1
      <4>2. b # a /\ j # i /\ b \notin misled
        BY <4>1, <3>1
      <4> QED
        BY <4>2, <3>1, <2>3, <1>5, <1>6 DEF MirrorAgrees
    <3> QED
      BY <3>2, <3>3
  <2> QED
    BY <2>7, <2>8, <2>9 DEF Inv
<1> QED
  BY <1>7, <1>8

(***************************************************************************)
(* As time passes a history stays in its windows.                          *)
(***************************************************************************)
LEMMA CountsAge ==
  ASSUME NEW s \in Slot, NEW r \in Seq(Nat), NEW t \in Nat, NEW u \in Nat, t <= u,
         CountOK(s, r, t)
  PROVE  CountOK(s, r, u)
<1>1. s.windowStart \in Nat /\ \A k \in 1..Len(r) : r[k] \in Nat
  BY SlotFields, ElementOfSeq, LenProperties
<1>2. CASE MaxFails = 0
  BY <1>2 DEF CountOK
<1>3. CASE MaxFails # 0
  <2>1. Windowed(s, r, t)
    BY <1>3 DEF CountOK
  <2>2. s.windowStart <= u /\ \A k \in 1..Len(r) : r[k] <= u
    BY <2>1, <1>1 DEF Windowed
  <2>3. Windowed(s, r, u)
    BY <2>1, <2>2 DEF Windowed
  <2> QED
    BY <2>3, <1>3 DEF CountOK
<1> QED
  BY <1>2, <1>3

(***************************************************************************)
(* The clock (Tick).                                                       *)
(***************************************************************************)
LEMMA TickKeeps ==
  ASSUME Inv, Tick
  PROVE  Inv'
<1>1. now \in Nat /\ now' \in Nat /\ now <= now'
      /\ UNCHANGED <<config, slots, table, flying, rearm, misled, run, repeats>>
  BY BlockFacts DEF Tick, probeVars
<1>2. TypeOK' /\ BlockOK' /\ MirrorAgrees'
  BY <1>1 DEF Inv, TypeOK, BlockOK, MirrorAgrees
<1>3. ASSUME NEW i \in DOMAIN slots, slots[i].addr \notin repeats
      PROVE  CountOK(slots[i], run[slots[i].addr], now')
  BY <1>1, <1>3, BlockFacts, CountsAge
<1>4. \A a \in Addr : SlotsOf(slots, a) = {} => run[a] = <<>>
  BY DEF Inv, RunOK
<1>5. RunOK'
  BY <1>1, <1>3, <1>4 DEF RunOK
<1> QED
  BY <1>2, <1>5 DEF Inv

(***************************************************************************)
(* The prober's own steps (ProbeTick, Spawn) touch no health state.        *)
(***************************************************************************)
LEMMA ProberKeeps ==
  ASSUME Inv, ProbeTick \/ Spawn \/ UNCHANGED vars
  PROVE  Inv'
<1>1. UNCHANGED <<config, slots, table, now, misled, run, repeats>>
  BY DEF ProbeTick, Spawn, vars
<1>2. BlockOK' /\ RunOK' /\ MirrorAgrees'
  BY <1>1 DEF Inv, BlockOK, RunOK, MirrorAgrees
<1>3. rearm' \in BOOLEAN
  BY DEF Inv, TypeOK, ProbeTick, Spawn, vars
<1>4. \A p \in flying' : p.addr \in Addr /\ p.idx \in Nat
  <2>1. CASE ProbeTick
    <3>1. config.peers \in Seq(Addr)
      BY TimelineAssumption DEF Inv, TypeOK
    <3>2. \A i \in DOMAIN config.peers : i \in Nat /\ config.peers[i] \in Addr
      BY <3>1, LenProperties, ElementOfSeq
    <3> QED
      BY <2>1, <3>2 DEF ProbeTick
  <2>2. CASE Spawn \/ UNCHANGED vars
    BY <2>2 DEF Inv, TypeOK, Spawn, vars
  <2> QED
    BY <2>1, <2>2
<1>5. TypeOK'
  BY <1>1, <1>3, <1>4 DEF Inv, TypeOK
<1> QED
  BY <1>2, <1>5 DEF Inv

(***************************************************************************)
(* The registry starts with fresh slots and no history.                    *)
(***************************************************************************)
LEMMA InitInv == Init => Inv
<1> SUFFICES ASSUME Init PROVE Inv
  OBVIOUS
<1>1. /\ config \in Configs /\ table = [a \in Addr |-> FreshActive]
      /\ slots = Register(<<>>, table, config.peers) /\ now = FailWindow + 1
      /\ flying = {} /\ rearm = FALSE /\ misled = {} /\ run = [a \in Addr |-> <<>>]
      /\ repeats = Doubled(slots)
  BY DEF Init, NoRun
<1>2. now \in Nat /\ <<>> \in Seq(Nat) /\ run \in [Addr -> Seq(Nat)]
  BY <1>1, HealthAssumption
<1>3. table \in [Addr -> ActivePeer]
  <2>1. FreshActive \in ActivePeer
    BY DEF FreshActive, ActivePeer
  <2> QED
    BY <2>1, <1>1
<1>4. <<>> \in Seq(Slot)
  OBVIOUS
<1>a. RegisteredFor(config, <<>>, table, slots)
  BY <1>1, <1>3, <1>4, RegisteredBlock
<1>5. /\ slots \in Seq(Slot) /\ DOMAIN slots = DOMAIN config.peers
      /\ \A i \in DOMAIN slots :
           /\ slots[i] \in Slot /\ slots[i].addr = config.peers[i] /\ slots[i].addr \in Addr
           /\ slots[i].activeOk = table[config.peers[i]].healthy
  BY <1>a DEF RegisteredFor
<1>6. ASSUME NEW i \in DOMAIN slots PROVE CountOK(slots[i], run[slots[i].addr], now)
  <2>1. InheritedCounts(<<>>, slots[i])
    BY <1>a DEF RegisteredFor
  <2>2. SlotsOf(<<>>, slots[i].addr) = {}
    BY DEF SlotsOf
  <2>3. slots[i].fails = 0 /\ slots[i].windowStart = 0
    BY <2>1, <2>2 DEF InheritedCounts
  <2>4. CountOK(slots[i], <<>>, now)
    BY <2>3, <1>2, NoFailures
  <2> QED
    BY <2>4, <1>1, <1>5
<1>7. TypeOK
  BY <1>1, <1>2, <1>3, <1>5 DEF TypeOK, Doubled
<1>8. BlockOK
  BY <1>1, <1>5 DEF BlockOK
<1>9. RunOK
  BY <1>1, <1>6 DEF RunOK
<1>10. MirrorAgrees
  BY <1>5 DEF MirrorAgrees
<1> QED
  BY <1>7, <1>8, <1>9, <1>10 DEF Inv

(***************************************************************************)
(* Every step keeps the invariant.                                         *)
(***************************************************************************)
LEMMA NextInv == Inv /\ [Next]_vars => Inv'
<1> SUFFICES ASSUME Inv, [Next]_vars PROVE Inv'
  OBVIOUS
<1>1. CASE Traffic
  BY <1>1, FailKeeps, SucceedKeeps DEF Traffic
<1>2. CASE Prober
  BY <1>2, ProberKeeps, ProbeKeeps DEF Prober
<1>3. CASE Publishers
  BY <1>3, ReloadKeeps DEF Publishers
<1>4. CASE Tick
  BY <1>4, TickKeeps
<1>5. CASE UNCHANGED vars
  BY <1>5, ProberKeeps
<1> QED
  BY <1>1, <1>2, <1>3, <1>4, <1>5 DEF Next
-----------------------------------------------------------------------------
(***************************************************************************)
(* The invariant holds, for every configuration and every threshold.       *)
(***************************************************************************)
THEOREM InvHolds == Spec => []Inv
  BY InitInv, NextInv, PTL DEF Spec

(***************************************************************************)
(* The verdict of an address and its mirror agree (record_probe,           *)
(* register), unless a probe outlived its list.                            *)
(***************************************************************************)
THEOREM VerdictsAgree == Spec => []MirrorAgrees
<1>1. Inv => MirrorAgrees
  BY DEF Inv
<1> QED
  BY <1>1, InvHolds, PTL

(***************************************************************************)
(* No burst of failures escapes (record_failure), whatever MaxFails and    *)
(* FailWindow are and wherever the windows begin.                          *)
(***************************************************************************)
THEOREM NoBurstEscapes == Spec => []BurstIsCaught
<1>1. ASSUME Inv, NEW a \in Addr \ repeats, MaxFails > 0, Len(run[a]) = Burst
      PROVE  run[a][Burst] - run[a][1] > FailWindow
  <2> DEFINE r == run[a]
  <2>1. MaxFails \in Nat /\ FailWindow \in Nat /\ Burst = 2 * MaxFails - 1 /\ Burst >= 1
    BY <1>1, HealthAssumption DEF Burst
  <2>2. SlotsOf(slots, a) # {}
    <3>1. Len(<<>>) # Burst
      BY <2>1
    <3> QED
      BY <3>1, <1>1 DEF Inv, RunOK
  <2>3. PICK i \in DOMAIN slots : slots[i].addr = a
    BY <2>2 DEF SlotsOf
  <2> DEFINE s == slots[i]
  <2>4. s \in Slot /\ r \in Seq(Nat) /\ CountOK(s, r, now)
    BY <2>3, <1>1, BlockFacts
  <2>5. s.windowStart \in Nat /\ s.fails \in Nat
    BY <2>4, SlotFields
  <2>6. r[1] \in Nat /\ r[Burst] \in Nat /\ Len(r) = Burst
    BY <2>1, <2>4, <1>1, ElementOfSeq
  <2>7. Windowed(s, r, now)
    BY <2>4, <1>1 DEF CountOK
  <2> HIDE DEF s, r
  <2>8. s.fails <= MaxFails - 1 /\ s.fails >= 1
    BY <2>1, <2>6, <2>7 DEF Windowed
  <2>9. s.windowStart - r[1] > FailWindow
    <3>1. 1 \in 1..Len(r) /\ 1 <= Len(r) - s.fails - (MaxFails - 1)
      BY <2>1, <2>5, <2>6, <2>8
    <3> QED
      BY <3>1, <2>7 DEF Windowed
  <2>10. r[Burst] >= s.windowStart
    <3>1. Burst \in 1..Len(r) /\ Burst > Len(r) - s.fails
      BY <2>1, <2>5, <2>6, <2>8
    <3> QED
      BY <3>1, <2>7 DEF Windowed
  <2>11. r[Burst] - r[1] > FailWindow
    <3>1. PICK x, y, z \in Nat : x = r[1] /\ y = r[Burst] /\ z = s.windowStart
      BY <2>5, <2>6
    <3>2. z - x > FailWindow /\ y >= z /\ FailWindow \in Nat
      BY <3>1, <2>1, <2>9, <2>10
    <3>3. y - x > FailWindow
      BY <3>1, <3>2
    <3> QED
      BY <3>1, <3>3
  <2> QED
    BY <2>11 DEF r
<1>2. Inv => BurstIsCaught
  BY <1>1 DEF BurstIsCaught
<1> QED
  BY <1>2, InvHolds, PTL

(***************************************************************************)
(* The down marking of an address is that of its slot.                     *)
(***************************************************************************)
LEMMA DownOfSlot ==
  ASSUME NEW sl \in Seq(Slot), NEW i \in DOMAIN sl, Once(sl, sl[i].addr)
  PROVE  DownUntil(sl, sl[i].addr) = sl[i].downUntil
<1>1. SlotsOf(sl, sl[i].addr) # {} /\ i \in SlotsOf(sl, sl[i].addr)
  BY DEF SlotsOf
<1>2. AddrSlot(sl, sl[i].addr) \in SlotsOf(sl, sl[i].addr)
  BY <1>1, SlotFound DEF SlotsOf
<1>3. AddrSlot(sl, sl[i].addr) = i
  BY <1>1, <1>2 DEF Once
<1> QED
  BY <1>1, <1>3 DEF DownUntil

(***************************************************************************)
(* Blocks with the same addresses and markings mark the same addresses.    *)
(***************************************************************************)
LEMMA SameDown ==
  ASSUME NEW sl \in Seq(Slot), NEW new \in Seq(Slot), NEW a, Once(sl, a), Once(new, a),
         \A i \in DOMAIN sl : sl[i].addr = a =>
           \E j \in DOMAIN new : new[j].addr = a /\ new[j].downUntil = sl[i].downUntil,
         \A j \in DOMAIN new : new[j].addr = a /\ new[j].downUntil > 0 =>
           \E i \in DOMAIN sl : sl[i].addr = a
  PROVE  ~(DownUntil(new, a) > DownUntil(sl, a))
<1>1. CASE \E i \in DOMAIN sl : sl[i].addr = a
  <2>1. PICK i \in DOMAIN sl : sl[i].addr = a
    BY <1>1
  <2>2. PICK j \in DOMAIN new : new[j].addr = a /\ new[j].downUntil = sl[i].downUntil
    BY <2>1
  <2>3. DownUntil(sl, a) = sl[i].downUntil
    BY <2>1, DownOfSlot
  <2>4. DownUntil(new, a) = new[j].downUntil
    BY <2>2, DownOfSlot
  <2>5. sl[i].downUntil \in Nat
    BY BlockIsFunction, SlotFields
  <2> QED
    BY <2>2, <2>3, <2>4, <2>5
<1>2. CASE ~\E i \in DOMAIN sl : sl[i].addr = a
  <2>1. DownUntil(sl, a) = 0
    BY <1>2 DEF DownUntil, SlotsOf
  <2>2. CASE \E j \in DOMAIN new : new[j].addr = a
    <3>1. PICK j \in DOMAIN new : new[j].addr = a
      BY <2>2
    <3>2. DownUntil(new, a) = new[j].downUntil
      BY <3>1, DownOfSlot
    <3>3. ~(new[j].downUntil > 0)
      BY <3>1, <1>2
    <3> QED
      BY <3>2, <3>3, <2>1
  <2>3. CASE ~\E j \in DOMAIN new : new[j].addr = a
    <3>1. DownUntil(new, a) = 0
      BY <2>3 DEF DownUntil, SlotsOf
    <3> QED
      BY <3>1, <2>1
  <2> QED
    BY <2>2, <2>3
<1> QED
  BY <1>1, <1>2

(***************************************************************************)
(* What a trip of the slot says of the history behind it.                  *)
(***************************************************************************)
LEMMA TripIsEarned ==
  ASSUME NEW s \in Slot, NEW e, NEW r \in Seq(Nat), NEW t \in Nat, MaxFails # 0,
         Windowed(s, r, t), Trips(s, e, t)
  PROVE  /\ Len(r) >= MaxFails - 1
         /\ \A k \in Len(r) - MaxFails + 2 .. Len(r) : t - r[k] <= FailWindow
<1>1. /\ MaxFails \in Nat /\ FailWindow \in Nat /\ s.fails \in Nat /\ s.windowStart \in Nat
      /\ Len(r) \in Nat /\ \A k \in 1..Len(r) : r[k] \in Nat
  BY HealthAssumption, SlotFields, LenProperties, ElementOfSeq
<1>2. CASE MaxFails = 1
  BY <1>1, <1>2
<1>3. CASE MaxFails # 1
  <2>1. t - s.windowStart <= FailWindow /\ s.fails + 1 >= MaxFails
    BY <1>3 DEF Trips
  <2>2. s.fails = MaxFails - 1 /\ s.fails <= Len(r)
    BY <2>1, <1>1 DEF Windowed
  <2>3. ASSUME NEW k \in Len(r) - MaxFails + 2 .. Len(r) PROVE t - r[k] <= FailWindow
    <3>1. k \in 1..Len(r) /\ k > Len(r) - s.fails
      BY <2>2, <1>1
    <3>2. r[k] >= s.windowStart /\ r[k] \in Nat
      BY <3>1, <1>1 DEF Windowed
    <3>3. PICK x, y \in Nat : x = r[k] /\ y = s.windowStart
      BY <3>2, <1>1
    <3>4. x \in Nat /\ x >= y /\ t - y <= FailWindow /\ FailWindow \in Nat
      BY <3>2, <3>3, <2>1, <1>1
    <3>5. t - x <= FailWindow
      BY <3>4
    <3> QED
      BY <3>3, <3>5
  <2> QED
    BY <2>2, <2>3, <1>1
<1> QED
  BY <1>2, <1>3

\* What the marking of address a in one step must rest on.
Earned(a) ==
  DownUntil(slots', a) > DownUntil(slots, a) =>
    /\ Len(run[a]) >= MaxFails - 1
    /\ \A k \in Len(run[a]) - MaxFails + 2 .. Len(run[a]) : now - run[a][k] <= FailWindow
    /\ DownUntil(slots', a) = now + FailTimeout

(***************************************************************************)
(* A step that keeps the marking of every slot in its place marks nobody.  *)
(***************************************************************************)
LEMMA KeptMarks ==
  ASSUME Inv, Inv', NEW a \in Addr \ repeats, DOMAIN slots' = DOMAIN slots,
         \A i \in DOMAIN slots : slots'[i].addr = slots[i].addr,
         \A i \in DOMAIN slots : slots[i].addr = a => slots'[i].downUntil = slots[i].downUntil
  PROVE  ~(DownUntil(slots', a) > DownUntil(slots, a))
<1>1. slots \in Seq(Slot) /\ Once(slots, a)
  BY BlockFacts
<1>2. slots' \in Seq(Slot) /\ Once(slots', a)
  <2>1. slots' \in Seq(Slot)
    BY DEF Inv, TypeOK
  <2>2. SlotsOf(slots', a) = SlotsOf(slots, a)
    BY SameDoubled
  <2> QED
    BY <2>1, <2>2, <1>1 DEF Once
<1>3. \A i \in DOMAIN slots : slots[i].addr = a =>
        \E j \in DOMAIN slots' : slots'[j].addr = a /\ slots'[j].downUntil = slots[i].downUntil
  OBVIOUS
<1>4. \A j \in DOMAIN slots' : slots'[j].addr = a /\ slots'[j].downUntil > 0 =>
        \E i \in DOMAIN slots : slots[i].addr = a
  OBVIOUS
<1> QED
  BY <1>1, <1>2, <1>3, <1>4, SameDown

(***************************************************************************)
(* A failed attempt marks the address it hit, and only if it is due.       *)
(***************************************************************************)
LEMMA FailEarns ==
  ASSUME Inv, Inv', NEW i \in DOMAIN slots, Fail(i), NEW a \in Addr \ repeats
  PROVE  Earned(a)
<1> DEFINE s == slots[i]
           e == SlotAfterFailure(s, now)
<1>1. /\ s \in Slot /\ run[s.addr] \in Seq(Nat) /\ now \in Nat
      /\ s.addr \notin repeats => CountOK(s, run[s.addr], now)
      /\ slots \in Seq(Slot) /\ Once(slots, a)
  BY BlockFacts
<1>2. slots' = RecordFailure(slots, i, now)
  BY DEF Fail
<1>3. CASE MaxFails = 0
  <2>1. slots' = slots
    BY <1>2, <1>3 DEF RecordFailure
  <2> QED
    BY <2>1, KeptMarks DEF Earned
<1>4. CASE MaxFails # 0
  <2>1. slots' = [slots EXCEPT ![i] = e]
    BY <1>2, <1>4 DEF RecordFailure
  <2>2. e.addr = s.addr /\ (Trips(s, e, now) \/ Counts(s, e, now) \/ Reopens(s, e, now))
    BY <1>1, <1>4, FailureCases
  <2> HIDE DEF e
  <2>3. /\ DOMAIN slots' = DOMAIN slots /\ slots'[i] = e
        /\ \A j \in DOMAIN slots : j # i => slots'[j] = slots[j]
        /\ \A j \in DOMAIN slots : slots'[j].addr = slots[j].addr
    BY <2>1, <2>2
  <2>4. CASE a # s.addr
    <3>1. \A j \in DOMAIN slots : slots[j].addr = a => slots'[j].downUntil = slots[j].downUntil
      BY <2>3, <2>4
    <3> QED
      BY <3>1, <2>3, KeptMarks DEF Earned
  <2>5. CASE Counts(s, e, now) \/ Reopens(s, e, now)
    <3>1. \A j \in DOMAIN slots : slots'[j].downUntil = slots[j].downUntil
      BY <2>3, <2>5 DEF Counts, Reopens
    <3> QED
      BY <3>1, <2>3, KeptMarks DEF Earned
  <2>6. CASE a = s.addr /\ Trips(s, e, now)
    <3>1. Windowed(s, run[a], now)
      BY <1>1, <1>4, <2>6 DEF CountOK
    <3>2. /\ Len(run[a]) >= MaxFails - 1
          /\ \A k \in Len(run[a]) - MaxFails + 2 .. Len(run[a]) : now - run[a][k] <= FailWindow
      <4> HIDE DEF s
      <4> QED
        BY <3>1, <2>6, <1>1, <1>4, TripIsEarned
    <3>3. DownUntil(slots', a) = now + FailTimeout
      <4>1. slots' \in Seq(Slot) /\ Once(slots', slots'[i].addr)
        <5>1. slots' \in Seq(Slot)
          BY DEF Inv, TypeOK
        <5>2. SlotsOf(slots', a) = SlotsOf(slots, a) /\ slots'[i].addr = a
          BY <2>2, <2>3, <2>6, SameDoubled
        <5> QED
          BY <5>1, <5>2, <1>1 DEF Once
      <4>2. DownUntil(slots', slots'[i].addr) = slots'[i].downUntil
        BY <4>1, <2>3, DownOfSlot
      <4> QED
        BY <4>2, <2>2, <2>3, <2>6 DEF Trips
    <3> QED
      BY <3>2, <3>3 DEF Earned
  <2> QED
    BY <2>2, <2>4, <2>5, <2>6
<1> QED
  BY <1>3, <1>4

(***************************************************************************)
(* A reload carries the marks of the addresses it keeps and makes none.    *)
(***************************************************************************)
LEMMA ReloadMarksNobody ==
  ASSUME Inv, NEW c \in Configs, NEW gated \in BOOLEAN, Reload(c, gated),
         NEW a \in Addr \ repeats
  PROVE  ~(DownUntil(slots', a) > DownUntil(slots, a))
<1>1. slots \in Seq(Slot) /\ Once(slots, a) /\ table \in [Addr -> ActivePeer]
  BY BlockFacts
<1>2. RegisteredFor(c, slots, table, slots')
  BY <1>1, RegisteredBlock DEF Reload
<1>3. slots' \in Seq(Slot) /\ \A j \in DOMAIN slots' : InheritedCounts(slots, slots'[j])
  BY <1>2 DEF RegisteredFor
<1>4. SlotsOf(slots, a) # {} =>
        \E i \in DOMAIN slots : /\ slots[i].addr = a /\ DownUntil(slots, a) = slots[i].downUntil
                               /\ slots[i].downUntil \in Nat
  <2> SUFFICES ASSUME SlotsOf(slots, a) # {}
               PROVE  \E i \in DOMAIN slots :
                        /\ slots[i].addr = a /\ DownUntil(slots, a) = slots[i].downUntil
                        /\ slots[i].downUntil \in Nat
    OBVIOUS
  <2>1. PICK i \in DOMAIN slots : slots[i].addr = a
    BY DEF SlotsOf
  <2> QED
    BY <2>1, <1>1, DownOfSlot, BlockIsFunction, SlotFields
<1>5. SlotsOf(slots, a) = {} => DownUntil(slots, a) = 0
  BY DEF DownUntil
<1>6. CASE SlotsOf(slots', a) = {}
  <2>1. DownUntil(slots', a) = 0
    BY <1>6 DEF DownUntil
  <2> QED
    BY <2>1, <1>4, <1>5
<1>7. CASE SlotsOf(slots', a) # {}
  <2> DEFINE j == AddrSlot(slots', a)
  <2>1. j \in DOMAIN slots' /\ slots'[j].addr = a
    BY <1>3, <1>7, SlotFound
  <2>2. DownUntil(slots', a) = slots'[j].downUntil
    BY <1>7 DEF DownUntil
  <2>3. InheritedCounts(slots, slots'[j])
    BY <2>1, <1>3
  <2> HIDE DEF j
  <2>4. CASE SlotsOf(slots, a) = {}
    BY <2>1, <2>2, <2>3, <2>4, <1>5 DEF InheritedCounts
  <2>5. CASE SlotsOf(slots, a) # {}
    BY <2>1, <2>2, <2>3, <2>5, <1>1, <1>4 DEF InheritedCounts
  <2> QED
    BY <2>4, <2>5
<1> QED
  BY <1>6, <1>7

(***************************************************************************)
(* Every step that marks an address down has MaxFails failures behind it,  *)
(* within one window, with no success or removal between them.             *)
(***************************************************************************)
LEMMA StepEarns ==
  ASSUME Inv, Inv', [Next]_vars, NEW a \in Addr \ repeats
  PROVE  Earned(a)
<1>1. ASSUME NEW i \in DOMAIN slots, Succeed(i) PROVE Earned(a)
  <2>1. slots' = [slots EXCEPT ![i] = SlotAfterSuccess(slots[i], now)] /\ slots[i] \in Slot
    BY <1>1, BlockFacts DEF Succeed, RecordSuccess
  <2>2. /\ SlotAfterSuccess(slots[i], now).addr = slots[i].addr
        /\ SlotAfterSuccess(slots[i], now).downUntil = slots[i].downUntil
    BY <2>1 DEF SlotAfterSuccess, Slot
  <2>3. /\ DOMAIN slots' = DOMAIN slots
        /\ \A j \in DOMAIN slots : slots'[j].addr = slots[j].addr
        /\ \A j \in DOMAIN slots : slots'[j].downUntil = slots[j].downUntil
    BY <2>1, <2>2
  <2> QED
    BY <2>3, KeptMarks DEF Earned
<1>2. ASSUME NEW p \in flying, NEW ok \in BOOLEAN, Probe(p, ok) PROVE Earned(a)
  <2> DEFINE v == Saturated(EvaluateActive(table[p.addr], ok)).healthy
  <2>1. slots' = Mirror(slots, p.idx, v)
    BY <1>2 DEF Probe, RecordProbe
  <2>2. v \in BOOLEAN
    BY VerdictType DEF Inv, TypeOK
  <2> HIDE DEF v
  <2>3. CASE p.idx \notin DOMAIN slots
    <3>1. slots' = slots
      BY <2>1, <2>3 DEF Mirror
    <3> QED
      BY <3>1, KeptMarks DEF Earned
  <2>4. CASE p.idx \in DOMAIN slots
    <3> DEFINE i == p.idx
               e == [slots[i] EXCEPT !.activeOk = v]
    <3>1. slots' = [slots EXCEPT ![i] = e]
      BY <2>1, <2>4 DEF Mirror
    <3>2. e.addr = slots[i].addr /\ e.downUntil = slots[i].downUntil
      BY <2>2, <2>4, BlockFacts, SlotWithVerdict, VerdictWrite
    <3> HIDE DEF e
    <3>3. /\ DOMAIN slots' = DOMAIN slots
          /\ \A j \in DOMAIN slots : slots'[j].addr = slots[j].addr
          /\ \A j \in DOMAIN slots : slots'[j].downUntil = slots[j].downUntil
      BY <3>1, <3>2
    <3> QED
      BY <3>3, KeptMarks DEF Earned
  <2> QED
    BY <2>3, <2>4
<1>3. CASE ProbeTick \/ Spawn \/ Tick \/ UNCHANGED vars
  <2>1. slots' = slots
    BY <1>3 DEF ProbeTick, Spawn, Tick, vars
  <2> QED
    BY <2>1, KeptMarks DEF Earned
<1>4. CASE Traffic
  BY <1>4, <1>1, FailEarns DEF Traffic
<1>5. CASE Publishers
  BY <1>5, ReloadMarksNobody DEF Publishers, Earned
<1> QED
  BY <1>2, <1>3, <1>4, <1>5 DEF Next, Prober

(***************************************************************************)
(* An address is marked down only by the last of MaxFails failures of its  *)
(* own within FailWindow, and for FailTimeout (record_failure).            *)
(***************************************************************************)
THEOREM MarksAreEarned == Spec => DownIsEarned
<1>1. Inv /\ Inv' /\ [Next]_vars => [\A a \in Addr \ repeats : Earned(a)]_vars
  BY StepEarns
<1>2. [\A a \in Addr \ repeats : Earned(a)]_vars =>
        [\A a \in Addr \ repeats :
           DownUntil(slots', a) > DownUntil(slots, a) =>
             /\ Len(run[a]) >= MaxFails - 1
             /\ \A k \in Len(run[a]) - MaxFails + 2 .. Len(run[a]) :
                  now - run[a][k] <= FailWindow
             /\ DownUntil(slots', a) = now + FailTimeout]_vars
  BY DEF Earned
<1> QED
  BY <1>1, <1>2, InvHolds, PTL DEF Spec, DownIsEarned

(***************************************************************************)
(* A reload keeps an address that was not misled exactly as routable as it *)
(* was (register), wherever the new list has it.                           *)
(***************************************************************************)
THEOREM ReloadsAreNeutral == Spec => ReloadIsNeutral
<1>1. ASSUME Inv, Next, NEW i \in DOMAIN slots, NEW j \in DOMAIN slots', config' # config,
             slots[i].addr = slots'[j].addr,
             slots[i].addr \notin misled \cup Doubled(slots)
      PROVE  IsHealthy(slots, i, now) <=> IsHealthy(slots', j, now)
  <2>1. PICK c \in Configs, gated \in BOOLEAN : Reload(c, gated)
    BY <1>1 DEF Next, Traffic, Prober, Publishers, Fail, Succeed, ProbeTick, Probe, Spawn, Tick
  <2>2. slots' = Register(slots, table, c.peers)
    BY <2>1 DEF Reload
  <2>3. /\ slots \in Seq(Slot) /\ table \in [Addr -> ActivePeer]
        /\ Once(slots, slots[i].addr)
    BY <1>1, BlockFacts, NotDoubled
  <2>4. RegisteredFor(c, slots, table, slots')
    BY <2>2, <2>3, RegisteredBlock
  <2>5. slots'[j].downUntil = slots[i].downUntil
    <3>1. InheritedCounts(slots, slots'[j])
      BY <2>4 DEF RegisteredFor
    <3> QED
      BY <3>1, <2>3, <1>1 DEF InheritedCounts
  <2>6. slots'[j].activeOk = table[slots'[j].addr].healthy
    BY <2>4 DEF RegisteredFor
  <2>7. slots[i].activeOk = table[slots[i].addr].healthy
    BY <1>1 DEF Inv, MirrorAgrees
  <2>8. slots'[j].activeOk = slots[i].activeOk
    BY <2>6, <2>7, <1>1
  <2> QED
    BY <2>5, <2>8, Zenon DEF IsHealthy
<1>2. Inv /\ [Next]_vars =>
        [\A i \in DOMAIN slots, j \in DOMAIN slots' :
           /\ config' # config
           /\ slots[i].addr = slots'[j].addr
           /\ slots[i].addr \notin misled \cup Doubled(slots)
           => (IsHealthy(slots, i, now) <=> IsHealthy(slots', j, now))]_vars
  BY <1>1
<1> QED
  BY <1>2, InvHolds, PTL DEF Spec, ReloadIsNeutral

-----------------------------------------------------------------------------
(***************************************************************************)
(* ClientPool.                                                             *)
(***************************************************************************)
Upstreams == {Resolved(c, found) : c \in PoolConfigs, found \in Lookups}

Applying == [pc : {"warm", "evict", "publish"}, up : Upstreams,
             todo : SUBSET UNION {KeysOf(u) : u \in Upstreams}]

PoolTypeOK ==
  /\ apply \in [Appliers -> Applying \cup {NoApply}]
  /\ alone \in BOOLEAN
  /\ \A k \in DOMAIN https : k[2] # "plain"

\* An apply overlapped by none is the only one there is.
AloneIsAlone ==
  alone = TRUE => \A a, b \in Appliers : apply[a] # NoApply /\ apply[b] # NoApply => a = b

\* How far such an apply has brought the pool: warmed up to what is still to do,
\* then without stale plaintext clients, then without stale clients of any kind.
ApplyProgress ==
  alone = TRUE => \A a \in Appliers :
    /\ apply[a].pc = "warm" =>
         apply[a].todo \subseteq KeysOf(apply[a].up) /\ KeysOf(apply[a].up) \ apply[a].todo \subseteq Pooled
    /\ apply[a].pc \in {"evict", "publish"} => KeysOf(apply[a].up) \subseteq Pooled
    /\ apply[a].pc = "evict" =>
         \A k \in Pooled \ KeysOf(apply[a].up) : k[2] = "plain" => k \in lit
    /\ apply[a].pc = "publish" => Pooled \ KeysOf(apply[a].up) \subseteq lit

PoolInv == PoolTypeOK /\ AloneIsAlone /\ ApplyProgress /\ PoolFollowsConfig

LEMMA NoApplyIsIdle ==
  ASSUME PoolTypeOK, NEW a \in Appliers
  PROVE  /\ apply[a] = NoApply <=> apply[a].pc = "idle"
         /\ apply[a] # NoApply => apply[a] \in Applying /\ apply[a].pc \in {"warm", "evict", "publish"}
<1>1. apply[a] \in Applying \/ apply[a] = NoApply
  BY DEF PoolTypeOK
<1>2. NoApply.pc = "idle"
  BY DEF NoApply
<1>3. apply[a] \in Applying => apply[a].pc \in {"warm", "evict", "publish"}
  BY DEF Applying
<1> QED
  BY <1>1, <1>2, <1>3

\* get and get_tls add the client asked for and no other.
LEMMA GetAddsOne ==
  ASSUME NEW x, NEW t, NEW timeout, Get(<<x, t>>, timeout), \A k \in DOMAIN https : k[2] # "plain"
  PROVE  Pooled' = Pooled \cup {<<x, t>>} /\ \A k \in DOMAIN https' : k[2] # "plain"
<1>1. CASE t = "plain"
  <2>1. DOMAIN http' = DOMAIN http \cup {x} /\ https' = https
    BY <1>1 DEF Get, Put
  <2> QED
    BY <1>1, <2>1 DEF Pooled
<1>2. CASE t # "plain"
  <2>1. DOMAIN https' = DOMAIN https \cup {<<x, t>>} /\ http' = http
    BY <1>2 DEF Get, Put
  <2> QED
    BY <1>2, <2>1 DEF Pooled
<1> QED
  BY <1>1, <1>2

LEMMA KeyShape == \A up : \A k \in KeysOf(up) : \E x : x \in up.peers /\ k = <<x, up.tls>>
  BY DEF KeysOf

LEMMA PoolInvInit == PoolInit => PoolInv
<1> SUFFICES ASSUME PoolInit PROVE PoolInv
  OBVIOUS
<1>1. \A a \in Appliers : apply[a] = NoApply /\ apply[a].pc = "idle"
  BY DEF PoolInit, NoApply
<1>2. AloneIsAlone /\ ApplyProgress
  BY <1>1 DEF AloneIsAlone, ApplyProgress
<1>3. Pooled = KeysOf(published) /\ \A k \in DOMAIN https : k[2] # "plain"
  <2>1. KeysOf(published) = {<<x, PoolBoot.tls>> : x \in PoolBoot.peers}
    BY DEF PoolInit, KeysOf
  <2>2. CASE PoolBoot.tls = "plain"
    <3>1. DOMAIN http = PoolBoot.peers /\ DOMAIN https = {}
      BY <2>2 DEF PoolInit
    <3> QED
      BY <2>1, <2>2, <3>1 DEF Pooled
  <2>3. CASE PoolBoot.tls # "plain"
    <3>1. DOMAIN http = {} /\ DOMAIN https = KeysOf(PoolBoot)
      BY <2>3 DEF PoolInit
    <3>2. DOMAIN https = KeysOf(published)
      BY <2>1, <3>1 DEF KeysOf
    <3>3. \A k \in DOMAIN https : k[2] # "plain"
      BY <2>1, <2>3, <3>2
    <3> QED
      BY <3>1, <3>2, <3>3 DEF Pooled
  <2> QED
    BY <2>2, <2>3
<1>4. PoolFollowsConfig
  BY <1>3 DEF PoolFollowsConfig
<1>5. PoolTypeOK
  BY <1>3 DEF PoolInit, PoolTypeOK
<1> QED
  BY <1>2, <1>4, <1>5 DEF PoolInv

LEMMA PoolInvNext == PoolInv /\ [PoolNext]_poolVars => PoolInv'
<1> SUFFICES ASSUME PoolInv, [PoolNext]_poolVars PROVE PoolInv'
  OBVIOUS
<1> USE DEF PoolInv
<1>t. \A a \in Appliers : apply[a] = NoApply \/ apply[a] \in Applying
  BY DEF PoolTypeOK
<1>i. \A a \in Appliers : /\ apply[a] = NoApply <=> apply[a].pc = "idle"
                          /\ apply[a] # NoApply => apply[a].pc \in {"warm", "evict", "publish"}
  BY NoApplyIsIdle
<1>1. ASSUME NEW a \in Appliers, BeginApply(a) PROVE PoolInv'
  <2>b. PICK c \in PoolConfigs, found \in Lookups :
          apply' = [apply EXCEPT ![a] = [pc |-> "warm", up |-> Resolved(c, found),
                                         todo |-> KeysOf(Resolved(c, found))]]
    BY <1>1 DEF BeginApply
  <2>1. PICK up :
          /\ up = Resolved(c, found)
          /\ apply' = [apply EXCEPT ![a] = [pc |-> "warm", up |-> up, todo |-> KeysOf(up)]]
    BY <2>b
  <2>2. /\ alone' = (\A b \in Appliers : apply[b] = NoApply)
        /\ UNCHANGED <<http, https, published, lit>>
    BY <1>1 DEF BeginApply
  <2>3. PICK e : e = [pc |-> "warm", up |-> up, todo |-> KeysOf(up)]
    OBVIOUS
  <2>4. e.pc = "warm" /\ e.up = up /\ e.todo = KeysOf(up)
    BY <2>3
  <2>5. e \in Applying
    BY <2>1, <2>3 DEF Applying, Upstreams
  <2>6. /\ apply'[a] = e /\ \A b \in Appliers : b # a => apply'[b] = apply[b]
        /\ apply' \in [Appliers -> Applying \cup {NoApply}]
    BY <2>1, <2>3, <2>5 DEF PoolTypeOK
  <2>7. PoolTypeOK'
    BY <2>2, <2>6 DEF PoolTypeOK
  <2>8. alone' = TRUE => \A b \in Appliers : b # a => apply'[b] = NoApply
    BY <2>2, <2>6
  <2>9. apply'[a] # NoApply
    BY <2>4, <2>6 DEF NoApply
  <2>10. AloneIsAlone' /\ PoolFollowsConfig'
    BY <2>8, <2>9 DEF AloneIsAlone, PoolFollowsConfig
  <2>11. NoApply.pc = "idle"
    BY DEF NoApply
  <2>12. ApplyProgress'
    BY <2>4, <2>6, <2>8, <2>11 DEF ApplyProgress
  <2> QED
    BY <2>7, <2>10, <2>12
<1>2. ASSUME NEW a \in Appliers, Prewarm(a) PROVE PoolInv'
  <2>1. PICK k \in apply[a].todo :
          /\ Get(k, apply[a].up.timeout)
          /\ apply' = [apply EXCEPT ![a].todo = @ \ {k}]
    BY <1>2 DEF Prewarm
  <2>2. apply[a].pc = "warm" /\ UNCHANGED <<published, lit, alone>>
    BY <1>2 DEF Prewarm
  <2>3. apply[a] \in Applying /\ apply[a] # NoApply
    BY <1>i, <1>t, <2>2
  <2>4. PICK e : e = [apply[a] EXCEPT !.todo = @ \ {k}]
    OBVIOUS
  <2>5. /\ e \in Applying /\ e.pc = "warm" /\ e.up = apply[a].up
        /\ e.todo = apply[a].todo \ {k}
    BY <2>2, <2>3, <2>4 DEF Applying
  <2>6. /\ apply'[a] = e /\ \A b \in Appliers : b # a => apply'[b] = apply[b]
        /\ apply' \in [Appliers -> Applying \cup {NoApply}]
    BY <2>1, <2>4, <2>5 DEF PoolTypeOK
  <2>7. apply'[a] # NoApply
    BY <2>5, <2>6 DEF NoApply
  <2>8. PICK u \in Upstreams : k \in KeysOf(u)
    BY <2>3 DEF Applying
  <2>9. PICK x : k = <<x, u.tls>>
    BY <2>8, KeyShape
  <2>10. Pooled' = Pooled \cup {k} /\ \A q \in DOMAIN https' : q[2] # "plain"
    BY <2>1, <2>9, GetAddsOne DEF PoolTypeOK
  <2>11. PoolTypeOK'
    BY <2>2, <2>6, <2>10 DEF PoolTypeOK
  <2>12. AloneIsAlone' /\ PoolFollowsConfig'
    BY <2>2, <2>3, <2>6, <2>7 DEF AloneIsAlone, PoolFollowsConfig
  <2>13. alone = TRUE => \A b \in Appliers : b # a => apply'[b].pc = "idle"
    BY <1>i, <2>3, <2>6 DEF AloneIsAlone
  <2>14. ApplyProgress'
    BY <2>2, <2>5, <2>6, <2>10, <2>13 DEF ApplyProgress
  <2> QED
    BY <2>11, <2>12, <2>14
<1>3. ASSUME NEW a \in Appliers, EvictHttp(a) PROVE PoolInv'
  <2>1. /\ apply[a].pc = "warm" /\ apply[a].todo = {}
        /\ http' = Keep(http, {k[1] : k \in {x \in KeysOf(apply[a].up) : x[2] = "plain"}})
        /\ lit' = {k \in lit : k[2] # "plain"}
        /\ apply' = [apply EXCEPT ![a].pc = "evict"]
        /\ UNCHANGED <<https, published, alone>>
    BY <1>3 DEF EvictHttp
  <2>2. apply[a] \in Applying /\ apply[a] # NoApply
    BY <1>i, <1>t, <2>1
  <2>3. PICK e : e = [apply[a] EXCEPT !.pc = "evict"]
    OBVIOUS
  <2>4. e \in Applying /\ e.pc = "evict" /\ e.up = apply[a].up
    BY <2>2, <2>3 DEF Applying
  <2>5. /\ apply'[a] = e /\ \A b \in Appliers : b # a => apply'[b] = apply[b]
        /\ apply' \in [Appliers -> Applying \cup {NoApply}]
    BY <2>1, <2>3, <2>4 DEF PoolTypeOK
  <2>6. apply'[a] # NoApply
    BY <2>4, <2>5 DEF NoApply
  <2>7. PICK up : up = apply[a].up
    OBVIOUS
  <2>8. DOMAIN http' = DOMAIN http \cap {k[1] : k \in {x \in KeysOf(up) : x[2] = "plain"}}
    BY <2>1, <2>7 DEF Keep
  <2>9. \A k \in Pooled' : k[2] = "plain" => k \in KeysOf(up)
    <3> SUFFICES ASSUME NEW k \in Pooled', k[2] = "plain" PROVE k \in KeysOf(up)
      OBVIOUS
    <3>1. k \notin DOMAIN https'
      BY <2>1 DEF PoolTypeOK
    <3>2. PICK x \in DOMAIN http' : k = <<x, "plain">>
      BY <3>1 DEF Pooled
    <3>3. PICK q \in KeysOf(up) : q[2] = "plain" /\ x = q[1]
      BY <2>8, <3>2
    <3>4. q = k
      BY <3>2, <3>3, KeyShape
    <3> QED
      BY <3>3, <3>4
  <2>10. Pooled \cap KeysOf(up) \subseteq Pooled'
    <3> SUFFICES ASSUME NEW k \in KeysOf(up), k \in Pooled PROVE k \in Pooled'
      OBVIOUS
    <3>1. CASE k \in DOMAIN https
      BY <2>1, <3>1 DEF Pooled
    <3>2. CASE k \notin DOMAIN https
      <4>1. PICK x \in DOMAIN http : k = <<x, "plain">>
        BY <3>2 DEF Pooled
      <4>2. k \in {q \in KeysOf(up) : q[2] = "plain"} /\ x = k[1]
        BY <4>1
      <4>3. x \in DOMAIN http'
        BY <2>8, <4>1, <4>2
      <4> QED
        BY <4>1, <4>3 DEF Pooled
    <3> QED
      BY <3>1, <3>2
  <2>11. PoolTypeOK'
    BY <2>1, <2>5 DEF PoolTypeOK
  <2>12. AloneIsAlone' /\ PoolFollowsConfig'
    BY <2>1, <2>2, <2>5, <2>6 DEF AloneIsAlone, PoolFollowsConfig
  <2>13. alone = TRUE => \A b \in Appliers : b # a => apply'[b].pc = "idle"
    BY <1>i, <2>2, <2>5 DEF AloneIsAlone
  <2>14. alone = TRUE => KeysOf(up) \subseteq Pooled'
    BY <2>1, <2>7, <2>10 DEF ApplyProgress
  <2>15. ApplyProgress'
    BY <2>1, <2>4, <2>5, <2>7, <2>9, <2>13, <2>14 DEF ApplyProgress
  <2> QED
    BY <2>11, <2>12, <2>15
<1>4. ASSUME NEW a \in Appliers, EvictHttps(a) PROVE PoolInv'
  <2>1. /\ apply[a].pc = "evict"
        /\ https' = Keep(https, KeysOf(apply[a].up))
        /\ lit' = {k \in lit : k[2] = "plain"}
        /\ apply' = [apply EXCEPT ![a].pc = "publish"]
        /\ UNCHANGED <<http, published, alone>>
    BY <1>4 DEF EvictHttps
  <2>2. apply[a] \in Applying /\ apply[a] # NoApply
    BY <1>i, <1>t, <2>1
  <2>3. PICK e : e = [apply[a] EXCEPT !.pc = "publish"]
    OBVIOUS
  <2>4. e \in Applying /\ e.pc = "publish" /\ e.up = apply[a].up
    BY <2>2, <2>3 DEF Applying
  <2>5. /\ apply'[a] = e /\ \A b \in Appliers : b # a => apply'[b] = apply[b]
        /\ apply' \in [Appliers -> Applying \cup {NoApply}]
    BY <2>1, <2>3, <2>4 DEF PoolTypeOK
  <2>6. apply'[a] # NoApply
    BY <2>4, <2>5 DEF NoApply
  <2>7. PICK up : up = apply[a].up
    OBVIOUS
  <2>8. DOMAIN https' = DOMAIN https \cap KeysOf(up)
    BY <2>1, <2>7 DEF Keep
  <2>9. Pooled' \subseteq Pooled /\ Pooled \cap KeysOf(up) \subseteq Pooled'
    BY <2>1, <2>8 DEF Pooled
  <2>10. \A k \in Pooled' \ KeysOf(up) : k[2] = "plain"
    BY <2>1, <2>8 DEF Pooled
  <2>11. PoolTypeOK'
    BY <2>1, <2>5, <2>8 DEF PoolTypeOK
  <2>12. AloneIsAlone' /\ PoolFollowsConfig'
    BY <2>1, <2>2, <2>5, <2>6 DEF AloneIsAlone, PoolFollowsConfig
  <2>13. alone = TRUE => \A b \in Appliers : b # a => apply'[b].pc = "idle"
    BY <1>i, <2>2, <2>5 DEF AloneIsAlone
  <2>14. alone = TRUE => KeysOf(up) \subseteq Pooled' /\ Pooled' \ KeysOf(up) \subseteq lit'
    BY <2>1, <2>7, <2>9, <2>10 DEF ApplyProgress
  <2>15. ApplyProgress'
    BY <2>1, <2>4, <2>5, <2>7, <2>13, <2>14 DEF ApplyProgress
  <2> QED
    BY <2>11, <2>12, <2>15
<1>5. ASSUME NEW a \in Appliers, Publish(a) PROVE PoolInv'
  <2>1. /\ apply[a].pc = "publish" /\ published' = apply[a].up
        /\ apply' = [apply EXCEPT ![a] = NoApply]
        /\ UNCHANGED <<http, https, lit, alone>>
    BY <1>5 DEF Publish
  <2>2. /\ apply'[a] = NoApply /\ \A b \in Appliers : b # a => apply'[b] = apply[b]
        /\ apply' \in [Appliers -> Applying \cup {NoApply}]
    BY <2>1 DEF PoolTypeOK
  <2>3. Pooled' = Pooled /\ NoApply.pc = "idle"
    BY <2>1 DEF Pooled, NoApply
  <2>4. PoolTypeOK'
    BY <2>1, <2>2 DEF PoolTypeOK
  <2>5. AloneIsAlone'
    BY <2>1, <2>2 DEF AloneIsAlone
  <2>6. ApplyProgress'
    BY <2>1, <2>2, <2>3 DEF ApplyProgress
  <2>7. alone = TRUE => KeysOf(apply[a].up) \subseteq Pooled /\ Pooled \ KeysOf(apply[a].up) \subseteq lit
    BY <2>1 DEF ApplyProgress
  <2>8. alone \in BOOLEAN
    BY DEF PoolTypeOK
  <2>9. PoolFollowsConfig'
    BY <2>1, <2>3, <2>7, <2>8 DEF PoolFollowsConfig
  <2> QED
    BY <2>4, <2>5, <2>6, <2>9
<1>6. ASSUME NEW r \in PoolRequests, Attempt(r) PROVE PoolInv'
  <2>1. PICK k \in KeysOf(pin[r]) :
          Get(k, pin[r].timeout) /\ lit' = IF k \in Pooled THEN lit ELSE lit \cup {k}
    BY <1>6 DEF Attempt
  <2>2. UNCHANGED <<published, apply, alone>>
    BY <1>6 DEF Attempt
  <2>3. PICK x : k = <<x, pin[r].tls>>
    BY KeyShape
  <2>4. Pooled' = Pooled \cup {k} /\ \A q \in DOMAIN https' : q[2] # "plain"
    BY <2>1, <2>3, GetAddsOne DEF PoolTypeOK
  <2>5. lit \subseteq lit' /\ (k \in Pooled \/ k \in lit')
    BY <2>1
  <2>6. PoolTypeOK' /\ AloneIsAlone'
    BY <2>2, <2>4 DEF PoolTypeOK, AloneIsAlone
  <2>7. ApplyProgress'
    BY <2>2, <2>4, <2>5 DEF ApplyProgress
  <2>8. PoolFollowsConfig'
    BY <2>2, <2>4, <2>5 DEF PoolFollowsConfig
  <2> QED
    BY <2>6, <2>7, <2>8
<1>7. CASE UNCHANGED <<http, https, published, apply, lit, alone>>
  <2>1. Pooled' = Pooled
    BY <1>7 DEF Pooled
  <2>2. PoolTypeOK' /\ AloneIsAlone' /\ ApplyProgress' /\ PoolFollowsConfig'
    BY <1>7, <2>1 DEF PoolTypeOK, AloneIsAlone, ApplyProgress, PoolFollowsConfig
  <2> QED
    BY <2>2
<1>8. ASSUME NEW r \in PoolRequests, PinSnapshot(r) \/ UnpinSnapshot(r)
      PROVE UNCHANGED <<http, https, published, apply, lit, alone>>
  BY <1>8 DEF PinSnapshot, UnpinSnapshot
<1>9. UNCHANGED poolVars => UNCHANGED <<http, https, published, apply, lit, alone>>
  BY DEF poolVars
<1> QED
  BY <1>1, <1>2, <1>3, <1>4, <1>5, <1>6, <1>7, <1>8, <1>9 DEF PoolNext

\* How far an apply that nothing overlaps has brought the pool: prewarmed up to
\* what is still to do, then rid of stale clients (state.rs apply_runtime,
\* client.rs evict_except).
THEOREM PoolInvHolds == PoolSpec => []PoolInv
  BY PoolInvInit, PoolInvNext, PTL DEF PoolSpec

\* After an apply that nothing overlapped, the pool has the clients of the
\* published upstreams and no stale one but those that requests pinned to an
\* older snapshot have asked for since (state.rs apply_runtime).
THEOREM PoolKeepsFollowingConfig == PoolSpec => []PoolFollowsConfig
<1>1. PoolInv => PoolFollowsConfig
  BY DEF PoolInv
<1> QED
  BY <1>1, PoolInvHolds, PTL

-----------------------------------------------------------------------------
(***************************************************************************)
(* AffinityScheduler.                                                      *)
(***************************************************************************)
DecidingPcs == {"lookup", "renew", "scan", "stamps", "assign", "mark"}
Records == [peer : 0..Peers, until : Nat]

\* What a session may be: a request decides about one task, with the counts it
\* scanned or the peer it chose.
Sessions ==
  {s \in [pc : DecidingPcs \cup {"idle", "pick"}, key : SUBSET Tasks, view : SUBSET Index,
          idx : 0..Peers, active : {<<>>} \cup [Index -> Nat], pin : 0..Peers,
          mixed : BOOLEAN, was : Records, stored : BOOLEAN] :
     /\ s.pc \in DecidingPcs => s.key # {} /\ s.pin = 0
     /\ s.key = {} \/ \E t \in Tasks : s.key = {t}
     /\ s.pc = "stamps" => s.active \in [Index -> Nat]
     /\ s.pc \in {"renew", "assign", "mark"} => s.idx \in Index}

AffinityTypeOK ==
  /\ aff \in [Tasks -> Records]
  /\ sched \in [Index -> [at : Nat, until : Nat]]
  /\ time \in Nat /\ peak \in Nat
  /\ sreq \in [Requests -> Sessions]

PeakIsPeak == Cardinality(Deciding(sreq)) <= peak

\* The session s may still write a record of its task for the peer p.
Claims(s, p) ==
  \/ s.pc \in {"renew", "assign"} /\ s.idx = p
  \/ s.pc = "stamps" /\ s.active[p] < Cap

\* The tasks on a peer, those that are on their way to it, and which of them
\* were placed with all the records in view.
Settled(p) == {t \in Tasks : Live(aff[t]) /\ aff[t].peer = p}
Coming(p) == {TaskOf(q) : q \in {x \in Requests : Claims(sreq[x], p)}}
Due(p) == Settled(p) \cup Coming(p)
Taken(p) == Due(p) \ blind

HeldIsBounded == Cap > 0 => \A p \in Index : Cardinality(Taken(p)) <= Cap + peak - 1

\* Requests of one task know of each other.
MixedIsKnown ==
  \A r, q \in Requests :
    r # q /\ sreq[r].key = sreq[q].key /\ sreq[r].pc # "idle" /\ sreq[q].pc # "idle"
      => sreq[r].mixed = TRUE

\* What a request that decides alone knows of the record of its task.
Remembers(s, rec, t) ==
  s.mixed = FALSE /\ s.key # {} =>
    /\ s.pc = "lookup" /\ t < s.was.until => rec = s.was
    /\ s.pc = "renew" /\ s.was.peer \in s.view /\ t < s.was.until => s.idx = s.was.peer
    /\ s.pc \in {"scan", "stamps", "assign", "mark"} => ~(s.was.peer \in s.view /\ t < s.was.until)
    /\ s.pc = "mark" /\ s.stored = TRUE => rec.peer = s.idx
    /\ s.pc = "pick" /\ s.was.peer \in s.view /\ t < s.was.until => s.pin = s.was.peer
    /\ s.pc = "pick" /\ s.pin # 0 /\ s.stored = TRUE => rec.peer = s.pin

SessionsRemember == \A r \in Requests : Remembers(sreq[r], aff[TaskOf(r)], time)

AffinityInv ==
  AffinityTypeOK /\ PeakIsPeak /\ HeldIsBounded /\ MixedIsKnown /\ SessionsRemember

LEMMA ChooseOnly == \A t : (CHOOSE x \in {t} : TRUE) = t
  OBVIOUS

LEMMA AffinityConstants ==
  /\ IsFiniteSet(Requests) /\ IsFiniteSet(Tasks)
  /\ Peers \in Nat /\ Cap \in Nat /\ Ttl \in Nat /\ MaxTime \in Nat
  /\ \A v \in Views : v \in SUBSET Index
  /\ Index \subseteq Nat /\ 0 \notin Index /\ 0 \in 0..Peers /\ \A p \in Index : p \in 0..Peers
  BY AffinityAssumption DEF Index

LEMMA TaskKeyIsOne ==
  ASSUME NEW in \in Inputs
  PROVE  TaskKey(in) \subseteq Tasks /\ (TaskKey(in) = {} \/ \E t \in Tasks : TaskKey(in) = {t})
<1>1. \A q, n : QueryParam(q, n) = {} \/ \E t : QueryParam(q, n) = {t}
  BY DEF QueryParam
<1>2. \A q, n : PathSegment(q, n) = {} \/ \E t : PathSegment(q, n) = {t}
  BY DEF PathSegment
<1>3. \A q, n : JsonStringField(q, n) = {} \/ \E t : JsonStringField(q, n) = {t}
  BY DEF JsonStringField
<1>4. TaskKey(in) = {} \/ \E t : TaskKey(in) = {t}
  <2>1. in.extract.from \in {"query", "path", "body"}
    BY AffinityAssumption
  <2>2. PICK js : js = JsonStringField(in.body, in.extract.name)
    OBVIOUS
  <2>3. js \ {""} = {} \/ \E t : js \ {""} = {t}
    <3>1. js = {} \/ \E t : js = {t}
      BY <1>3, <2>2
    <3>2. CASE js = {}
      BY <3>2
    <3>3. ASSUME NEW t, js = {t} PROVE js \ {""} = {} \/ js \ {""} = {t}
      <4>1. CASE t = ""
        BY <3>3, <4>1
      <4>2. CASE t # ""
        BY <3>3, <4>2
      <4> QED
        BY <4>1, <4>2
    <3> QED
      BY <3>1, <3>2, <3>3
  <2>4. \/ TaskKey(in) = {} \/ TaskKey(in) = QueryParam(in.query, in.extract.name)
        \/ TaskKey(in) = PathSegment(in.path, in.extract.n) \/ TaskKey(in) = js \ {""}
    <3>1. CASE ~ParseExtract(in.extract)
      BY <3>1 DEF TaskKey
    <3>2. CASE ParseExtract(in.extract) /\ in.extract.from = "query"
      BY <3>2 DEF TaskKey
    <3>3. CASE ParseExtract(in.extract) /\ in.extract.from = "path"
      BY <3>3 DEF TaskKey
    <3>4. CASE ParseExtract(in.extract) /\ in.extract.from = "body"
      BY <2>2, <3>4 DEF TaskKey
    <3> QED
      BY <2>1, <3>1, <3>2, <3>3, <3>4
  <2>5. CASE TaskKey(in) = QueryParam(in.query, in.extract.name)
    BY <1>1, <2>5
  <2>6. CASE TaskKey(in) = PathSegment(in.path, in.extract.n)
    BY <1>2, <2>6
  <2>7. CASE TaskKey(in) = js \ {""}
    BY <2>3, <2>7
  <2> QED
    BY <2>4, <2>5, <2>6, <2>7
<1> QED
  BY <1>4, AffinityAssumption
LEMMA ChoiceIsOpen ==
  ASSUME NEW view \in SUBSET Index, NEW active \in [Index -> Nat], NEW last \in [Index -> Nat],
         ChooseLeastLoaded(view, active, last) # 0
  PROVE  /\ ChooseLeastLoaded(view, active, last) \in view
         /\ Cap = 0 \/ active[ChooseLeastLoaded(view, active, last)] < Cap
<1>1. PICK open : open = {p \in view : Cap = 0 \/ active[p] < Cap}
  OBVIOUS
<1>2. open # {} /\ open \subseteq Index
  BY <1>1 DEF ChooseLeastLoaded
<1>3. Index \subseteq Nat
  BY AffinityConstants
<1>4. PICK a \in open : \A q \in open : active[a] <= active[q]
  <2>1. {active[p] : p \in open} \subseteq Nat /\ {active[p] : p \in open} # {}
    BY <1>2
  <2>2. PICK x \in {active[p] : p \in open} : \A y \in {active[p] : p \in open} : x <= y
    BY <2>1, SmallestElement
  <2> QED
    BY <2>2
<1>5. PICK least : least = {p \in open : active[p] = active[a]}
  OBVIOUS
<1>6. PICK b \in least : \A q \in least : last[b] <= last[q]
  <2>1. {last[p] : p \in least} \subseteq Nat /\ {last[p] : p \in least} # {}
    BY <1>2, <1>5
  <2>2. PICK x \in {last[p] : p \in least} : \A y \in {last[p] : p \in least} : x <= y
    BY <2>1, SmallestElement
  <2> QED
    BY <2>2
<1>7. PICK oldest : oldest = {p \in least : last[p] = last[b]}
  OBVIOUS
<1>8. PICK c \in oldest : \A q \in oldest : c <= q
  <2>1. oldest \subseteq Nat /\ oldest # {}
    BY <1>2, <1>3, <1>5, <1>7
  <2> QED
    BY <2>1, SmallestElement
<1>9. c \in open /\ active[c] = active[a] /\ last[c] = last[b]
  BY <1>5, <1>7, <1>8
<1>10. \A q \in open : \/ active[c] < active[q]
                       \/ active[c] = active[q] /\ last[c] < last[q]
                       \/ active[c] = active[q] /\ last[c] = last[q] /\ c <= q
  <2> SUFFICES ASSUME NEW q \in open
               PROVE  \/ active[c] < active[q]
                      \/ active[c] = active[q] /\ last[c] < last[q]
                      \/ active[c] = active[q] /\ last[c] = last[q] /\ c <= q
    OBVIOUS
  <2>1. active[q] \in Nat /\ active[a] \in Nat /\ last[q] \in Nat /\ last[b] \in Nat
    BY <1>2, <1>5
  <2>2. active[a] <= active[q]
    BY <1>4
  <2>3. active[q] = active[a] => q \in least /\ last[b] <= last[q]
    BY <1>5, <1>6
  <2>4. active[q] = active[a] /\ last[q] = last[b] => c <= q
    BY <1>7, <1>8, <2>3
  <2> QED
    BY <1>9, <2>1, <2>2, <2>3, <2>4
<1>11. PICK p \in open : p = ChooseLeastLoaded(view, active, last)
  BY <1>1, <1>2, <1>9, <1>10 DEF ChooseLeastLoaded
<1> QED
  BY <1>1, <1>11

\* e is s, but that its request may have met another one of its task.
SameSession(e, s) ==
  /\ e.pc = s.pc /\ e.key = s.key /\ e.view = s.view /\ e.idx = s.idx /\ e.active = s.active
  /\ e.pin = s.pin /\ e.was = s.was /\ e.stored = s.stored
  /\ e.mixed = FALSE => s.mixed = FALSE

\* What Step does to the sessions it is given: marks the mixed ones.
LEMMA SessionStep ==
  ASSUME NEW s \in [Requests -> Sessions], peak \in Nat, Step(s)
  PROVE  /\ sreq' \in [Requests -> Sessions]
         /\ \A q \in Requests :
              /\ sreq'[q].pc = s[q].pc /\ sreq'[q].key = s[q].key /\ sreq'[q].view = s[q].view
              /\ sreq'[q].idx = s[q].idx /\ sreq'[q].active = s[q].active /\ sreq'[q].pin = s[q].pin
              /\ sreq'[q].was = s[q].was /\ sreq'[q].stored = s[q].stored
              /\ sreq'[q].mixed = FALSE => s[q].mixed = FALSE
         /\ MixedIsKnown'
         /\ peak' \in Nat /\ peak <= peak' /\ PeakIsPeak'
<1>1. sreq' = Mingled(s)
  BY DEF Step
<1>2. \A q \in Requests :
        /\ sreq'[q] = s[q] \/ sreq'[q] = [s[q] EXCEPT !.mixed = TRUE]
        /\ (\E p \in Requests \ {q} : s[p].key = s[q].key /\ "idle" \notin {s[p].pc, s[q].pc})
             => sreq'[q] = [s[q] EXCEPT !.mixed = TRUE]
  BY <1>1 DEF Mingled
<1>3. \A e \in Sessions : /\ [e EXCEPT !.mixed = TRUE] \in Sessions /\ [e EXCEPT !.mixed = TRUE].mixed = TRUE
                          /\ [e EXCEPT !.mixed = TRUE].pc = e.pc /\ [e EXCEPT !.mixed = TRUE].key = e.key
                          /\ [e EXCEPT !.mixed = TRUE].view = e.view /\ [e EXCEPT !.mixed = TRUE].idx = e.idx
                          /\ [e EXCEPT !.mixed = TRUE].active = e.active /\ [e EXCEPT !.mixed = TRUE].pin = e.pin
                          /\ [e EXCEPT !.mixed = TRUE].was = e.was /\ [e EXCEPT !.mixed = TRUE].stored = e.stored
  <2> SUFFICES ASSUME NEW e \in Sessions, NEW m, m = [e EXCEPT !.mixed = TRUE]
               PROVE  /\ m \in Sessions /\ m.mixed = TRUE /\ m.pc = e.pc /\ m.key = e.key /\ m.view = e.view
                      /\ m.idx = e.idx /\ m.active = e.active /\ m.pin = e.pin
                      /\ m.was = e.was /\ m.stored = e.stored
    OBVIOUS
  <2>1. /\ m.mixed = TRUE /\ m.pc = e.pc /\ m.key = e.key /\ m.view = e.view
        /\ m.idx = e.idx /\ m.active = e.active /\ m.pin = e.pin
        /\ m.was = e.was /\ m.stored = e.stored
    BY DEF Sessions
  <2>2. m \in [pc : DecidingPcs \cup {"idle", "pick"}, key : SUBSET Tasks, view : SUBSET Index,
               idx : 0..Peers, active : {<<>>} \cup [Index -> Nat], pin : 0..Peers,
               mixed : BOOLEAN, was : Records, stored : BOOLEAN]
    BY DEF Sessions
  <2>3. m \in Sessions
    BY <2>1, <2>2 DEF Sessions
  <2> QED
    BY <2>1, <2>3
<1>4. \A q \in Requests : s[q] \in Sessions
  OBVIOUS
<1>5. /\ \A q \in Requests :
           /\ sreq'[q].pc = s[q].pc /\ sreq'[q].key = s[q].key /\ sreq'[q].view = s[q].view
           /\ sreq'[q].idx = s[q].idx /\ sreq'[q].active = s[q].active /\ sreq'[q].pin = s[q].pin
           /\ sreq'[q].was = s[q].was /\ sreq'[q].stored = s[q].stored
           /\ sreq'[q].mixed = FALSE => s[q].mixed = FALSE
           /\ sreq'[q] \in Sessions
  <2> SUFFICES ASSUME NEW q \in Requests
               PROVE  /\ sreq'[q].pc = s[q].pc /\ sreq'[q].key = s[q].key /\ sreq'[q].view = s[q].view
                      /\ sreq'[q].idx = s[q].idx /\ sreq'[q].active = s[q].active /\ sreq'[q].pin = s[q].pin
                      /\ sreq'[q].was = s[q].was /\ sreq'[q].stored = s[q].stored
                      /\ sreq'[q].mixed = FALSE => s[q].mixed = FALSE
                      /\ sreq'[q] \in Sessions
    OBVIOUS
  <2>0. PICK e, d : e = sreq'[q] /\ d = s[q]
    OBVIOUS
  <2>4. d \in Sessions
    BY <1>4, <2>0
  <2>1. e = d \/ e = [d EXCEPT !.mixed = TRUE]
    BY <1>2, <2>0
  <2>2. CASE e = d
    BY <2>0, <2>2, <2>4
  <2>3. CASE e = [d EXCEPT !.mixed = TRUE]
    <3>1. /\ e.pc = d.pc /\ e.key = d.key /\ e.view = d.view /\ e.idx = d.idx
          /\ e.active = d.active /\ e.pin = d.pin /\ e.was = d.was /\ e.stored = d.stored
          /\ e.mixed = TRUE /\ e \in Sessions
      BY <1>3, <2>3, <2>4
    <3> QED
      BY <2>0, <3>1
  <2> QED
    BY <2>1, <2>2, <2>3
<1>6. sreq' \in [Requests -> Sessions]
  BY <1>1, <1>5 DEF Mingled
<1>7. MixedIsKnown'
  <2> SUFFICES ASSUME NEW r \in Requests, NEW q \in Requests, r # q,
                      sreq'[r].key = sreq'[q].key, sreq'[r].pc # "idle", sreq'[q].pc # "idle"
               PROVE  sreq'[r].mixed = TRUE
    BY DEF MixedIsKnown
  <2>1. q \in Requests \ {r} /\ s[q].key = s[r].key /\ "idle" \notin {s[q].pc, s[r].pc}
    BY <1>5
  <2>2. sreq'[r] = [s[r] EXCEPT !.mixed = TRUE]
    BY <1>2, <2>1
  <2> QED
    BY <1>3, <1>4, <2>2
<1>8. Deciding(sreq') = Deciding(s)
  BY <1>5 DEF Deciding
<1>9. Cardinality(Deciding(s)) \in Nat
  <2>1. Deciding(s) \in SUBSET Requests
    BY DEF Deciding
  <2> QED
    BY <2>1, AffinityConstants, FS_Subset, FS_CardinalityType
<1>10. peak' \in Nat /\ peak <= peak' /\ Cardinality(Deciding(s)) <= peak'
  BY <1>9 DEF Step
<1>11. PeakIsPeak'
  BY <1>8, <1>10 DEF PeakIsPeak
<1> QED
  BY <1>5, <1>6, <1>7, <1>10, <1>11

LEMMA TaskOfSession ==
  ASSUME NEW r \in Requests, AffinityTypeOK, sreq[r].key # {}
  PROVE  TaskOf(r) \in Tasks /\ sreq[r].key = {TaskOf(r)}
<1>1. PICK t \in Tasks : sreq[r].key = {t}
  BY DEF AffinityTypeOK, Sessions
<1> QED
  BY <1>1, ChooseOnly DEF TaskOf

LEMMA HeldIsFinite ==
  ASSUME AffinityTypeOK, NEW p
  PROVE  /\ Taken(p) \in SUBSET Tasks /\ Settled(p) \in SUBSET Tasks /\ Coming(p) \in SUBSET Tasks
         /\ IsFiniteSet(Settled(p)) /\ IsFiniteSet(Coming(p)) /\ IsFiniteSet(Taken(p))
         /\ Cardinality(Taken(p)) \in Nat /\ Cardinality(Settled(p)) \in Nat /\ Cardinality(Coming(p)) \in Nat
<1>1. \A q \in Requests : Claims(sreq[q], p) => sreq[q].key # {}
  BY DEF AffinityTypeOK, Sessions, Claims, DecidingPcs
<1>2. Coming(p) \in SUBSET Tasks
  BY <1>1, TaskOfSession DEF Coming
<1>3. Settled(p) \in SUBSET Tasks
  BY DEF Settled
<1>4. Taken(p) \in SUBSET Tasks
  BY <1>2, <1>3 DEF Taken, Due
<1> QED
  BY <1>2, <1>3, <1>4, AffinityConstants, FS_Subset, FS_CardinalityType

\* While nobody looks at the counts anew, a peer gets nothing it was not due.
LEMMA HeldOnlyShrinks ==
  ASSUME AffinityTypeOK, HeldIsBounded, peak' \in Nat, peak <= peak',
         \A p \in Index : Taken(p)' \subseteq Taken(p)
  PROVE  HeldIsBounded'
<1> SUFFICES ASSUME Cap > 0, NEW p \in Index PROVE Cardinality(Taken(p)') <= Cap + peak' - 1
  BY DEF HeldIsBounded
<1>1. Taken(p)' \in SUBSET Taken(p) /\ IsFiniteSet(Taken(p)) /\ Cardinality(Taken(p)) \in Nat
  BY HeldIsFinite
<1>2. IsFiniteSet(Taken(p)') /\ Cardinality(Taken(p)') <= Cardinality(Taken(p))
  BY <1>1, FS_Subset
<1>3. Cardinality(Taken(p)') \in Nat
  BY <1>2, FS_CardinalityType
<1>4. Cardinality(Taken(p)) <= Cap + peak - 1
  BY DEF HeldIsBounded
<1> QED
  BY <1>1, <1>2, <1>3, <1>4, AffinityConstants DEF AffinityTypeOK

\* Memories outlast the clock and whatever others do to other tasks.
LEMMA RemembersOn ==
  ASSUME NEW s \in Sessions, NEW e \in Sessions, NEW rec, NEW early \in Nat, NEW later \in Nat, early <= later,
         Remembers(s, rec, early),
         SameSession(e, s)
  PROVE  Remembers(e, rec, later)
<1>1. s.was.until \in Nat
  BY DEF Sessions, Records
<1>2. later < s.was.until => early < s.was.until
  BY <1>1
<1> QED
  BY <1>2 DEF Remembers, SameSession

\* A step of one request: its session becomes e, the others are what they were.
LEMMA OneSessionMoves ==
  ASSUME AffinityTypeOK, NEW r \in Requests, NEW e \in Sessions, Step([sreq EXCEPT ![r] = e])
  PROVE  /\ sreq' \in [Requests -> Sessions]
         /\ SameSession(sreq'[r], e)
         /\ \A q \in Requests \ {r} : SameSession(sreq'[q], sreq[q])
         /\ MixedIsKnown' /\ PeakIsPeak' /\ peak' \in Nat /\ peak <= peak'
<1>1. PICK s : s = [sreq EXCEPT ![r] = e]
  OBVIOUS
<1>2. s \in [Requests -> Sessions] /\ s[r] = e /\ \A q \in Requests \ {r} : s[q] = sreq[q]
  BY <1>1 DEF AffinityTypeOK
<1>3. Step(s) /\ peak \in Nat
  BY <1>1 DEF AffinityTypeOK
<1>4. /\ sreq' \in [Requests -> Sessions] /\ MixedIsKnown' /\ PeakIsPeak' /\ peak' \in Nat /\ peak <= peak'
      /\ \A q \in Requests : SameSession(sreq'[q], s[q])
  BY <1>2, <1>3, SessionStep DEF SameSession
<1> QED
  BY <1>2, <1>4

LEMMA OneSessionRemembers ==
  ASSUME AffinityTypeOK, SessionsRemember, NEW r \in Requests, NEW e \in Sessions,
         Step([sreq EXCEPT ![r] = e]), time' = time,
         aff' = aff \/ /\ sreq[r].key # {} /\ e.key = sreq[r].key /\ e.pc # "idle"
                       /\ \A t \in Tasks \ {TaskOf(r)} : aff'[t] = aff[t],
         Remembers(e, aff'[CHOOSE t \in e.key : TRUE], time)
  PROVE  SessionsRemember'
<1>1. /\ sreq' \in [Requests -> Sessions] /\ SameSession(sreq'[r], e) /\ MixedIsKnown'
      /\ \A q \in Requests \ {r} : SameSession(sreq'[q], sreq[q])
  BY OneSessionMoves
<1>2. time \in Nat /\ time' \in Nat /\ time <= time'
  BY DEF AffinityTypeOK
<1> SUFFICES ASSUME NEW q \in Requests PROVE Remembers(sreq'[q], aff'[TaskOf(q)'], time')
  BY DEF SessionsRemember
<1>3. CASE q = r
  <2>1. TaskOf(r)' = CHOOSE t \in e.key : TRUE
    BY <1>1 DEF TaskOf, SameSession
  <2> QED
    BY <1>1, <1>2, <1>3, <2>1, RemembersOn
<1>4. CASE q # r
  <2>1. SameSession(sreq'[q], sreq[q]) /\ sreq[q] \in Sessions /\ sreq'[q] \in Sessions
    BY <1>1, <1>4 DEF AffinityTypeOK
  <2>2. TaskOf(q)' = TaskOf(q)
    BY <2>1 DEF TaskOf, SameSession
  <2>3. Remembers(sreq[q], aff[TaskOf(q)], time)
    BY DEF SessionsRemember
  <2>4. CASE aff'[TaskOf(q)] = aff[TaskOf(q)]
    BY <1>2, <2>1, <2>2, <2>3, <2>4, RemembersOn
  <2>5. CASE sreq[q].key = {} \/ sreq'[q].mixed # FALSE
    BY <2>1, <2>5 DEF Remembers, SameSession
  <2>6. CASE sreq[q].pc = "idle"
    BY <2>1, <2>6 DEF Remembers, SameSession
  <2>7. ASSUME aff'[TaskOf(q)] # aff[TaskOf(q)], sreq[q].key # {}, sreq'[q].mixed = FALSE, sreq[q].pc # "idle"
        PROVE  FALSE
    <3>1. TaskOf(q) \in Tasks /\ sreq[q].key = {TaskOf(q)}
      BY <2>7, TaskOfSession
    <3>2. TaskOf(q) = TaskOf(r) /\ sreq[r].key # {} /\ e.key = sreq[r].key /\ e.pc # "idle"
      BY <2>7, <3>1
    <3>3. sreq[r].key = {TaskOf(r)}
      BY <3>2, TaskOfSession
    <3>4. sreq'[q].key = sreq'[r].key /\ sreq'[q].pc # "idle" /\ sreq'[r].pc # "idle"
      BY <1>1, <2>1, <2>7, <3>1, <3>2, <3>3 DEF SameSession
    <3> QED
      BY <1>1, <1>4, <2>7, <3>4 DEF MixedIsKnown
  <2> QED
    BY <2>4, <2>5, <2>6, <2>7
<1> QED
  BY <1>3, <1>4

LEMMA OneSessionHolds ==
  ASSUME AffinityTypeOK, HeldIsBounded, NEW r \in Requests, NEW e \in Sessions,
         Step([sreq EXCEPT ![r] = e]), time' = time, blind' = blind,
         \A t \in Tasks : \/ aff'[t] = aff[t]
                          \/ t = TaskOf(r) /\ sreq[r].pc \in {"renew", "assign"} /\ aff'[t].peer = sreq[r].idx,
         \A p \in Index : Claims(e, p) => /\ e.key = sreq[r].key
                                          /\ Claims(sreq[r], p) \/ TaskOf(r) \in Settled(p)
  PROVE  HeldIsBounded'
<1>1. /\ sreq' \in [Requests -> Sessions] /\ SameSession(sreq'[r], e)
      /\ \A q \in Requests \ {r} : SameSession(sreq'[q], sreq[q])
      /\ peak' \in Nat /\ peak <= peak'
  BY OneSessionMoves
<1>2. ASSUME NEW p \in Index PROVE Taken(p)' \subseteq Taken(p)
  <2>1. ASSUME NEW t \in Settled(p)' PROVE t \in Due(p)
    <3>1. t \in Tasks /\ time < aff'[t].until /\ aff'[t].peer = p
      BY <2>1 DEF Settled, Live
    <3>2. CASE aff'[t] = aff[t]
      BY <3>1, <3>2 DEF Due, Settled, Live
    <3>3. CASE t = TaskOf(r) /\ sreq[r].pc \in {"renew", "assign"} /\ aff'[t].peer = sreq[r].idx
      BY <3>1, <3>3 DEF Due, Coming, Claims
    <3> QED
      BY <3>1, <3>2, <3>3
  <2>2. ASSUME NEW t \in Coming(p)' PROVE t \in Due(p)
    <3>1. PICK q \in Requests : Claims(sreq'[q], p) /\ t = TaskOf(q)'
      BY <2>2 DEF Coming
    <3>2. CASE q = r
      <4>1. Claims(e, p)
        BY <1>1, <3>1, <3>2 DEF Claims, SameSession
      <4>2. t = TaskOf(r)
        BY <1>1, <3>1, <3>2, <4>1 DEF TaskOf, SameSession
      <4> QED
        BY <4>1, <4>2 DEF Due, Coming
    <3>3. CASE q # r
      <4>1. SameSession(sreq'[q], sreq[q])
        BY <1>1, <3>3
      <4>2. Claims(sreq[q], p) /\ t = TaskOf(q)
        BY <3>1, <4>1 DEF Claims, TaskOf, SameSession
      <4> QED
        BY <4>2 DEF Due, Coming
    <3> QED
      BY <3>2, <3>3
  <2> QED
    BY <2>1, <2>2 DEF Taken, Due
<1> QED
  BY <1>1, <1>2, HeldOnlyShrinks

LEMMA OnBalancerStarts ==
  ASSUME AffinityTypeOK, NEW s \in Sessions, NEW key \in SUBSET Tasks,
         key = {} \/ \E t \in Tasks : key = {t}
  PROVE  /\ OnBalancer(s, key) \in Sessions
         /\ OnBalancer(s, key).pc \in {"pick", "lookup"}
         /\ Remembers(OnBalancer(s, key), aff[CHOOSE t \in key : TRUE], time)
<1>1. PICK e, rec : e = OnBalancer(s, key) /\ rec = aff[CHOOSE t \in key : TRUE]
  OBVIOUS
<1>2. key # {} => rec \in Records
  BY <1>1, ChooseOnly DEF AffinityTypeOK
<1>3. /\ e.pc = (IF key = {} THEN "pick" ELSE "lookup") /\ e.key = key /\ e.view = s.view /\ e.idx = 0
      /\ e.active = <<>> /\ e.pin = 0 /\ e.mixed = FALSE /\ e.stored = TRUE
      /\ e.was = IF key # {} /\ time < rec.until THEN rec ELSE NoRecord
  BY <1>1 DEF OnBalancer, Sessions, Live
<1>4. NoRecord \in Records /\ NoRecord.until = 0
  BY AffinityConstants DEF NoRecord, Records
<1>5. e.was \in Records
  BY <1>2, <1>3, <1>4
<1>6. e \in [pc : DecidingPcs \cup {"idle", "pick"}, key : SUBSET Tasks, view : SUBSET Index,
             idx : 0..Peers, active : {<<>>} \cup [Index -> Nat], pin : 0..Peers,
             mixed : BOOLEAN, was : Records, stored : BOOLEAN]
  <2>1. e = [pc |-> e.pc, key |-> e.key, view |-> e.view, idx |-> e.idx, active |-> e.active,
             pin |-> e.pin, mixed |-> e.mixed, was |-> e.was, stored |-> e.stored]
    BY <1>1 DEF OnBalancer, Sessions
  <2>2. e.pc \in DecidingPcs \cup {"idle", "pick"} /\ e.view \in SUBSET Index /\ 0 \in 0..Peers
    BY <1>3, AffinityConstants DEF DecidingPcs, Sessions
  <2> QED
    BY <1>3, <1>5, <2>1, <2>2
<1>7. e \in Sessions
  BY <1>3, <1>6 DEF Sessions, DecidingPcs
<1>8. time \in Nat
  BY DEF AffinityTypeOK
<1>9. Remembers(e, rec, time)
  BY <1>3, <1>4, <1>8 DEF Remembers
<1> QED
  BY <1>1, <1>3, <1>7, <1>9

LEMMA OneSessionReads ==
  ASSUME AffinityInv, NEW r \in Requests, NEW e \in Sessions,
         Step([sreq EXCEPT ![r] = e]), time' = time, aff' = aff, blind' = blind,
         sched' \in [Index -> [at : Nat, until : Nat]],
         Remembers(e, aff[CHOOSE t \in e.key : TRUE], time),
         \A p \in Index : Claims(e, p) => /\ e.key = sreq[r].key
                                          /\ Claims(sreq[r], p) \/ TaskOf(r) \in Settled(p)
  PROVE  AffinityInv'
<1> USE DEF AffinityInv
<1>1. /\ sreq' \in [Requests -> Sessions] /\ MixedIsKnown' /\ PeakIsPeak' /\ peak' \in Nat
  BY OneSessionMoves
<1>2. AffinityTypeOK'
  BY <1>1 DEF AffinityTypeOK
<1>3. SessionsRemember'
  BY OneSessionRemembers
<1>4. HeldIsBounded'
  BY OneSessionHolds
<1> QED
  BY <1>1, <1>2, <1>3, <1>4

LEMMA AffinityInvInit == AffinityInit => AffinityInv
<1> SUFFICES ASSUME AffinityInit PROVE AffinityInv
  OBVIOUS
<1>1. NoRecord \in Records /\ NoRecord.until = 0
  BY AffinityConstants DEF NoRecord, Records
<1>2. NoSession \in Sessions
  <2>1. 0 \in 0..Peers
    BY AffinityConstants
  <2> QED
    BY <1>1, <2>1 DEF NoSession, Sessions, DecidingPcs
<1>3. AffinityTypeOK
  <2>1. [at |-> 0, until |-> 0] \in [at : Nat, until : Nat]
    OBVIOUS
  <2> QED
    BY <1>1, <1>2, <2>1 DEF AffinityInit, AffinityTypeOK
<1>4. \A r \in Requests : sreq[r].pc = "idle" /\ sreq[r].key = {}
  BY DEF AffinityInit, NoSession
<1>5. PeakIsPeak
  <2>1. Deciding(sreq) = {}
    BY <1>4 DEF Deciding
  <2> QED
    BY <2>1, FS_EmptySet DEF PeakIsPeak, AffinityInit
<1>6. HeldIsBounded
  <2> SUFFICES ASSUME Cap > 0, NEW p \in Index PROVE Cardinality(Taken(p)) <= Cap + peak - 1
    BY DEF HeldIsBounded
  <2>1. Settled(p) = {}
    BY <1>1 DEF AffinityInit, Settled, Live
  <2>2. Coming(p) = {}
    BY <1>4 DEF Coming, Claims
  <2>3. Cardinality(Taken(p)) = 0
    BY <2>1, <2>2, FS_EmptySet DEF Taken, Due
  <2> QED
    BY <2>3, AffinityConstants DEF AffinityInit
<1>7. MixedIsKnown /\ SessionsRemember
  BY <1>4 DEF MixedIsKnown, SessionsRemember, Remembers
<1> QED
  BY <1>3, <1>5, <1>6, <1>7 DEF AffinityInv

\* kv_set, taken or refused, leaves records and touches one of them.
LEMMA KvSetWrites ==
  ASSUME AffinityTypeOK, NEW r \in Requests, sreq[r].key # {}, NEW peer \in 0..Peers, KvSet(r, peer)
  PROVE  /\ aff' \in [Tasks -> Records]
         /\ \A t \in Tasks \ {TaskOf(r)} : aff'[t] = aff[t]
         /\ aff'[TaskOf(r)] = aff[TaskOf(r)] \/ aff'[TaskOf(r)].peer = peer
<1>1. TaskOf(r) \in Tasks
  BY TaskOfSession
<1>2. PICK t, rec : t = TaskOf(r) /\ rec = [peer |-> peer, until |-> Until]
  OBVIOUS
<1>3. Until \in Nat
  BY AffinityConstants DEF AffinityTypeOK, Until, Never
<1>4. rec \in Records /\ rec.peer = peer
  BY <1>2, <1>3 DEF Records
<1>5. aff' = aff \/ aff' = [aff EXCEPT ![t] = rec]
  BY <1>2 DEF KvSet
<1> QED
  BY <1>1, <1>2, <1>4, <1>5 DEF AffinityTypeOK

\* A request that writes the record of its task for the peer it was due to.
LEMMA OneSessionWrites ==
  ASSUME AffinityInv, NEW r \in Requests, NEW e \in Sessions,
         sreq[r].pc \in {"renew", "assign"}, KvSet(r, sreq[r].idx),
         Step([sreq EXCEPT ![r] = e]), time' = time, sched' = sched, blind' = blind,
         e.key = sreq[r].key, e.pc \in {"mark", "pick"},
         Remembers(e, aff'[TaskOf(r)], time)
  PROVE  AffinityInv'
<1> USE DEF AffinityInv
<1>1. /\ sreq' \in [Requests -> Sessions] /\ MixedIsKnown' /\ PeakIsPeak' /\ peak' \in Nat
  BY OneSessionMoves
<1>2. sreq[r].key # {} /\ sreq[r].idx \in 0..Peers
  BY DEF AffinityTypeOK, Sessions, DecidingPcs
<1>3. /\ aff' \in [Tasks -> Records]
      /\ \A t \in Tasks \ {TaskOf(r)} : aff'[t] = aff[t]
      /\ aff'[TaskOf(r)] = aff[TaskOf(r)] \/ aff'[TaskOf(r)].peer = sreq[r].idx
  BY <1>2, KvSetWrites
<1>4. AffinityTypeOK'
  BY <1>1, <1>3 DEF AffinityTypeOK
<1>5. (CHOOSE t \in e.key : TRUE) = TaskOf(r)
  BY DEF TaskOf
<1>6. SessionsRemember'
  BY <1>2, <1>3, <1>5, OneSessionRemembers
<1>7. \A t \in Tasks : \/ aff'[t] = aff[t]
                       \/ t = TaskOf(r) /\ sreq[r].pc \in {"renew", "assign"} /\ aff'[t].peer = sreq[r].idx
  BY <1>3
<1>8. \A p \in Index : ~Claims(e, p)
  BY DEF Claims
<1>9. HeldIsBounded'
  BY <1>7, <1>8, OneSessionHolds
<1> QED
  BY <1>1, <1>4, <1>6, <1>9

\* No more tasks are coming than requests are deciding.
LEMMA FewAreComing ==
  ASSUME NEW s \in [Requests -> Sessions], NEW p, NEW C,
         C = {CHOOSE t \in s[q].key : TRUE : q \in {x \in Requests : Claims(s[x], p)}}
  PROVE  IsFiniteSet(C) /\ Cardinality(C) <= Cardinality(Deciding(s))
<1>1. PICK D : D = {x \in Requests : Claims(s[x], p)}
  OBVIOUS
<1>2. D \in SUBSET Deciding(s)
  BY <1>1 DEF Claims, Deciding
<1>3. Deciding(s) \in SUBSET Requests
  BY DEF Deciding
<1>4. IsFiniteSet(Deciding(s))
  BY <1>3, AffinityConstants, FS_Subset
<1>5. IsFiniteSet(D) /\ Cardinality(D) <= Cardinality(Deciding(s))
  BY <1>2, <1>4, FS_Subset
<1>6. PICK f : f = [q \in D |-> CHOOSE t \in s[q].key : TRUE]
  OBVIOUS
<1>7. f \in Surjection(D, C)
  <2>1. C = {CHOOSE t \in s[q].key : TRUE : q \in D}
    BY <1>1
  <2>2. f \in [D -> C]
    BY <1>6, <2>1
  <2>3. \A y \in C : \E q \in D : f[q] = y
    BY <1>6, <2>1
  <2> QED
    BY <2>2, <2>3 DEF Surjection
<1>8. IsFiniteSet(C) /\ Cardinality(C) <= Cardinality(D)
  BY <1>5, <1>7, FS_Surjection
<1> QED
  BY <1>4, <1>5, <1>8, FS_CardinalityType

\* The look at the counts: of a peer that is full nobody claims a place, and
\* one that is not has room for the requests that decide now, but for one; a
\* request that did not see every record claims a place that does not count.
LEMMA ScanHolds ==
  ASSUME AffinityInv, NEW r \in Requests, NEW e \in Sessions, Step([sreq EXCEPT ![r] = e]),
         time' = time, aff' = aff, e.pc = "stamps", e.key = sreq[r].key, e.key # {},
         NEW seen \in SUBSET LiveTasks, e.active = [p \in Index |-> Load(seen, p)],
         blind' = IF seen = LiveTasks THEN blind ELSE blind \cup sreq[r].key
  PROVE  HeldIsBounded'
<1> USE DEF AffinityInv
<1>1. /\ sreq' \in [Requests -> Sessions] /\ SameSession(sreq'[r], e)
      /\ \A q \in Requests \ {r} : SameSession(sreq'[q], sreq[q])
      /\ peak' \in Nat /\ peak <= peak' /\ PeakIsPeak' /\ peak \in Nat
  BY OneSessionMoves DEF AffinityTypeOK
<1> SUFFICES ASSUME Cap > 0, NEW p \in Index PROVE Cardinality(Taken(p)') <= Cap + peak' - 1
  BY DEF HeldIsBounded
<1>2. Settled(p)' = Settled(p) /\ blind \subseteq blind'
  BY DEF Settled, Live
<1>3. seen = LiveTasks => e.active[p] = Cardinality(Settled(p))
  <2>1. {t \in LiveTasks : aff[t].peer = p} = Settled(p)
    BY DEF LiveTasks, Settled
  <2> QED
    BY <2>1 DEF Load
<1>4. /\ IsFiniteSet(Settled(p)) /\ Cardinality(Settled(p)) \in Nat
      /\ IsFiniteSet(Taken(p)) /\ Cardinality(Taken(p)) \in Nat /\ Cap \in Nat
  BY HeldIsFinite, AffinityConstants
<1>5. CASE Claims(e, p) /\ seen = LiveTasks
  <2>1. Cardinality(Settled(p)) <= Cap - 1
    BY <1>3, <1>4, <1>5 DEF Claims
  <2>2. Coming(p)' = {CHOOSE t \in sreq'[q].key : TRUE : q \in {x \in Requests : Claims(sreq'[x], p)}}
    BY DEF Coming, TaskOf
  <2>3. IsFiniteSet(Coming(p)') /\ Cardinality(Coming(p)') <= Cardinality(Deciding(sreq'))
    BY <1>1, <2>2, FewAreComing
  <2>4. Deciding(sreq') \in SUBSET Requests
    BY DEF Deciding
  <2>5. Cardinality(Deciding(sreq')) \in Nat /\ Cardinality(Deciding(sreq')) <= peak'
    BY <1>1, <2>4, AffinityConstants, FS_Subset, FS_CardinalityType DEF PeakIsPeak
  <2>6. Cardinality(Coming(p)') \in Nat /\ Cardinality(Coming(p)') <= peak'
    BY <1>1, <2>3, <2>5, FS_CardinalityType
  <2>7. PICK A, B : A = Settled(p) /\ B = Coming(p)'
    OBVIOUS
  <2>8. Taken(p)' \in SUBSET (A \cup B)
    BY <1>2, <2>7 DEF Taken, Due
  <2>9. IsFiniteSet(A) /\ IsFiniteSet(B)
    BY <1>4, <2>3, <2>7
  <2>10. /\ IsFiniteSet(A \cup B)
         /\ Cardinality(A \cup B) = Cardinality(A) + Cardinality(B) - Cardinality(A \cap B)
    BY <2>9, FS_Union
  <2>11. Cardinality(A \cap B) \in Nat
    BY <2>9, FS_Intersection, FS_CardinalityType
  <2>12. /\ Cardinality(Taken(p)') <= Cardinality(A \cup B) /\ Cardinality(Taken(p)') \in Nat
         /\ Cardinality(A \cup B) \in Nat
    BY <2>8, <2>10, FS_Subset, FS_CardinalityType
  <2> QED
    BY <1>1, <1>4, <2>1, <2>6, <2>7, <2>10, <2>11, <2>12
<1>6. CASE ~Claims(e, p) \/ seen # LiveTasks
  <2>1. ASSUME NEW t \in Coming(p)' \ blind' PROVE t \in Coming(p)
    <3>1. PICK q \in Requests : Claims(sreq'[q], p) /\ t = TaskOf(q)'
      BY <2>1 DEF Coming
    <3>2. q # r
      <4>1. CASE ~Claims(e, p)
        BY <1>1, <3>1, <4>1 DEF Claims, SameSession
      <4>2. CASE seen # LiveTasks
        <5>1. TaskOf(r)' = TaskOf(r)
          BY <1>1 DEF TaskOf, SameSession
        <5>2. TaskOf(r) \in sreq[r].key
          BY TaskOfSession
        <5>3. TaskOf(r) \in blind'
          BY <4>2, <5>2
        <5> QED
          BY <2>1, <3>1, <5>1, <5>3
      <4> QED
        BY <1>6, <4>1, <4>2
    <3>3. SameSession(sreq'[q], sreq[q])
      BY <1>1, <3>2
    <3>4. Claims(sreq[q], p) /\ t = TaskOf(q)
      BY <3>1, <3>3 DEF Claims, TaskOf, SameSession
    <3> QED
      BY <3>4 DEF Coming
  <2>2. Taken(p)' \in SUBSET Taken(p)
    BY <1>2, <2>1 DEF Taken, Due
  <2>3. IsFiniteSet(Taken(p)') /\ Cardinality(Taken(p)') <= Cardinality(Taken(p))
    BY <1>4, <2>2, FS_Subset
  <2>4. Cardinality(Taken(p)') \in Nat
    BY <2>3, FS_CardinalityType
  <2>5. Cardinality(Taken(p)) <= Cap + peak - 1
    BY DEF HeldIsBounded
  <2> QED
    BY <1>1, <1>4, <2>3, <2>4, <2>5
<1> QED
  BY <1>5, <1>6

LEMMA AffinityInvNext == AffinityInv /\ [AffinityNext]_affVars => AffinityInv'
<1> SUFFICES ASSUME AffinityInv, [AffinityNext]_affVars PROVE AffinityInv'
  OBVIOUS
<1> USE DEF AffinityInv
<1>t. sched \in [Index -> [at : Nat, until : Nat]] /\ time \in Nat
  BY DEF AffinityTypeOK
<1>s. \A r \in Requests : sreq[r] \in Sessions /\ Remembers(sreq[r], aff[TaskOf(r)], time)
  BY DEF AffinityTypeOK, SessionsRemember
<1>1. ASSUME NEW r \in Requests, Begin(r) PROVE AffinityInv'
  <2>1. PICK in \in Inputs, view \in Views :
          Step([sreq EXCEPT ![r] = OnBalancer([NoSession EXCEPT !.view = view], TaskKey(in))])
    BY <1>1 DEF Begin
  <2>2. PICK s0, key, e : s0 = [NoSession EXCEPT !.view = view] /\ key = TaskKey(in) /\ e = OnBalancer(s0, key)
    OBVIOUS
  <2>3. s0 \in Sessions
    <3>1. NoRecord \in Records /\ 0 \in 0..Peers /\ view \in SUBSET Index
      BY AffinityConstants DEF NoRecord, Records
    <3> QED
      BY <2>2, <3>1 DEF NoSession, Sessions, DecidingPcs
  <2>4. key \in SUBSET Tasks /\ (key = {} \/ \E t \in Tasks : key = {t})
    BY <2>2, TaskKeyIsOne
  <2>5. e \in Sessions /\ e.pc \in {"pick", "lookup"} /\ Remembers(e, aff[CHOOSE t \in key : TRUE], time)
    BY <2>2, <2>3, <2>4, OnBalancerStarts
  <2>6. e.key = key
    BY <2>2, <2>3 DEF OnBalancer, Sessions
  <2>7. \A p \in Index : ~Claims(e, p)
    BY <2>5 DEF Claims
  <2>8. aff' = aff /\ sched' = sched /\ time' = time /\ blind' = blind
    BY <1>1 DEF Begin
  <2>9. Step([sreq EXCEPT ![r] = e])
    BY <2>1, <2>2
  <2> QED
    BY <1>t, <2>5, <2>6, <2>7, <2>8, <2>9, OneSessionReads
<1>2. ASSUME NEW r \in Requests, AffinityPeer(r) PROVE AffinityInv'
  <2>1. PICK rec, idx, pc, e :
          /\ rec = aff[TaskOf(r)]
          /\ idx = IF Live(rec) /\ rec.peer \in sreq[r].view THEN rec.peer ELSE 0
          /\ pc = IF Live(rec) /\ rec.peer \in sreq[r].view THEN "renew" ELSE "scan"
          /\ e = [sreq[r] EXCEPT !.idx = idx, !.pc = pc]
    OBVIOUS
  <2>2. /\ sreq[r].pc = "lookup" /\ aff' = aff /\ sched' = sched /\ time' = time /\ blind' = blind
        /\ Step([sreq EXCEPT ![r].idx = idx, ![r].pc = pc])
    BY <1>2, <2>1 DEF AffinityPeer, Idling
  <2>3. [sreq EXCEPT ![r].idx = idx, ![r].pc = pc] = [sreq EXCEPT ![r] = e]
    BY <2>1
  <2>4. sreq[r].key # {} /\ sreq[r].key = {TaskOf(r)} /\ TaskOf(r) \in Tasks /\ sreq[r].pin = 0
    BY <1>s, <2>2, TaskOfSession DEF Sessions, DecidingPcs
  <2>5. rec \in Records /\ sreq[r].view \subseteq Index
    BY <1>s, <2>1, <2>4 DEF AffinityTypeOK, Sessions
  <2>6. /\ e.idx = idx /\ e.pc = pc
        /\ e.key = sreq[r].key /\ e.view = sreq[r].view /\ e.active = sreq[r].active /\ e.pin = sreq[r].pin
        /\ e.mixed = sreq[r].mixed /\ e.was = sreq[r].was /\ e.stored = sreq[r].stored
    BY <1>s, <2>1 DEF Sessions
  <2>12. \/ time < rec.until /\ rec.peer \in sreq[r].view /\ idx = rec.peer /\ pc = "renew"
         \/ ~(time < rec.until /\ rec.peer \in sreq[r].view) /\ idx = 0 /\ pc = "scan"
    BY <2>1 DEF Live
  <2>7. e.idx \in 0..Peers /\ (e.pc = "renew" => e.idx \in Index)
    BY <2>5, <2>6, <2>12, AffinityConstants
  <2>8. e \in Sessions
    <3>1. e \in [pc : DecidingPcs \cup {"idle", "pick"}, key : SUBSET Tasks, view : SUBSET Index,
                 idx : 0..Peers, active : {<<>>} \cup [Index -> Nat], pin : 0..Peers,
                 mixed : BOOLEAN, was : Records, stored : BOOLEAN]
      BY <1>s, <2>1, <2>6, <2>7, <2>12 DEF Sessions, DecidingPcs
    <3>2. sreq[r].key = {} \/ \E t \in Tasks : sreq[r].key = {t}
      BY <2>4
    <3> QED
      BY <2>4, <2>6, <2>7, <2>12, <3>1, <3>2 DEF Sessions, DecidingPcs
  <2>9. Remembers(e, rec, time)
    <3>1. Remembers(sreq[r], rec, time)
      BY <1>s, <2>1
    <3> QED
      BY <2>2, <2>6, <2>12, <3>1 DEF Remembers
  <2>10. (CHOOSE t \in e.key : TRUE) = TaskOf(r)
    BY <2>6 DEF TaskOf
  <2>11. \A p \in Index : Claims(e, p) => e.key = sreq[r].key /\ TaskOf(r) \in Settled(p)
    BY <2>1, <2>4, <2>6, <2>12 DEF Claims, Settled, Live
  <2> QED
    <3>1. Step([sreq EXCEPT ![r] = e])
      BY <2>2, <2>3
    <3>2. Remembers(e, aff[CHOOSE t \in e.key : TRUE], time)
      BY <2>1, <2>9, <2>10
    <3> QED
      BY <1>t, <2>2, <2>8, <2>11, <3>1, <3>2, OneSessionReads
<1>3. ASSUME NEW r \in Requests, Renew(r) PROVE AffinityInv'
  <2>1. PICK kept, e :
          /\ kept = (aff'[TaskOf(r)] = [peer |-> sreq[r].idx, until |-> Until])
          /\ e = [sreq[r] EXCEPT !.pin = sreq[r].idx, !.pc = "pick", !.stored = kept]
    OBVIOUS
  <2>2. /\ sreq[r].pc = "renew" /\ KvSet(r, sreq[r].idx) /\ sched' = sched /\ time' = time /\ blind' = blind
        /\ Step([sreq EXCEPT ![r].pin = sreq[r].idx, ![r].pc = "pick", ![r].stored = kept])
    BY <1>3, <2>1 DEF Renew, Idling
  <2>3. [sreq EXCEPT ![r].pin = sreq[r].idx, ![r].pc = "pick", ![r].stored = kept] = [sreq EXCEPT ![r] = e]
    BY <2>1
  <2>4. /\ e.pin = sreq[r].idx /\ e.pc = "pick" /\ e.stored = kept /\ e.idx = sreq[r].idx
        /\ e.key = sreq[r].key /\ e.view = sreq[r].view /\ e.active = sreq[r].active
        /\ e.mixed = sreq[r].mixed /\ e.was = sreq[r].was
    BY <1>s, <2>1 DEF Sessions
  <2>5. kept \in BOOLEAN /\ (kept = TRUE => aff'[TaskOf(r)].peer = sreq[r].idx)
    <3>1. kept \in BOOLEAN
      BY <2>1, Zenon
    <3>2. kept = TRUE => aff'[TaskOf(r)] = [peer |-> sreq[r].idx, until |-> Until]
      BY <2>1, Zenon
    <3> QED
      BY <3>1, <3>2
  <2>6. e \in Sessions
    <3>1. e \in [pc : DecidingPcs \cup {"idle", "pick"}, key : SUBSET Tasks, view : SUBSET Index,
                 idx : 0..Peers, active : {<<>>} \cup [Index -> Nat], pin : 0..Peers,
                 mixed : BOOLEAN, was : Records, stored : BOOLEAN]
      BY <1>s, <2>1, <2>4, <2>5 DEF Sessions, DecidingPcs
    <3>2. sreq[r].key = {} \/ \E t \in Tasks : sreq[r].key = {t}
      BY <1>s DEF Sessions
    <3> QED
      BY <2>4, <3>1, <3>2 DEF Sessions, DecidingPcs
  <2>7. Remembers(e, aff'[TaskOf(r)], time)
    <3>1. Remembers(sreq[r], aff[TaskOf(r)], time)
      BY <1>s
    <3> QED
      BY <2>2, <2>4, <2>5, <3>1 DEF Remembers
  <2> QED
    BY <2>2, <2>3, <2>4, <2>6, <2>7, OneSessionWrites
<1>4. ASSUME NEW r \in Requests, Scan(r) PROVE AffinityInv'
  <2>0. /\ sreq[r].pc = "scan" /\ aff' = aff /\ sched' = sched /\ time' = time
        /\ \E seen \in SUBSET LiveTasks :
             /\ Step([sreq EXCEPT ![r].active = [p \in Index |-> Load(seen, p)], ![r].pc = "stamps"])
             /\ blind' = IF seen = LiveTasks THEN blind ELSE blind \cup sreq[r].key
    BY <1>4 DEF Scan
  <2>a. PICK seen \in SUBSET LiveTasks :
          /\ Step([sreq EXCEPT ![r].active = [p \in Index |-> Load(seen, p)], ![r].pc = "stamps"])
          /\ blind' = IF seen = LiveTasks THEN blind ELSE blind \cup sreq[r].key
    BY <2>0
  <2>1. PICK counts, e : /\ counts = [p \in Index |-> Load(seen, p)]
                         /\ e = [sreq[r] EXCEPT !.active = counts, !.pc = "stamps"]
    OBVIOUS
  <2>2. /\ sreq[r].pc = "scan" /\ aff' = aff /\ sched' = sched /\ time' = time
        /\ Step([sreq EXCEPT ![r].active = counts, ![r].pc = "stamps"])
    BY <2>0, <2>a, <2>1
  <2>3. [sreq EXCEPT ![r].active = counts, ![r].pc = "stamps"] = [sreq EXCEPT ![r] = e]
    BY <2>1
  <2>4. /\ e.pc = "stamps" /\ e.active = counts /\ e.idx = sreq[r].idx /\ e.pin = sreq[r].pin
        /\ e.key = sreq[r].key /\ e.view = sreq[r].view /\ e.stored = sreq[r].stored
        /\ e.mixed = sreq[r].mixed /\ e.was = sreq[r].was
    BY <1>s, <2>1 DEF Sessions
  <2>5. counts \in [Index -> Nat]
    <3>1. ASSUME NEW p \in Index PROVE Load(seen, p) \in Nat
      <4>1. {t \in seen : aff[t].peer = p} \in SUBSET Tasks
        BY DEF LiveTasks
      <4> QED
        BY <4>1, AffinityConstants, FS_Subset, FS_CardinalityType DEF Load
    <3> QED
      BY <2>1, <3>1
  <2>6. e \in Sessions
    <3>1. e \in [pc : DecidingPcs \cup {"idle", "pick"}, key : SUBSET Tasks, view : SUBSET Index,
                 idx : 0..Peers, active : {<<>>} \cup [Index -> Nat], pin : 0..Peers,
                 mixed : BOOLEAN, was : Records, stored : BOOLEAN]
      BY <1>s, <2>1, <2>4, <2>5 DEF Sessions, DecidingPcs
    <3>2. sreq[r].key # {} /\ (sreq[r].key = {} \/ \E t \in Tasks : sreq[r].key = {t}) /\ sreq[r].pin = 0
      BY <1>s, <2>2 DEF Sessions, DecidingPcs
    <3> QED
      BY <2>4, <2>5, <3>1, <3>2 DEF Sessions, DecidingPcs
  <2>7. Remembers(e, aff[CHOOSE t \in e.key : TRUE], time)
    <3>1. Remembers(sreq[r], aff[TaskOf(r)], time) /\ (CHOOSE t \in e.key : TRUE) = TaskOf(r)
      BY <1>s, <2>4 DEF TaskOf
    <3> QED
      BY <2>2, <2>4, <3>1 DEF Remembers
  <2>8. Step([sreq EXCEPT ![r] = e])
    BY <2>2, <2>3
  <2>9. sreq' \in [Requests -> Sessions] /\ MixedIsKnown' /\ PeakIsPeak' /\ peak' \in Nat
    BY <2>6, <2>8, OneSessionMoves
  <2>10. AffinityTypeOK'
    BY <2>2, <2>9 DEF AffinityTypeOK
  <2>11. SessionsRemember'
    BY <2>2, <2>6, <2>7, <2>8, OneSessionRemembers
  <2>12. HeldIsBounded'
    <3>1. sreq[r].key # {}
      BY <1>s, <2>2 DEF Sessions, DecidingPcs
    <3> QED
      BY <3>1, <2>a, <2>1, <2>2, <2>4, <2>6, <2>8, ScanHolds
  <2> QED
    BY <2>9, <2>10, <2>11, <2>12
<1>5. ASSUME NEW r \in Requests, SchedTs(r) PROVE AffinityInv'
  <2>1. PICK last, pick, e :
          /\ last = [p \in Index |-> IF Live(sched[p]) THEN sched[p].at ELSE 0]
          /\ pick = ChooseLeastLoaded(sreq[r].view, sreq[r].active, last)
          /\ e = [sreq[r] EXCEPT !.active = <<>>, !.idx = pick, !.pc = IF pick = 0 THEN "pick" ELSE "assign"]
    OBVIOUS
  <2>2. /\ sreq[r].pc = "stamps" /\ aff' = aff /\ sched' = sched /\ time' = time /\ blind' = blind
        /\ Step([sreq EXCEPT ![r].active = <<>>, ![r].idx = pick,
                             ![r].pc = IF pick = 0 THEN "pick" ELSE "assign"])
    BY <1>5, <2>1 DEF SchedTs, Idling
  <2>3. [sreq EXCEPT ![r].active = <<>>, ![r].idx = pick,
                     ![r].pc = IF pick = 0 THEN "pick" ELSE "assign"] = [sreq EXCEPT ![r] = e]
    BY <2>1
  <2>4. /\ e.pc = (IF pick = 0 THEN "pick" ELSE "assign") /\ e.active = <<>> /\ e.idx = pick
        /\ e.pin = sreq[r].pin /\ e.key = sreq[r].key /\ e.view = sreq[r].view /\ e.stored = sreq[r].stored
        /\ e.mixed = sreq[r].mixed /\ e.was = sreq[r].was
    BY <1>s, <2>1 DEF Sessions
  <2>5. /\ sreq[r].key # {} /\ (sreq[r].key = {} \/ \E t \in Tasks : sreq[r].key = {t}) /\ sreq[r].pin = 0
        /\ sreq[r].view \in SUBSET Index /\ sreq[r].active \in [Index -> Nat]
    BY <1>s, <2>2 DEF Sessions, DecidingPcs
  <2>6. last \in [Index -> Nat]
    BY <1>t, <2>1
  <2>7. pick # 0 => pick \in sreq[r].view /\ (Cap = 0 \/ sreq[r].active[pick] < Cap)
    BY <2>1, <2>5, <2>6, ChoiceIsOpen
  <2>8. pick = 0 \/ pick \in Index
    BY <2>5, <2>7
  <2>9. pick \in 0..Peers
    BY <2>8, AffinityConstants
  <2>10. e \in Sessions
    <3>1. e \in [pc : DecidingPcs \cup {"idle", "pick"}, key : SUBSET Tasks, view : SUBSET Index,
                 idx : 0..Peers, active : {<<>>} \cup [Index -> Nat], pin : 0..Peers,
                 mixed : BOOLEAN, was : Records, stored : BOOLEAN]
      BY <1>s, <2>1, <2>4, <2>9 DEF Sessions, DecidingPcs
    <3> QED
      BY <2>4, <2>5, <2>8, <3>1 DEF Sessions, DecidingPcs
  <2>11. Remembers(e, aff[CHOOSE t \in e.key : TRUE], time)
    <3>1. Remembers(sreq[r], aff[TaskOf(r)], time) /\ (CHOOSE t \in e.key : TRUE) = TaskOf(r)
      BY <1>s, <2>4 DEF TaskOf
    <3> QED
      BY <2>2, <2>4, <2>5, <3>1 DEF Remembers
  <2>12. Step([sreq EXCEPT ![r] = e])
    BY <2>2, <2>3
  <2>13. CASE Cap = 0
    <3>1. sreq' \in [Requests -> Sessions] /\ MixedIsKnown' /\ PeakIsPeak' /\ peak' \in Nat
      BY <2>10, <2>12, OneSessionMoves
    <3>2. AffinityTypeOK'
      BY <2>2, <3>1 DEF AffinityTypeOK
    <3>3. SessionsRemember'
      BY <2>2, <2>10, <2>11, <2>12, OneSessionRemembers
    <3>4. HeldIsBounded'
      BY <2>13 DEF HeldIsBounded
    <3> QED
      BY <3>1, <3>2, <3>3, <3>4
  <2>14. CASE Cap # 0
    <3>1. \A p \in Index : Claims(e, p) => e.key = sreq[r].key /\ Claims(sreq[r], p)
      BY <2>2, <2>4, <2>7, <2>14 DEF Claims
    <3> QED
      BY <1>t, <2>2, <2>10, <2>11, <2>12, <3>1, OneSessionReads
  <2> QED
    BY <2>13, <2>14
<1>6. ASSUME NEW r \in Requests, Assign(r) PROVE AffinityInv'
  <2>1. PICK kept, e :
          /\ kept = (aff'[TaskOf(r)] = [peer |-> sreq[r].idx, until |-> Until])
          /\ e = [sreq[r] EXCEPT !.pc = "mark", !.stored = kept]
    OBVIOUS
  <2>2. /\ sreq[r].pc = "assign" /\ KvSet(r, sreq[r].idx) /\ sched' = sched /\ time' = time /\ blind' = blind
        /\ Step([sreq EXCEPT ![r].pc = "mark", ![r].stored = kept])
    BY <1>6, <2>1 DEF Assign, Idling
  <2>3. [sreq EXCEPT ![r].pc = "mark", ![r].stored = kept] = [sreq EXCEPT ![r] = e]
    BY <2>1
  <2>4. /\ e.pin = sreq[r].pin /\ e.pc = "mark" /\ e.stored = kept /\ e.idx = sreq[r].idx
        /\ e.key = sreq[r].key /\ e.view = sreq[r].view /\ e.active = sreq[r].active
        /\ e.mixed = sreq[r].mixed /\ e.was = sreq[r].was
    BY <1>s, <2>1 DEF Sessions
  <2>5. kept \in BOOLEAN /\ (kept = TRUE => aff'[TaskOf(r)].peer = sreq[r].idx)
    <3>1. kept \in BOOLEAN
      BY <2>1, Zenon
    <3>2. kept = TRUE => aff'[TaskOf(r)] = [peer |-> sreq[r].idx, until |-> Until]
      BY <2>1, Zenon
    <3> QED
      BY <3>1, <3>2
  <2>6. e \in Sessions
    <3>1. e \in [pc : DecidingPcs \cup {"idle", "pick"}, key : SUBSET Tasks, view : SUBSET Index,
                 idx : 0..Peers, active : {<<>>} \cup [Index -> Nat], pin : 0..Peers,
                 mixed : BOOLEAN, was : Records, stored : BOOLEAN]
      BY <1>s, <2>1, <2>4, <2>5 DEF Sessions, DecidingPcs
    <3>2. /\ sreq[r].key # {} /\ (sreq[r].key = {} \/ \E t \in Tasks : sreq[r].key = {t})
          /\ sreq[r].pin = 0 /\ sreq[r].idx \in Index
      BY <1>s, <2>2 DEF Sessions, DecidingPcs
    <3> QED
      BY <2>4, <3>1, <3>2 DEF Sessions, DecidingPcs
  <2>7. Remembers(e, aff'[TaskOf(r)], time)
    <3>1. Remembers(sreq[r], aff[TaskOf(r)], time)
      BY <1>s
    <3> QED
      BY <2>2, <2>4, <2>5, <3>1 DEF Remembers
  <2> QED
    BY <2>2, <2>3, <2>4, <2>6, <2>7, OneSessionWrites
<1>7. ASSUME NEW r \in Requests, Mark(r) PROVE AffinityInv'
  <2>1. PICK e, stamp : /\ e = [sreq[r] EXCEPT !.pin = sreq[r].idx, !.pc = "pick"]
                        /\ stamp = [at |-> time, until |-> Until]
    OBVIOUS
  <2>2. /\ sreq[r].pc = "mark" /\ aff' = aff /\ time' = time /\ blind' = blind
        /\ sched' = [sched EXCEPT ![sreq[r].idx] = stamp]
        /\ Step([sreq EXCEPT ![r].pin = sreq[r].idx, ![r].pc = "pick"])
    BY <1>7, <2>1 DEF Mark, Idling
  <2>3. [sreq EXCEPT ![r].pin = sreq[r].idx, ![r].pc = "pick"] = [sreq EXCEPT ![r] = e]
    BY <2>1
  <2>4. /\ e.pin = sreq[r].idx /\ e.pc = "pick" /\ e.stored = sreq[r].stored /\ e.idx = sreq[r].idx
        /\ e.key = sreq[r].key /\ e.view = sreq[r].view /\ e.active = sreq[r].active
        /\ e.mixed = sreq[r].mixed /\ e.was = sreq[r].was
    BY <1>s, <2>1 DEF Sessions
  <2>5. stamp \in [at : Nat, until : Nat]
    BY <1>t, <2>1, AffinityConstants DEF Until, Never
  <2>6. sched' \in [Index -> [at : Nat, until : Nat]]
    BY <1>t, <2>2, <2>5
  <2>7. e \in Sessions
    <3>1. e \in [pc : DecidingPcs \cup {"idle", "pick"}, key : SUBSET Tasks, view : SUBSET Index,
                 idx : 0..Peers, active : {<<>>} \cup [Index -> Nat], pin : 0..Peers,
                 mixed : BOOLEAN, was : Records, stored : BOOLEAN]
      BY <1>s, <2>1, <2>4 DEF Sessions, DecidingPcs
    <3>2. sreq[r].key = {} \/ \E t \in Tasks : sreq[r].key = {t}
      BY <1>s DEF Sessions
    <3> QED
      BY <2>4, <3>1, <3>2 DEF Sessions, DecidingPcs
  <2>8. Remembers(e, aff[CHOOSE t \in e.key : TRUE], time)
    <3>1. Remembers(sreq[r], aff[TaskOf(r)], time) /\ (CHOOSE t \in e.key : TRUE) = TaskOf(r)
      BY <1>s, <2>4 DEF TaskOf
    <3> QED
      BY <2>2, <2>4, <3>1 DEF Remembers
  <2>9. \A p \in Index : ~Claims(e, p)
    BY <2>4 DEF Claims
  <2> QED
    BY <2>2, <2>3, <2>6, <2>7, <2>8, <2>9, OneSessionReads
<1>8. ASSUME NEW r \in Requests, Retry(r) PROVE AffinityInv'
  <2>1. PICK key, e : key = sreq[r].key /\ e = OnBalancer(sreq[r], key)
    OBVIOUS
  <2>2. Step([sreq EXCEPT ![r] = e]) /\ aff' = aff /\ sched' = sched /\ time' = time /\ blind' = blind
    BY <1>8, <2>1 DEF Retry
  <2>3. key \in SUBSET Tasks /\ (key = {} \/ \E t \in Tasks : key = {t})
    BY <1>s, <2>1 DEF Sessions
  <2>4. e \in Sessions /\ e.pc \in {"pick", "lookup"} /\ Remembers(e, aff[CHOOSE t \in key : TRUE], time)
    <3>1. PICK s \in Sessions : s = sreq[r]
      BY <1>s
    <3>2. e = OnBalancer(s, key)
      BY <2>1, <3>1
    <3> QED
      BY <2>3, <3>2, OnBalancerStarts
  <2>5. e.key = key
    BY <1>s, <2>1 DEF OnBalancer, Sessions
  <2>6. \A p \in Index : ~Claims(e, p)
    BY <2>4 DEF Claims
  <2> QED
    BY <1>t, <2>2, <2>4, <2>5, <2>6, OneSessionReads
<1>9. ASSUME NEW r \in Requests, OnLog(r) PROVE AffinityInv'
  <2>1. Step([sreq EXCEPT ![r] = NoSession]) /\ aff' = aff /\ sched' = sched /\ time' = time /\ blind' = blind
    BY <1>9 DEF OnLog, Idling
  <2>2. NoSession \in Sessions
    <3>1. NoRecord \in Records /\ 0 \in 0..Peers
      BY AffinityConstants DEF NoRecord, Records
    <3> QED
      BY <3>1 DEF NoSession, Sessions, DecidingPcs
  <2>3. \A p \in Index : ~Claims(NoSession, p)
    BY DEF Claims, NoSession
  <2>4. Remembers(NoSession, aff[CHOOSE t \in NoSession.key : TRUE], time)
    BY DEF Remembers, NoSession
  <2> QED
    BY <1>t, <2>1, <2>2, <2>3, <2>4, OneSessionReads
<1>10. CASE AffinityTick
  <2>1. time' = time + 1 /\ UNCHANGED <<aff, sched, sreq, peak, blind>>
    BY <1>10 DEF AffinityTick
  <2>2. AffinityTypeOK' /\ PeakIsPeak' /\ MixedIsKnown'
    BY <1>t, <2>1 DEF AffinityTypeOK, PeakIsPeak, MixedIsKnown
  <2>3. SessionsRemember'
    <3> SUFFICES ASSUME NEW q \in Requests PROVE Remembers(sreq'[q], aff'[TaskOf(q)'], time')
      BY DEF SessionsRemember
    <3>1. TaskOf(q)' = TaskOf(q)
      BY <2>1 DEF TaskOf
    <3>2. SameSession(sreq[q], sreq[q])
      BY DEF SameSession
    <3> QED
      BY <1>s, <1>t, <2>1, <3>1, <3>2, RemembersOn
  <2>4. ASSUME NEW p \in Index PROVE Taken(p)' \subseteq Taken(p)
    <3>1. Coming(p)' = Coming(p)
      BY <2>1 DEF Coming, TaskOf
    <3>2. \A t \in Tasks : aff[t].until \in Nat
      BY DEF AffinityTypeOK, Records
    <3>3. Settled(p)' \subseteq Settled(p)
      BY <1>t, <2>1, <3>2 DEF Settled, Live
    <3> QED
      BY <2>1, <3>1, <3>3 DEF Taken, Due
  <2>5. HeldIsBounded'
    BY <2>1, <2>4, HeldOnlyShrinks DEF AffinityTypeOK
  <2> QED
    BY <2>2, <2>3, <2>5
<1>11. CASE UNCHANGED affVars
  <2>1. UNCHANGED <<aff, sched, time, sreq, peak, blind>>
    BY <1>11 DEF affVars
  <2>2. AffinityTypeOK' /\ PeakIsPeak' /\ MixedIsKnown'
    BY <2>1 DEF AffinityTypeOK, PeakIsPeak, MixedIsKnown
  <2>3. SessionsRemember'
    BY <2>1 DEF SessionsRemember, TaskOf
  <2>4. HeldIsBounded'
    BY <2>1 DEF HeldIsBounded, Taken, Due, Settled, Coming, TaskOf, Live
  <2> QED
    BY <2>2, <2>3, <2>4
<1> QED
  BY <1>1, <1>2, <1>3, <1>4, <1>5, <1>6, <1>7, <1>8, <1>9, <1>10, <1>11 DEF AffinityNext

\* The tasks on a peer and those on their way to it are within its capacity and
\* the requests that decide at one time, and a request that decides alone still
\* knows the record of its task (vllm-kv-scheduler on_balancer).
THEOREM AffinityInvHolds == AffinitySpec => []AffinityInv
  BY AffinityInvInit, AffinityInvNext, PTL DEF AffinitySpec

\* Tasks stick to their peer while it holds, and of the tasks that were placed
\* with all the records in view a peer has no more than its capacity and one
\* less than the requests that decided at one time (vllm-kv-scheduler
\* on_balancer, gather_and_pick).
THEOREM AffinityStaysBounded == AffinitySpec => []AffinityIsBounded
<1>1. AffinityInv => AffinityIsBounded
  <2> SUFFICES ASSUME AffinityInv PROVE AffinityIsBounded
    OBVIOUS
  <2> USE DEF AffinityInv
  <2>1. CapHolds
    <3> SUFFICES ASSUME NEW p \in Index, Cap > 0, peak > 0
                 PROVE  Load(LiveTasks \ blind, p) <= Cap + peak - 1
      BY DEF CapHolds
    <3> DEFINE S == Settled(p) \ blind
    <3>1. Load(LiveTasks \ blind, p) = Cardinality(S)
      <4>1. {t \in LiveTasks \ blind : aff[t].peer = p} = S
        BY DEF LiveTasks, Settled
      <4> QED
        BY <4>1 DEF Load
    <3>2. S \in SUBSET Taken(p) /\ IsFiniteSet(Taken(p)) /\ Cardinality(Taken(p)) \in Nat
      BY HeldIsFinite DEF Taken, Due
    <3> HIDE DEF S
    <3>3. Cardinality(S) <= Cardinality(Taken(p)) /\ Cardinality(S) \in Nat
      BY <3>2, FS_Subset, FS_CardinalityType
    <3>4. Cardinality(Taken(p)) <= Cap + peak - 1
      BY DEF HeldIsBounded
    <3> QED
      BY <3>1, <3>2, <3>3, <3>4, AffinityConstants DEF AffinityTypeOK
  <2>2. Sticky
    <3> SUFFICES ASSUME NEW r \in Requests, sreq[r].pc = "pick", sreq[r].key # {}, ~sreq[r].mixed
                 PROVE  /\ sreq[r].was.peer \in sreq[r].view /\ time < sreq[r].was.until
                             => sreq[r].pin = sreq[r].was.peer
                        /\ sreq[r].pin # 0 /\ sreq[r].stored /\ Live(aff[TaskOf(r)])
                             => aff[TaskOf(r)].peer = sreq[r].pin
      BY DEF Sticky
    <3>1. sreq[r].mixed \in BOOLEAN /\ sreq[r].stored \in BOOLEAN
      BY DEF AffinityTypeOK, Sessions
    <3>2. sreq[r].mixed = FALSE
      BY <3>1
    <3>3. Remembers(sreq[r], aff[TaskOf(r)], time)
      BY DEF SessionsRemember
    <3>4. sreq[r].stored => sreq[r].stored = TRUE
      BY <3>1
    <3> QED
      BY <3>2, <3>3, <3>4 DEF Remembers
  <2> QED
    BY <2>1, <2>2 DEF AffinityIsBounded
<1> QED
  BY <1>1, AffinityInvHolds, PTL
=============================================================================
