------------------------- MODULE IngressWatchProofs -------------------------
(***************************************************************************)
(* The ingress plane, for every cluster, every history of changes to it    *)
(* and every fault of the API server: what a watch loop holds is a state   *)
(* its namespace was in, what it has not handed over it still holds unless *)
(* a resync tick dropped it, and what is published is closed.              *)
(***************************************************************************)
EXTENDS IngressWatch, SequenceTheorems, WellFoundedInduction, TLAPS

Snapshot == [items : Content \cup {<<>>}, rv : Int]

LoopState == [pc : {"list", "open", "watch", "hung"}, snap : Snapshot, dirty : BOOLEAN,
              window : {"none", "list", "late", "change"}, restart : Int, alive : BOOLEAN]

TypeOK ==
  /\ past \in Seq([Loop -> Content]) /\ Len(past) > 0
  /\ w \in [Loop -> LoopState]
  /\ slots \in [Loop -> Snapshot]
  /\ "pc" \in DOMAIN merger

\* after is before with one object added, replaced or removed, or the same.
OneChange(before, after) ==
  \/ before = after
  \/ \E n \in DOMAIN before \cup DOMAIN after :
       \A m \in (DOMAIN before \cup DOMAIN after) \ {n} :
         m \in DOMAIN before /\ m \in DOMAIN after /\ after[m] = before[m]

\* Every revision changes one object of a loop's namespace at most.
PastOK == \A rv \in 1..Revision, l \in Loop : OneChange(At(l, rv - 1), At(l, rv))

\* The snapshot is the state of the namespace at the revision it claims.
Genuine(l, s) == s.rv \in 0..Revision /\ s.items = At(l, s.rv)

\* A loop holds a snapshot from its LIST on, and the revision of a resync
\* before it.
SnapOK(l) ==
  /\ IF w[l].pc \in {"list", "hung"} THEN w[l].snap = NoSnapshot ELSE Genuine(l, w[l].snap)
  /\ w[l].restart \in -1..Revision
  /\ slots[l] = NoSnapshot \/ Genuine(l, slots[l])

\* The objects x of l were handed over.
HandedOver(l, x) == slots[l] # NoSnapshot /\ slots[l].items = x

\* A clean snapshot was handed over, and so was that of the revision a resync
\* starts from.
KeptOK(l) ==
  l \notin forgotten =>
    /\ w[l].pc \in {"open", "watch"} /\ w[l].dirty = FALSE => HandedOver(l, w[l].snap.items)
    /\ w[l].pc = "list" /\ w[l].restart # -1 => HandedOver(l, At(l, w[l].restart))

\* A pair is applied, and was, only if it renders; what is served is made of
\* it, or of the file after a reload.  The table is that of the routes unless
\* it is about to be replaced.
MergeOK ==
  /\ merger.pc \in {"apply", "tls"} => Renders(merger.pair["ingress"], merger.pair["secret"])
  /\ merger.pc = "tls" => merger.pair = applied
  /\ \/ reloaded /\ runtime \in FileRuntimes
     \/ runtime = BuildIngressConfig(applied["ingress"])
  /\ \/ BuildIngressConfig(applied["ingress"]) = StaticRuntime
     \/ Renders(applied["ingress"], applied["secret"])
  /\ sni = UpdateFromTlsPairs(RenderTls(secured["ingress"], secured["secret"]))
  /\ \/ Sections(secured["ingress"]) = {}
     \/ Renders(secured["ingress"], secured["secret"])
  /\ resolver /\ merger.pc # "tls" => secured = applied

Inv ==
  /\ TypeOK
  /\ PastOK
  /\ \A l \in Loop : SnapOK(l) /\ KeptOK(l)
  /\ MergeOK
  /\ NamedSourceIsFinal
-----------------------------------------------------------------------------
(***************************************************************************)
(* Lemmas about revisions and events                                       *)
(***************************************************************************)
LessThan == {p \in Nat \X Nat : p[1] < p[2]}

(***************************************************************************)
(* A set of natural numbers that is not empty has a least element.         *)
(***************************************************************************)
LEMMA LeastNat ==
  ASSUME NEW S \in SUBSET Nat, S # {}
  PROVE  \E m \in S : \A k \in S : m <= k
<1>1. IsWellFoundedOn(LessThan, Nat)
  BY NatLessThanWellFounded, Zenon DEF OpToRel, LessThan
<1>2. PICK m \in S : \A k \in S : ~(<<k, m>> \in LessThan)
  BY <1>1, WFMin, Zenon
<1>3. ASSUME NEW k \in S PROVE m <= k
  <2>1. ~(k < m)
    BY <1>2 DEF LessThan
  <2>2. k \in Nat /\ m \in Nat
    OBVIOUS
  <2> QED
    BY <2>1, <2>2
<1> QED
  BY <1>3

(***************************************************************************)
(* A sequence of values no step of which changes is constant.              *)
(***************************************************************************)
LEMMA NoStepNoChange ==
  ASSUME NEW f, NEW lo \in Nat, NEW hi \in Nat, lo <= hi,
         \A k \in lo + 1 .. hi : f[k] = f[k - 1]
  PROVE  f[hi] = f[lo]
<1> DEFINE S == {k \in lo..hi : f[k] # f[lo]}
<1>1. SUFFICES ASSUME S # {} PROVE FALSE
  BY <1>1
<1>2. S \in SUBSET Nat
  OBVIOUS
<1>3. PICK m \in S : \A k \in S : m <= k
  BY <1>1, <1>2, LeastNat
<1>4. m \in lo + 1 .. hi /\ m - 1 \in lo..hi /\ ~(m <= m - 1)
  BY <1>3
<1>5. m - 1 \notin S
  BY <1>3, <1>4
<1> QED
  BY <1>3, <1>4, <1>5

(***************************************************************************)
(* Contents are functions, so two that differ do so at some name.          *)
(***************************************************************************)
LEMMA ContentsDiffer ==
  ASSUME NEW b \in Content, NEW a \in Content, b # a
  PROVE  \E n \in DOMAIN b \cup DOMAIN a :
           n \notin DOMAIN b \/ n \notin DOMAIN a \/ b[n] # a[n]
<1>1. b = [n \in DOMAIN b |-> b[n]] /\ a = [n \in DOMAIN a |-> a[n]]
  BY WatchAssumption
<1>2. SUFFICES ASSUME \A n \in DOMAIN b \cup DOMAIN a :
                        n \in DOMAIN b /\ n \in DOMAIN a /\ b[n] = a[n]
               PROVE  b = a
  BY Zenon
<1>3. DOMAIN b = DOMAIN a
  BY <1>2
<1> QED
  BY <1>1, <1>2, <1>3

(***************************************************************************)
(* apply_event turns the state before a change of one object into the      *)
(* state after it, whichever way the object changed.                       *)
(***************************************************************************)
LEMMA EventFolds ==
  ASSUME NEW b \in Content, NEW a \in Content, b # a, OneChange(b, a),
         NEW s, s.items = b, NEW rv, NEW name,
         name = CHOOSE n \in DOMAIN b \cup DOMAIN a :
                  \/ n \notin DOMAIN b \/ n \notin DOMAIN a
                  \/ b[n] # a[n],
         NEW object, object = IF name \in DOMAIN a THEN a[name] ELSE b[name]
  PROVE  ApplyEvent(s, EventType(b, a, name), name, object, rv) = [items |-> a, rv |-> rv]
<1>1. /\ name \in DOMAIN b \cup DOMAIN a
      /\ name \notin DOMAIN b \/ name \notin DOMAIN a \/ b[name] # a[name]
  BY ContentsDiffer
<1>2. \A m \in (DOMAIN b \cup DOMAIN a) \ {name} :
        m \in DOMAIN b /\ m \in DOMAIN a /\ a[m] = b[m]
  BY <1>1 DEF OneChange
<1>3. b = [n \in DOMAIN b |-> b[n]] /\ a = [n \in DOMAIN a |-> a[n]]
  BY WatchAssumption
<1>4. CASE name \in DOMAIN a
  <2>1. EventType(b, a, name) \in {"ADDED", "MODIFIED"}
    BY <1>1, <1>4 DEF EventType
  <2>2. DOMAIN a = DOMAIN b \cup {name}
    BY <1>2, <1>4
  <2>3. a = [n \in DOMAIN b \cup {name} |-> IF n = name THEN object ELSE b[n]]
    BY <1>2, <1>3, <1>4, <2>2
  <2>4. ApplyEvent(s, EventType(b, a, name), name, object, rv)
          = [items |-> Insert(s.items, name, object), rv |-> rv]
    BY <2>1 DEF ApplyEvent
  <2>5. Insert(s.items, name, object) = a
    BY <2>3 DEF Insert
  <2> QED
    BY <2>4, <2>5, Zenon
<1>5. CASE name \notin DOMAIN a
  <2>1. EventType(b, a, name) = "DELETED"
    BY <1>1, <1>5 DEF EventType
  <2>2. DOMAIN a = DOMAIN b \ {name}
    BY <1>2, <1>5
  <2>3. a = [n \in DOMAIN b \ {name} |-> b[n]]
    BY <1>2, <1>3, <2>2
  <2>4. ApplyEvent(s, EventType(b, a, name), name, object, rv)
          = [items |-> Remove(s.items, name), rv |-> rv]
    BY <2>1 DEF ApplyEvent
  <2>5. Remove(s.items, name) = a
    BY <2>3 DEF Remove
  <2> QED
    BY <2>4, <2>5, Zenon
<1> QED
  BY <1>4, <1>5

(***************************************************************************)
(* The revisions of the cluster are numbered from 0 and hold contents.     *)
(***************************************************************************)
LEMMA PastFacts ==
  ASSUME TypeOK
  PROVE  /\ Revision \in Nat /\ Len(past) = Revision + 1
         /\ \A rv \in 0..Revision, l \in Loop : At(l, rv) \in Content
<1>1. Len(past) \in Nat /\ Len(past) > 0
  BY LenProperties DEF TypeOK
<1>2. Revision \in Nat /\ Len(past) = Revision + 1
  BY <1>1 DEF Revision
<1>3. ASSUME NEW rv \in 0..Revision, NEW l \in Loop PROVE At(l, rv) \in Content
  <2>1. rv + 1 \in 1..Len(past)
    BY <1>2
  <2>2. past[rv + 1] \in [Loop -> Content]
    BY <2>1, ElementOfSeq DEF TypeOK
  <2> QED
    BY <2>2 DEF At
<1> QED
  BY <1>2, <1>3

(***************************************************************************)
(* A loop with no change pending holds the current state; otherwise what   *)
(* it holds is the state just before the next change.                      *)
(***************************************************************************)
LEMMA UpToNextChange ==
  ASSUME TypeOK, NEW l \in Loop, Genuine(l, w[l].snap)
  PROVE  /\ Pending(l) = {} => w[l].snap.items = At(l, Revision)
         /\ \A rv \in Pending(l) : (\A q \in Pending(l) : rv <= q) =>
              w[l].snap.items = At(l, rv - 1)
<1> DEFINE lo == w[l].snap.rv
           f == [rv \in 0..Revision |-> At(l, rv)]
<1>1. Revision \in Nat /\ lo \in 0..Revision /\ w[l].snap.items = f[lo]
  BY PastFacts DEF Genuine
<1>2. ASSUME NEW k \in lo + 1 .. Revision, k \notin Pending(l) PROVE f[k] = f[k - 1]
  <2>1. k \in 0..Revision /\ k - 1 \in 0..Revision
    BY <1>1
  <2>2. At(l, k) = At(l, k - 1)
    BY <1>2 DEF Pending
  <2> QED
    BY <2>1, <2>2
<1>3. CASE Pending(l) = {}
  <2>1. f[Revision] = f[lo]
    <3> HIDE DEF f, lo
    <3> QED
      BY <1>1, <1>2, <1>3, NoStepNoChange
  <2> QED
    BY <1>1, <1>3, <2>1
<1>4. ASSUME NEW rv \in Pending(l), \A q \in Pending(l) : rv <= q
      PROVE  w[l].snap.items = At(l, rv - 1)
  <2>1. rv \in lo + 1 .. Revision
    BY DEF Pending
  <2>2. rv - 1 \in 0..Revision /\ lo <= rv - 1 /\ rv - 1 \in Nat /\ lo \in Nat
    BY <1>1, <2>1
  <2>3. ASSUME NEW k \in lo + 1 .. rv - 1 PROVE f[k] = f[k - 1]
    <3>1. k \in lo + 1 .. Revision /\ ~(rv <= k)
      BY <1>1, <2>1
    <3>2. k \notin Pending(l)
      BY <3>1, <1>4
    <3> QED
      BY <3>1, <3>2, <1>2
  <2>4. f[rv - 1] = f[lo]
    <3> HIDE DEF f, lo
    <3> QED
      BY <2>2, <2>3, NoStepNoChange
  <2> QED
    BY <1>1, <2>2, <2>4
<1> QED
  BY <1>3, <1>4
-----------------------------------------------------------------------------
(***************************************************************************)
(* The inductive invariant                                                 *)
(***************************************************************************)
(***************************************************************************)
(* A step of one loop that touches no other loop, no revision and nothing  *)
(* of the merge task keeps the invariant if it keeps the loop's own part.  *)
(***************************************************************************)
LEMMA LoopStep ==
  ASSUME Inv, NEW l \in Loop, NEW x \in LoopState, w' = [w EXCEPT ![l] = x],
         slots' \in [Loop -> Snapshot],
         \A k \in Loop : k # l => slots'[k] = slots[k] /\ (k \in forgotten' <=> k \in forgotten),
         UNCHANGED <<mode, access, past, resolver, merger, published>>,
         w'[l] = x => SnapOK(l)' /\ KeptOK(l)'
  PROVE  Inv'
<1>1. w \in [Loop -> LoopState]
  BY DEF Inv, TypeOK
<1>2. w' \in [Loop -> LoopState] /\ w'[l] = x /\ \A k \in Loop : k # l => w'[k] = w[k]
  BY <1>1
<1>3. TypeOK'
  BY <1>2 DEF Inv, TypeOK
<1>4. PastOK'
  <2>1. PastOK /\ past' = past
    BY DEF Inv
  <2> QED
    BY <2>1 DEF PastOK, Revision, At
<1>5. ASSUME NEW k \in Loop PROVE SnapOK(k)' /\ KeptOK(k)'
  <2>1. CASE k = l
    BY <2>1, <1>2
  <2>2. CASE k # l
    <3>1. SnapOK(k) /\ KeptOK(k)
      BY DEF Inv
    <3>2. w'[k] = w[k] /\ slots'[k] = slots[k] /\ (k \in forgotten' <=> k \in forgotten) /\ past' = past
      BY <2>2, <1>2
    <3>3. SnapOK(k)'
      BY <3>1, <3>2 DEF SnapOK, Genuine, Revision, At, NoSnapshot
    <3>4. KeptOK(k)'
      BY <3>1, <3>2 DEF KeptOK, HandedOver, At, NoSnapshot
    <3> QED
      BY <3>3, <3>4
  <2> QED
    BY <2>1, <2>2
<1>6. MergeOK'
  BY DEF Inv, MergeOK, published
<1>7. NamedSourceIsFinal'
  BY DEF Inv, NamedSourceIsFinal
<1> QED
  BY <1>3, <1>4, <1>5, <1>6, <1>7 DEF Inv

(***************************************************************************)
(* The types of what a loop keeps.                                         *)
(***************************************************************************)
LEMMA LoopFacts ==
  ASSUME Inv, NEW l \in Loop
  PROVE  /\ w[l] \in LoopState /\ w[l].snap \in Snapshot /\ slots[l] \in Snapshot
         /\ w[l].snap.rv \in Int /\ Revision \in Nat
         /\ SnapOK(l) /\ KeptOK(l) /\ TypeOK
         /\ \A rv \in 0..Revision : At(l, rv) \in Content
  BY PastFacts DEF Inv, TypeOK, LoopState, Snapshot

(***************************************************************************)
(* Going back to the LIST keeps the invariant: after an error without a    *)
(* revision to compare with, after a resync with the one that was held.    *)
(***************************************************************************)
LEMMA ReconnectKeeps ==
  ASSUME Inv, NEW l \in Loop, Reconnect(l),
         UNCHANGED <<mode, access, past, resolver, slots, forgotten, merger, published>>
  PROVE  Inv'
<1>1. Begun \in LoopState /\ Begun.pc = "list" /\ Begun.snap = NoSnapshot /\ Begun.restart = -1
  BY DEF Begun, LoopState, Snapshot, NoSnapshot
<1>2. slots' \in [Loop -> Snapshot]
  BY DEF Inv, TypeOK
<1>3. ASSUME w'[l] = Begun PROVE SnapOK(l)' /\ KeptOK(l)'
  <2>1. SnapOK(l)'
    BY <1>1, <1>3, LoopFacts DEF SnapOK, Genuine, Revision, At, NoSnapshot
  <2>2. KeptOK(l)'
    BY <1>1, <1>3 DEF KeptOK
  <2> QED
    BY <2>1, <2>2
<1>4. w' = [w EXCEPT ![l] = Begun]
  BY DEF Reconnect
<1> HIDE DEF Begun
<1> QED
  BY <1>1, <1>2, <1>3, <1>4, LoopStep

(***************************************************************************)
(* A loop whose request is never answered (Hang) holds nothing any more.   *)
(***************************************************************************)
LEMMA HangKeeps ==
  ASSUME Inv, NEW l \in Loop, Hang(l)
  PROVE  Inv'
<1> DEFINE x == [Begun EXCEPT !.pc = "hung"]
<1>1. x \in LoopState /\ x.pc = "hung" /\ x.snap = NoSnapshot /\ x.restart = -1
  <2>1. Begun \in LoopState /\ Begun.snap = NoSnapshot /\ Begun.restart = -1
    BY DEF Begun, LoopState, Snapshot, NoSnapshot
  <2> HIDE DEF Begun
  <2> QED
    BY <2>1 DEF LoopState
<1>2. /\ w' = [w EXCEPT ![l] = x]
      /\ UNCHANGED <<mode, access, past, resolver, slots, forgotten, merger, published>>
  BY DEF Hang, Fault, plane
<1> HIDE DEF x
<1>3. slots' \in [Loop -> Snapshot]
  BY <1>2 DEF Inv, TypeOK
<1>4. ASSUME w'[l] = x PROVE SnapOK(l)' /\ KeptOK(l)'
  <2>1. SnapOK(l)'
    BY <1>1, <1>2, <1>4, LoopFacts DEF SnapOK, Genuine, Revision, At, NoSnapshot
  <2>2. KeptOK(l)'
    BY <1>1, <1>4 DEF KeptOK
  <2> QED
    BY <2>1, <2>2
<1> QED
  BY <1>1, <1>2, <1>3, <1>4, LoopStep

(***************************************************************************)
(* The resync timer restarts the cycle (Resync).                           *)
(***************************************************************************)
LEMMA ResyncKeeps ==
  ASSUME Inv, NEW l \in Loop, Resync(l)
  PROVE  Inv'
<1> DEFINE x == [Begun EXCEPT !.restart = w[l].snap.rv]
<1>1. /\ x \in LoopState /\ x.pc = "list" /\ x.snap = NoSnapshot
      /\ x.restart = w[l].snap.rv
  <2>1. Begun \in LoopState /\ Begun.pc = "list" /\ Begun.snap = NoSnapshot
    BY DEF Begun, LoopState, Snapshot, NoSnapshot
  <2>2. w[l].snap.rv \in Int
    BY LoopFacts
  <2> HIDE DEF Begun
  <2> QED
    BY <2>1, <2>2 DEF LoopState
<1>2. w' = [w EXCEPT ![l] = x]
  BY DEF Resync
<1> HIDE DEF x
<1>3. slots' \in [Loop -> Snapshot] /\ slots' = slots /\ past' = past
  BY DEF Inv, TypeOK, Resync, server
<1>4. w[l].pc = "watch" /\ Genuine(l, w[l].snap)
  BY LoopFacts DEF Resync, SnapOK
<1>5. ASSUME w'[l] = x PROVE SnapOK(l)'
  BY <1>1, <1>3, <1>4, <1>5, LoopFacts DEF SnapOK, Genuine, Revision, At, NoSnapshot
<1>6. ASSUME w'[l] = x PROVE KeptOK(l)'
  <2>1. CASE w[l].dirty
    BY <2>1, <1>1, <1>6 DEF Resync, KeptOK
  <2>2. CASE w[l].dirty = FALSE
    <3>1. forgotten' = forgotten
      BY <2>2 DEF Resync
    <3>2. l \notin forgotten => HandedOver(l, At(l, w[l].snap.rv))
      BY <2>2, <1>4, LoopFacts DEF KeptOK, Genuine
    <3> QED
      BY <3>1, <3>2, <1>1, <1>3, <1>6 DEF KeptOK, HandedOver, At, NoSnapshot
  <2>3. w[l].dirty \in BOOLEAN
    BY LoopFacts DEF LoopState
  <2> QED
    BY <2>1, <2>2, <2>3
<1>7. \A k \in Loop : k # l => (k \in forgotten' <=> k \in forgotten)
  BY DEF Resync
<1>8. UNCHANGED <<mode, access, past, resolver, merger, published>>
  BY DEF Resync, server
<1> QED
  BY <1>1, <1>2, <1>3, <1>5, <1>6, <1>7, <1>8, LoopStep
(***************************************************************************)
(* The LIST answers (ListOk): the snapshot is the current state, and it is *)
(* clean only if the slot has that state already.                          *)
(***************************************************************************)
LEMMA ListKeeps ==
  ASSUME Inv, NEW l \in Loop, ListOk(l)
  PROVE  Inv'
<1> DEFINE snap == ReplaceFromList(At(l, Revision), Revision)
           unchanged == w[l].restart = Revision
           dirty == ~(w[l].restart = Revision)
           x == [w[l] EXCEPT !.pc = "open", !.snap = snap, !.dirty = dirty,
                             !.window = "list", !.restart = -1]
<1>1. w' = [w EXCEPT ![l] = x] /\ w[l].pc = "list" /\ slots' = slots /\ past' = past
  BY DEF ListOk, server
<1>2. /\ snap \in Snapshot /\ snap.rv = Revision /\ snap.items = At(l, Revision)
      /\ Revision \in Nat
  BY LoopFacts DEF ReplaceFromList, Snapshot
<1>3. dirty \in BOOLEAN
  OBVIOUS
<1>4. /\ x \in LoopState /\ x.pc = "open" /\ x.snap = snap /\ x.restart = -1
      /\ x.dirty = dirty
  <2>1. w[l] \in LoopState
    BY LoopFacts
  <2>2. snap \in Snapshot /\ -1 \in Int
    BY <1>2
  <2> HIDE DEF snap, dirty
  <2>3. x.pc = "open" /\ x.snap = snap /\ x.restart = -1
    BY <2>1 DEF LoopState
  <2>4. x.dirty = dirty
    BY <2>1, Zenon DEF LoopState
  <2>5. x \in LoopState
    BY <2>1, <2>2, <1>3 DEF LoopState
  <2> QED
    BY <2>3, <2>4, <2>5
<1>5. /\ unchanged => forgotten' = forgotten
      /\ ~unchanged => forgotten' = forgotten \ {l}
  BY DEF ListOk
<1> HIDE DEF snap, x
<1>6. slots' \in [Loop -> Snapshot]
  BY <1>1 DEF Inv, TypeOK
<1>7. ASSUME w'[l] = x PROVE SnapOK(l)'
  BY <1>1, <1>2, <1>4, <1>7, LoopFacts DEF SnapOK, Genuine, Revision, At, NoSnapshot
<1>8. ASSUME w'[l] = x PROVE KeptOK(l)'
  <2>1. CASE unchanged
    <3>1. l \notin forgotten => HandedOver(l, At(l, Revision))
      <4>1. KeptOK(l) /\ w[l].restart = Revision /\ Revision # -1
        BY <2>1, <1>2, LoopFacts
      <4> QED
        BY <4>1, <1>1 DEF KeptOK
    <3> QED
      BY <3>1, <2>1, <1>1, <1>2, <1>4, <1>5, <1>8 DEF KeptOK, HandedOver, NoSnapshot
  <2>2. CASE ~unchanged
    BY <2>2, <1>4, <1>8 DEF KeptOK
  <2> QED
    BY <2>1, <2>2
<1>9. /\ \A k \in Loop : k # l => (k \in forgotten' <=> k \in forgotten)
      /\ UNCHANGED <<mode, access, past, resolver, merger, published>>
  <2>1. UNCHANGED <<mode, access, past, resolver, merger, published>>
    BY DEF ListOk, server
  <2> QED
    BY <2>1, <1>5
<1> QED
  BY <1>1, <1>4, <1>6, <1>7, <1>8, <1>9, LoopStep

(***************************************************************************)
(* A step that leaves the snapshot of a loop, its dirt and its slot alone  *)
(* (OpenOk, OpenLate, Stall, and CloseWindow of a clean window).           *)
(***************************************************************************)
LEMMA SameSnapshotKeeps ==
  ASSUME Inv, NEW l \in Loop, NEW x \in LoopState, w' = [w EXCEPT ![l] = x],
         w[l].pc \in {"open", "watch"}, x.pc \in {"open", "watch"},
         x.snap = w[l].snap, x.dirty = w[l].dirty, x.restart = w[l].restart,
         UNCHANGED <<mode, access, past, resolver, slots, forgotten, merger, published>>
  PROVE  Inv'
<1>1. slots' \in [Loop -> Snapshot] /\ slots' = slots /\ past' = past /\ forgotten' = forgotten
  BY DEF Inv, TypeOK
<1>2. ASSUME w'[l] = x PROVE SnapOK(l)'
  BY <1>1, <1>2, LoopFacts DEF SnapOK, Genuine, Revision, At, NoSnapshot
<1>3. ASSUME w'[l] = x PROVE KeptOK(l)'
  <2>1. l \notin forgotten => (w[l].dirty = FALSE => HandedOver(l, w[l].snap.items))
    BY LoopFacts DEF KeptOK
  <2> QED
    BY <2>1, <1>1, <1>3 DEF KeptOK, HandedOver, NoSnapshot
<1> QED
  BY <1>1, <1>2, <1>3, LoopStep

(***************************************************************************)
(* The next change is folded (Receive): the snapshot is the state after    *)
(* it, and it is dirty.                                                    *)
(***************************************************************************)
LEMMA ReceiveKeeps ==
  ASSUME Inv, NEW l \in Loop, Receive(l)
  PROVE  Inv'
<1> DEFINE rv == CHOOSE r \in Pending(l) : \A q \in Pending(l) : r <= q
           before == At(l, rv - 1)
           after == At(l, rv)
           name == CHOOSE n \in DOMAIN before \cup DOMAIN after :
                     \/ n \notin DOMAIN before \/ n \notin DOMAIN after
                     \/ before[n] # after[n]
           object == IF name \in DOMAIN after THEN after[name] ELSE before[name]
           snap == ApplyEvent(w[l].snap, EventType(before, after, name), name, object, rv)
           window == IF w[l].window = "none" THEN "change" ELSE w[l].window
           x == [w[l] EXCEPT !.snap = snap, !.dirty = TRUE, !.window = window]
<1>1. /\ w' = [w EXCEPT ![l] = x] /\ w[l].pc = "watch" /\ Pending(l) # {}
      /\ UNCHANGED <<mode, access, past, resolver, slots, forgotten, merger, published>>
  BY DEF Receive, server, plane
<1>2. Genuine(l, w[l].snap)
  BY <1>1, LoopFacts DEF SnapOK
<1>3. /\ rv \in Pending(l) /\ \A q \in Pending(l) : rv <= q
  <2>1. Pending(l) \in SUBSET Nat
    BY <1>2, LoopFacts DEF Pending, Genuine
  <2> QED
    BY <1>1, <2>1, LeastNat
<1>4. w[l].snap.items = before
  BY <1>2, <1>3, UpToNextChange, LoopFacts
<1>5. rv \in 1..Revision /\ rv - 1 \in 0..Revision /\ rv \in 0..Revision /\ before # after
  BY <1>2, <1>3, LoopFacts DEF Pending, Genuine
<1>6. before \in Content /\ after \in Content /\ OneChange(before, after)
  <2>1. PastOK
    BY DEF Inv
  <2> HIDE DEF rv
  <2> QED
    BY <2>1, <1>5, LoopFacts DEF PastOK
<1>7. snap = [items |-> after, rv |-> rv]
  <2>1. /\ name = CHOOSE n \in DOMAIN before \cup DOMAIN after :
                     \/ n \notin DOMAIN before \/ n \notin DOMAIN after
                     \/ before[n] # after[n]
        /\ object = IF name \in DOMAIN after THEN after[name] ELSE before[name]
    OBVIOUS
  <2> HIDE DEF before, after, rv, name, object
  <2> QED
    BY <2>1, <1>4, <1>5, <1>6, EventFolds
<1>8. snap \in Snapshot /\ snap.rv = rv /\ snap.items = after
  <2> HIDE DEF after, rv, snap
  <2> QED
    BY <1>5, <1>6, <1>7 DEF Snapshot
<1>9. window \in {"none", "list", "late", "change"}
  BY LoopFacts DEF LoopState
<1>10. /\ x \in LoopState /\ x.pc = w[l].pc /\ x.snap = snap /\ x.dirty = TRUE
       /\ x.restart = w[l].restart
  <2> HIDE DEF snap, window
  <2> QED
    BY <1>8, <1>9, LoopFacts DEF LoopState
<1> HIDE DEF rv, snap, window, x, name, object
<1>11. ASSUME w'[l] = x PROVE SnapOK(l)'
  BY <1>1, <1>5, <1>8, <1>10, <1>11, LoopFacts DEF SnapOK, Genuine, Revision, At, NoSnapshot
<1>12. ASSUME w'[l] = x PROVE KeptOK(l)'
  BY <1>1, <1>10, <1>12 DEF KeptOK
<1>13. slots' \in [Loop -> Snapshot]
  BY <1>1 DEF Inv, TypeOK
<1> QED
  BY <1>1, <1>10, <1>11, <1>12, <1>13, LoopStep
(***************************************************************************)
(* A bookmark advances the revision over no change (Bookmark).             *)
(***************************************************************************)
LEMMA BookmarkKeeps ==
  ASSUME Inv, NEW l \in Loop, Bookmark(l)
  PROVE  Inv'
<1> DEFINE snap == ApplyEvent(w[l].snap, "BOOKMARK", Nothing, Nothing, Revision)
           x == [w[l] EXCEPT !.snap = snap]
<1>1. /\ w' = [w EXCEPT ![l] = x] /\ w[l].pc = "watch" /\ Pending(l) = {}
      /\ UNCHANGED <<mode, access, past, resolver, slots, forgotten, merger, published>>
  BY DEF Bookmark, server, plane
<1>2. Genuine(l, w[l].snap)
  BY <1>1, LoopFacts DEF SnapOK
<1>3. w[l].snap.items = At(l, Revision)
  BY <1>1, <1>2, UpToNextChange, LoopFacts
<1>4. snap = [items |-> w[l].snap.items, rv |-> Revision]
  BY DEF ApplyEvent
<1>5. /\ Revision \in Nat /\ Revision \in Int /\ Revision \in 0..Revision
      /\ At(l, Revision) \in Content
  BY LoopFacts
<1>6. snap \in Snapshot /\ snap.items = w[l].snap.items /\ snap.rv = Revision
  BY <1>3, <1>4, <1>5 DEF Snapshot
<1> HIDE DEF snap
<1>7. /\ x \in LoopState /\ x.pc = w[l].pc /\ x.snap = snap
      /\ x.restart = w[l].restart
  BY <1>6, LoopFacts DEF LoopState
<1>8. x.dirty = w[l].dirty
  BY LoopFacts DEF LoopState
<1> HIDE DEF x
<1>9. ASSUME w'[l] = x PROVE SnapOK(l)'
  BY <1>1, <1>3, <1>5, <1>6, <1>7, <1>9, LoopFacts DEF SnapOK, Genuine, Revision, At, NoSnapshot
<1>10. ASSUME w'[l] = x PROVE KeptOK(l)'
  BY <1>1, <1>6, <1>7, <1>8, <1>10, LoopFacts DEF KeptOK, HandedOver, NoSnapshot
<1>11. slots' \in [Loop -> Snapshot]
  BY <1>1 DEF Inv, TypeOK
<1> QED
  BY <1>1, <1>7, <1>9, <1>10, <1>11, LoopStep

(***************************************************************************)
(* The window closes (CloseWindow): a dirty snapshot is handed over.       *)
(***************************************************************************)
LEMMA CloseKeeps ==
  ASSUME Inv, NEW l \in Loop, CloseWindow(l)
  PROVE  Inv'
<1> DEFINE x == [w[l] EXCEPT !.window = "none", !.dirty = FALSE]
<1>1. w \in [Loop -> LoopState] /\ slots \in [Loop -> Snapshot]
  BY DEF Inv, TypeOK
<1>2. /\ w' = [w EXCEPT ![l] = x] /\ w[l].pc = "watch"
      /\ UNCHANGED <<mode, access, past, resolver, merger, published>>
  BY <1>1 DEF CloseWindow, server
<1>3. /\ x \in LoopState /\ x.pc = w[l].pc /\ x.snap = w[l].snap
      /\ x.restart = w[l].restart /\ x.dirty = FALSE
  BY LoopFacts DEF LoopState
<1> HIDE DEF x
<1>4. Genuine(l, w[l].snap) /\ w[l].dirty \in BOOLEAN
  BY <1>2, LoopFacts DEF SnapOK, LoopState
<1>5. CASE w[l].dirty
  <2>1. slots' = [slots EXCEPT ![l] = w[l].snap] /\ forgotten' = forgotten \ {l}
    BY <1>5 DEF CloseWindow
  <2>2. /\ slots' \in [Loop -> Snapshot] /\ slots'[l] = w[l].snap
        /\ \A k \in Loop : k # l => slots'[k] = slots[k] /\ (k \in forgotten' <=> k \in forgotten)
    BY <2>1, <1>1, LoopFacts
  <2>3. ASSUME w'[l] = x PROVE SnapOK(l)'
    BY <2>2, <2>3, <1>2, <1>3, <1>4, LoopFacts DEF SnapOK, Genuine, Revision, At
  <2>4. ASSUME w'[l] = x PROVE KeptOK(l)'
    <3>1. w[l].snap.rv # -1
      BY <1>4, LoopFacts DEF Genuine
    <3> QED
      BY <3>1, <2>2, <2>4, <1>2, <1>3 DEF KeptOK, HandedOver, NoSnapshot
  <2> QED
    BY <2>2, <2>3, <2>4, <1>2, <1>3, LoopStep
<1>6. CASE w[l].dirty = FALSE
  <2>1. UNCHANGED <<slots, forgotten>>
    BY <1>6 DEF CloseWindow
  <2> QED
    BY <2>1, <1>2, <1>3, <1>6, SameSnapshotKeeps
<1> QED
  BY <1>4, <1>5, <1>6

(***************************************************************************)
(* The stream opens, opens late or dies silently.                          *)
(***************************************************************************)
LEMMA StreamKeeps ==
  ASSUME Inv, NEW l \in Loop, OpenOk(l) \/ OpenLate(l) \/ Stall(l)
  PROVE  Inv'
<1> DEFINE opened == [w[l] EXCEPT !.pc = "watch", !.alive = TRUE]
           late == [w[l] EXCEPT !.pc = "watch", !.alive = TRUE, !.window = "late"]
           dead == [w[l] EXCEPT !.alive = FALSE]
<1>1. w \in [Loop -> LoopState] /\ w[l] \in LoopState
  BY DEF Inv, TypeOK
<1>2. UNCHANGED <<mode, access, past, resolver, slots, forgotten, merger, published>> /\ w[l].pc \in {"open", "watch"}
  BY DEF OpenOk, OpenLate, Stall, server, plane, Fault
<1>3. CASE OpenOk(l)
  <2>1. /\ opened \in LoopState /\ opened.pc = "watch" /\ opened.snap = w[l].snap
        /\ opened.dirty = w[l].dirty /\ opened.restart = w[l].restart
    BY <1>1 DEF LoopState
  <2>2. w' = [w EXCEPT ![l] = opened]
    BY <1>3 DEF OpenOk
  <2> HIDE DEF opened
  <2> QED
    BY <2>1, <2>2, <1>2, SameSnapshotKeeps
<1>4. CASE OpenLate(l)
  <2>1. /\ late \in LoopState /\ late.pc = "watch" /\ late.snap = w[l].snap
        /\ late.dirty = w[l].dirty /\ late.restart = w[l].restart
    BY <1>1 DEF LoopState
  <2>2. w' = [w EXCEPT ![l] = late]
    BY <1>4 DEF OpenLate
  <2> HIDE DEF late
  <2> QED
    BY <2>1, <2>2, <1>2, SameSnapshotKeeps
<1>5. CASE Stall(l)
  <2>1. /\ dead \in LoopState /\ dead.pc = w[l].pc /\ dead.snap = w[l].snap
        /\ dead.dirty = w[l].dirty /\ dead.restart = w[l].restart
    BY <1>1 DEF LoopState
  <2>2. w' = [w EXCEPT ![l] = dead]
    BY <1>5, <1>1 DEF Stall
  <2> HIDE DEF dead
  <2> QED
    BY <2>1, <2>2, <1>2, SameSnapshotKeeps
<1> QED
  BY <1>3, <1>4, <1>5
(***************************************************************************)
(* A change to the cluster (Change) adds a revision and rewrites none.     *)
(***************************************************************************)
LEMMA ChangeKeeps ==
  ASSUME Inv, Change
  PROVE  Inv'
<1>1. TypeOK /\ PastOK
  BY DEF Inv
<1>a. PICK l \in Loop : \E c \in Contents[l] :
        /\ \E n \in DOMAIN c \cup DOMAIN At(l, Revision) :
             \A m \in (DOMAIN c \cup DOMAIN At(l, Revision)) \ {n} :
               m \in DOMAIN c /\ m \in DOMAIN At(l, Revision) /\ c[m] = At(l, Revision)[m]
        /\ past' = Append(past, [past[Len(past)] EXCEPT ![l] = c])
  BY DEF Change
<1>2. PICK c \in Contents[l] :
        /\ \E n \in DOMAIN c \cup DOMAIN At(l, Revision) :
             \A m \in (DOMAIN c \cup DOMAIN At(l, Revision)) \ {n} :
               m \in DOMAIN c /\ m \in DOMAIN At(l, Revision) /\ c[m] = At(l, Revision)[m]
        /\ past' = Append(past, [past[Len(past)] EXCEPT ![l] = c])
  BY <1>a
<1>3. UNCHANGED <<mode, access, resolver, w, slots, forgotten, merger, published>>
  BY DEF Change, plane
<1> DEFINE last == past[Len(past)]
           new == [last EXCEPT ![l] = c]
<1>4. Revision \in Nat /\ Len(past) = Revision + 1 /\ past \in Seq([Loop -> Content])
  BY <1>1, PastFacts DEF TypeOK
<1>5. last \in [Loop -> Content] /\ last[l] = At(l, Revision) /\ \A k \in Loop : last[k] = At(k, Revision)
  <2>1. Len(past) \in 1..Len(past)
    BY <1>4
  <2> QED
    BY <2>1, <1>4, ElementOfSeq DEF At
<1>6. c \in Content
  BY DEF Content
<1>7. new \in [Loop -> Content] /\ new[l] = c /\ \A k \in Loop : k # l => new[k] = last[k]
  BY <1>5, <1>6
<1> HIDE DEF last, new
<1>8. past' = Append(past, new)
  BY <1>2 DEF last, new
<1>9. /\ past' \in Seq([Loop -> Content]) /\ Len(past') = Revision + 2
      /\ \A i \in 1..Len(past) : past'[i] = past[i]
      /\ past'[Revision + 2] = new
  BY <1>4, <1>7, <1>8, AppendProperties
<1>10. Revision' = Revision + 1
  BY <1>4, <1>9 DEF Revision
<1>11. \A k \in Loop, rv \in 0..Revision : past'[rv + 1][k] = At(k, rv)
  BY <1>4, <1>9 DEF At
<1>12. TypeOK'
  BY <1>1, <1>3, <1>4, <1>9 DEF TypeOK
<1>13. PastOK'
  <2>1. SUFFICES ASSUME NEW rv \in 1..Revision + 1, NEW k \in Loop
                 PROVE  OneChange(past'[(rv - 1) + 1][k], past'[rv + 1][k])
    BY <1>10 DEF PastOK, At
  <2>2. CASE rv \in 1..Revision
    <3>1. rv - 1 \in 0..Revision /\ rv \in 0..Revision
      BY <2>2, <1>4
    <3>2. past'[(rv - 1) + 1][k] = At(k, rv - 1) /\ past'[rv + 1][k] = At(k, rv)
      BY <3>1, <1>11
    <3>3. OneChange(At(k, rv - 1), At(k, rv))
      BY <2>2, <1>1 DEF PastOK
    <3> QED
      BY <3>2, <3>3
  <2>3. CASE rv = Revision + 1
    <3>1. past'[rv + 1] = new /\ rv - 1 = Revision /\ Revision \in 0..Revision
      BY <2>3, <1>4, <1>9
    <3>2. past'[(rv - 1) + 1][k] = At(k, Revision)
      BY <3>1, <1>4, <1>11
    <3>3. OneChange(At(k, Revision), new[k])
      BY <1>2, <1>5, <1>7 DEF OneChange
    <3> QED
      BY <3>1, <3>2, <3>3
  <2> QED
    BY <2>2, <2>3, <1>4
<1>14. ASSUME NEW k \in Loop PROVE SnapOK(k)' /\ KeptOK(k)'
  <2>1. SnapOK(k) /\ KeptOK(k)
    BY DEF Inv
  <2>2. w'[k] = w[k] /\ slots'[k] = slots[k] /\ forgotten' = forgotten
    BY <1>3
  <2>3. \A s : Genuine(k, s) => s.rv \in 0..Revision' /\ s.items = past'[s.rv + 1][k]
    BY <1>4, <1>10, <1>11 DEF Genuine
  <2>4. SnapOK(k)'
    <3>1. IF w[k].pc \in {"list", "hung"} THEN w[k].snap = NoSnapshot
          ELSE w[k].snap.rv \in 0..Revision' /\ w[k].snap.items = past'[w[k].snap.rv + 1][k]
      BY <2>1, <2>3 DEF SnapOK
    <3>2. \/ slots[k] = NoSnapshot
          \/ slots[k].rv \in 0..Revision' /\ slots[k].items = past'[slots[k].rv + 1][k]
      BY <2>1, <2>3 DEF SnapOK
    <3>3. w[k].restart \in -1..Revision'
      BY <2>1, <1>4, <1>10 DEF SnapOK
    <3> QED
      BY <3>1, <3>2, <3>3, <2>2 DEF SnapOK, Genuine, NoSnapshot, At
  <2>5. KeptOK(k)'
    <3>1. w[k].restart # -1 => w[k].restart \in 0..Revision
      BY <2>1, <1>4 DEF SnapOK
    <3>2. w[k].restart # -1 => past'[w[k].restart + 1][k] = At(k, w[k].restart)
      BY <3>1, <1>11
    <3> QED
      BY <3>2, <2>1, <2>2 DEF KeptOK, HandedOver, NoSnapshot, At
  <2> QED
    BY <2>4, <2>5
<1>15. MergeOK' /\ NamedSourceIsFinal'
  BY <1>3 DEF Inv, MergeOK, NamedSourceIsFinal, published
<1> QED
  BY <1>12, <1>13, <1>14, <1>15 DEF Inv

(***************************************************************************)
(* A step that leaves the loops, their slots and the revisions alone keeps *)
(* what the invariant says of them.                                        *)
(***************************************************************************)
LEMMA LoopsUntouched ==
  ASSUME Inv, UNCHANGED <<past, w, slots, forgotten>>, "pc" \in DOMAIN merger',
         MergeOK', NamedSourceIsFinal'
  PROVE  Inv'
<1>1. TypeOK'
  BY DEF Inv, TypeOK
<1>2. PastOK'
  <2>1. PastOK /\ past' = past
    BY DEF Inv
  <2> QED
    BY <2>1 DEF PastOK, OneChange, Revision, At
<1>3. ASSUME NEW k \in Loop PROVE SnapOK(k)' /\ KeptOK(k)'
  <2>1. SnapOK(k) /\ KeptOK(k)
    BY DEF Inv
  <2>2. SnapOK(k)'
    BY <2>1 DEF SnapOK, Genuine, Revision, At, NoSnapshot
  <2>3. KeptOK(k)'
    BY <2>1 DEF KeptOK, HandedOver, At, NoSnapshot
  <2> QED
    BY <2>2, <2>3
<1> QED
  BY <1>1, <1>2, <1>3 DEF Inv

(***************************************************************************)
(* A source the operator named never leads to the service account (load).  *)
(***************************************************************************)
LEMMA NamedSource ==
  ASSUME NEW env, Strict(env), Candidates(env) # <<>>
  PROVE  Load(env).source # "pod"
<1>2. \A k : LoadKubeconfigFile(k).source # "pod"
  BY DEF LoadKubeconfigFile, Loaded, Failed
<1>3. Failed.source # "pod"
  BY DEF Failed
<1> QED
  BY <1>2, <1>3 DEF Load
(***************************************************************************)
(* The start of the task: credentials and the client.                      *)
(***************************************************************************)
LEMMA StartKeeps ==
  ASSUME Inv, LoadCredentials \/ BuildClient
  PROVE  Inv'
<1>1. UNCHANGED <<past, w, slots, forgotten, merger, resolver, published>>
  BY DEF LoadCredentials, BuildClient, server, plane
<1>2. "pc" \in DOMAIN merger' /\ MergeOK'
  BY <1>1 DEF Inv, TypeOK, MergeOK, published
<1>3. CASE LoadCredentials
  <2>1. PICK env \in Environments :
          access' = [load |-> Load(env), strict |-> Strict(env), entries |-> Len(Candidates(env))]
    BY <1>3 DEF LoadCredentials
  <2>2. access'.load = Load(env) /\ access'.entries = Len(Candidates(env))
    BY <2>1
  <2>3. access'.strict <=> Strict(env)
    BY <2>1 DEF Strict
  <2>4. Candidates(env) = <<>> => Len(Candidates(env)) = 0
    OBVIOUS
  <2>5. NamedSourceIsFinal'
    BY <2>2, <2>3, <2>4, NamedSource DEF NamedSourceIsFinal
  <2> QED
    BY <2>5, <1>1, <1>2, LoopsUntouched
<1>4. CASE BuildClient
  <2>1. mode' \in {"watching", "ended"}
    BY <1>4 DEF BuildClient
  <2>2. NamedSourceIsFinal'
    BY <2>1 DEF NamedSourceIsFinal
  <2> QED
    BY <2>2, <1>1, <1>2, LoopsUntouched
<1> QED
  BY <1>3, <1>4

(***************************************************************************)
(* The merge task publishes nothing but what renders.                      *)
(***************************************************************************)
LEMMA MergeKeeps ==
  ASSUME Inv, MergeStep \/ PlansFail
  PROVE  Inv'
<1>1. UNCHANGED <<past, w, slots, forgotten, mode, access>>
  BY DEF MergeStep, Wake, TakePair, ApplyRuntime, PublishTls, PlansFail, server, plane, Fault
<1>2. NamedSourceIsFinal'
  BY <1>1 DEF Inv, NamedSourceIsFinal
<1>3. MergeOK /\ "pc" \in DOMAIN merger
  BY DEF Inv, TypeOK
<1>4. "pc" \in DOMAIN Idle /\ Idle.pc = "idle"
  BY DEF Idle
<1>5. CASE Wake
  <2>1. merger' = [merger EXCEPT !.pc = "debounce"] /\ UNCHANGED <<published, resolver>> /\ merger.pc = "idle"
    BY <1>5 DEF Wake, server
  <2>2. "pc" \in DOMAIN merger' /\ merger'.pc = "debounce"
    BY <2>1, <1>3
  <2>3. MergeOK'
    BY <2>1, <2>2, <1>3 DEF MergeOK, published
  <2> QED
    BY <2>2, <2>3, <1>1, <1>2, LoopsUntouched
<1>6. CASE TakePair
  <2> DEFINE taken == [pc |-> "apply", pair |-> pair, refused |-> FALSE]
  <2>1. UNCHANGED <<published, resolver>> /\ merger.pc = "debounce"
    BY <1>6 DEF TakePair, server
  <2>2. "pc" \in DOMAIN taken /\ taken.pair = pair /\ taken.pc = "apply"
    OBVIOUS
  <2>3. /\ Renders(pair["ingress"], pair["secret"]) /\ merger' = taken
        \/ merger' = Idle
    BY <1>6 DEF TakePair
  <2> HIDE DEF taken
  <2>4. "pc" \in DOMAIN merger'
    BY <2>2, <2>3, <1>4
  <2>5. /\ merger'.pc # "tls"
        /\ merger'.pc = "apply" => Renders(merger'.pair["ingress"], merger'.pair["secret"])
    BY <2>2, <2>3, <1>4
  <2>6. MergeOK'
    BY <2>1, <2>5, <1>3 DEF MergeOK, published
  <2> QED
    BY <2>4, <2>6, <1>1, <1>2, LoopsUntouched
<1>7. CASE ApplyRuntime
  <2>1. /\ merger.pc = "apply" /\ merger' = [merger EXCEPT !.pc = "tls"] /\ applied' = merger.pair
        /\ runtime' = BuildIngressConfig(merger.pair["ingress"])
        /\ UNCHANGED <<sni, secured, resolver>>
    BY <1>7 DEF ApplyRuntime, server
  <2>2. Renders(merger.pair["ingress"], merger.pair["secret"])
    BY <2>1, <1>3 DEF MergeOK
  <2>3. "pc" \in DOMAIN merger' /\ merger'.pc = "tls" /\ merger'.pair = merger.pair
    BY <2>1, <1>3
  <2>4. MergeOK'
    BY <2>1, <2>2, <2>3, <1>3 DEF MergeOK
  <2> QED
    BY <2>3, <2>4, <1>1, <1>2, LoopsUntouched
<1>8. CASE PublishTls
  <2>1. /\ merger.pc = "tls" /\ merger' = Idle /\ UNCHANGED <<runtime, applied, reloaded, resolver>>
        /\ \/ /\ resolver /\ secured' = merger.pair
              /\ sni' = UpdateFromTlsPairs(RenderTls(merger.pair["ingress"], merger.pair["secret"]))
           \/ ~resolver /\ UNCHANGED <<sni, secured>>
    BY <1>8 DEF PublishTls, server
  <2>2. Renders(merger.pair["ingress"], merger.pair["secret"]) /\ merger.pair = applied
    BY <2>1, <1>3 DEF MergeOK
  <2>3. MergeOK'
    BY <2>1, <2>2, <1>3, <1>4 DEF MergeOK
  <2> QED
    BY <2>1, <2>3, <1>1, <1>2, <1>4, LoopsUntouched
<1>9. CASE PlansFail
  <2>1. merger' = [Idle EXCEPT !.refused = TRUE] /\ UNCHANGED <<published, resolver>> /\ merger.pc = "apply"
    BY <1>9 DEF PlansFail, Fault
  <2>2. "pc" \in DOMAIN merger' /\ merger'.pc = "idle"
    BY <2>1, <1>4
  <2>3. MergeOK'
    BY <2>1, <2>2, <1>3 DEF MergeOK, published
  <2> QED
    BY <2>2, <2>3, <1>1, <1>2, LoopsUntouched
<1> QED
  BY <1>5, <1>6, <1>7, <1>8, <1>9 DEF MergeStep

(***************************************************************************)
(* Before anything was published the routes are those of the file.         *)
(***************************************************************************)
LEMMA NothingRendered ==
  /\ Sections(Empty) = {}
  /\ UpdateFromTlsPairs(RenderTls(Empty, Empty)) = Empty
<1>1. Owned(Empty) = {}
  BY DEF Owned, Empty
<1>2. Sections(Empty) = {}
  BY <1>1 DEF Sections
<1>3. TlsHosts(Empty, Empty) = {}
  BY <1>2 DEF TlsHosts
<1>4. DOMAIN RenderTls(Empty, Empty) = {}
  BY <1>3 DEF RenderTls
<1> DEFINE tls == RenderTls(Empty, Empty)
<1> HIDE DEF tls
<1>5. UpdateFromTlsPairs(tls) = Empty
  <2>1. {g \in DOMAIN tls : Certified(tls[g])} = {}
    BY <1>4 DEF tls
  <2> QED
    BY <2>1 DEF UpdateFromTlsPairs, Empty
<1> QED
  BY <1>2, <1>5 DEF tls

(***************************************************************************)
(* The invariant holds at the start.                                       *)
(***************************************************************************)
LEMMA InitInv == Init => Inv
<1> SUFFICES ASSUME Init PROVE Inv
  OBVIOUS
<1>1. PICK s \in Starts : past = <<s.cluster>>
  BY DEF Init
<1>2. s.cluster \in [Loop -> Content]
  BY WatchAssumption
<1>3. past \in Seq([Loop -> Content]) /\ Len(past) = 1
  BY <1>1, <1>2
<1>4. Begun \in LoopState /\ Begun.pc = "list" /\ Begun.snap = NoSnapshot /\ Begun.restart = -1
  BY DEF Begun, LoopState, Snapshot, NoSnapshot
<1>5. NoSnapshot \in Snapshot
  BY DEF Snapshot, NoSnapshot
<1>6. /\ w = [l \in Loop |-> Begun] /\ slots = [l \in Loop |-> NoSnapshot]
      /\ merger = Idle /\ forgotten = {} /\ mode = "start"
      /\ runtime = StaticRuntime /\ sni = Empty /\ applied = [k \in Kind |-> Empty]
      /\ secured = applied
  BY DEF Init
<1>7. "pc" \in DOMAIN Idle /\ Idle.pc = "idle"
  BY DEF Idle
<1> HIDE DEF Begun, Idle
<1>8. TypeOK
  BY <1>3, <1>4, <1>5, <1>6, <1>7 DEF TypeOK
<1>9. Revision = 0
  BY <1>3 DEF Revision
<1>10. PastOK
  BY <1>9 DEF PastOK
<1>11. ASSUME NEW l \in Loop PROVE SnapOK(l) /\ KeptOK(l)
  <2>1. w[l] = Begun /\ slots[l] = NoSnapshot
    BY <1>6
  <2> QED
    BY <2>1, <1>4, <1>9 DEF SnapOK, KeptOK
<1>12. MergeOK
  <2>1. applied["ingress"] = Empty /\ applied["secret"] = Empty
    BY <1>6 DEF Kind
  <2>2. runtime = BuildIngressConfig(Empty)
    BY <1>6 DEF StaticRuntime
  <2> QED
    BY <2>1, <2>2, <1>6, <1>7, NothingRendered DEF MergeOK
<1>13. NamedSourceIsFinal
  BY <1>6 DEF NamedSourceIsFinal
<1> QED
  BY <1>8, <1>10, <1>11, <1>12, <1>13 DEF Inv

(***************************************************************************)
(* Every step keeps the invariant.                                         *)
(***************************************************************************)
LEMMA NextInv == Inv /\ [Next]_vars => Inv'
<1> SUFFICES ASSUME Inv, [Next]_vars PROVE Inv'
  OBVIOUS
<1>1. CASE LoadCredentials \/ BuildClient
  BY <1>1, StartKeeps
<1>2. ASSUME NEW l \in Loop, Step(l) PROVE Inv'
  <2>1. CASE Send(l)
    <3>1. UNCHANGED <<past, w, slots, forgotten, merger, mode, access, resolver, published>>
      BY <2>1 DEF Send, server
    <3>2. "pc" \in DOMAIN merger' /\ MergeOK' /\ NamedSourceIsFinal'
      BY <3>1 DEF Inv, TypeOK, MergeOK, NamedSourceIsFinal, published
    <3> QED
      BY <3>1, <3>2, LoopsUntouched
  <2> QED
    BY <1>2, <2>1, ListKeeps, StreamKeeps, ReceiveKeeps, CloseKeeps, ResyncKeeps DEF Step
<1>3. ASSUME NEW l \in Loop, Misfortune(l) PROVE Inv'
  <2>1. CASE ListFails(l)
    <3>1. UNCHANGED <<past, w, slots, forgotten, merger, mode, access, resolver, published>>
      BY <2>1 DEF ListFails, Fault, plane
    <3>2. "pc" \in DOMAIN merger' /\ MergeOK' /\ NamedSourceIsFinal'
      BY <3>1 DEF Inv, TypeOK, MergeOK, NamedSourceIsFinal, published
    <3> QED
      BY <3>1, <3>2, LoopsUntouched
  <2>2. CASE OpenFails(l) \/ StreamEnds(l)
    <3>1. Reconnect(l) /\ UNCHANGED <<mode, access, past, resolver, slots, forgotten, merger, published>>
      BY <2>2 DEF OpenFails, StreamEnds, Fault, plane
    <3> QED
      BY <3>1, ReconnectKeeps
  <2> QED
    BY <1>3, <2>1, <2>2, StreamKeeps, HangKeeps DEF Misfortune
<1>4. ASSUME NEW l \in Loop, Bookmark(l) PROVE Inv'
  BY <1>4, BookmarkKeeps
<1>5. CASE MergeStep \/ PlansFail
  BY <1>5, MergeKeeps
<1>6. CASE Change
  BY <1>6, ChangeKeeps
<1>7. CASE FileReload
  <2>1. UNCHANGED <<past, w, slots, forgotten, merger, mode, access, resolver, sni, applied, secured>>
    BY <1>7 DEF FileReload, plane
  <2>2. runtime' \in FileRuntimes /\ reloaded'
    BY <1>7 DEF FileReload
  <2>3. "pc" \in DOMAIN merger' /\ MergeOK' /\ NamedSourceIsFinal'
    BY <2>1, <2>2 DEF Inv, TypeOK, MergeOK, NamedSourceIsFinal
  <2> QED
    BY <2>1, <2>3, LoopsUntouched
<1>8. CASE UNCHANGED vars
  <2>1. UNCHANGED <<past, w, slots, forgotten, merger, mode, access, resolver, published>>
    BY <1>8 DEF vars, server, plane
  <2>2. "pc" \in DOMAIN merger' /\ MergeOK' /\ NamedSourceIsFinal'
    BY <2>1 DEF Inv, TypeOK, MergeOK, NamedSourceIsFinal, published
  <2> QED
    BY <2>1, <2>2, LoopsUntouched
<1> QED
  BY <1>1, <1>2, <1>3, <1>4, <1>5, <1>6, <1>7, <1>8 DEF Next
-----------------------------------------------------------------------------
(***************************************************************************)
(* Lemmas about rendering                                                  *)
(***************************************************************************)
(***************************************************************************)
(* build_ingress_config: every route of the file and of an Ingress finds   *)
(* its upstream, also when a static upstream has the rendered name.        *)
(***************************************************************************)
LEMMA RoutesResolve ==
  ASSUME NEW ings, NEW r \in BuildIngressConfig(ings).routes
  PROVE  \E u \in BuildIngressConfig(ings).upstreams : u.name = r.upstream
<1> DEFINE static == {[name |-> n, endpoint |-> <<n, <<>>, "any">>] : n \in StaticUpstreams}
           rendered == {u \in RenderUpstreams(ings) : u.name \notin StaticUpstreams}
<1>1. /\ BuildIngressConfig(ings).routes = StaticRoutes \cup RenderRoutes(ings)
      /\ BuildIngressConfig(ings).upstreams = static \cup rendered
  BY DEF BuildIngressConfig
<1>2. ASSUME NEW n \in StaticUpstreams PROVE \E u \in static : u.name = n
  <2>1. [name |-> n, endpoint |-> <<n, <<>>, "any">>] \in static
    OBVIOUS
  <2> QED
    BY <2>1
<1>3. CASE r \in StaticRoutes
  BY <1>1, <1>2, <1>3, RenderAssumption
<1>4. CASE r \in RenderRoutes(ings)
  <2>1. PICK k \in Owned(ings) :
          r \in {Route(<<k, i>>, RouteKey(ings[k].paths[i]), k[1], ings[k].paths[i].backend) :
                   i \in DOMAIN ings[k].paths}
                \cup (IF ings[k].default = Nothing THEN {}
                      ELSE {Route(<<k, 0>>, CatchAll, k[1], ings[k].default)})
    BY <1>4 DEF RenderRoutes
  <2>2. \E b \in Backends(ings[k]) : r.upstream = UpstreamName(k[1], b)
    <3>1. CASE \E i \in DOMAIN ings[k].paths :
                 r = Route(<<k, i>>, RouteKey(ings[k].paths[i]), k[1], ings[k].paths[i].backend)
      BY <3>1 DEF Backends, Route
    <3>2. CASE ings[k].default # Nothing /\ r = Route(<<k, 0>>, CatchAll, k[1], ings[k].default)
      BY <3>2 DEF Backends, Route
    <3> QED
      BY <2>1, <3>1, <3>2
  <2>3. PICK b \in Backends(ings[k]) : r.upstream = UpstreamName(k[1], b)
    BY <2>2
  <2> DEFINE v == [name |-> UpstreamName(k[1], b), endpoint |-> Endpoint(k[1], b)]
  <2>4. v \in RenderUpstreams(ings)
    BY DEF RenderUpstreams
  <2>5. v.name = r.upstream
    BY <2>3
  <2> HIDE DEF v
  <2> QED
    BY <2>4, <2>5, <1>1, <1>2
<1> QED
  BY <1>1, <1>3, <1>4

(***************************************************************************)
(* render_tls and the resolver: a host of a section is served the material *)
(* of that section's secret, whichever section of the host was taken, or   *)
(* nothing when the material is no certificate.                            *)
(***************************************************************************)
LEMMA HostsResolve ==
  ASSUME NEW ings, NEW secs, TlsRenders(ings, secs),
         NEW t \in Sections(ings), NEW h \in t.hosts
  PROVE  /\ t.key \in DOMAIN secs
         /\ Lookup(UpdateFromTlsPairs(RenderTls(ings, secs)), Nothing, h)
              = IF Certified(secs[t.key].pem) THEN secs[t.key].pem ELSE Nothing
<1> DEFINE u == CHOOSE s \in Sections(ings) : h \in s.hosts /\ s.key \in DOMAIN secs
           tls == RenderTls(ings, secs)
<1>1. t.key \in DOMAIN secs
  BY DEF TlsRenders
<1>2. u \in Sections(ings) /\ h \in u.hosts
  BY <1>1
<1>3. secs[u.key].pem = secs[t.key].pem
  <2>1. t.hosts \cap u.hosts # {}
    BY <1>2
  <2> HIDE DEF u
  <2> QED
    BY <1>2, <2>1 DEF TlsRenders
<1>4. h \in DOMAIN tls /\ tls[h] = secs[t.key].pem
  <2>1. h \in TlsHosts(ings, secs)
    BY <1>1 DEF TlsHosts
  <2>2. DOMAIN tls = TlsHosts(ings, secs) /\ tls[h] = secs[u.key].pem
    BY <2>1 DEF RenderTls
  <2> QED
    BY <2>1, <2>2, <1>3
<1> HIDE DEF tls
<1> DEFINE table == UpdateFromTlsPairs(tls)
<1>5. DOMAIN table = {g \in DOMAIN tls : Certified(tls[g])} /\ (h \in DOMAIN table => table[h] = tls[h])
  BY DEF UpdateFromTlsPairs
<1> HIDE DEF table
<1>6. Lookup(table, Nothing, h) = IF Certified(tls[h]) THEN tls[h] ELSE Nothing
  BY <1>4, <1>5 DEF Lookup
<1> QED
  BY <1>1, <1>4, <1>6 DEF table, tls

-----------------------------------------------------------------------------
(***************************************************************************)
(* Theorems                                                                *)
(***************************************************************************)
(***************************************************************************)
(* The inductive invariant holds in every reachable state.                 *)
(***************************************************************************)
THEOREM InvHolds == Spec => []Inv
  BY InitInv, NextInv, PTL DEF Spec

(***************************************************************************)
(* Whatever was missed, repeated or listed again, the snapshot a watch     *)
(* loop holds and the one it handed over are states the namespace was in   *)
(* at the revision they claim (replace_from_list, apply_event).            *)
(***************************************************************************)
THEOREM SnapshotsAreStates == Spec => []SnapshotConsistent
<1>1. Inv => SnapshotConsistent
  <2> SUFFICES ASSUME Inv, NEW l \in Loop, NEW s \in {w[l].snap, slots[l]}, s # NoSnapshot
               PROVE  s.rv <= Revision /\ s.items = At(l, s.rv)
    BY DEF SnapshotConsistent
  <2>1. Genuine(l, s)
    BY LoopFacts DEF SnapOK
  <2> QED
    BY <2>1, LoopFacts DEF Genuine
<1> QED
  BY <1>1, InvHolds, PTL

(***************************************************************************)
(* A change is lost in no other way than by a resync tick that falls into  *)
(* an open window: a clean snapshot has been handed over (the watch loop). *)
(***************************************************************************)
THEOREM NothingElseForgets == Spec => []OnlyResyncForgets
<1>1. Inv => OnlyResyncForgets
  <2> SUFFICES ASSUME Inv, NEW l \in Loop, w[l].pc = "watch", ~w[l].dirty, l \notin forgotten
               PROVE  slots[l] # NoSnapshot /\ slots[l].items = w[l].snap.items
    BY DEF OnlyResyncForgets
  <2>1. w[l].dirty = FALSE
    BY LoopFacts DEF LoopState
  <2> QED
    BY <2>1, LoopFacts DEF KeptOK, HandedOver
<1> QED
  BY <1>1, InvHolds, PTL

(***************************************************************************)
(* What is published is closed, also between the two stores of apply_pair  *)
(* and after reloads of the file: upstreams are found, keys are claimed    *)
(* once, TLS hosts get the material of their secret, and the table is that *)
(* of the routes except between the stores.                                *)
(***************************************************************************)
THEOREM ClosedWhenPublished == Spec => []PublishedIsClosed
<1>1. Inv => PublishedIsClosed
  <2> SUFFICES ASSUME Inv PROVE PublishedIsClosed
    OBVIOUS
  <2> DEFINE ings == secured["ingress"]
             secs == secured["secret"]
  <2>1. /\ \/ reloaded /\ runtime \in FileRuntimes
           \/ runtime = BuildIngressConfig(applied["ingress"])
        /\ \/ BuildIngressConfig(applied["ingress"]) = StaticRuntime
           \/ Renders(applied["ingress"], applied["secret"])
        /\ sni = UpdateFromTlsPairs(RenderTls(ings, secs))
        /\ Sections(ings) = {} \/ Renders(ings, secs)
        /\ resolver /\ merger.pc # "tls" => secured = applied
    BY DEF Inv, MergeOK
  <2>2. \A r \in runtime.routes : \E u \in runtime.upstreams : u.name = r.upstream
    BY <2>1, RoutesResolve, WatchAssumption
  <2>3. Merges(runtime.routes) \/ reloaded \/ runtime = StaticRuntime
    <3>1. BuildIngressConfig(applied["ingress"]).routes = StaticRoutes \cup RenderRoutes(applied["ingress"])
      BY DEF BuildIngressConfig
    <3> QED
      BY <3>1, <2>1 DEF Renders
  <2>4. ASSUME NEW t \in Sections(ings)
        PROVE  /\ t.key \in DOMAIN secs
               /\ \A h \in t.hosts : Lookup(sni, Nothing, h) =
                    IF Certified(secs[t.key].pem) THEN secs[t.key].pem ELSE Nothing
    <3>1. TlsRenders(ings, secs)
      BY <2>1 DEF Renders
    <3>2. t.key \in DOMAIN secs
      BY <3>1 DEF TlsRenders
    <3> HIDE DEF ings, secs
    <3>3. ASSUME NEW h \in t.hosts
          PROVE  Lookup(sni, Nothing, h)
                   = IF Certified(secs[t.key].pem) THEN secs[t.key].pem ELSE Nothing
      BY <3>1, <2>1, HostsResolve
    <3> QED
      BY <3>2, <3>3
  <2> QED
    BY <2>1, <2>2, <2>3, <2>4 DEF PublishedIsClosed
<1> QED
  BY <1>1, InvHolds, PTL

(***************************************************************************)
(* With a configured path, or a $KUBECONFIG that has an entry, the service *)
(* account of the node is never used (auth::load).                         *)
(***************************************************************************)
THEOREM NamedSourceDecides == Spec => []NamedSourceIsFinal
<1>1. Inv => NamedSourceIsFinal
  BY DEF Inv
<1> QED
  BY <1>1, InvHolds, PTL
=============================================================================
