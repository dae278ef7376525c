--------------------------- MODULE PluginsProofs ----------------------------
(***************************************************************************)
(* What plugins and dynamic modules share, for every set of paths,         *)
(* modules, keys and workers.                                              *)
(* DynamicBindings: the table of dynamic routes: what lookup serves, that  *)
(* a path has one binding, and that no registration is lost to another.    *)
(* ModuleCache: no stale module is served. PluginStore: scans are complete *)
(* and bounded.                                                            *)
(***************************************************************************)
EXTENDS DynamicBindings, ModuleCache, PluginStore, SequenceTheorems, FiniteSetTheorems,
        WellFoundedInduction, TLAPS

LessThan == {p \in Nat \X Nat : p[1] < p[2]}

(***************************************************************************)
(* A set of natural numbers that is not empty has a least element.         *)
(***************************************************************************)
LEMMA LeastNat ==
  ASSUME NEW S \in SUBSET Nat, S # {}
  PROVE  Min(S) \in S /\ \A k \in S : Min(S) <= k
<1>1. IsWellFoundedOn(LessThan, Nat)
  BY NatLessThanWellFounded, Zenon DEF OpToRel, LessThan
<1>2. PICK m \in S : \A k \in S : ~(<<k, m>> \in LessThan)
  BY <1>1, WFMin, Zenon
<1>3. ASSUME NEW k \in S PROVE m <= k
  <2>1. ~(k < m)
    BY <1>2 DEF LessThan
  <2>2. k \in Nat /\ m \in Nat
    OBVIOUS
  <2> QED
    BY <2>1, <2>2
<1>4. \E x \in S : \A y \in S : x =< y
  BY <1>3
<1> QED
  BY <1>4 DEF Min

-----------------------------------------------------------------------------
(***************************************************************************)
(* Lists of prefix bindings                                                *)
(***************************************************************************)
Binding == [path : Path, module : Module]

\* In search order, and a path once.
Ranked(l) ==
  \A i, j \in DOMAIN l :
    i < j => Len(l[i].path) >= Len(l[j].path) /\ l[i].path # l[j].path

\* x is a function of 0..n that computes retain on the first i bindings.
KeepsUpTo(l, gone, n, x) ==
  x = [i \in 0..n |->
         IF i = 0 THEN <<>>
         ELSE IF l[i].path \in gone THEN x[i - 1]
         ELSE Append(x[i - 1], l[i])]

(***************************************************************************)
(* retain is well defined: the recursion of Kept has a solution.           *)
(***************************************************************************)
LEMMA KeptExists ==
  ASSUME NEW l, NEW gone, NEW n \in Nat
  PROVE  \E x : KeepsUpTo(l, gone, n, x)
<1> DEFINE B == {k \in Nat : ~\E x : KeepsUpTo(l, gone, k, x)}
<1> SUFFICES ASSUME B # {} PROVE FALSE
  OBVIOUS
<1>1. Min(B) \in B /\ \A k \in B : Min(B) <= k
  BY LeastNat
<1> DEFINE m == Min(B)
<1>2. m \in Nat /\ ~\E x : KeepsUpTo(l, gone, m, x)
  BY <1>1
<1> HIDE DEF m
<1>3. CASE m = 0
  <2>1. KeepsUpTo(l, gone, 0, [i \in 0..0 |-> <<>>])
    BY DEF KeepsUpTo
  <2> QED
    BY <2>1, <1>2, <1>3
<1>4. CASE m # 0
  <2>1. m - 1 \in Nat /\ m - 1 \notin B
    <3> HIDE DEF B
    <3> QED
      BY <1>1, <1>2, <1>4 DEF m
  <2>2. PICK x : KeepsUpTo(l, gone, m - 1, x)
    BY <2>1
  <2> DEFINE y == [i \in 0..m |-> IF i < m THEN x[i]
                                  ELSE IF l[m].path \in gone THEN x[m - 1]
                                  ELSE Append(x[m - 1], l[m])]
  <2>3. ASSUME NEW i \in 0..m
        PROVE  y[i] = IF i = 0 THEN <<>>
                      ELSE IF l[i].path \in gone THEN y[i - 1]
                      ELSE Append(y[i - 1], l[i])
    <3>1. CASE i = m
      <4>1. y[m] = IF l[m].path \in gone THEN x[m - 1] ELSE Append(x[m - 1], l[m])
        BY <1>2
      <4>2. y[m - 1] = x[m - 1]
        BY <1>2, <1>4
      <4> QED
        BY <4>1, <4>2, <3>1, <1>4
    <3>2. CASE i # m
      <4>1. i \in 0..m - 1 /\ i < m
        BY <3>2, <1>2
      <4>2. x[i] = IF i = 0 THEN <<>>
                   ELSE IF l[i].path \in gone THEN x[i - 1]
                   ELSE Append(x[i - 1], l[i])
        BY <4>1, <2>2 DEF KeepsUpTo
      <4>3. y[i] = x[i] /\ (i # 0 => y[i - 1] = x[i - 1])
        BY <4>1, <1>2
      <4> QED
        BY <4>2, <4>3
    <3> QED
      BY <3>1, <3>2
  <2>4. y = [i \in 0..m |-> y[i]]
    OBVIOUS
  <2> HIDE DEF y
  <2>5. KeepsUpTo(l, gone, m, y)
    BY <2>3, <2>4 DEF KeepsUpTo
  <2> QED
    BY <2>5, <1>2
<1> QED
  BY <1>3, <1>4

(***************************************************************************)
(* Kept is the last value of such a function.                              *)
(***************************************************************************)
LEMMA KeptIsLast ==
  ASSUME NEW l \in Seq(Binding), NEW gone
  PROVE  \E x : KeepsUpTo(l, gone, Len(l), x) /\ Kept(l, gone) = x[Len(l)]
<1> DEFINE x == CHOOSE x : KeepsUpTo(l, gone, Len(l), x)
<1>1. Len(l) \in Nat
  BY LenProperties
<1>2. KeepsUpTo(l, gone, Len(l), x)
  BY <1>1, KeptExists
<1>3. Kept(l, gone) = x[Len(l)]
  BY Zenon DEF Kept, KeepsUpTo
<1> QED
  BY <1>2, <1>3

\* k is the list of the first i bindings of l without those of gone.
KeptPart(l, gone, i, k) ==
  /\ k \in Seq(Binding) /\ Ranked(k)
  /\ \A e \in DOMAIN k : \E j \in 1..i : l[j].path \notin gone /\ k[e] = l[j]
  /\ \A j \in 1..i : l[j].path \notin gone => \E e \in DOMAIN k : k[e] = l[j]

(***************************************************************************)
(* A binding ranked behind all others may be appended.                     *)
(***************************************************************************)
LEMMA AppendRanked ==
  ASSUME NEW k \in Seq(Binding), Ranked(k), NEW b \in Binding,
         \A e \in DOMAIN k : Len(k[e].path) >= Len(b.path) /\ k[e].path # b.path
  PROVE  /\ Append(k, b) \in Seq(Binding) /\ Ranked(Append(k, b))
         /\ DOMAIN Append(k, b) = 1 .. Len(k) + 1 /\ DOMAIN k = 1..Len(k) /\ Len(k) \in Nat
         /\ Append(k, b)[Len(k) + 1] = b
         /\ \A e \in DOMAIN k : Append(k, b)[e] = k[e]
<1> DEFINE new == Append(k, b)
<1>1. /\ new \in Seq(Binding) /\ Len(new) = Len(k) + 1 /\ new[Len(k) + 1] = b
      /\ \A e \in 1..Len(k) : new[e] = k[e]
  BY AppendProperties
<1>2. DOMAIN new = 1..Len(k) + 1 /\ DOMAIN k = 1..Len(k) /\ Len(k) \in Nat
  BY <1>1, LenProperties
<1> HIDE DEF new
<1>3. ASSUME NEW i \in DOMAIN new, NEW j \in DOMAIN new, i < j
      PROVE  Len(new[i].path) >= Len(new[j].path) /\ new[i].path # new[j].path
  <2>1. i \in DOMAIN k /\ new[i] = k[i]
    BY <1>1, <1>2, <1>3
  <2>2. CASE j = Len(k) + 1
    BY <2>1, <2>2, <1>1
  <2>3. CASE j # Len(k) + 1
    <3>1. j \in DOMAIN k /\ new[j] = k[j]
      BY <2>3, <1>1, <1>2
    <3> QED
      BY <3>1, <2>1, <1>3 DEF Ranked
  <2> QED
    BY <2>2, <2>3
<1>4. Ranked(new)
  BY <1>3 DEF Ranked
<1> QED
  BY <1>1, <1>2, <1>4 DEF new

(***************************************************************************)
(* One more binding is looked at.                                          *)
(***************************************************************************)
LEMMA KeptStep ==
  ASSUME NEW l \in Seq(Binding), Ranked(l), NEW gone, NEW i \in 1..Len(l), NEW k,
         KeptPart(l, gone, i - 1, k)
  PROVE  KeptPart(l, gone, i, IF l[i].path \in gone THEN k ELSE Append(k, l[i]))
<1>1. DOMAIN l = 1..Len(l) /\ Len(l) \in Nat /\ l[i] \in Binding
  BY LenProperties, ElementOfSeq
<1>2. k \in Seq(Binding) /\ Ranked(k)
  BY DEF KeptPart
<1>3. CASE l[i].path \in gone
  <2>1. ASSUME NEW e \in DOMAIN k PROVE \E j \in 1..i : l[j].path \notin gone /\ k[e] = l[j]
    <3>1. PICK j \in 1 .. i - 1 : l[j].path \notin gone /\ k[e] = l[j]
      BY DEF KeptPart
    <3>2. j \in 1..i
      BY <1>1
    <3> QED
      BY <3>1, <3>2
  <2>2. ASSUME NEW j \in 1..i, l[j].path \notin gone PROVE \E e \in DOMAIN k : k[e] = l[j]
    <3>1. j \in 1 .. i - 1
      BY <2>2, <1>1, <1>3
    <3> QED
      BY <3>1, <2>2 DEF KeptPart
  <2>3. KeptPart(l, gone, i, k)
    BY <2>1, <2>2, <1>2 DEF KeptPart
  <2> QED
    BY <2>3, <1>3
<1>4. CASE l[i].path \notin gone
  <2> DEFINE new == Append(k, l[i])
  <2>1. ASSUME NEW e \in DOMAIN k PROVE Len(k[e].path) >= Len(l[i].path) /\ k[e].path # l[i].path
    <3>1. PICK j \in 1 .. i - 1 : k[e] = l[j]
      BY DEF KeptPart
    <3>2. j \in DOMAIN l /\ i \in DOMAIN l /\ j < i
      BY <1>1
    <3> QED
      BY <3>1, <3>2 DEF Ranked
  <2>2. /\ new \in Seq(Binding) /\ Ranked(new) /\ DOMAIN new = 1 .. Len(k) + 1
        /\ DOMAIN k = 1..Len(k) /\ Len(k) \in Nat
        /\ new[Len(k) + 1] = l[i] /\ \A e \in DOMAIN k : new[e] = k[e]
    BY <2>1, <1>1, <1>2, AppendRanked
  <2> HIDE DEF new
  <2>3. ASSUME NEW e \in DOMAIN new PROVE \E j \in 1..i : l[j].path \notin gone /\ new[e] = l[j]
    <3>1. CASE e = Len(k) + 1
      BY <3>1, <2>2, <1>1, <1>4
    <3>2. CASE e # Len(k) + 1
      <4>1. e \in DOMAIN k /\ new[e] = k[e]
        BY <3>2, <2>2
      <4>2. PICK j \in 1 .. i - 1 : l[j].path \notin gone /\ k[e] = l[j]
        BY <4>1 DEF KeptPart
      <4>3. j \in 1..i
        BY <1>1
      <4> QED
        BY <4>1, <4>2, <4>3
    <3> QED
      BY <3>1, <3>2
  <2>4. ASSUME NEW j \in 1..i, l[j].path \notin gone PROVE \E e \in DOMAIN new : new[e] = l[j]
    <3>1. CASE j = i
      <4>1. Len(k) + 1 \in DOMAIN new
        BY <2>2
      <4> QED
        BY <4>1, <3>1, <2>2
    <3>2. CASE j # i
      <4>1. j \in 1 .. i - 1
        BY <3>2, <1>1
      <4>2. PICK e \in DOMAIN k : k[e] = l[j]
        BY <4>1, <2>4 DEF KeptPart
      <4>3. e \in DOMAIN new
        BY <2>2
      <4> QED
        BY <4>2, <4>3, <2>2
    <3> QED
      BY <3>1, <3>2
  <2>5. KeptPart(l, gone, i, new)
    BY <2>2, <2>3, <2>4 DEF KeptPart
  <2> QED
    BY <2>5, <1>4 DEF new
<1> QED
  BY <1>3, <1>4

(***************************************************************************)
(* retain keeps exactly the bindings of other paths, in their order.       *)
(***************************************************************************)
LEMMA KeptFacts ==
  ASSUME NEW l \in Seq(Binding), Ranked(l), NEW gone
  PROVE  KeptPart(l, gone, Len(l), Kept(l, gone))
<1>1. PICK x : KeepsUpTo(l, gone, Len(l), x) /\ Kept(l, gone) = x[Len(l)]
  BY KeptIsLast
<1> DEFINE n == Len(l)
           B == {i \in 0..n : ~KeptPart(l, gone, i, x[i])}
<1>2. n \in Nat
  BY LenProperties
<1>3. SUFFICES B = {}
  BY <1>1, <1>2
<1>4. SUFFICES ASSUME B # {} PROVE FALSE
  OBVIOUS
<1> DEFINE m == Min(B)
<1>5. m \in B /\ \A k \in B : m <= k
  <2>1. B \in SUBSET Nat
    BY <1>2
  <2> HIDE DEF B
  <2> QED
    BY <2>1, <1>4, LeastNat
<1>6. m \in 0..n /\ ~KeptPart(l, gone, m, x[m])
  BY <1>5
<1> HIDE DEF m
<1>7. CASE m = 0
  <2>1. x[0] = <<>>
    BY <1>1, <1>2 DEF KeepsUpTo
  <2>2. KeptPart(l, gone, 0, <<>>)
    BY DEF KeptPart, Ranked
  <2> QED
    BY <2>1, <2>2, <1>6, <1>7
<1>8. CASE m # 0
  <2>1. m \in 1..n /\ m - 1 \in 0..n /\ ~(m <= m - 1)
    BY <1>2, <1>6, <1>8
  <2>2. KeptPart(l, gone, m - 1, x[m - 1])
    BY <2>1, <1>5 DEF B
  <2>3. x[m] = IF l[m].path \in gone THEN x[m - 1] ELSE Append(x[m - 1], l[m])
    BY <2>1, <1>1, <1>6, <1>8 DEF KeepsUpTo
  <2>4. KeptPart(l, gone, m, IF l[m].path \in gone THEN x[m - 1] ELSE Append(x[m - 1], l[m]))
    BY <2>1, <2>2, KeptStep
  <2> QED
    BY <2>3, <2>4, <1>6
<1> QED
  BY <1>7, <1>8

\* The list w is u and v behind it.
Joined(u, v, w) ==
  /\ w \in Seq(Binding) /\ Len(w) = Len(u) + Len(v)
  /\ \A i \in 1 .. Len(u) + Len(v) : i <= Len(u) => w[i] = u[i]
  /\ \A i \in 1 .. Len(u) + Len(v) : ~(i <= Len(u)) => w[i] = v[i - Len(u)]

(***************************************************************************)
(* Concatenation, for lists of bindings.                                   *)
(***************************************************************************)
LEMMA ConcatFacts ==
  ASSUME NEW u \in Seq(Binding), NEW v \in Seq(Binding)
  PROVE  Joined(u, v, u \o v)
<1>1. /\ u \o v \in Seq(Binding) /\ Len(u \o v) = Len(u) + Len(v)
      /\ \A i \in 1 .. Len(u) + Len(v) : (u \o v)[i] =
             IF i <= Len(u) THEN u[i] ELSE v[i - Len(u)]
  BY ConcatProperties, Zenon
<1> QED
  BY <1>1, Zenon DEF Joined

\* The list new is l with e at position p.
Inserted(l, p, e, new) ==
  /\ new \in Seq(Binding) /\ DOMAIN new = 1 .. Len(l) + 1
  /\ \A x \in 1 .. Len(l) + 1 :
       new[x] = IF x < p THEN l[x] ELSE IF x = p THEN e ELSE l[x - 1]

(***************************************************************************)
(* What InsertAt of the community modules returns.                         *)
(***************************************************************************)
LEMMA InsertAtFacts ==
  ASSUME NEW l \in Seq(Binding), NEW p \in 1 .. Len(l) + 1, NEW e \in Binding,
         NEW new, new = InsertAt(l, p, e)
  PROVE  Inserted(l, p, e, new)
<1> DEFINE n == Len(l)
           a == SubSeq(l, 1, p - 1)
           b == <<e>>
           c == SubSeq(l, p, n)
<1>1. n \in Nat /\ p \in Int /\ \A i \in 1..n : l[i] \in Binding
  BY LenProperties, ElementOfSeq
<1>2. /\ a \in Seq(Binding) /\ Len(a) = p - 1
      /\ \A i \in 1 .. p - 1 : a[i] = l[i]
  <2>1. /\ a \in Seq(Binding) /\ Len(a) = IF 1 <= p - 1 THEN p - 1 - 1 + 1 ELSE 0
        /\ \A i \in 1 .. p - 1 - 1 + 1 : a[i] = l[1 + i - 1]
    BY <1>1, SubSeqProperties
  <2> HIDE DEF a
  <2> QED
    BY <2>1, <1>1
<1>3. /\ c \in Seq(Binding) /\ Len(c) = n - p + 1
      /\ \A i \in 1 .. n - p + 1 : c[i] = l[p + i - 1]
  <2>1. /\ c \in Seq(Binding) /\ Len(c) = IF p <= n THEN n - p + 1 ELSE 0
        /\ \A i \in 1 .. n - p + 1 : c[i] = l[p + i - 1]
    BY <1>1, SubSeqProperties
  <2> HIDE DEF c
  <2> QED
    BY <2>1, <1>1
<1>4. b \in Seq(Binding) /\ Len(b) = 1 /\ b[1] = e
  OBVIOUS
<1> HIDE DEF a, b, c, n
<1> DEFINE ab == a \o b
           abc == ab \o c
<1>5. /\ ab \in Seq(Binding) /\ Len(ab) = p
      /\ \A i \in 1 .. p - 1 : ab[i] = l[i]
      /\ ab[p] = e
  <2>1. /\ ab \in Seq(Binding) /\ Len(ab) = Len(a) + Len(b)
        /\ \A i \in 1 .. Len(a) + Len(b) : i <= Len(a) => ab[i] = a[i]
        /\ \A i \in 1 .. Len(a) + Len(b) : ~(i <= Len(a)) => ab[i] = b[i - Len(a)]
    <3>1. Joined(a, b, ab)
      BY <1>2, <1>4, ConcatFacts
    <3> QED
      BY <3>1 DEF Joined
  <2> HIDE DEF ab
  <2>2. ab[p] = b[p - Len(a)] /\ p - Len(a) = 1
    BY <2>1, <1>1, <1>2, <1>4
  <2> QED
    BY <2>1, <2>2, <1>1, <1>2, <1>4
<1> HIDE DEF ab
<1>6. /\ abc \in Seq(Binding) /\ Len(abc) = n + 1
      /\ \A i \in 1..p : abc[i] = ab[i]
      /\ \A i \in p + 1 .. n + 1 : abc[i] = l[i - 1]
  <2>1. /\ abc \in Seq(Binding) /\ Len(abc) = Len(ab) + Len(c)
        /\ \A i \in 1 .. Len(ab) + Len(c) : i <= Len(ab) => abc[i] = ab[i]
        /\ \A i \in 1 .. Len(ab) + Len(c) : ~(i <= Len(ab)) => abc[i] = c[i - Len(ab)]
    <3>1. Joined(ab, c, abc)
      BY <1>3, <1>5, ConcatFacts
    <3> QED
      BY <3>1 DEF Joined
  <2> HIDE DEF abc
  <2>2. Len(ab) + Len(c) = n + 1
    BY <1>1, <1>3, <1>5
  <2>3. \A i \in 1..p : abc[i] = ab[i]
    BY <2>1, <2>2, <1>1, <1>5 DEF n
  <2>4. ASSUME NEW i \in p + 1 .. n + 1 PROVE abc[i] = l[i - 1]
    <3>1. i \in 1 .. n + 1 /\ ~(i <= p) /\ i - p \in 1 .. n - p + 1 /\ p + (i - p) - 1 = i - 1
      BY <1>1
    <3>2. abc[i] = c[i - p]
      BY <3>1, <2>1, <2>2, <1>5
    <3>3. c[i - p] = l[p + (i - p) - 1]
      BY <3>1, <1>3
    <3> QED
      BY <3>1, <3>2, <3>3
  <2> QED
    BY <2>1, <2>2, <2>3, <2>4
<1> HIDE DEF abc
<1>7. new = abc
  BY DEF InsertAt, a, b, c, n, ab, abc
<1>8. ASSUME NEW x \in 1 .. n + 1
      PROVE  new[x] = IF x < p THEN l[x] ELSE IF x = p THEN e ELSE l[x - 1]
  <2>1. CASE x < p
    <3>1. x \in 1..p /\ x # p /\ x \in 1 .. p - 1
      BY <2>1, <1>1
    <3>2. abc[x] = ab[x]
      BY <3>1, <1>6
    <3>3. ab[x] = l[x]
      BY <3>1, <1>5
    <3> QED
      BY <2>1, <3>1, <3>2, <3>3, <1>7
  <2>2. CASE x = p
    BY <2>2, <1>1, <1>5, <1>6, <1>7
  <2>3. CASE x > p
    BY <2>3, <1>1, <1>6, <1>7
  <2> QED
    BY <2>1, <2>2, <2>3, <1>1
<1>9. DOMAIN new = 1 .. n + 1
  BY <1>6, <1>7, LenProperties
<1> QED
  BY <1>6, <1>7, <1>8, <1>9 DEF n, Inserted

\* The list new is l and the binding e.
Extends(l, e, new) ==
  /\ \E x \in DOMAIN new : new[x] = e
  /\ \A j \in DOMAIN l : \E x \in DOMAIN new : new[x] = l[j]
  /\ \A x \in DOMAIN new : new[x] = e \/ \E j \in DOMAIN l : new[x] = l[j]

(***************************************************************************)
(* push and sort keep the list in search order.                            *)
(***************************************************************************)
LEMMA InsertFacts ==
  ASSUME NEW l \in Seq(Binding), Ranked(l), NEW e \in Binding,
         \A i \in DOMAIN l : l[i].path # e.path
  PROVE  Insert(l, e) \in Seq(Binding) /\ Ranked(Insert(l, e)) /\ Extends(l, e, Insert(l, e))
<1> DEFINE n == Len(l)
           S == {i \in DOMAIN l : Len(l[i].path) < Len(e.path)} \cup {n + 1}
           p == Min(S)
           new == Insert(l, e)
<1>1. /\ n \in Nat /\ DOMAIN l = 1..n /\ \A i \in 1..n : l[i] \in Binding
  BY LenProperties, ElementOfSeq
<1>2. /\ Len(e.path) \in Nat /\ \A i \in 1..n : Len(l[i].path) \in Nat
  <2>1. \A q \in Path : Len(q) \in Nat
    BY BindingsAssumption, LenProperties
  <2> QED
    BY <2>1, <1>1 DEF Binding
<1>3. p \in S /\ \A k \in S : p <= k
  <2>1. S \in SUBSET Nat /\ S # {}
    BY <1>1
  <2> HIDE DEF S
  <2> QED
    BY <2>1, LeastNat
<1>4. new = InsertAt(l, p, e)
  BY DEF Insert
<1> HIDE DEF p, new
<1>5. p \in 1 .. n + 1
  BY <1>1, <1>3
<1>6. \A i \in 1..n : i < p => Len(l[i].path) >= Len(e.path)
  BY <1>1, <1>2, <1>3, <1>5
<1>7. ASSUME NEW i \in 1..n, i >= p PROVE Len(l[i].path) < Len(e.path)
  <2>1. p \in 1..n /\ Len(l[p].path) < Len(e.path)
    BY <1>1, <1>3, <1>5, <1>7
  <2>2. CASE i = p
    BY <2>1, <2>2
  <2>3. CASE i # p
    <3>1. Len(l[p].path) >= Len(l[i].path)
      BY <2>1, <2>3, <1>1, <1>7 DEF Ranked
    <3> QED
      BY <3>1, <2>1, <1>2
  <2> QED
    BY <2>2, <2>3
<1> HIDE DEF S, n
<1>8. /\ new \in Seq(Binding) /\ DOMAIN new = 1 .. n + 1
      /\ \A x \in 1 .. n + 1 : new[x] = IF x < p THEN l[x] ELSE IF x = p THEN e ELSE l[x - 1]
  <2>1. p \in 1 .. Len(l) + 1
    BY <1>5 DEF n
  <2>2. /\ new \in Seq(Binding) /\ DOMAIN new = 1 .. Len(l) + 1
        /\ \A x \in 1 .. Len(l) + 1 :
             new[x] = IF x < p THEN l[x] ELSE IF x = p THEN e ELSE l[x - 1]
    <3>1. Inserted(l, p, e, new)
      BY <2>1, <1>4, InsertAtFacts
    <3> QED
      BY <3>1 DEF Inserted
  <2> QED
    BY <2>2 DEF n
<1>9. ASSUME NEW x \in 1 .. n + 1
      PROVE  \/ x < p /\ x \in 1..n /\ new[x] = l[x]
             \/ x = p /\ new[x] = e
             \/ x > p /\ x - 1 \in 1..n /\ x - 1 >= p /\ new[x] = l[x - 1]
  BY <1>1, <1>5, <1>8
<1>10. ASSUME NEW x \in DOMAIN new, NEW y \in DOMAIN new, x < y
       PROVE  Len(new[x].path) >= Len(new[y].path) /\ new[x].path # new[y].path
  <2>1. x \in 1 .. n + 1 /\ y \in 1 .. n + 1
    BY <1>8
  <2>2. ASSUME NEW i \in 1..n, NEW j \in 1..n, i < j
        PROVE  Len(l[i].path) >= Len(l[j].path) /\ l[i].path # l[j].path
    BY <2>2, <1>1 DEF Ranked
  <2>3. CASE x < p /\ y < p
    <3>1. x \in 1..n /\ y \in 1..n /\ new[x] = l[x] /\ new[y] = l[y]
      BY <2>1, <2>3, <1>5, <1>9
    <3> QED
      BY <3>1, <2>2, <1>10
  <2>4. CASE x < p /\ y = p
    BY <2>1, <2>4, <1>1, <1>6, <1>9
  <2>5. CASE x < p /\ y > p
    <3>1. x \in 1..n /\ y - 1 \in 1..n /\ x < y - 1 /\ new[x] = l[x] /\ new[y] = l[y - 1]
      BY <2>1, <2>5, <1>5, <1>9
    <3> QED
      BY <3>1, <2>2
  <2>6. CASE x = p /\ y > p
    <3>1. y - 1 \in 1..n /\ y - 1 >= p /\ new[y] = l[y - 1] /\ new[x] = e
      BY <2>1, <2>6, <1>5, <1>9
    <3>2. Len(l[y - 1].path) < Len(e.path) /\ l[y - 1].path # e.path
      BY <3>1, <1>1, <1>7
    <3> QED
      BY <3>1, <3>2, <1>2
  <2>7. CASE x > p /\ y > p
    <3>1. x - 1 \in 1..n /\ y - 1 \in 1..n /\ x - 1 < y - 1 /\ new[x] = l[x - 1] /\ new[y] = l[y - 1]
      BY <2>1, <2>7, <1>5, <1>9, <1>10
    <3> QED
      BY <3>1, <2>2
  <2> QED
    BY <2>1, <2>3, <2>4, <2>5, <2>6, <2>7, <1>5, <1>10
<1>11. Ranked(new)
  BY <1>10 DEF Ranked
<1>12. \E x \in DOMAIN new : new[x] = e
  BY <1>5, <1>8
<1>13. ASSUME NEW j \in DOMAIN l PROVE \E x \in DOMAIN new : new[x] = l[j]
  <2>1. CASE j < p
    BY <2>1, <1>1, <1>5, <1>8
  <2>2. CASE j >= p
    <3>1. j + 1 \in 1 .. n + 1 /\ ~(j + 1 < p) /\ j + 1 # p /\ j + 1 - 1 = j
      BY <2>2, <1>1, <1>5
    <3> QED
      BY <3>1, <1>8
  <2> QED
    BY <2>1, <2>2, <1>1, <1>5
<1>14. ASSUME NEW x \in DOMAIN new PROVE new[x] = e \/ \E j \in DOMAIN l : new[x] = l[j]
  BY <1>1, <1>8, <1>9
<1> QED
  BY <1>8, <1>11, <1>12, <1>13, <1>14 DEF new, Extends

-----------------------------------------------------------------------------
(***************************************************************************)
(* Tables                                                                  *)
(***************************************************************************)
ExactEntry(p, m) == [path |-> p, prefix |-> FALSE, module |-> m]
PrefixEntry(p, m) == [path |-> p, prefix |-> TRUE, module |-> m]

\* A table in good order: the prefix list is in search order and a path is
\* bound once, in one of the two shapes.
Shaped(t) ==
  /\ t \in Table
  /\ Ranked(t.prefix)
  /\ \A i \in DOMAIN t.prefix : t.exact[t.prefix[i].path] = NoModule
  /\ IsFiniteSet(ExactPaths(t))

\* And within its limit, owning only what is bound.
Sound(t) ==
  /\ Shaped(t)
  /\ Cardinality(Bound(t)) <= MaxBindings
  /\ t.owned \subseteq Bound(t)

(***************************************************************************)
(* The types of the parts of a table.                                      *)
(***************************************************************************)
LEMMA TableParts ==
  ASSUME NEW t \in Table
  PROVE  /\ t.exact \in [Path -> Module \cup {NoModule}]
         /\ t.prefix \in Seq(Binding) /\ t.owned \in SUBSET Path
         /\ DOMAIN t.prefix = 1..Len(t.prefix) /\ Len(t.prefix) \in Nat
         /\ \A i \in DOMAIN t.prefix :
              t.prefix[i] \in Binding /\ t.prefix[i].path \in Path /\ t.prefix[i].module \in Module
<1>1. t.exact \in [Path -> Module \cup {NoModule}] /\ t.prefix \in Seq(Binding) /\ t.owned \in SUBSET Path
  BY DEF Table, Binding
<1>2. DOMAIN t.prefix = 1..Len(t.prefix) /\ Len(t.prefix) \in Nat
  BY <1>1, LenProperties
<1>3. \A i \in DOMAIN t.prefix : t.prefix[i] \in Binding
  BY <1>1, <1>2, ElementOfSeq
<1>4. \A b \in Binding : b.path \in Path /\ b.module \in Module
  BY DEF Binding
<1> QED
  BY <1>1, <1>2, <1>3, <1>4

(***************************************************************************)
(* The fields of an entry, and a route as an entry.                        *)
(***************************************************************************)
LEMMA EntryFields ==
  ASSUME NEW p, NEW m
  PROVE  /\ ExactEntry(p, m).path = p /\ ExactEntry(p, m).module = m
         /\ PrefixEntry(p, m).path = p /\ PrefixEntry(p, m).module = m
  BY DEF ExactEntry, PrefixEntry

LEMMA EntryShape ==
  ASSUME NEW p, NEW m
  PROVE  ExactEntry(p, m).prefix = FALSE /\ PrefixEntry(p, m).prefix = TRUE
  BY Zenon DEF ExactEntry, PrefixEntry

LEMMA RouteIsEntry ==
  ASSUME NEW r \in Route
  PROVE  /\ r.path \in Path /\ r.module \in Module /\ r.prefix \in BOOLEAN
         /\ r.prefix = TRUE => r = PrefixEntry(r.path, r.module)
         /\ r.prefix = FALSE => r = ExactEntry(r.path, r.module)
<1>1. r.path \in Path /\ r.module \in Module /\ r.prefix \in BOOLEAN
  BY DEF Route
<1>2. r = [path |-> r.path, prefix |-> r.prefix, module |-> r.module]
  BY DEF Route
<1>3. \A b : r.prefix = b => r = [path |-> r.path, prefix |-> b, module |-> r.module]
  BY <1>2
<1> QED
  BY <1>1, <1>3, Zenon DEF PrefixEntry, ExactEntry

(***************************************************************************)
(* What is in a table.                                                     *)
(***************************************************************************)
LEMMA InEntries ==
  ASSUME NEW t, NEW e
  PROVE  e \in Entries(t) <=>
           \/ \E p \in Path : t.exact[p] # NoModule /\ e = ExactEntry(p, t.exact[p])
           \/ \E i \in DOMAIN t.prefix : e = PrefixEntry(t.prefix[i].path, t.prefix[i].module)
  BY Zenon DEF Entries, ExactPaths, ExactEntry, PrefixEntry

LEMMA InBound ==
  ASSUME NEW t, NEW p
  PROVE  p \in Bound(t) <=>
           \/ p \in Path /\ t.exact[p] # NoModule
           \/ \E i \in DOMAIN t.prefix : t.prefix[i].path = p
  BY DEF Bound, ExactPaths, PrefixPaths

(***************************************************************************)
(* The size the code computes is the number of bound paths.                *)
(***************************************************************************)
LEMMA SizeCounts ==
  ASSUME NEW t, Shaped(t)
  PROVE  IsFiniteSet(Bound(t)) /\ Size(t) = Cardinality(Bound(t)) /\ Cardinality(Bound(t)) \in Nat
<1> DEFINE n == Len(t.prefix)
           f == [i \in 1..n |-> t.prefix[i].path]
<1>1. t \in Table /\ IsFiniteSet(ExactPaths(t))
  BY DEF Shaped
<1>2. n \in Nat /\ DOMAIN t.prefix = 1..n
  BY <1>1, TableParts
<1>a. DOMAIN f = 1..n /\ \A i \in 1..n : f[i] = t.prefix[i].path
  OBVIOUS
<1>b. f \in [1..n -> PrefixPaths(t)]
  BY <1>2 DEF PrefixPaths
<1> HIDE DEF n, f
<1>3. f \in Bijection(1..n, PrefixPaths(t))
  <2>2. ASSUME NEW i \in 1..n, NEW j \in 1..n, f[i] = f[j] PROVE i = j
    <3>1. \A k, m \in 1..n : k < m => f[k] # f[m]
      <4>1. \A k, m \in 1..n : k < m => t.prefix[k].path # t.prefix[m].path
        BY <1>2 DEF Shaped, Ranked
      <4> QED
        BY <4>1, <1>a
    <3> QED
      BY <3>1, <2>2, <1>2
  <2>3. \A p \in PrefixPaths(t) : \E i \in 1..n : f[i] = p
    BY <1>2, <1>a DEF PrefixPaths
  <2> QED
    BY <1>a, <1>b, <2>2, <2>3, Zenon DEF Bijection, Injection, Surjection, IsInjective
<1>4. ExistsBijection(1..n, PrefixPaths(t))
  BY <1>3 DEF ExistsBijection
<1>5. Cardinality(PrefixPaths(t)) = n /\ IsFiniteSet(PrefixPaths(t))
  <2>1. IsFiniteSet(PrefixPaths(t))
    BY <1>2, <1>4, FS_NatBijection
  <2> QED
    BY <2>1, <1>2, <1>4, FS_CountingElements
<1>6. ExactPaths(t) \cap PrefixPaths(t) = {}
  BY DEF Shaped, ExactPaths, PrefixPaths
<1>7. /\ IsFiniteSet(ExactPaths(t) \cup PrefixPaths(t))
      /\ Cardinality(ExactPaths(t) \cup PrefixPaths(t))
           = Cardinality(ExactPaths(t)) + Cardinality(PrefixPaths(t))
             - Cardinality(ExactPaths(t) \cap PrefixPaths(t))
  BY <1>1, <1>5, FS_Union
<1>8. Cardinality(ExactPaths(t)) \in Nat /\ Cardinality({}) = 0
  BY <1>1, FS_CardinalityType, FS_EmptySet
<1>9. Cardinality(ExactPaths(t) \cup PrefixPaths(t)) = Cardinality(ExactPaths(t)) + n
  <2>1. Cardinality(ExactPaths(t) \cap PrefixPaths(t)) = 0
    BY <1>6, <1>8, Zenon
  <2> QED
    BY <2>1, <1>2, <1>5, <1>7, <1>8
<1> QED
  BY <1>2, <1>7, <1>8, <1>9 DEF Bound, Size, n

\* The table u is t without the bindings of gone.
Removed(t, gone, u) ==
  /\ Shaped(u) /\ u.owned = t.owned
  /\ Bound(u) = Bound(t) \ gone
  /\ Entries(u) = {e \in Entries(t) : e.path \notin gone}

(***************************************************************************)
(* Without removes exactly the bindings of the paths it is given.          *)
(***************************************************************************)
LEMMA WithoutFacts ==
  ASSUME NEW t, Shaped(t), NEW gone
  PROVE  Removed(t, gone, Without(t, gone))
<1> DEFINE u == Without(t, gone)
           x == [p \in Path |-> IF p \in gone THEN NoModule ELSE t.exact[p]]
           l == t.prefix
           k == Kept(t.prefix, gone)
<1>1. /\ t \in Table /\ t.exact \in [Path -> Module \cup {NoModule}] /\ l \in Seq(Binding)
      /\ Ranked(l) /\ DOMAIN l = 1..Len(l) /\ \A i \in DOMAIN l : l[i].path \in Path
  BY TableParts DEF Shaped
<1>2. x \in [Path -> Module \cup {NoModule}]
  BY <1>1
<1>3. KeptPart(l, gone, Len(l), k)
  BY <1>1, KeptFacts
<1>4. /\ k \in Seq(Binding) /\ Ranked(k)
      /\ \A e \in DOMAIN k : \E j \in DOMAIN l : l[j].path \notin gone /\ k[e] = l[j]
      /\ \A j \in DOMAIN l : l[j].path \notin gone => \E e \in DOMAIN k : k[e] = l[j]
  BY <1>1, <1>3 DEF KeptPart
<1>a. \A p \in Path : x[p] = IF p \in gone THEN NoModule ELSE t.exact[p]
  OBVIOUS
<1>5. u = [t EXCEPT !.exact = x, !.prefix = k]
  BY DEF Without
<1> HIDE DEF u, x, k
<1>6. u \in Table /\ u.exact = x /\ u.prefix = k /\ u.owned = t.owned
  BY <1>1, <1>2, <1>4, <1>5 DEF Table, Binding
<1> HIDE DEF l
<1>7. Shaped(u)
  <2>1. ASSUME NEW e \in DOMAIN k PROVE x[k[e].path] = NoModule
    <3>1. PICK j \in DOMAIN l : l[j].path \notin gone /\ k[e] = l[j]
      BY <1>4
    <3>2. t.exact[l[j].path] = NoModule
      BY <3>1 DEF Shaped, l
    <3> QED
      BY <3>1, <3>2, <1>1, <1>a
  <2>2. ExactPaths(u) \in SUBSET ExactPaths(t)
    BY <1>6, <1>a DEF ExactPaths
  <2>3. IsFiniteSet(ExactPaths(u))
    BY <2>2, FS_Subset DEF Shaped
  <2> QED
    BY <2>1, <2>3, <1>4, <1>6 DEF Shaped
<1>8. ASSUME NEW p PROVE p \in Bound(u) <=> p \in Bound(t) /\ p \notin gone
  <2>1. p \in Bound(u) <=> \/ p \in Path /\ x[p] # NoModule
                           \/ \E e \in DOMAIN k : k[e].path = p
    BY <1>6, InBound
  <2>2. p \in Bound(t) <=> \/ p \in Path /\ t.exact[p] # NoModule
                           \/ \E j \in DOMAIN l : l[j].path = p
    BY InBound DEF l
  <2>3. p \in Path => (x[p] # NoModule <=> p \notin gone /\ t.exact[p] # NoModule)
    BY <1>a
  <2>4. (\E e \in DOMAIN k : k[e].path = p) <=> (p \notin gone /\ \E j \in DOMAIN l : l[j].path = p)
    BY <1>4
  <2> QED
    BY <2>1, <2>2, <2>3, <2>4
<1>9. ASSUME NEW e PROVE e \in Entries(u) <=> e \in Entries(t) /\ e.path \notin gone
  <2> DEFINE isX(y) == \E p \in Path : y[p] # NoModule /\ e = ExactEntry(p, y[p])
             isP(y) == \E i \in DOMAIN y : e = PrefixEntry(y[i].path, y[i].module)
  <2>1. e \in Entries(u) <=> isX(x) \/ isP(k)
    BY <1>6, InEntries
  <2>2. e \in Entries(t) <=> isX(t.exact) \/ isP(l)
    BY InEntries DEF l
  <2>3. isX(x) <=> isX(t.exact) /\ e.path \notin gone
    <3>1. ASSUME isX(x) PROVE isX(t.exact) /\ e.path \notin gone
      <4>1. PICK p \in Path : x[p] # NoModule /\ e = ExactEntry(p, x[p])
        BY <3>1
      <4>2. p \notin gone /\ x[p] = t.exact[p] /\ e.path = p
        BY <4>1, <1>a, EntryFields
      <4> QED
        BY <4>1, <4>2
    <3>2. ASSUME isX(t.exact), e.path \notin gone PROVE isX(x)
      <4>1. PICK p \in Path : t.exact[p] # NoModule /\ e = ExactEntry(p, t.exact[p])
        BY <3>2
      <4>2. e.path = p
        BY <4>1, EntryFields
      <4>3. p \notin gone /\ x[p] = t.exact[p]
        BY <4>2, <3>2, <1>a
      <4> QED
        BY <4>1, <4>3
    <3> QED
      BY <3>1, <3>2
  <2>4. isP(k) <=> isP(l) /\ e.path \notin gone
    <3>1. ASSUME isP(k) PROVE isP(l) /\ e.path \notin gone
      <4>1. PICK i \in DOMAIN k : e = PrefixEntry(k[i].path, k[i].module)
        BY <3>1
      <4>2. PICK j \in DOMAIN l : l[j].path \notin gone /\ k[i] = l[j]
        BY <1>4
      <4>3. e = PrefixEntry(l[j].path, l[j].module)
        BY <4>1, <4>2
      <4>4. e.path = l[j].path
        BY <4>3, EntryFields
      <4> QED
        BY <4>2, <4>3, <4>4
    <3>2. ASSUME isP(l), e.path \notin gone PROVE isP(k)
      <4>1. PICK j \in DOMAIN l : e = PrefixEntry(l[j].path, l[j].module)
        BY <3>2
      <4>2. l[j].path \notin gone
        BY <4>1, <3>2, EntryFields
      <4>3. PICK i \in DOMAIN k : k[i] = l[j]
        BY <4>2, <1>4
      <4> QED
        BY <4>1, <4>3
    <3> QED
      BY <3>1, <3>2
  <2> QED
    BY <2>1, <2>2, <2>3, <2>4
<1>10. Bound(u) = Bound(t) \ gone
  BY <1>8
<1>11. Entries(u) = {e \in Entries(t) : e.path \notin gone}
  BY <1>9
<1> QED
  BY <1>6, <1>7, <1>10, <1>11 DEF Removed, u

\* The table u is t with the route r in the place of its path's binding.
Rebound(t, r, owner, u) ==
  /\ Shaped(u) /\ u.owned = t.owned \cup owner
  /\ Bound(u) = Bound(t) \cup {r.path}
  /\ Entries(u) = {e \in Entries(t) : e.path # r.path} \cup {r}

(***************************************************************************)
(* bind_owned replaces the binding of one path, of either shape.           *)
(***************************************************************************)
LEMMA BindFacts ==
  ASSUME NEW t, Shaped(t), NEW r \in Route, NEW owner \in SUBSET Path
  PROVE  Rebound(t, r, owner, BindOwned(t, r, owner))
<1> DEFINE v == Without(t, {r.path})
           o == v.owned \cup owner
           p == r.path
           m == r.module
           b == [path |-> p, module |-> m]
           u == BindOwned(t, r, owner)
<1>1. /\ p \in Path /\ m \in Module /\ r.prefix \in BOOLEAN /\ m # NoModule
      /\ r.prefix = TRUE => r = PrefixEntry(p, m)
      /\ r.prefix = FALSE => r = ExactEntry(p, m)
  BY RouteIsEntry, BindingsAssumption
<1>2. Removed(t, {p}, v)
  BY WithoutFacts
<1> HIDE DEF v
<1>3. /\ Shaped(v) /\ v.owned = t.owned /\ Bound(v) = Bound(t) \ {p}
      /\ Entries(v) = {e \in Entries(t) : e.path \notin {p}}
  BY <1>2 DEF Removed
<1>4. /\ v \in Table /\ v.exact \in [Path -> Module \cup {NoModule}] /\ v.prefix \in Seq(Binding)
      /\ Ranked(v.prefix) /\ o \in SUBSET Path /\ IsFiniteSet(ExactPaths(v))
      /\ \A i \in DOMAIN v.prefix : v.exact[v.prefix[i].path] = NoModule
  BY <1>3, TableParts DEF Shaped
<1>5. v.exact[p] = NoModule /\ \A i \in DOMAIN v.prefix : v.prefix[i].path # p
  <2>1. p \notin Bound(v)
    BY <1>3
  <2> QED
    BY <2>1, <1>1, InBound
<1>6. b \in Binding /\ b.path = p /\ b.module = m
  BY <1>1 DEF Binding
<1>7. CASE r.prefix = TRUE
  <2> DEFINE l == Insert(v.prefix, b)
  <2>1. l \in Seq(Binding) /\ Ranked(l) /\ Extends(v.prefix, b, l)
    BY <1>4, <1>5, <1>6, InsertFacts
  <2>2. u = [v EXCEPT !.prefix = l, !.owned = o]
    BY <1>7 DEF BindOwned, v
  <2> HIDE DEF l, u, o, b
  <2>3. u \in Table /\ u.exact = v.exact /\ u.prefix = l /\ u.owned = o
    BY <2>1, <2>2, <1>4 DEF Table, Binding
  <2>4. Shaped(u)
    <3>1. ExactPaths(u) = ExactPaths(v)
      BY <2>3 DEF ExactPaths
    <3>2. ASSUME NEW i \in DOMAIN l PROVE v.exact[l[i].path] = NoModule
      <4>1. l[i] = b \/ \E j \in DOMAIN v.prefix : l[i] = v.prefix[j]
        BY <2>1 DEF Extends
      <4>2. CASE l[i] = b
        BY <4>2, <1>5, <1>6
      <4>3. CASE \E j \in DOMAIN v.prefix : l[i] = v.prefix[j]
        BY <4>3, <1>4
      <4> QED
        BY <4>1, <4>2, <4>3
    <3> QED
      BY <3>1, <3>2, <2>1, <2>3, <1>4 DEF Shaped
  <2>5. ASSUME NEW q PROVE q \in Bound(u) <=> q \in Bound(t) \/ q = p
    <3>1. q \in Bound(v) <=> q \in Bound(t) /\ q # p
      BY <1>3
    <3>2. q \in Bound(u) <=> q \in Bound(v) \/ q = p
      <4>1. (\E i \in DOMAIN l : l[i].path = q) <=>
              (q = p \/ \E i \in DOMAIN v.prefix : v.prefix[i].path = q)
        BY <2>1, <1>6 DEF Extends
      <4> QED
        BY <4>1, <2>3, InBound
    <3> QED
      BY <3>1, <3>2
  <2>6. ASSUME NEW e PROVE e \in Entries(u) <=> (e \in Entries(t) /\ e.path # p) \/ e = r
    <3>1. e \in Entries(v) <=> e \in Entries(t) /\ e.path # p
      BY <1>3
    <3>2. e \in Entries(u) <=> e \in Entries(v) \/ e = PrefixEntry(p, m)
      <4> DEFINE isP(y) == \E i \in DOMAIN y : e = PrefixEntry(y[i].path, y[i].module)
      <4>1. isP(l) <=> isP(v.prefix) \/ e = PrefixEntry(p, m)
        BY <2>1, <1>6 DEF Extends
      <4> QED
        BY <4>1, <2>3, InEntries
    <3> QED
      BY <3>1, <3>2, <1>1, <1>7
  <2>7. Bound(u) = Bound(t) \cup {p}
    BY <2>5
  <2>8. Entries(u) = {e \in Entries(t) : e.path # p} \cup {r}
    BY <2>6
  <2> QED
    BY <2>3, <2>4, <2>7, <2>8, <1>3 DEF Rebound, u, o
<1>8. CASE r.prefix = FALSE
  <2> DEFINE x == [v.exact EXCEPT ![p] = m]
  <2>1. /\ x \in [Path -> Module \cup {NoModule}] /\ x[p] = m
        /\ \A q \in Path : q # p => x[q] = v.exact[q]
    BY <1>1, <1>4
  <2>2. u = [v EXCEPT !.exact = x, !.owned = o]
    BY <1>8 DEF BindOwned, v
  <2> HIDE DEF x, u, o
  <2>3. u \in Table /\ u.exact = x /\ u.prefix = v.prefix /\ u.owned = o
    BY <2>1, <2>2, <1>4 DEF Table, Binding
  <2>4. Shaped(u)
    <3>1. ExactPaths(u) = ExactPaths(v) \cup {p}
      BY <2>1, <2>3, <1>1 DEF ExactPaths
    <3>2. IsFiniteSet(ExactPaths(u))
      BY <3>1, <1>4, FS_AddElement
    <3>3. \A i \in DOMAIN v.prefix : v.prefix[i].path \in Path /\ x[v.prefix[i].path] = NoModule
      BY <2>1, <1>4, <1>5, TableParts
    <3> QED
      BY <3>2, <3>3, <2>3, <1>4 DEF Shaped
  <2>5. ASSUME NEW q PROVE q \in Bound(u) <=> q \in Bound(t) \/ q = p
    <3>1. q \in Bound(v) <=> q \in Bound(t) /\ q # p
      BY <1>3
    <3>2. q \in Bound(u) <=> q \in Bound(v) \/ q = p
      <4>1. q \in Path => (x[q] # NoModule <=> v.exact[q] # NoModule \/ q = p)
        BY <2>1, <1>1
      <4> QED
        BY <4>1, <2>3, <1>1, InBound
    <3> QED
      BY <3>1, <3>2
  <2>6. ASSUME NEW e PROVE e \in Entries(u) <=> (e \in Entries(t) /\ e.path # p) \/ e = r
    <3>1. e \in Entries(v) <=> e \in Entries(t) /\ e.path # p
      BY <1>3
    <3>2. e \in Entries(u) <=> e \in Entries(v) \/ e = ExactEntry(p, m)
      <4> DEFINE isX(y) == \E q \in Path : y[q] # NoModule /\ e = ExactEntry(q, y[q])
      <4>1. isX(x) <=> isX(v.exact) \/ e = ExactEntry(p, m)
        BY <2>1, <1>1, <1>5
      <4> QED
        BY <4>1, <2>3, InEntries
    <3> QED
      BY <3>1, <3>2, <1>1, <1>8
  <2>7. Bound(u) = Bound(t) \cup {p}
    BY <2>5
  <2>8. Entries(u) = {e \in Entries(t) : e.path # p} \cup {r}
    BY <2>6
  <2> QED
    BY <2>3, <2>4, <2>7, <2>8, <1>3 DEF Rebound, u, o
<1> QED
  BY <1>1, <1>7, <1>8

(***************************************************************************)
(* The mark of the paths of the configuration is beside the bindings.      *)
(***************************************************************************)
LEMMA OwnedFacts ==
  ASSUME NEW v, Shaped(v), NEW o \in SUBSET Path, NEW u, u = [v EXCEPT !.owned = o]
  PROVE  Shaped(u) /\ u.owned = o /\ Bound(u) = Bound(v) /\ Entries(u) = Entries(v)
<1>1. u \in Table /\ u.exact = v.exact /\ u.prefix = v.prefix /\ u.owned = o
  BY DEF Shaped, Table
<1>2. Bound(u) = Bound(v)
  BY <1>1 DEF Bound, ExactPaths, PrefixPaths
<1>3. Entries(u) = Entries(v)
  BY <1>1, Zenon DEF Entries, ExactPaths
<1>4. Shaped(u)
  BY <1>1 DEF Shaped, ExactPaths
<1> QED
  BY <1>1, <1>2, <1>3, <1>4

(***************************************************************************)
(* A path has one entry.                                                   *)
(***************************************************************************)
LEMMA OneEntry ==
  ASSUME NEW t, Shaped(t), NEW e \in Entries(t), NEW f \in Entries(t), e.path = f.path
  PROVE  e = f
<1> DEFINE isX(g) == \E p \in Path : t.exact[p] # NoModule /\ g = ExactEntry(p, t.exact[p])
           isP(g) == \E i \in DOMAIN t.prefix : g = PrefixEntry(t.prefix[i].path, t.prefix[i].module)
<1>1. (isX(e) \/ isP(e)) /\ (isX(f) \/ isP(f))
  BY InEntries
<1>2. ASSUME NEW g, isX(g) PROVE t.exact[g.path] # NoModule /\ g = ExactEntry(g.path, t.exact[g.path])
  <2>1. PICK p \in Path : t.exact[p] # NoModule /\ g = ExactEntry(p, t.exact[p])
    BY <1>2
  <2>2. g.path = p
    BY <2>1, EntryFields
  <2> QED
    BY <2>1, <2>2
<1>3. ASSUME NEW g, isP(g)
      PROVE  \E i \in DOMAIN t.prefix : g.path = t.prefix[i].path /\ g = PrefixEntry(t.prefix[i].path, t.prefix[i].module)
  BY <1>3, EntryFields
<1>4. ASSUME NEW g, isP(g) PROVE t.exact[g.path] = NoModule
  BY <1>3, <1>4 DEF Shaped
<1> HIDE DEF isX, isP
<1>5. CASE isX(e) /\ isX(f)
  BY <1>2, <1>5
<1>6. CASE isP(e) /\ isP(f)
  <2>1. PICK i \in DOMAIN t.prefix :
          e.path = t.prefix[i].path /\ e = PrefixEntry(t.prefix[i].path, t.prefix[i].module)
    BY <1>3, <1>6
  <2>2. PICK j \in DOMAIN t.prefix :
          f.path = t.prefix[j].path /\ f = PrefixEntry(t.prefix[j].path, t.prefix[j].module)
    BY <1>3, <1>6
  <2>3. i \in Nat /\ j \in Nat
    <3>1. t \in Table
      BY DEF Shaped
    <3>2. DOMAIN t.prefix = 1..Len(t.prefix) /\ Len(t.prefix) \in Nat
      BY <3>1, TableParts
    <3> QED
      BY <3>2
  <2>4. i = j
    <3>1. ~(i < j) /\ ~(j < i)
      BY <2>1, <2>2 DEF Shaped, Ranked
    <3> QED
      BY <3>1, <2>3
  <2> QED
    BY <2>1, <2>2, <2>4
<1>7. ~(isX(e) /\ isP(f)) /\ ~(isP(e) /\ isX(f))
  BY <1>2, <1>4
<1> QED
  BY <1>1, <1>5, <1>6, <1>7

\* The table u is t without the bindings of module m.
Unbound(t, m, u) ==
  Sound(u) /\ u.owned \subseteq t.owned /\ Entries(u) = {e \in Entries(t) : e.module # m}

(***************************************************************************)
(* unbind_module removes exactly the bindings of the module.               *)
(***************************************************************************)
LEMMA UnbindFacts ==
  ASSUME NEW t, Sound(t), NEW m
  PROVE  Unbound(t, m, UnbindModule(t, m))
<1> DEFINE gone == {e.path : e \in {x \in Entries(t) : x.module = m}}
           v == Without(t, gone)
           o == v.owned \cap Bound(v)
           u == [v EXCEPT !.owned = o]
<1>1. UnbindModule(t, m) = u
  BY DEF UnbindModule
<1>2. \A p : p \in gone <=> \E x \in Entries(t) : x.module = m /\ x.path = p
  OBVIOUS
<1> HIDE DEF gone
<1>3. Removed(t, gone, v)
  BY WithoutFacts DEF Sound
<1> HIDE DEF v
<1>4. /\ Shaped(v) /\ v.owned = t.owned /\ Bound(v) = Bound(t) \ gone
      /\ Entries(v) = {e \in Entries(t) : e.path \notin gone}
  BY <1>3 DEF Removed
<1>5. o \in SUBSET Path
  BY <1>4, TableParts DEF Shaped
<1>6. Shaped(u) /\ u.owned = o /\ Bound(u) = Bound(v) /\ Entries(u) = Entries(v)
  BY <1>4, <1>5, OwnedFacts
<1> HIDE DEF u
<1>7. ASSUME NEW e \in Entries(t) PROVE e.path \notin gone <=> e.module # m
  BY <1>2, OneEntry DEF Sound
<1>8. Entries(u) = {e \in Entries(t) : e.module # m}
  BY <1>4, <1>6, <1>7
<1>9. Cardinality(Bound(u)) <= MaxBindings
  <2>1. IsFiniteSet(Bound(t)) /\ Cardinality(Bound(t)) \in Nat /\ Cardinality(Bound(t)) <= MaxBindings
    BY SizeCounts DEF Sound
  <2>2. Bound(u) \in SUBSET Bound(t)
    BY <1>4, <1>6
  <2>3. Cardinality(Bound(u)) <= Cardinality(Bound(t)) /\ IsFiniteSet(Bound(u))
    BY <2>1, <2>2, FS_Subset
  <2>4. Cardinality(Bound(u)) \in Nat /\ MaxBindings \in Nat
    BY <2>3, FS_CardinalityType, BindingsAssumption
  <2> QED
    BY <2>1, <2>3, <2>4
<1>10. u.owned \subseteq Bound(u) /\ u.owned \subseteq t.owned
  BY <1>4, <1>6
<1> QED
  BY <1>1, <1>6, <1>8, <1>9, <1>10 DEF Unbound, Sound

(***************************************************************************)
(* A binding for which there is room keeps the table within its limit.     *)
(***************************************************************************)
LEMMA BindSound ==
  ASSUME NEW t, Sound(t), NEW r \in Route, ~Full(t, r.path), NEW owner \in SUBSET {r.path}
  PROVE  Sound(BindOwned(t, r, owner)) /\ BindOwned(t, r, owner).owned = t.owned \cup owner
<1> DEFINE u == BindOwned(t, r, owner)
<1>1. Shaped(t) /\ r.path \in Path
  BY RouteIsEntry DEF Sound
<1>2. Rebound(t, r, owner, u)
  BY <1>1, BindFacts
<1> HIDE DEF u
<1>3. Shaped(u) /\ u.owned = t.owned \cup owner /\ Bound(u) = Bound(t) \cup {r.path}
  BY <1>2 DEF Rebound
<1>4. /\ IsFiniteSet(Bound(t)) /\ Size(t) = Cardinality(Bound(t)) /\ Cardinality(Bound(t)) \in Nat
      /\ Cardinality(Bound(t)) <= MaxBindings /\ MaxBindings \in Nat
  BY <1>1, SizeCounts, BindingsAssumption DEF Sound
<1>5. Cardinality(Bound(u)) =
        IF r.path \in Bound(t) THEN Cardinality(Bound(t)) ELSE Cardinality(Bound(t)) + 1
  BY <1>3, <1>4, FS_AddElement
<1>6. Cardinality(Bound(u)) <= MaxBindings
  BY <1>4, <1>5 DEF Full
<1>7. u.owned \subseteq Bound(u)
  BY <1>3 DEF Sound
<1> QED
  BY <1>3, <1>6, <1>7 DEF Sound, u

\* x is a function of 0..n that lays the first i routes over t.
LaysUpTo(t, routes, n, x) ==
  x = [i \in 0..n |->
         IF i = 0 THEN t
         ELSE IF Full(x[i - 1], routes[i].path) THEN x[i - 1]
         ELSE BindOwned(x[i - 1], routes[i], {routes[i].path})]

(***************************************************************************)
(* reconcile's loop is well defined: the recursion of Laid has a solution. *)
(***************************************************************************)
LEMMA LaidExists ==
  ASSUME NEW t, NEW routes, NEW n \in Nat
  PROVE  \E x : LaysUpTo(t, routes, n, x)
<1> DEFINE B == {k \in Nat : ~\E x : LaysUpTo(t, routes, k, x)}
           m == Min(B)
<1> SUFFICES ASSUME B # {} PROVE FALSE
  OBVIOUS
<1>1. m \in B /\ \A k \in B : m <= k
  BY LeastNat
<1>2. m \in Nat /\ ~\E x : LaysUpTo(t, routes, m, x)
  BY <1>1
<1> HIDE DEF m
<1>3. CASE m = 0
  <2>1. LaysUpTo(t, routes, 0, [i \in 0..0 |-> t])
    BY DEF LaysUpTo
  <2> QED
    BY <2>1, <1>2, <1>3
<1>4. CASE m # 0
  <2>1. m - 1 \in Nat /\ m - 1 \notin B
    <3> HIDE DEF B
    <3> QED
      BY <1>1, <1>2, <1>4
  <2>2. PICK x : LaysUpTo(t, routes, m - 1, x)
    BY <2>1
  <2> DEFINE new(z, i) == IF Full(z, routes[i].path) THEN z
                          ELSE BindOwned(z, routes[i], {routes[i].path})
             y == [i \in 0..m |-> IF i < m THEN x[i] ELSE new(x[m - 1], m)]
  <2> HIDE DEF new
  <2>3. ASSUME NEW i \in 0..m PROVE y[i] = IF i = 0 THEN t ELSE new(y[i - 1], i)
    <3>1. CASE i = m
      <4>1. y[m] = new(x[m - 1], m) /\ y[m - 1] = x[m - 1]
        BY <1>2, <1>4
      <4> QED
        BY <4>1, <3>1, <1>4
    <3>2. CASE i # m
      <4>1. i \in 0..m - 1 /\ i < m
        BY <3>2, <1>2
      <4>2. x[i] = IF i = 0 THEN t ELSE new(x[i - 1], i)
        BY <4>1, <2>2 DEF LaysUpTo, new
      <4>3. y[i] = x[i] /\ (i # 0 => y[i - 1] = x[i - 1])
        BY <4>1, <1>2
      <4> QED
        BY <4>2, <4>3
    <3> QED
      BY <3>1, <3>2
  <2>4. y = [i \in 0..m |-> y[i]]
    OBVIOUS
  <2> HIDE DEF y
  <2>5. LaysUpTo(t, routes, m, y)
    BY <2>3, <2>4 DEF LaysUpTo, new
  <2> QED
    BY <2>5, <1>2
<1> QED
  BY <1>3, <1>4

(***************************************************************************)
(* Laid is the last value of such a function.                              *)
(***************************************************************************)
LEMMA LaidIsLast ==
  ASSUME NEW t, NEW routes \in Seq(Route)
  PROVE  \E x : LaysUpTo(t, routes, Len(routes), x) /\ Laid(t, routes) = x[Len(routes)]
<1> DEFINE x == CHOOSE x : LaysUpTo(t, routes, Len(routes), x)
<1>1. Len(routes) \in Nat
  BY LenProperties
<1>2. LaysUpTo(t, routes, Len(routes), x)
  BY <1>1, LaidExists
<1>3. Laid(t, routes) = x[Len(routes)]
  BY Zenon DEF Laid, LaysUpTo
<1> QED
  BY <1>2, <1>3

(***************************************************************************)
(* The routes of a configuration laid over a sound table.                  *)
(***************************************************************************)
LEMMA LaidFacts ==
  ASSUME NEW t, Sound(t), NEW routes \in Seq(Route)
  PROVE  /\ Sound(Laid(t, routes))
         /\ Laid(t, routes).owned \subseteq t.owned \cup {routes[i].path : i \in DOMAIN routes}
<1>1. PICK x : LaysUpTo(t, routes, Len(routes), x) /\ Laid(t, routes) = x[Len(routes)]
  BY LaidIsLast
<1> DEFINE n == Len(routes)
           own == t.owned \cup {routes[i].path : i \in DOMAIN routes}
           B == {i \in 0..n : ~(Sound(x[i]) /\ x[i].owned \subseteq own)}
           m == Min(B)
<1>2. n \in Nat /\ DOMAIN routes = 1..n /\ \A i \in 1..n : routes[i] \in Route /\ routes[i].path \in own
  BY LenProperties, ElementOfSeq
<1> HIDE DEF own
<1>3. SUFFICES B = {}
  BY <1>1, <1>2 DEF own
<1>4. SUFFICES ASSUME B # {} PROVE FALSE
  OBVIOUS
<1>5. m \in B /\ \A k \in B : m <= k
  <2>1. B \in SUBSET Nat
    BY <1>2
  <2> HIDE DEF B
  <2> QED
    BY <2>1, <1>4, LeastNat
<1>6. m \in 0..n /\ ~(Sound(x[m]) /\ x[m].owned \subseteq own)
  BY <1>5
<1> HIDE DEF m
<1>7. CASE m = 0
  <2>1. x[0] = t
    BY <1>1, <1>2 DEF LaysUpTo
  <2> QED
    BY <2>1, <1>6, <1>7 DEF own
<1>8. CASE m # 0
  <2> DEFINE z == x[m - 1]
             r == routes[m]
  <2>1. m \in 1..n /\ m - 1 \in 0..n /\ ~(m <= m - 1)
    BY <1>2, <1>6, <1>8
  <2>2. Sound(z) /\ z.owned \subseteq own /\ r \in Route /\ r.path \in own
    BY <2>1, <1>2, <1>5
  <2>3. x[m] = IF Full(z, r.path) THEN z ELSE BindOwned(z, r, {r.path})
    BY <2>1, <1>1, <1>6, <1>8 DEF LaysUpTo
  <2> HIDE DEF z, r
  <2>4. CASE Full(z, r.path)
    BY <2>2, <2>3, <2>4, <1>6
  <2>5. CASE ~Full(z, r.path)
    <3>1. Sound(BindOwned(z, r, {r.path})) /\ BindOwned(z, r, {r.path}).owned = z.owned \cup {r.path}
      BY <2>2, <2>5, BindSound
    <3>2. x[m] = BindOwned(z, r, {r.path})
      BY <2>3, <2>5
    <3>3. Sound(x[m]) /\ x[m].owned = z.owned \cup {r.path}
      BY <3>1, <3>2
    <3> QED
      BY <3>3, <2>2, <1>6
  <2> QED
    BY <2>4, <2>5
<1> QED
  BY <1>7, <1>8

(***************************************************************************)
(* reconcile yields a sound table that owns routes of the configuration    *)
(* only.                                                                   *)
(***************************************************************************)
LEMMA ReconcileFacts ==
  ASSUME NEW t, Sound(t), NEW routes \in Seq(Route)
  PROVE  /\ Sound(Reconcile(t, routes))
         /\ Reconcile(t, routes).owned \subseteq {routes[i].path : i \in DOMAIN routes}
<1> DEFINE v == Without(t, t.owned)
           u == [v EXCEPT !.owned = {}]
<1>1. Removed(t, t.owned, v)
  BY WithoutFacts DEF Sound
<1> HIDE DEF v
<1>2. Shaped(v) /\ Bound(v) = Bound(t) \ t.owned
  BY <1>1 DEF Removed
<1>3. Shaped(u) /\ u.owned = {} /\ Bound(u) = Bound(v)
  BY <1>2, OwnedFacts
<1>4. Reconcile(t, routes) = Laid(u, routes)
  BY DEF Reconcile, v
<1> HIDE DEF u
<1>5. Cardinality(Bound(u)) <= MaxBindings
  <2>1. IsFiniteSet(Bound(t)) /\ Cardinality(Bound(t)) \in Nat /\ Cardinality(Bound(t)) <= MaxBindings
    BY SizeCounts DEF Sound
  <2>2. Bound(u) \in SUBSET Bound(t)
    BY <1>2, <1>3
  <2>3. Cardinality(Bound(u)) <= Cardinality(Bound(t)) /\ IsFiniteSet(Bound(u))
    BY <2>1, <2>2, FS_Subset
  <2>4. Cardinality(Bound(u)) \in Nat /\ MaxBindings \in Nat
    BY <2>3, FS_CardinalityType, BindingsAssumption
  <2> QED
    BY <2>1, <2>3, <2>4
<1>6. Sound(u)
  BY <1>3, <1>5 DEF Sound
<1>7. /\ Sound(Laid(u, routes))
      /\ Laid(u, routes).owned \subseteq u.owned \cup {routes[i].path : i \in DOMAIN routes}
  BY <1>6, LaidFacts
<1> QED
  BY <1>3, <1>4, <1>7

(***************************************************************************)
(* What is above a path: its own exact binding and the prefix bindings     *)
(* that lookup can hit.                                                    *)
(***************************************************************************)
Hits(t, p) == {i \in DOMAIN t.prefix : IsPrefix(t.prefix[i].path, p)}

LEMMA InAbove ==
  ASSUME NEW t, NEW p, NEW f \in Above(t, p)
  PROVE  \/ p \in ExactPaths(t) /\ f = ExactEntry(p, t.exact[p])
         \/ \E i \in Hits(t, p) : f = PrefixEntry(t.prefix[i].path, t.prefix[i].module)
<1>1. f \in Entries(t) /\ (IF f.prefix THEN IsPrefix(f.path, p) ELSE f.path = p)
  BY Zenon DEF Above
<1>2. CASE \E q \in Path : t.exact[q] # NoModule /\ f = ExactEntry(q, t.exact[q])
  <2>1. PICK q \in Path : t.exact[q] # NoModule /\ f = ExactEntry(q, t.exact[q])
    BY <1>2
  <2>2. f.prefix = FALSE
    BY <2>1, EntryShape, Zenon
  <2>3. f.path = p
    BY <2>2, <1>1, Zenon
  <2>4. f.path = q
    BY <2>1, EntryFields
  <2> QED
    BY <2>1, <2>3, <2>4 DEF ExactPaths
<1>3. CASE \E i \in DOMAIN t.prefix : f = PrefixEntry(t.prefix[i].path, t.prefix[i].module)
  <2>1. PICK i \in DOMAIN t.prefix : f = PrefixEntry(t.prefix[i].path, t.prefix[i].module)
    BY <1>3
  <2>2. f.prefix = TRUE
    BY <2>1, EntryShape, Zenon
  <2>3. IsPrefix(f.path, p)
    BY <2>2, <1>1, Zenon
  <2>4. f.path = t.prefix[i].path
    BY <2>1, EntryFields
  <2> QED
    BY <2>1, <2>3, <2>4 DEF Hits
<1> QED
  BY <1>1, <1>2, <1>3, InEntries

LEMMA HitIsAbove ==
  ASSUME NEW t, NEW p, NEW i \in Hits(t, p)
  PROVE  PrefixEntry(t.prefix[i].path, t.prefix[i].module) \in Above(t, p)
<1> DEFINE f == PrefixEntry(t.prefix[i].path, t.prefix[i].module)
<1>1. i \in DOMAIN t.prefix /\ IsPrefix(t.prefix[i].path, p)
  BY DEF Hits
<1>2. f \in Entries(t)
  BY <1>1, InEntries
<1>3. f.prefix = TRUE /\ f.path = t.prefix[i].path
  <2>1. f.prefix = TRUE
    BY EntryShape, Zenon
  <2>2. f.path = t.prefix[i].path
    BY Zenon DEF PrefixEntry
  <2> QED
    BY <2>1, <2>2, Zenon
<1> HIDE DEF f
<1>4. f \in Above(t, p)
  BY <1>1, <1>2, <1>3, Zenon DEF Above
<1> QED
  BY <1>4 DEF f

LEMMA ExactIsAbove ==
  ASSUME NEW t, NEW p \in ExactPaths(t)
  PROVE  ExactEntry(p, t.exact[p]) \in Above(t, p)
<1> DEFINE f == ExactEntry(p, t.exact[p])
<1>1. f \in Entries(t)
  BY InEntries DEF ExactPaths
<1>2. f.path = p
  BY EntryFields
<1>3. f.prefix = FALSE
  BY EntryShape, Zenon
<1> HIDE DEF f
<1>4. f \in Above(t, p)
  BY <1>1, <1>2, <1>3, Zenon DEF Above
<1> QED
  BY <1>4 DEF f

(***************************************************************************)
(* lookup serves the most specific binding of a table in good order.       *)
(***************************************************************************)
LEMMA LookupFacts ==
  ASSUME NEW t, Shaped(t), NEW p \in Asked
  PROVE  \/ Above(t, p) = {} /\ Lookup(t, p) = NoModule
         \/ \E e \in Above(t, p) :
              /\ \A f \in Above(t, p) : Len(f.path) <= Len(e.path)
              /\ Lookup(t, p) = e.module
<1> DEFINE hits == Hits(t, p)
<1>1. Lookup(t, p) = IF p \in ExactPaths(t) THEN t.exact[p]
                     ELSE IF hits = {} THEN NoModule
                     ELSE t.prefix[Min(hits)].module
  BY DEF Lookup, Hits
<1>2. /\ DOMAIN t.prefix \subseteq Nat /\ hits \subseteq DOMAIN t.prefix
      /\ \A i \in DOMAIN t.prefix : t.prefix[i].path \in Path
  <2>1. t \in Table
    BY DEF Shaped
  <2>2. DOMAIN t.prefix = 1..Len(t.prefix) /\ \A i \in DOMAIN t.prefix : t.prefix[i].path \in Path
    BY <2>1, TableParts
  <2>3. hits \subseteq DOMAIN t.prefix
    BY DEF Hits
  <2> QED
    BY <2>2, <2>3
<1>3. Len(p) \in Nat /\ \A q \in Path : Len(q) \in Nat
  BY BindingsAssumption, LenProperties
<1>4. \A i \in hits : Len(t.prefix[i].path) <= Len(p)
  BY DEF Hits, IsPrefix
<1> HIDE DEF hits
<1>5. CASE p \in ExactPaths(t)
  <2> DEFINE e == ExactEntry(p, t.exact[p])
  <2>1. e \in Above(t, p) /\ e.path = p /\ e.module = t.exact[p]
    BY <1>5, ExactIsAbove, EntryFields
  <2>2. ASSUME NEW f \in Above(t, p) PROVE Len(f.path) <= Len(p)
    <3>1. CASE f = ExactEntry(p, t.exact[p])
      BY <3>1, <2>1, <1>3
    <3>2. CASE \E i \in hits : f = PrefixEntry(t.prefix[i].path, t.prefix[i].module)
      <4>1. PICK i \in hits : f = PrefixEntry(t.prefix[i].path, t.prefix[i].module)
        BY <3>2
      <4>2. f.path = t.prefix[i].path
        BY <4>1, EntryFields
      <4> QED
        BY <4>2, <1>4
    <3> QED
      BY <3>1, <3>2, InAbove DEF hits
  <2> HIDE DEF e
  <2> QED
    BY <2>1, <2>2, <1>1, <1>5
<1>6. CASE p \notin ExactPaths(t) /\ hits = {}
  <2>1. Above(t, p) = {}
    BY <1>6, InAbove DEF hits
  <2> QED
    BY <2>1, <1>1, <1>6
<1>7. CASE p \notin ExactPaths(t) /\ hits # {}
  <2> DEFINE i == Min(hits)
             e == PrefixEntry(t.prefix[i].path, t.prefix[i].module)
  <2>1. i \in hits /\ \A k \in hits : i <= k
    BY <1>2, <1>7, LeastNat
  <2> HIDE DEF i
  <2>2. e \in Above(t, p) /\ e.path = t.prefix[i].path /\ e.module = t.prefix[i].module
    BY <2>1, HitIsAbove, EntryFields DEF hits
  <2>3. ASSUME NEW f \in Above(t, p) PROVE Len(f.path) <= Len(e.path)
    <3>1. PICK j \in hits : f = PrefixEntry(t.prefix[j].path, t.prefix[j].module)
      BY <1>7, InAbove DEF hits
    <3>2. f.path = t.prefix[j].path
      BY <3>1, EntryFields
    <3>3. CASE i = j
      BY <3>2, <3>3, <2>1, <2>2, <1>2, <1>3
    <3>4. CASE i # j
      <4>1. i < j /\ i \in DOMAIN t.prefix /\ j \in DOMAIN t.prefix
        BY <3>4, <2>1, <1>2
      <4>2. Len(t.prefix[i].path) >= Len(t.prefix[j].path)
        BY <4>1 DEF Shaped, Ranked
      <4> QED
        BY <4>1, <4>2, <3>2, <2>2, <1>2, <1>3
    <3> QED
      BY <3>3, <3>4
  <2>4. Lookup(t, p) = e.module
    BY <2>2, <1>1, <1>7 DEF i
  <2> HIDE DEF e
  <2> QED
    BY <2>2, <2>3, <2>4
<1> QED
  BY <1>5, <1>6, <1>7

-----------------------------------------------------------------------------
(***************************************************************************)
(* The inductive invariant                                                 *)
(***************************************************************************)
\* A call that holds the published table, and for a binding has room in it.
Current(c) ==
  c.pc = "cas" /\ c.fresh = TRUE =>
    c.loaded = table /\ (c.op # "delete" => ~Full(table, c.route.path))

CallsCurrent == \A a \in Admin : Current(admin[a])

ConfiguredPaths(c) == {c.routes[i].path : i \in DOMAIN c.routes}

OwnsConfigured == table.owned \subseteq ConfiguredPaths(applied)

Inv == TypeOK /\ Sound(table) /\ Sound(reload.loaded) /\ CallsCurrent /\ OwnsConfigured

Reload == [pc : {"idle", "registry", "read", "write"}, cfg : Config, loaded : Table]

(***************************************************************************)
(* The empty table is sound.                                               *)
(***************************************************************************)
LEMMA EmptyFacts == Sound(Empty) /\ Empty \in Table /\ Empty.owned = {}
<1>1. Empty \in Table /\ Empty.owned = {} /\ Empty.prefix = <<>> /\ \A p \in Path : Empty.exact[p] = NoModule
  BY DEF Empty, Table
<1>2. ExactPaths(Empty) = {} /\ PrefixPaths(Empty) = {}
  BY <1>1 DEF ExactPaths, PrefixPaths
<1>3. Bound(Empty) = {}
  BY <1>2 DEF Bound
<1>4. Cardinality({}) = 0 /\ IsFiniteSet({}) /\ 0 <= MaxBindings
  BY FS_EmptySet, BindingsAssumption
<1>5. Shaped(Empty)
  BY <1>1, <1>2, <1>4 DEF Shaped, Ranked
<1> QED
  BY <1>1, <1>3, <1>4, <1>5 DEF Sound

(***************************************************************************)
(* The locals of a call: none, and after each step.                        *)
(***************************************************************************)
LEMMA IdleFacts == Idle \in Call /\ Idle.pc = "idle"
<1>1. AnyRoute \in Route
  <2>1. \E r \in Route : TRUE
    <3>1. PICK p \in Path, m \in Module : TRUE
      BY BindingsAssumption
    <3>2. [path |-> p, prefix |-> TRUE, module |-> m] \in Route
      BY <3>1 DEF Route
    <3> QED
      BY <3>2
  <2> QED
    BY <2>1 DEF AnyRoute
<1>2. 0 \in 0..CasAttempts /\ Empty \in Table
  BY BindingsAssumption, EmptyFacts
<1> QED
  BY <1>1, <1>2 DEF Idle, Call, Ops

LEMMA BegunCall ==
  ASSUME NEW op \in Ops, NEW r \in Route, NEW binds \in BOOLEAN, NEW c,
         c = [Idle EXCEPT !.pc = "work", !.op = op, !.route = r, !.binds = binds]
  PROVE  c \in Call /\ c.pc = "work"
  BY IdleFacts DEF Call

LEMMA MovedCall ==
  ASSUME NEW d \in Call, NEW c, c = [d EXCEPT !.pc = "load"]
  PROVE  c \in Call /\ c.pc = "load"
  BY DEF Call

LEMMA LostCall ==
  ASSUME NEW d \in Call, NEW c, c = [d EXCEPT !.pc = "load", !.loaded = Empty]
  PROVE  c \in Call /\ c.pc = "load"
  BY EmptyFacts DEF Call

LEMMA OutdatedCall ==
  ASSUME NEW d \in Call
  PROVE  /\ Outdated(d) \in Call /\ Outdated(d).pc = d.pc /\ Outdated(d).fresh = FALSE
<1>1. Outdated(d) \in Call /\ Outdated(d).pc = d.pc
  BY DEF Outdated, Call
<1>2. Outdated(d).fresh = FALSE
  BY Zenon DEF Outdated, Call
<1> QED
  BY <1>1, <1>2

(***************************************************************************)
(* A call that is not about to swap holds nothing that could be outdated.  *)
(***************************************************************************)
LEMMA NotSwapping ==
  ASSUME NEW c, c.pc # "cas" \/ c.fresh = FALSE
  PROVE  Current(c)
<1>1. CASE c.pc # "cas"
  BY <1>1 DEF Current
<1>2. CASE c.fresh = FALSE
  BY <1>2, Zenon DEF Current
<1> QED
  BY <1>1, <1>2

(***************************************************************************)
(* The first table is the configuration's routes on an empty one.          *)
(***************************************************************************)
LEMMA InitInv == Init => Inv
<1> SUFFICES ASSUME Init PROVE Inv
  OBVIOUS
<1>1. applied \in Config /\ applied.routes \in Seq(Route) /\ enabled = TRUE
  BY BindingsAssumption DEF Init
<1>2. Sound(table) /\ table.owned \subseteq ConfiguredPaths(applied)
  BY <1>1, EmptyFacts, ReconcileFacts DEF Init, ConfiguredPaths
<1>3. table \in Table
  BY <1>2 DEF Sound, Shaped
<1>4. reload \in Reload /\ reload.loaded = Empty
  <2>1. AnyConfig \in Config
    BY <1>1 DEF AnyConfig
  <2> QED
    BY <2>1, EmptyFacts DEF Init, NoReload, Reload
<1>5. admin \in [Admin -> Call] /\ \A a \in Admin : admin[a].pc = "idle"
  BY IdleFacts DEF Init
<1>6. CallsCurrent
  BY <1>5, NotSwapping DEF CallsCurrent
<1>7. enabled \in BOOLEAN
  BY <1>1, Zenon
<1>8. calls \in 0..MaxCalls /\ reloads \in 0..MaxReloads /\ files \in SUBSET Module
  BY BindingsAssumption DEF Init
<1>9. TypeOK
  BY <1>1, <1>3, <1>4, <1>5, <1>7, <1>8 DEF TypeOK, Reload
<1> QED
  BY <1>2, <1>4, <1>6, <1>9, EmptyFacts DEF Inv, OwnsConfigured

-----------------------------------------------------------------------------
(***************************************************************************)
(* The steps of an admin call                                              *)
(***************************************************************************)
\* A step of the call a that leaves the table alone: a's locals become d.
CallMoves(a, d) ==
  /\ admin' = [admin EXCEPT ![a] = d]
  /\ UNCHANGED <<table, reloadVars>>
  /\ files' \in SUBSET Module
  /\ calls' \in 0..MaxCalls

LEMMA MoveKeeps ==
  ASSUME Inv, NEW a \in Admin, NEW d \in Call, Current(d), CallMoves(a, d)
  PROVE  Inv'
<1>1. /\ table' = table /\ enabled' = enabled /\ reload' = reload
      /\ applied' = applied /\ reloads' = reloads
  BY DEF CallMoves, reloadVars
<1>2. admin' \in [Admin -> Call] /\ \A b \in Admin : admin'[b] = IF b = a THEN d ELSE admin[b]
  BY DEF CallMoves, Inv, TypeOK
<1>3. TypeOK'
  BY <1>1, <1>2 DEF CallMoves, Inv, TypeOK
<1>4. CallsCurrent'
  <2> SUFFICES ASSUME NEW b \in Admin PROVE Current(admin[b])'
    BY DEF CallsCurrent
  <2>1. Current(admin[b])
    BY DEF Inv, CallsCurrent
  <2>2. CASE b = a
    BY <2>2, <1>1, <1>2 DEF Current, Full
  <2>3. CASE b # a
    BY <2>1, <2>3, <1>1, <1>2 DEF Current
  <2> QED
    BY <2>2, <2>3
<1>5. Sound(table)' /\ Sound(reload.loaded)' /\ OwnsConfigured'
  BY <1>1, Zenon DEF Inv, OwnsConfigured, Sound
<1> QED
  BY <1>3, <1>4, <1>5 DEF Inv

LEMMA BeginKeeps ==
  ASSUME Inv, NEW a \in Admin, NEW op \in Ops, NEW r \in Route, NEW binds \in BOOLEAN,
         Begin(a, op, r, binds)
  PROVE  Inv'
<1>1. PICK d : d = [Idle EXCEPT !.pc = "work", !.op = op, !.route = r, !.binds = binds]
  OBVIOUS
<1>2. d \in Call /\ Current(d)
  BY <1>1, BegunCall, NotSwapping
<1>3. calls' \in 0..MaxCalls
  BY BindingsAssumption DEF Begin, Inv, TypeOK
<1>4. CallMoves(a, d)
  BY <1>1, <1>3 DEF Begin, CallMoves, Inv, TypeOK, reloadVars
<1> QED
  BY <1>2, <1>4, MoveKeeps

LEMMA EndKeeps ==
  ASSUME Inv, NEW a \in Admin, Refuse(a) \/ GiveUp(a)
  PROVE  Inv'
<1>1. PICK d : d = Idle
  OBVIOUS
<1>2. d \in Call /\ Current(d)
  BY <1>1, IdleFacts, NotSwapping
<1>3. CallMoves(a, d)
  BY <1>1 DEF Refuse, GiveUp, CallMoves, Inv, TypeOK, reloadVars
<1> QED
  BY <1>2, <1>3, MoveKeeps

LEMMA ArtifactKeeps ==
  ASSUME Inv, NEW a \in Admin, Artifact(a)
  PROVE  Inv'
<1>1. admin[a] \in Call /\ admin[a].op \in Ops /\ admin[a].route.module \in Module
  BY DEF Inv, TypeOK, Call, Route
<1>2. PICK d : /\ d = Idle \/ d = [admin[a] EXCEPT !.pc = "load"]
               /\ admin' = [admin EXCEPT ![a] = d]
  BY DEF Artifact
<1>3. d \in Call /\ Current(d)
  BY <1>1, <1>2, IdleFacts, MovedCall, NotSwapping
<1>4. files' \in SUBSET Module
  BY <1>1 DEF Artifact, Ops, Inv, TypeOK
<1>5. CallMoves(a, d)
  BY <1>2, <1>4 DEF Artifact, CallMoves, Inv, TypeOK, reloadVars
<1> QED
  BY <1>3, <1>5, MoveKeeps

LEMMA LoadKeeps ==
  ASSUME Inv, NEW a \in Admin, LoadTable(a)
  PROVE  Inv'
<1>1. /\ admin[a] \in Call /\ table \in Table /\ admin[a].tries < CasAttempts
      /\ UNCHANGED <<table, files, calls, reloadVars>>
  BY DEF Inv, TypeOK, LoadTable
<1>2. PICK d : /\ IF admin[a].op # "delete" /\ Full(table, admin[a].route.path) THEN d = Idle
                  ELSE d = [admin[a] EXCEPT !.pc = "cas", !.tries = @ + 1, !.loaded = table,
                                            !.fresh = TRUE]
               /\ admin' = [admin EXCEPT ![a] = d]
  BY DEF LoadTable
<1>3. d \in Call /\ Current(d)
  <2>1. CASE admin[a].op # "delete" /\ Full(table, admin[a].route.path)
    BY <1>2, <2>1, IdleFacts, NotSwapping
  <2>2. CASE ~(admin[a].op # "delete" /\ Full(table, admin[a].route.path))
    <3>1. d = [admin[a] EXCEPT !.pc = "cas", !.tries = @ + 1, !.loaded = table, !.fresh = TRUE]
      BY <1>2, <2>2
    <3>2. PICK c, t : c = admin[a] /\ t = table
      OBVIOUS
    <3>3. d = [c EXCEPT !.pc = "cas", !.tries = @ + 1, !.loaded = t, !.fresh = TRUE]
      BY <3>1, <3>2
    <3>4. d \in Call /\ d.op = c.op /\ d.route = c.route /\ d.loaded = t
      <4>1. c \in Call /\ t \in Table /\ c.tries + 1 \in 0..CasAttempts
        BY <1>1, <3>2, BindingsAssumption DEF Call
      <4> QED
        BY <3>3, <4>1 DEF Call
    <3> QED
      BY <2>2, <3>2, <3>4 DEF Current
  <2> QED
    BY <2>1, <2>2
<1>4. CallMoves(a, d)
  BY <1>1, <1>2 DEF CallMoves, Inv, TypeOK, reloadVars
<1> QED
  BY <1>3, <1>4, MoveKeeps

LEMMA LostKeeps ==
  ASSUME Inv, NEW a \in Admin, SwapLost(a)
  PROVE  Inv'
<1>1. admin[a] \in Call
  BY DEF Inv, TypeOK
<1>2. PICK d : d = [admin[a] EXCEPT !.pc = "load", !.loaded = Empty]
  OBVIOUS
<1>3. d \in Call /\ Current(d)
  BY <1>1, <1>2, LostCall, NotSwapping
<1>4. CallMoves(a, d)
  BY <1>2 DEF SwapLost, CallMoves, Inv, TypeOK, reloadVars
<1> QED
  BY <1>3, <1>4, MoveKeeps

-----------------------------------------------------------------------------
(***************************************************************************)
(* The steps that publish a table                                          *)
(***************************************************************************)
\* What a successful swap publishes, as seen from the published table.
Published(a) ==
  LET r == admin[a].route
  IN /\ Sound(table') /\ table'.owned \subseteq table.owned
     /\ IF admin[a].op = "delete"
        THEN Entries(table') = {e \in Entries(table) : e.module # r.module}
        ELSE Entries(table') = {e \in Entries(table) : e.path # r.path} \cup {r}

(***************************************************************************)
(* A swap that succeeds works on the published table: the compare-and-swap *)
(* (bind_dynamic_route, unbind_dynamic_module) lets no other through.      *)
(***************************************************************************)
LEMMA SwapPublishes ==
  ASSUME Inv, NEW a \in Admin, Swap(a)
  PROVE  Published(a)
<1>1. admin[a] \in Call /\ admin[a].pc = "cas"
  BY DEF Inv, TypeOK, Swap
<1>2. admin[a].fresh = TRUE
  <2>1. admin[a].fresh \in BOOLEAN
    BY <1>1 DEF Call
  <2> QED
    BY <2>1, Zenon DEF Swap
<1>3. /\ admin[a].loaded = table
      /\ admin[a].op # "delete" => ~Full(table, admin[a].route.path)
  BY <1>1, <1>2 DEF Inv, CallsCurrent, Current
<1>4. Sound(table)
  BY DEF Inv
<1>5. table' = IF admin[a].op = "delete" THEN UnbindModule(table, admin[a].route.module)
               ELSE BindOwned(table, admin[a].route, {})
  BY <1>3 DEF Swap, NextTable
<1>6. CASE admin[a].op = "delete"
  <2>1. Unbound(table, admin[a].route.module, table')
    BY <1>4, <1>5, <1>6, UnbindFacts
  <2> QED
    BY <1>6, <2>1 DEF Unbound, Published
<1>7. CASE admin[a].op # "delete"
  <2>1. admin[a].route \in Route
    BY <1>1 DEF Call
  <2>2. Rebound(table, admin[a].route, {}, table')
    BY <1>4, <1>5, <1>7, <2>1, BindFacts DEF Sound
  <2>3. Sound(table') /\ table'.owned = table.owned \cup {}
    BY <1>3, <1>4, <1>5, <1>7, <2>1, BindSound
  <2> QED
    BY <1>7, <2>2, <2>3 DEF Rebound, Published
<1> QED
  BY <1>6, <1>7

(***************************************************************************)
(* A store by anyone leaves no call that could still swap.                 *)
(***************************************************************************)
LEMMA StoreOutdates ==
  ASSUME Inv, NEW a,
         \/ admin' = [b \in Admin |-> Outdated(admin[b])]
         \/ admin' = [[b \in Admin |-> Outdated(admin[b])] EXCEPT ![a] = Idle]
  PROVE  admin' \in [Admin -> Call] /\ CallsCurrent'
<1>1. \A b \in Admin : admin'[b] = Outdated(admin[b]) \/ admin'[b] = Idle
  OBVIOUS
<1>2. \A b \in Admin : Outdated(admin[b]) \in Call /\ Outdated(admin[b]).fresh = FALSE
  BY OutdatedCall DEF Inv, TypeOK
<1>3. admin' \in [Admin -> Call]
  BY <1>2, IdleFacts
<1>4. ASSUME NEW b \in Admin PROVE Current(admin[b])'
  <2>1. CASE admin'[b] = Idle
    BY <2>1, IdleFacts DEF Current
  <2>2. CASE admin'[b] = Outdated(admin[b])
    <3>1. admin'[b].fresh = FALSE
      BY <2>2, <1>2
    <3> QED
      BY <3>1, Zenon DEF Current
  <2> QED
    BY <1>1, <2>1, <2>2
<1> QED
  BY <1>3, <1>4 DEF CallsCurrent

LEMMA SwapKeeps ==
  ASSUME Inv, NEW a \in Admin, Swap(a)
  PROVE  Inv'
<1>1. /\ enabled' = enabled /\ reload' = reload /\ applied' = applied /\ reloads' = reloads
      /\ files' = files /\ calls' = calls
  BY DEF Swap, reloadVars
<1>2. Sound(table') /\ table'.owned \subseteq table.owned
  BY SwapPublishes DEF Published
<1>3. admin' \in [Admin -> Call] /\ CallsCurrent'
  BY StoreOutdates DEF Swap
<1>4. table' \in Table
  BY <1>2 DEF Sound, Shaped
<1>5. TypeOK'
  BY <1>1, <1>3, <1>4 DEF Inv, TypeOK
<1>6. OwnsConfigured'
  BY <1>1, <1>2 DEF Inv, OwnsConfigured, ConfiguredPaths
<1>7. Sound(reload'.loaded)
  BY <1>1 DEF Inv
<1> QED
  BY <1>2, <1>3, <1>5, <1>6, <1>7 DEF Inv, Sound

-----------------------------------------------------------------------------
(***************************************************************************)
(* The steps of a reload                                                   *)
(***************************************************************************)
\* A step of the reload that leaves the table alone.
ReloadMoves ==
  /\ reload' \in Reload /\ (reload'.loaded = Empty \/ reload'.loaded = reload.loaded
                              \/ reload'.loaded = table)
  /\ enabled' \in BOOLEAN
  /\ reloads' \in 0..MaxReloads
  /\ UNCHANGED <<table, files, admin, applied, calls>>

LEMMA ReloadMoveKeeps ==
  ASSUME Inv, ReloadMoves
  PROVE  Inv'
<1>1. table' = table /\ files' = files /\ admin' = admin /\ applied' = applied /\ calls' = calls
  BY DEF ReloadMoves
<1>2. TypeOK'
  BY <1>1 DEF Inv, TypeOK, ReloadMoves, Reload
<1>3. Sound(reload'.loaded)
  BY EmptyFacts DEF ReloadMoves, Inv
<1>4. CallsCurrent'
  BY <1>1 DEF Inv, CallsCurrent, Current, Full
<1>5. Sound(table') /\ OwnsConfigured'
  BY <1>1 DEF Inv, OwnsConfigured, ConfiguredPaths
<1> QED
  BY <1>2, <1>3, <1>4, <1>5 DEF Inv, Sound

LEMMA ReloadBeginKeeps ==
  ASSUME Inv, NEW c \in Config, ReloadBegin(c)
  PROVE  Inv'
<1>1. AnyConfig \in Config
  BY DEF AnyConfig
<1>2. reload' \in Reload /\ reload'.loaded = Empty
  BY <1>1, EmptyFacts DEF ReloadBegin, NoReload, Reload
<1>3. reloads' \in 0..MaxReloads
  BY BindingsAssumption DEF ReloadBegin, Inv, TypeOK
<1>4. ReloadMoves
  BY <1>2, <1>3 DEF ReloadBegin, ReloadMoves, Inv, TypeOK
<1> QED
  BY <1>4, ReloadMoveKeeps

LEMMA ApplyKeeps ==
  ASSUME Inv, ApplyDynamic
  PROVE  Inv'
<1>1. reload \in Reload /\ reload.cfg \in Config
  BY DEF Inv, TypeOK, Reload
<1>2. reload' \in Reload /\ reload'.loaded = reload.loaded
  BY <1>1 DEF ApplyDynamic, Reload
<1>3. enabled' \in BOOLEAN
  BY <1>1, BindingsAssumption DEF ApplyDynamic
<1>4. ReloadMoves
  BY <1>2, <1>3 DEF ApplyDynamic, ReloadMoves, Inv, TypeOK
<1> QED
  BY <1>4, ReloadMoveKeeps

LEMMA LoadRoutesKeeps ==
  ASSUME Inv, LoadRoutes
  PROVE  Inv'
<1>1. reload' \in Reload /\ reload'.loaded = table
  BY DEF Inv, TypeOK, LoadRoutes, Reload
<1>2. ReloadMoves
  BY <1>1 DEF LoadRoutes, ReloadMoves, Inv, TypeOK
<1> QED
  BY <1>2, ReloadMoveKeeps

LEMMA StoreKeeps ==
  ASSUME Inv, StoreRoutes
  PROVE  Inv'
<1>1. reload \in Reload /\ reload.cfg \in Config
  BY DEF Inv, TypeOK, Reload
<1>2. /\ enabled' = enabled /\ files' = files /\ calls' = calls /\ reloads' = reloads
      /\ applied' = reload.cfg /\ reload' = NoReload
  BY DEF StoreRoutes
<1>3. Sound(table') /\ table'.owned \subseteq ConfiguredPaths(reload.cfg)
  <2>1. CASE reload.cfg.on
    <3>1. table' = Reconcile(reload.loaded, reload.cfg.routes)
      BY <2>1 DEF StoreRoutes
    <3>2. Sound(reload.loaded) /\ reload.cfg.routes \in Seq(Route)
      BY <1>1, BindingsAssumption DEF Inv
    <3> QED
      BY <3>1, <3>2, ReconcileFacts DEF ConfiguredPaths
  <2>2. CASE ~reload.cfg.on
    <3>1. table' = Empty
      BY <2>2 DEF StoreRoutes
    <3> QED
      BY <3>1, EmptyFacts
  <2> QED
    BY <2>1, <2>2
<1>4. table' \in Table
  BY <1>3 DEF Sound, Shaped
<1>5. admin' \in [Admin -> Call] /\ CallsCurrent'
  BY StoreOutdates DEF StoreRoutes
<1>6. reload' \in Reload /\ reload'.loaded = Empty
  <2>1. AnyConfig \in Config
    BY <1>1 DEF AnyConfig
  <2> QED
    BY <1>2, <2>1, EmptyFacts DEF NoReload, Reload
<1>7. TypeOK'
  BY <1>1, <1>2, <1>4, <1>5, <1>6 DEF Inv, TypeOK, Reload
<1>8. Sound(reload'.loaded)
  BY <1>6, EmptyFacts
<1>9. OwnsConfigured'
  BY <1>2, <1>3 DEF OwnsConfigured, ConfiguredPaths
<1> QED
  BY <1>3, <1>5, <1>7, <1>8, <1>9 DEF Inv, Sound

-----------------------------------------------------------------------------
(***************************************************************************)
(* What the table promises                                                 *)
(***************************************************************************)
LEMMA NextInv == Inv /\ [Next]_vars => Inv'
<1> SUFFICES ASSUME Inv, [Next]_vars PROVE Inv'
  OBVIOUS
<1>1. ASSUME NEW a \in Admin, AdminNext(a) PROVE Inv'
  BY <1>1, BeginKeeps, EndKeeps, ArtifactKeeps, LoadKeeps, SwapKeeps, LostKeeps DEF AdminNext
<1>2. ASSUME NEW c \in Config, ReloadBegin(c) PROVE Inv'
  BY <1>2, ReloadBeginKeeps
<1>3. CASE ApplyDynamic \/ LoadRoutes \/ StoreRoutes
  BY <1>3, ApplyKeeps, LoadRoutesKeeps, StoreKeeps
<1>4. CASE UNCHANGED vars
  <2>1. /\ enabled' = enabled /\ table' = table /\ files' = files /\ admin' = admin
        /\ reload' = reload /\ applied' = applied /\ calls' = calls /\ reloads' = reloads
    BY <1>4 DEF vars
  <2> QED
    BY <2>1, ReloadMoveKeeps DEF ReloadMoves, Inv, TypeOK, Reload
<1> QED
  BY <1>1, <1>2, <1>3, <1>4 DEF Next

(***************************************************************************)
(* Every reachable table is in search order, binds a path once and stays   *)
(* within MAX_BINDINGS; a call that can still swap holds the published     *)
(* table (dynamic_routes.rs, state.rs).                                    *)
(***************************************************************************)
THEOREM InvHolds == Spec => []Inv
<1> QED
  BY InitInv, NextInv, PTL DEF Spec

(***************************************************************************)
(* The admin calls, the reload and the table keep their types.             *)
(***************************************************************************)
THEOREM TypeCorrect == Spec => []TypeOK
<1>1. Inv => TypeOK
  BY DEF Inv
<1> QED
  BY <1>1, InvHolds, PTL

(***************************************************************************)
(* lookup serves the most specific binding above a path, after every       *)
(* sequence of binds, removals and reloads.                                *)
(***************************************************************************)
THEOREM MostSpecificServes == Spec => []LookupMostSpecific
<1>1. Inv => LookupMostSpecific
  <2> SUFFICES ASSUME Shaped(table) PROVE LookupMostSpecific
    BY DEF Inv, Sound
  <2> QED
    BY LookupFacts DEF LookupMostSpecific
<1> QED
  BY <1>1, InvHolds, PTL

(***************************************************************************)
(* A path has one binding, the table stays within MAX_BINDINGS, and it     *)
(* owns only bound paths of the configuration in force (bind_owned,        *)
(* unbind_module, reconcile).                                              *)
(***************************************************************************)
THEOREM TableStaysSound == Spec => []TableIsSound
<1>1. Inv => TableIsSound
  <2> SUFFICES ASSUME Inv PROVE TableIsSound
    OBVIOUS
  <2>1. Shaped(table) /\ Cardinality(Bound(table)) <= MaxBindings /\ table.owned \subseteq Bound(table)
    BY DEF Inv, Sound
  <2>2. Size(table) = Cardinality(Bound(table))
    BY <2>1, SizeCounts
  <2>3. table.owned \subseteq {applied.routes[i].path : i \in DOMAIN applied.routes}
    BY DEF Inv, OwnsConfigured, ConfiguredPaths
  <2> QED
    BY <2>1, <2>2, <2>3 DEF TableIsSound, OneBindingPerPath, OwnedIsConfigured
<1> QED
  BY <1>1, InvHolds, PTL

\* The step that NoLostUpdates allows to change the table.
UpdateKept ==
  \/ reload.pc = "write" /\ reload'.pc = "idle"
  \/ \E a \in Admin :
       LET r == admin[a].route
       IN /\ admin[a].pc = "cas" /\ admin'[a].pc = "idle"
          /\ IF admin[a].op = "delete"
             THEN Entries(table') = {e \in Entries(table) : e.module # r.module}
             ELSE /\ r \in Entries(table')
                  /\ {e \in Entries(table') : e.path # r.path}
                       = {e \in Entries(table) : e.path # r.path}

LEMMA SwapKeepsUpdates ==
  ASSUME Inv, NEW a \in Admin, Swap(a)
  PROVE  UpdateKept
<1> DEFINE r == admin[a].route
<1>1. admin[a].pc = "cas" /\ admin'[a].pc = "idle"
  BY IdleFacts DEF Swap
<1>2. IF admin[a].op = "delete"
      THEN Entries(table') = {e \in Entries(table) : e.module # r.module}
      ELSE Entries(table') = {e \in Entries(table) : e.path # r.path} \cup {r}
  BY SwapPublishes DEF Published
<1>3. CASE admin[a].op = "delete"
  BY <1>1, <1>2, <1>3, Zenon DEF UpdateKept
<1>4. CASE admin[a].op # "delete"
  <2>1. PICK q, new, old : q = r /\ new = Entries(table') /\ old = Entries(table)
    OBVIOUS
  <2>2. new = {e \in old : e.path # q.path} \cup {q}
    BY <1>2, <1>4, <2>1
  <2>3. q \in new /\ {e \in new : e.path # q.path} = {e \in old : e.path # q.path}
    BY <2>2
  <2>4. r \in Entries(table')
        /\ {e \in Entries(table') : e.path # r.path} = {e \in Entries(table) : e.path # r.path}
    BY <2>1, <2>3
  <2> QED
    BY <1>1, <1>4, <2>4, Zenon DEF UpdateKept
<1> QED
  BY <1>3, <1>4

(***************************************************************************)
(* No registration is lost to another (bind_dynamic_route,                 *)
(* unbind_dynamic_module): a swap changes the binding of its own path, or  *)
(* removes the bindings of its own module, in the table that was published *)
(* until then.                                                             *)
(***************************************************************************)
THEOREM NothingIsLost == Spec => NoLostUpdates
<1>1. Inv /\ [Next]_vars => [table' # table => UpdateKept]_vars
  <2> SUFFICES ASSUME Inv, Next, table' # table PROVE UpdateKept
    BY DEF vars
  <2>1. ASSUME NEW a \in Admin, AdminNext(a) PROVE Swap(a)
    BY <2>1 DEF AdminNext, Begin, Refuse, Artifact, LoadTable, GiveUp, SwapLost
  <2>2. ASSUME NEW c \in Config, ReloadBegin(c) PROVE FALSE
    BY <2>2 DEF ReloadBegin
  <2>3. ~ApplyDynamic /\ ~LoadRoutes
    BY DEF ApplyDynamic, LoadRoutes
  <2>4. CASE StoreRoutes
    <3>1. reload.pc = "write" /\ reload'.pc = "idle"
      BY <2>4 DEF StoreRoutes, NoReload
    <3> QED
      BY <3>1 DEF UpdateKept
  <2> QED
    BY <2>1, <2>2, <2>3, <2>4, SwapKeepsUpdates DEF Next
<1>2. NoLostUpdates <=> [][table' # table => UpdateKept]_vars
  BY DEF NoLostUpdates, UpdateKept
<1> QED
  BY <1>1, <1>2, InvHolds, PTL DEF Spec

-----------------------------------------------------------------------------
(***************************************************************************)
(* ModuleCache.                                                            *)
(***************************************************************************)
FileRecord == {NoFile} \cup [at : {"file"}, version : Nat, valid : BOOLEAN, seq : Nat]
EntryRecord == {NoFile} \cup [at : {"entry"}, version : Nat, seq : Nat]
UploadRecord == [at : {"idle", "done"}] \cup [at : {"written"}, version : Nat, valid : BOOLEAN]
RequestRecord ==
  [at : {"idle", "refused"}]
  \cup [at : {"look", "wait", "compile"}, version : Nat, since : Nat]
  \cup [at : {"built"}, version : Nat, since : Nat, seq : Nat]
  \cup [at : {"served"}, since : Nat, seq : Nat]

CacheTypeOK ==
  /\ disk \in FileRecord /\ cache \in EntryRecord
  /\ seq \in Nat /\ clock \in Nat
  /\ up \in [Uploads -> UploadRecord]
  /\ req \in [Requests -> RequestRecord]

Seeking == {r \in Requests : req[r].at \in {"look", "wait", "compile", "built"}}
Written == {u \in Uploads : up[u].at = "written"}

\* A file that is not installed yet has a version that nobody has seen.
UploadsAreFresh ==
  \A u \in Written :
    /\ up[u].version <= clock
    /\ \A v \in Written : up[v].version = up[u].version => v = u
    /\ disk # NoFile => disk.version # up[u].version
    /\ cache # NoFile => cache.version # up[u].version
    /\ \A r \in Seeking : req[r].version # up[u].version

\* What is on disk, what requests saw and what the cache holds was installed.
SeenIsOld ==
  /\ disk # NoFile => disk.version <= clock /\ disk.seq <= seq
  /\ cache # NoFile => cache.version <= clock
  /\ \A r \in Seeking : req[r].version <= clock /\ req[r].since <= seq

\* A version was installed once, and the file never goes back.
VersionsAreInstalledOnce ==
  \A r \in Seeking :
    /\ disk # NoFile => req[r].since <= disk.seq
    /\ disk # NoFile /\ disk.version = req[r].version => req[r].since = disk.seq
    /\ \A q \in Seeking : req[q].version = req[r].version => req[q].since = req[r].since

\* An entry is no older than the file whose version it is filed under.
EntryIsRecent ==
  /\ cache # NoFile /\ disk # NoFile /\ cache.version = disk.version => disk.seq <= cache.seq
  /\ \A r \in Seeking : cache # NoFile /\ cache.version = req[r].version => req[r].since <= cache.seq
  /\ \A r \in Requests : req[r].at = "built" => req[r].since <= req[r].seq

CacheInv ==
  /\ CacheTypeOK /\ UploadsAreFresh /\ SeenIsOld
  /\ VersionsAreInstalledOnce /\ EntryIsRecent /\ CacheIsFresh

LEMMA CacheInvInit == CacheInit => CacheInv
  BY DEF CacheInit, CacheInv, CacheTypeOK, UploadsAreFresh, SeenIsOld, VersionsAreInstalledOnce,
     EntryIsRecent, CacheIsFresh, FileRecord, EntryRecord, UploadRecord, RequestRecord, Seeking,
     Written, NoFile

LEMMA CacheInvNext == CacheInv /\ [CacheNext]_cacheVars => CacheInv'
<1> SUFFICES ASSUME CacheInv, [CacheNext]_cacheVars PROVE CacheInv'
  OBVIOUS
<1> USE DEF CacheInv, CacheTypeOK, UploadsAreFresh, SeenIsOld, VersionsAreInstalledOnce,
     EntryIsRecent, CacheIsFresh, FileRecord, EntryRecord, UploadRecord, RequestRecord, Seeking,
     Written, NoFile
<1>1. ASSUME NEW u \in Uploads, NEW valid \in BOOLEAN, Write(u, valid) PROVE CacheInv'
  BY <1>1 DEF Write
<1>2. ASSUME NEW u \in Uploads, Rename(u) PROVE CacheInv'
  BY <1>2 DEF Rename
<1>3. ASSUME NEW u \in Uploads, StoreFails(u) PROVE CacheInv'
  BY <1>3 DEF StoreFails
<1>4. CASE RemoveFile
  BY <1>4 DEF RemoveFile
<1>5. ASSUME NEW r \in Requests, Stat(r) PROVE CacheInv'
  <2>1. CASE disk = NoFile
    <3>1. /\ req' = [req EXCEPT ![r] = [at |-> "refused"]]
          /\ disk = NoFile /\ cache' = NoFile /\ UNCHANGED <<disk, seq, clock, up>>
      BY <1>5, <2>1 DEF Stat, GoOn
    <3>2. CacheTypeOK'
      BY <3>1
    <3>3. \A q \in Seeking' : q \in Seeking /\ req'[q] = req[q]
      BY <3>1
    <3>4. UploadsAreFresh' /\ SeenIsOld' /\ VersionsAreInstalledOnce'
      BY <3>1, <3>3
    <3>5. EntryIsRecent' /\ CacheIsFresh'
      BY <3>1
    <3> QED
      BY <3>2, <3>4, <3>5
  <2>2. CASE disk # NoFile
    <3>1. /\ req' = [req EXCEPT ![r] = [at |-> "look", version |-> disk.version, since |-> disk.seq]]
          /\ UNCHANGED <<disk, cache, seq, clock, up>>
      BY <1>5, <2>2 DEF Stat, GoOn
    <3>2. CacheTypeOK'
      BY <2>2, <3>1
    <3>3. Seeking' = Seeking \cup {r}
      BY <3>1
    <3>4. \A q \in Seeking : q # r
      BY <1>5 DEF Stat
    <3>5. UploadsAreFresh'
      BY <2>2, <3>1, <3>3
    <3>6. SeenIsOld' /\ EntryIsRecent' /\ CacheIsFresh'
      BY <2>2, <3>1, <3>3
    <3>7. VersionsAreInstalledOnce'
      BY <2>2, <3>1, <3>3, <3>4
    <3> QED
      BY <3>2, <3>5, <3>6, <3>7
  <2> QED
    BY <2>1, <2>2
<1>6. ASSUME NEW r \in Requests, Look(r) PROVE CacheInv'
  BY <1>6 DEF Look, GoOn, Hit, Served
<1>7. ASSUME NEW r \in Requests, Acquire(r) PROVE CacheInv'
  BY <1>7 DEF Acquire, GoOn, Hit, Served
<1>8. ASSUME NEW r \in Requests, Compile(r) PROVE CacheInv'
  BY <1>8 DEF Compile, GoOn
<1>9. ASSUME NEW r \in Requests, InsertEntry(r) PROVE CacheInv'
  <2>1. /\ req[r].at = "built"
        /\ cache' = [at |-> "entry", version |-> req[r].version, seq |-> req[r].seq]
        /\ req' = [req EXCEPT ![r] = [at |-> "served", since |-> req[r].since, seq |-> req[r].seq]]
        /\ UNCHANGED <<disk, seq, clock, up>>
    BY <1>9 DEF InsertEntry, GoOn, Served
  <2>2. CacheTypeOK'
    BY <2>1
  <2>3. \A q \in Seeking' : q \in Seeking /\ req'[q] = req[q]
    BY <2>1
  <2>4. r \in Seeking
    BY <2>1
  <2>5. UploadsAreFresh' /\ SeenIsOld' /\ VersionsAreInstalledOnce'
    BY <2>1, <2>3, <2>4
  <2>6. EntryIsRecent'
    BY <2>1, <2>3, <2>4
  <2>7. CacheIsFresh'
    BY <2>1
  <2> QED
    BY <2>2, <2>5, <2>6, <2>7
<1>10. ASSUME NEW r \in Requests, Cancel(r) PROVE CacheInv'
  BY <1>10 DEF Cancel, GoOn
<1>11. CASE UNCHANGED cacheVars
  BY <1>11 DEF cacheVars
<1> HIDE DEF CacheInv, CacheTypeOK, UploadsAreFresh, SeenIsOld, VersionsAreInstalledOnce,
     EntryIsRecent, CacheIsFresh, FileRecord, EntryRecord, UploadRecord, RequestRecord, Seeking,
     Written, NoFile
<1> QED
  BY <1>1, <1>2, <1>3, <1>4, <1>5, <1>6, <1>7, <1>8, <1>9, <1>10, <1>11 DEF CacheNext

\* The inductive invariant of the compiled-module cache holds in every reachable
\* state: versions are installed once, what requests saw is installed, and an
\* entry is no older than the file it is filed under (dynamic.rs get_or_compile).
THEOREM CacheInvHolds == CacheSpec => []CacheInv
  BY CacheInvInit, CacheInvNext, PTL DEF CacheSpec

\* A request is never served by a module older than the file it found on disk,
\* whatever uploads, removals and compilers it meets (dynamic.rs get_or_compile).
THEOREM CacheStaysFresh == CacheSpec => []CacheIsFresh
  BY CacheInvHolds, PTL DEF CacheInv

-----------------------------------------------------------------------------
(***************************************************************************)
(* PluginStore.                                                            *)
(***************************************************************************)
StoreEntries == Keys \X Nat
ScanAts == {"valid", "peek", "advance", "drop", "dead"}

SetCalls == [at : {"total", "insert"}, key : Keys, size : Sizes, ttl : {0, Ttl}, released : Nat]
GetCalls == [at : {"get"}, key : Keys, cap : Nat, tries : Nat]
ReapCalls == [at : {"reap"}, key : Keys, clock : Nat]
ResetCalls == [at : {"reset"}]
SweepCalls == [at : {"sweep"}, key : Nat, clock : Nat, bytes : Nat, scan : BOOLEAN]
ReclaimCalls == [at : {"reclaim"}, clock : Nat, scan : BOOLEAN]
AccountCalls == [at : {"account"}, added : Nat, removed : Nat, then : {NoCall} \cup ReclaimCalls]
SnapshotCalls == [at : {"snapshot"}, key : Nat, clock : Nat, entries : Seq(StoreEntries)]
ScanCalls == [at : ScanAts, cursor : Nat, cap : Nat, first : BOOLEAN,
              got : Seq(StoreEntries), all : Seq(StoreEntries), born : Nat]

Calls ==
  {NoCall} \cup SetCalls \cup GetCalls \cup ReapCalls \cup ResetCalls \cup SweepCalls
    \cup ReclaimCalls \cup AccountCalls \cup SnapshotCalls \cup ScanCalls

CursorStates == [entries : Seq(StoreEntries), pos : Nat, created : Nat]

KvTypeOK == \A k \in DOMAIN kv : k \in Keys /\ kv[k].size \in Nat

CursorsTypeOK ==
  /\ \A i \in DOMAIN cursors : i \in Nat /\ i < ids /\ cursors[i] \in CursorStates
  /\ ids \in Nat /\ now \in Nat /\ IsFiniteSet(DOMAIN cursors)

\* The clock a sweep goes by was read from the one clock.
ClockIsPast(c, t) ==
  /\ c.at \in {"sweep", "reclaim"} => c.clock <= t
  /\ c.at = "account" /\ c.then.at = "reclaim" => c.then.clock <= t

CallsTypeOK == call \in [Workers -> Calls] /\ \A w \in Workers : ClockIsPast(call[w], now)

\* Scans have cursors of their own.
CursorsAreOwned ==
  /\ \A w \in Workers : call[w].at \in ScanAts => call[w].cursor < ids
  /\ \A v, w \in Workers :
       v # w /\ call[v].at \in ScanAts /\ call[w].at \in ScanAts => call[v].cursor # call[w].cursor

\* How far a scan has come, with its cursor and, when that is gone, without it.
Progress(c, cs, t) ==
  c.at \in ScanAts =>
    /\ c.born <= t
    /\ c.at \in {"valid", "peek", "advance"} /\ c.cursor \in DOMAIN cs =>
         cs[c.cursor].entries = c.all /\ cs[c.cursor].created = c.born
    /\ c.at \in {"valid", "peek"} /\ c.cursor \in DOMAIN cs =>
         cs[c.cursor].pos <= Len(c.all) /\ c.got = SubSeq(c.all, 1, cs[c.cursor].pos)
    /\ c.at = "advance" /\ c.cursor \in DOMAIN cs =>
         cs[c.cursor].pos < Len(c.all) /\ c.got = SubSeq(c.all, 1, cs[c.cursor].pos + 1)
    /\ c.at \in {"valid", "peek", "advance"} /\ c.cursor \notin DOMAIN cs =>
         t - c.born >= CursorTtl \/ c.got = c.all
    /\ c.at \in {"drop", "dead"} =>
         \/ t - c.born >= CursorTtl \/ c.got = c.all
         \/ \E i \in 1..Len(c.all) : PairLen(c.all[i]) > MaxRead

ScansProgress == \A w \in Workers : Progress(call[w], cursors, now)

StoreInv ==
  KvTypeOK /\ CursorsTypeOK /\ CallsTypeOK /\ CursorsAreOwned /\ ScansProgress /\ CursorsBounded

LEMMA StoreConstants ==
  /\ Keys \subseteq Nat /\ Sizes \subseteq Nat
  /\ MaxRead \in Nat /\ StartLen \in Nat /\ CursorTtl \in Nat /\ MaxCursors \in Nat
  /\ \A k \in DOMAIN Loaded : k \in Keys /\ Loaded[k].size \in Nat
  BY StoreAssumption

LEMMA CallByPlace ==
  ASSUME NEW c \in Calls
  PROVE  /\ c.at \in {"total", "insert"} => c \in SetCalls
         /\ c.at = "get" => c \in GetCalls
         /\ c.at = "reap" => c \in ReapCalls
         /\ c.at = "sweep" => c \in SweepCalls
         /\ c.at = "reclaim" => c \in ReclaimCalls
         /\ c.at = "account" => c \in AccountCalls
         /\ c.at = "snapshot" => c \in SnapshotCalls
         /\ c.at \in ScanAts => c \in ScanCalls
         /\ c.at = "idle" => c = NoCall
<1>1. CASE c = NoCall
  BY <1>1 DEF NoCall, ScanAts
<1>2. CASE c \in SetCalls
  BY <1>2 DEF SetCalls, ScanAts
<1>3. CASE c \in GetCalls
  BY <1>3 DEF GetCalls, ScanAts
<1>4. CASE c \in ReapCalls
  BY <1>4 DEF ReapCalls, ScanAts
<1>5. CASE c \in ResetCalls
  BY <1>5 DEF ResetCalls, ScanAts
<1>6. CASE c \in SweepCalls
  BY <1>6 DEF SweepCalls, ScanAts
<1>7. CASE c \in ReclaimCalls
  BY <1>7 DEF ReclaimCalls, ScanAts
<1>8. CASE c \in AccountCalls
  BY <1>8 DEF AccountCalls, ScanAts
<1>9. CASE c \in SnapshotCalls
  BY <1>9 DEF SnapshotCalls, ScanAts
<1>10. CASE c \in ScanCalls
  BY <1>10 DEF ScanCalls, ScanAts
<1> QED
  BY <1>1, <1>2, <1>3, <1>4, <1>5, <1>6, <1>7, <1>8, <1>9, <1>10 DEF Calls

LEMMA BytesIsNat == KvTypeOK => \A k : Bytes(k) \in Nat
  BY DEF KvTypeOK, Bytes

\* Memories of a scan outlast the clock.
LEMMA ProgressOn ==
  ASSUME NEW c \in ScanCalls, NEW cs, NEW t \in Nat, NEW u \in Nat, t <= u, Progress(c, cs, t)
  PROVE  Progress(c, cs, u)
<1>1. c.born \in Nat
  BY DEF ScanCalls
<1>2. t - c.born >= CursorTtl => u - c.born >= CursorTtl
  BY <1>1, StoreConstants
<1> QED
  BY <1>1, <1>2 DEF Progress, ScanCalls

LEMMA StoreInvInit == StoreInit => StoreInv
<1> SUFFICES ASSUME StoreInit PROVE StoreInv
  OBVIOUS
<1>1. DOMAIN cursors = {}
  BY DEF StoreInit
<1>2. \A w \in Workers : call[w] = NoCall /\ call[w].at = "idle"
  BY DEF StoreInit, NoCall
<1>3. KvTypeOK
  BY StoreConstants DEF StoreInit, KvTypeOK
<1>4. CursorsTypeOK /\ CursorsBounded
  BY <1>1, StoreConstants, FS_EmptySet DEF StoreInit, CursorsTypeOK, CursorsBounded
<1>5. CallsTypeOK
  BY <1>2 DEF StoreInit, CallsTypeOK, Calls, ClockIsPast
<1>6. CursorsAreOwned /\ ScansProgress
  BY <1>2 DEF CursorsAreOwned, ScansProgress, Progress, ScanAts
<1> QED
  BY <1>3, <1>4, <1>5, <1>6 DEF StoreInv

\* A step of one call that is no step of a scan touches no cursor.
LEMMA QuietCall ==
  ASSUME StoreInv, NEW w \in Workers, NEW c \in Calls, call' = [call EXCEPT ![w] = c],
         c.at \notin ScanAts, ClockIsPast(c, now), UNCHANGED <<cursors, ids, now>>, KvTypeOK'
  PROVE  StoreInv'
<1> USE DEF StoreInv
<1>1. /\ call' \in [Workers -> Calls] /\ call'[w] = c
      /\ \A v \in Workers : v # w => call'[v] = call[v]
  BY DEF CallsTypeOK
<1>2. CallsTypeOK' /\ CursorsTypeOK' /\ CursorsBounded'
  BY <1>1 DEF CallsTypeOK, CursorsTypeOK, CursorsBounded
<1>3. CursorsAreOwned'
  BY <1>1 DEF CursorsAreOwned
<1>4. ScansProgress'
  BY <1>1 DEF ScansProgress, Progress
<1> QED
  BY <1>2, <1>3, <1>4

LEMMA NoCallIsQuiet == NoCall \in Calls /\ NoCall.at \notin ScanAts /\ NoCall.at = "idle" /\ ClockIsPast(NoCall, now)
<1>1. NoCall.at = "idle"
  BY DEF NoCall
<1> QED
  BY <1>1 DEF Calls, ScanAts, ClockIsPast

LEMMA AccountingIsQuiet ==
  ASSUME NEW a \in Nat, NEW b \in Nat, NEW c, c = NoCall \/ c \in ReclaimCalls,
         NEW t, c # NoCall => c.clock <= t
  PROVE  /\ Accounting(a, b, c) \in Calls /\ Accounting(a, b, c).at \notin ScanAts
         /\ ClockIsPast(Accounting(a, b, c), t)
<1>1. PICK d : d = Accounting(a, b, c)
  OBVIOUS
<1>2. d.at = "account" /\ d.then = c /\ d \in AccountCalls
  BY <1>1 DEF Accounting, AccountCalls
<1>3. c.at = "reclaim" => c # NoCall
  BY DEF NoCall
<1>4. ClockIsPast(d, t)
  BY <1>2, <1>3 DEF ClockIsPast
<1> QED
  BY <1>1, <1>2, <1>4 DEF Calls, ScanAts

LEMMA DropType == ASSUME KvTypeOK, NEW S, kv' = Drop(kv, S) \/ kv' = kv PROVE KvTypeOK'
<1>1. CASE kv' = Drop(kv, S)
  <2>1. DOMAIN kv' \subseteq DOMAIN kv /\ \A k \in DOMAIN kv' : kv'[k] = kv[k]
    BY <1>1 DEF Drop
  <2> QED
    BY <2>1 DEF KvTypeOK
<1>2. CASE kv' = kv
  BY <1>2 DEF KvTypeOK
<1> QED
  BY <1>1, <1>2

LEMMA SetsAreQuiet ==
  ASSUME StoreInv, NEW w \in Workers, NEW k \in Keys, NEW v \in Sizes, NEW ttl \in {0, Ttl},
         SetReleased(w, k, v, ttl)
  PROVE  StoreInv'
<1> USE DEF StoreInv
<1>b. \A x : Bytes(x) \in Nat
  BY BytesIsNat
<1>1. StoreInv'
  <2>1. PICK c : c = [at |-> "total", key |-> k, size |-> v, ttl |-> ttl, released |-> Bytes(k)]
    OBVIOUS
  <2>2. call' = [call EXCEPT ![w] = c] /\ UNCHANGED <<cursors, ids, now, kv>>
    BY <2>1 DEF SetReleased, Enter, Goto
  <2>3. c \in SetCalls /\ c.at = "total"
    BY <1>b, <2>1 DEF SetCalls
  <2>4. c \in Calls /\ c.at \notin ScanAts /\ ClockIsPast(c, now)
    BY <2>3 DEF Calls, ScanAts, ClockIsPast
  <2>5. KvTypeOK'
    BY <2>2 DEF KvTypeOK
  <2> QED
    BY <2>2, <2>4, <2>5, QuietCall
<1> QED
  BY <1>1

LEMMA GetsAreQuiet ==
  ASSUME StoreInv, NEW w \in Workers, NEW k \in Keys, GuestGet(w, k) \/ Del(w, k)
  PROVE  StoreInv'
<1> USE DEF StoreInv
<1>b. \A x : Bytes(x) \in Nat
  BY BytesIsNat
<1>2. CASE GuestGet(w, k)
  <2>1. PICK c : c = [at |-> "get", key |-> k, cap |-> StartLen, tries |-> 1]
    OBVIOUS
  <2>2. call' = [call EXCEPT ![w] = c] /\ UNCHANGED <<cursors, ids, now, kv>>
    BY <1>2, <2>1 DEF GuestGet, Enter, Goto
  <2>3. c \in GetCalls /\ c.at = "get"
    BY <2>1, StoreConstants DEF GetCalls
  <2>4. c \in Calls /\ c.at \notin ScanAts /\ ClockIsPast(c, now)
    BY <2>3 DEF Calls, ScanAts, ClockIsPast
  <2>5. KvTypeOK'
    BY <2>2 DEF KvTypeOK
  <2> QED
    BY <2>2, <2>4, <2>5, QuietCall
<1>3. CASE Del(w, k)
  <2>1. PICK c : c = Accounting(0, Bytes(k), NoCall)
    OBVIOUS
  <2>2. call' = [call EXCEPT ![w] = c] /\ UNCHANGED <<cursors, ids, now>> /\ kv' = Drop(kv, {k})
    BY <1>3, <2>1 DEF Del, Enter, Goto
  <2>3. c \in Calls /\ c.at \notin ScanAts /\ ClockIsPast(c, now)
    BY <1>b, <2>1, AccountingIsQuiet
  <2>4. KvTypeOK'
    BY <2>2, DropType
  <2> QED
    BY <2>2, <2>3, <2>4, QuietCall
<1> QED
  BY <1>2, <1>3

LEMMA CallsAreQuiet ==
  ASSUME StoreInv, NEW w \in Workers,
         SetTotal(w) \/ SetInsert(w) \/ Account(w) \/ Get(w) \/ Reap(w)
  PROVE  StoreInv'
<1> USE DEF StoreInv
<1>b. \A x : Bytes(x) \in Nat
  BY BytesIsNat
<1>c. call[w] \in Calls /\ now \in Nat /\ ClockIsPast(call[w], now)
  BY DEF CallsTypeOK, CursorsTypeOK
<1>n. /\ UNCHANGED kv => KvTypeOK'
      /\ UNCHANGED <<cursors, ids, now, kv>> /\ Return(w) => StoreInv'
  <2>1. UNCHANGED kv => KvTypeOK'
    BY DEF KvTypeOK
  <2>2. Return(w) => call' = [call EXCEPT ![w] = NoCall]
    BY DEF Return, Goto
  <2> QED
    BY <2>1, <2>2, NoCallIsQuiet, QuietCall
<1>1. CASE SetTotal(w)
  <2>1. call[w] \in SetCalls /\ UNCHANGED <<cursors, ids, now, kv>>
    BY <1>1, <1>c, CallByPlace DEF SetTotal, At
  <2>2. PICK c : c = [call[w] EXCEPT !.at = "insert"]
    OBVIOUS
  <2>3. Return(w) \/ call' = [call EXCEPT ![w] = c]
    BY <1>1, <2>2 DEF SetTotal, Goto
  <2>4. c \in SetCalls /\ c.at = "insert"
    BY <2>1, <2>2 DEF SetCalls
  <2>5. c \in Calls /\ c.at \notin ScanAts /\ ClockIsPast(c, now)
    BY <2>4 DEF Calls, ScanAts, ClockIsPast
  <2> QED
    BY <1>n, <2>1, <2>3, <2>5, QuietCall
<1>2. CASE SetInsert(w)
  <2>1. call[w] \in SetCalls /\ UNCHANGED <<cursors, ids, now>>
    BY <1>2, <1>c, CallByPlace DEF SetInsert, At
  <2>2. PICK c, e : /\ c = Accounting(1 + call[w].size, Bytes(call[w].key), NoCall)
                    /\ e = [size |-> call[w].size,
                            expires |-> IF call[w].ttl <= 0 THEN Never ELSE now + call[w].ttl]
    OBVIOUS
  <2>3. call' = [call EXCEPT ![w] = c] /\ kv' = Put(kv, call[w].key, e)
    BY <1>2, <2>2 DEF SetInsert, Goto
  <2>4. call[w].key \in Keys /\ call[w].size \in Nat /\ e.size = call[w].size
    BY <2>1, <2>2, StoreConstants DEF SetCalls
  <2>5. KvTypeOK'
    BY <2>3, <2>4 DEF KvTypeOK, Put
  <2>6. c \in Calls /\ c.at \notin ScanAts /\ ClockIsPast(c, now)
    <3>1. 1 + call[w].size \in Nat /\ Bytes(call[w].key) \in Nat
      BY <1>b, <2>4
    <3> QED
      BY <2>2, <3>1, AccountingIsQuiet
  <2> QED
    BY <2>1, <2>3, <2>5, <2>6, QuietCall
<1>3. CASE Account(w)
  <2>1. call[w] \in AccountCalls /\ call[w].at = "account" /\ UNCHANGED <<cursors, ids, now, kv>>
    BY <1>3, <1>c, CallByPlace DEF Account, At
  <2>2. PICK c : c = call[w].then
    OBVIOUS
  <2>3. call' = [call EXCEPT ![w] = c]
    BY <1>3, <2>2 DEF Account, Goto
  <2>4. c = NoCall \/ c \in ReclaimCalls
    BY <2>1, <2>2 DEF AccountCalls
  <2>5. c \in ReclaimCalls => c.at = "reclaim" /\ c.clock <= now
    BY <1>c, <2>1, <2>2 DEF ReclaimCalls, ClockIsPast
  <2>6. c \in ReclaimCalls => c \in Calls /\ c.at \notin ScanAts /\ ClockIsPast(c, now)
    BY <2>5 DEF Calls, ScanAts, ClockIsPast
  <2> QED
    BY <1>n, <2>1, <2>3, <2>4, <2>6, NoCallIsQuiet, QuietCall
<1>4. CASE Get(w)
  <2>1. call[w] \in GetCalls /\ UNCHANGED <<cursors, ids, now, kv>>
    BY <1>4, <1>c, CallByPlace DEF Get, At
  <2>2. PICK k, n, c, d : /\ k = call[w].key /\ n = call[w].tries + 1
                       /\ c = [call[w] EXCEPT !.cap = kv[k].size, !.tries = n]
                       /\ d = [at |-> "reap", key |-> k, clock |-> now]
    OBVIOUS
  <2>3. \/ Return(w)
        \/ k \in DOMAIN kv /\ call' = [call EXCEPT ![w] = c]
        \/ call' = [call EXCEPT ![w] = d]
    BY <1>4, <2>2 DEF Get, Goto
  <2>4. k \in DOMAIN kv => c \in GetCalls /\ c.at = "get"
    <3>1. k \in DOMAIN kv => kv[k].size \in Nat
      BY DEF KvTypeOK
    <3>2. n \in Nat
      BY <2>1, <2>2 DEF GetCalls
    <3> QED
      BY <2>1, <2>2, <3>1, <3>2 DEF GetCalls
  <2>5. d \in ReapCalls /\ d.at = "reap"
    BY <1>c, <2>1, <2>2 DEF GetCalls, ReapCalls
  <2>6. k \in DOMAIN kv => c \in Calls /\ c.at \notin ScanAts /\ ClockIsPast(c, now)
    BY <2>4 DEF Calls, ScanAts, ClockIsPast
  <2>7. d \in Calls /\ d.at \notin ScanAts /\ ClockIsPast(d, now)
    BY <2>5 DEF Calls, ScanAts, ClockIsPast
  <2> QED
    BY <1>n, <2>1, <2>3, <2>6, <2>7, QuietCall
<1>5. CASE Reap(w)
  <2>1. UNCHANGED <<cursors, ids, now>>
    BY <1>5 DEF Reap
  <2>2. PICK k, c : k = call[w].key /\ c = Accounting(0, Bytes(k), NoCall)
    OBVIOUS
  <2>3. \/ Return(w) /\ kv' = kv
        \/ kv' = Drop(kv, {k}) /\ call' = [call EXCEPT ![w] = c]
    BY <1>5, <2>2 DEF Reap, Goto
  <2>4. c \in Calls /\ c.at \notin ScanAts /\ ClockIsPast(c, now)
    BY <1>b, <2>2, AccountingIsQuiet
  <2> QED
    BY <1>n, <2>1, <2>3, <2>4, DropType, QuietCall
<1> QED
  BY <1>1, <1>2, <1>3, <1>4, <1>5

LEMMA SweepsAreQuiet ==
  ASSUME StoreInv, NEW w \in Workers,
         ScanBegin(w) \/ ScanReset(w) \/ SweeperTick(w) \/ Sweep(w) \/ SweepAccount(w)
           \/ Snapshot(w) \/ Abandon(w)
  PROVE  StoreInv'
<1> USE DEF StoreInv
<1>b. \A x : Bytes(x) \in Nat
  BY BytesIsNat
<1>c. call[w] \in Calls /\ now \in Nat /\ ClockIsPast(call[w], now)
  BY DEF CallsTypeOK, CursorsTypeOK
<1>n. UNCHANGED kv => KvTypeOK'
  BY DEF KvTypeOK
<1>s. Snapshotting \in SnapshotCalls /\ Snapshotting.at = "snapshot"
  BY <1>c, EmptySeq DEF Snapshotting, SnapshotCalls
<1>q. Snapshotting \in Calls /\ Snapshotting.at \notin ScanAts /\ ClockIsPast(Snapshotting, now)
  BY <1>s DEF Calls, ScanAts, ClockIsPast
<1>w. ASSUME NEW b \in BOOLEAN
      PROVE  Sweeping(b) \in Calls /\ Sweeping(b).at \notin ScanAts /\ ClockIsPast(Sweeping(b), now)
  <2>1. PICK c : c = Sweeping(b)
    OBVIOUS
  <2>2. c \in SweepCalls /\ c.at = "sweep" /\ c.clock = now
    BY <1>c, <2>1 DEF Sweeping, SweepCalls
  <2>3. c \in Calls /\ c.at \notin ScanAts /\ ClockIsPast(c, now)
    BY <1>c, <2>2 DEF Calls, ScanAts, ClockIsPast
  <2> QED
    BY <2>1, <2>3
<1>1. CASE ScanBegin(w)
  <2>1. PICK c : c = [at |-> "reset"]
    OBVIOUS
  <2>2. /\ UNCHANGED <<cursors, ids, now, kv>>
        /\ call' = [call EXCEPT ![w] = c] \/ call' = [call EXCEPT ![w] = Snapshotting]
    BY <1>1, <2>1 DEF ScanBegin, Enter, Goto
  <2>3. c \in ResetCalls /\ c.at = "reset"
    BY <2>1 DEF ResetCalls
  <2>4. c \in Calls /\ c.at \notin ScanAts /\ ClockIsPast(c, now)
    BY <2>3 DEF Calls, ScanAts, ClockIsPast
  <2> QED
    BY <1>n, <1>q, <2>2, <2>4, QuietCall
<1>2. CASE ScanReset(w)
  BY <1>2, <1>n, <1>w, QuietCall DEF ScanReset, Goto
<1>3. CASE SweeperTick(w)
  BY <1>3, <1>n, <1>w, QuietCall DEF SweeperTick, Enter, Goto
<1>4. CASE Sweep(w)
  <2>1. call[w] \in SweepCalls /\ call[w].at = "sweep" /\ UNCHANGED <<cursors, ids, now>>
    BY <1>4, <1>c, CallByPlace DEF Sweep, At
  <2>2. PICK k, j, n, c, d :
          /\ k = call[w].key /\ j = call[w].key + 1 /\ n = call[w].bytes + Bytes(k)
          /\ c = [call[w] EXCEPT !.key = j, !.bytes = n]
          /\ d = [call[w] EXCEPT !.key = j, !.bytes = call[w].bytes]
    OBVIOUS
  <2>3. /\ kv' = Drop(kv, {k}) \/ kv' = kv
        /\ call' = [call EXCEPT ![w] = c] \/ call' = [call EXCEPT ![w] = d]
    BY <1>4, <2>2 DEF Sweep, Goto
  <2>4. n \in Nat /\ j \in Nat
    BY <1>b, <2>1, <2>2 DEF SweepCalls
  <2>5. c \in SweepCalls /\ c.at = "sweep" /\ c.clock = call[w].clock
    BY <2>1, <2>2, <2>4 DEF SweepCalls
  <2>6. d \in SweepCalls /\ d.at = "sweep" /\ d.clock = call[w].clock
    BY <2>1, <2>2, <2>4 DEF SweepCalls
  <2>7. call[w].clock <= now
    BY <1>c, <2>1 DEF ClockIsPast
  <2>8. c \in Calls /\ c.at \notin ScanAts /\ ClockIsPast(c, now)
    BY <2>5, <2>7 DEF Calls, ScanAts, ClockIsPast
  <2>9. d \in Calls /\ d.at \notin ScanAts /\ ClockIsPast(d, now)
    BY <2>6, <2>7 DEF Calls, ScanAts, ClockIsPast
  <2>10. KvTypeOK'
    BY <2>3, DropType
  <2> QED
    BY <2>1, <2>3, <2>8, <2>9, <2>10, QuietCall
<1>5. CASE SweepAccount(w)
  <2>1. call[w] \in SweepCalls /\ call[w].at = "sweep" /\ UNCHANGED <<cursors, ids, now, kv>>
    BY <1>5, <1>c, CallByPlace DEF SweepAccount, At
  <2>2. PICK d, c : /\ d = [at |-> "reclaim", clock |-> call[w].clock, scan |-> call[w].scan]
                    /\ c = Accounting(0, call[w].bytes, d)
    OBVIOUS
  <2>3. call' = [call EXCEPT ![w] = c]
    BY <1>5, <2>2 DEF SweepAccount, Goto
  <2>4. d \in ReclaimCalls /\ d.clock <= now /\ call[w].bytes \in Nat
    BY <1>c, <2>1, <2>2 DEF SweepCalls, ReclaimCalls, ClockIsPast
  <2>5. c \in Calls /\ c.at \notin ScanAts /\ ClockIsPast(c, now)
    BY <2>2, <2>4, AccountingIsQuiet
  <2> QED
    BY <1>n, <2>1, <2>3, <2>5, QuietCall
<1>6. CASE Snapshot(w)
  <2>1. /\ call[w] \in SnapshotCalls /\ call[w].at = "snapshot" /\ call[w].key \in Keys
        /\ UNCHANGED <<cursors, ids, now, kv>>
    BY <1>6, <1>c, CallByPlace DEF Snapshot, At
  <2>2. PICK k, j, s, c, d :
          /\ k = call[w].key /\ j = call[w].key + 1 /\ s = Append(call[w].entries, <<k, kv[k].size>>)
          /\ c = [call[w] EXCEPT !.key = j, !.entries = s]
          /\ d = [call[w] EXCEPT !.key = j, !.entries = call[w].entries]
    OBVIOUS
  <2>9. j \in Nat
    BY <2>1, <2>2 DEF SnapshotCalls
  <2>3. \/ k \in DOMAIN kv /\ call' = [call EXCEPT ![w] = c]
        \/ call' = [call EXCEPT ![w] = d]
    BY <1>6, <2>2 DEF Snapshot, Goto
  <2>4. k \in DOMAIN kv => s \in Seq(StoreEntries)
    <3>1. k \in DOMAIN kv => <<k, kv[k].size>> \in StoreEntries
      BY <2>1, <2>2 DEF StoreEntries, KvTypeOK
    <3>2. call[w].entries \in Seq(StoreEntries)
      BY <2>1 DEF SnapshotCalls
    <3> QED
      BY <2>2, <3>1, <3>2, AppendProperties
  <2>5. k \in DOMAIN kv => c \in SnapshotCalls /\ c.at = "snapshot"
    BY <2>1, <2>2, <2>4, <2>9 DEF SnapshotCalls
  <2>6. d \in SnapshotCalls /\ d.at = "snapshot"
    BY <2>1, <2>2, <2>9 DEF SnapshotCalls
  <2>7. k \in DOMAIN kv => c \in Calls /\ c.at \notin ScanAts /\ ClockIsPast(c, now)
    BY <2>5 DEF Calls, ScanAts, ClockIsPast
  <2>8. d \in Calls /\ d.at \notin ScanAts /\ ClockIsPast(d, now)
    BY <2>6 DEF Calls, ScanAts, ClockIsPast
  <2> QED
    BY <1>n, <2>1, <2>3, <2>7, <2>8, QuietCall
<1>7. CASE Abandon(w)
  BY <1>7, <1>n, NoCallIsQuiet, QuietCall DEF Abandon, Return, Goto
<1> QED
  BY <1>1, <1>2, <1>3, <1>4, <1>5, <1>6, <1>7

LEMMA FewerCursors ==
  ASSUME CursorsTypeOK, CursorsBounded, UNCHANGED <<ids, now>>, DOMAIN cursors' \subseteq DOMAIN cursors,
         \A i \in DOMAIN cursors' : cursors'[i] \in CursorStates
  PROVE  CursorsTypeOK' /\ CursorsBounded'
<1>1. /\ IsFiniteSet(DOMAIN cursors') /\ Cardinality(DOMAIN cursors') <= Cardinality(DOMAIN cursors)
      /\ Cardinality(DOMAIN cursors') \in Nat /\ Cardinality(DOMAIN cursors) \in Nat
  BY FS_Subset, FS_CardinalityType DEF CursorsTypeOK
<1>2. CursorsTypeOK'
  BY <1>1 DEF CursorsTypeOK
<1>3. CursorsBounded'
  BY <1>1, StoreConstants DEF CursorsBounded
<1> QED
  BY <1>2, <1>3

LEMMA DroppedCursors ==
  ASSUME CursorsTypeOK, CursorsBounded, UNCHANGED <<ids, now>>, NEW S, cursors' = Drop(cursors, S)
  PROVE  /\ DOMAIN cursors' = DOMAIN cursors \ S
         /\ \A i \in DOMAIN cursors' : cursors'[i] = cursors[i]
         /\ CursorsTypeOK' /\ CursorsBounded'
<1>1. DOMAIN cursors' = DOMAIN cursors \ S /\ \A i \in DOMAIN cursors' : cursors'[i] = cursors[i]
  BY DEF Drop
<1>2. \A i \in DOMAIN cursors' : cursors'[i] \in CursorStates
  BY <1>1 DEF CursorsTypeOK
<1> QED
  BY <1>1, <1>2, FewerCursors

\* A step of one scan on its own cursor.
LEMMA OneScanMoves ==
  ASSUME StoreInv, NEW w \in Workers, NEW c \in Calls, call' = [call EXCEPT ![w] = c],
         UNCHANGED <<kv, ids, now>>, c.at \in ScanAts \cup {"idle"},
         call[w].at \in ScanAts, c.at \in ScanAts => c.cursor = call[w].cursor,
         CursorsTypeOK', CursorsBounded', Progress(c, cursors', now),
         \A i : i # call[w].cursor => /\ i \in DOMAIN cursors' <=> i \in DOMAIN cursors
                                      /\ i \in DOMAIN cursors => cursors'[i] = cursors[i]
  PROVE  StoreInv'
<1> USE DEF StoreInv
<1>1. /\ call' \in [Workers -> Calls] /\ call'[w] = c
      /\ \A v \in Workers : v # w => call'[v] = call[v]
  BY DEF CallsTypeOK
<1>2. ClockIsPast(c, now)
  BY DEF ClockIsPast, ScanAts
<1>3. CallsTypeOK' /\ KvTypeOK'
  BY <1>1, <1>2 DEF CallsTypeOK, KvTypeOK
<1>4. c.at = "idle" => c.at \notin ScanAts
  BY DEF ScanAts
<1>5. CursorsAreOwned'
  BY <1>1, <1>4 DEF CursorsAreOwned
<1>6. ScansProgress'
  <2> SUFFICES ASSUME NEW v \in Workers, v # w PROVE Progress(call'[v], cursors', now')
    BY <1>1 DEF ScansProgress
  <2>1. call'[v] = call[v] /\ Progress(call[v], cursors, now)
    BY <1>1 DEF ScansProgress
  <2>2. CASE call[v].at \notin ScanAts
    BY <2>1, <2>2 DEF Progress
  <2>3. CASE call[v].at \in ScanAts
    <3>1. call[v].cursor # call[w].cursor
      BY <2>3 DEF CursorsAreOwned
    <3> QED
      BY <2>1, <3>1 DEF Progress
  <2> QED
    BY <2>2, <2>3
<1> QED
  BY <1>3, <1>5, <1>6

\* What a sweep takes from a scan, the scan has read or has left for too long.
LEMMA SweepCursorsIsSafe ==
  ASSUME StoreInv, NEW w \in Workers, SweepCursors(w)
  PROVE  StoreInv'
<1> USE DEF StoreInv
<1>1. PICK S : /\ S = {i \in DOMAIN cursors : Reclaimed(cursors[i], call[w].clock)}
               /\ cursors' = Drop(cursors, S)
  BY DEF SweepCursors
<1>2. call[w].at = "reclaim" /\ UNCHANGED <<kv, ids, now>>
  BY DEF SweepCursors, At
<1>3. call[w] \in ReclaimCalls /\ call[w].clock \in Nat /\ call[w].clock <= now /\ now \in Nat
  BY <1>2, CallByPlace DEF CallsTypeOK, CursorsTypeOK, ClockIsPast, ReclaimCalls
<1>4. PICK c : c \in {NoCall, Snapshotting} /\ call' = [call EXCEPT ![w] = c]
  BY DEF SweepCursors, Goto, Return
<1>5. c \in Calls /\ c.at \notin ScanAts /\ ClockIsPast(c, now)
  <2>1. Snapshotting \in SnapshotCalls /\ Snapshotting.at = "snapshot"
    BY <1>3, EmptySeq DEF Snapshotting, SnapshotCalls
  <2>2. Snapshotting \in Calls /\ Snapshotting.at \notin ScanAts /\ ClockIsPast(Snapshotting, now)
    BY <2>1 DEF Calls, ScanAts, ClockIsPast
  <2> QED
    BY <1>4, <2>2, NoCallIsQuiet
<1>6. /\ call' \in [Workers -> Calls] /\ call'[w] = c
      /\ \A v \in Workers : v # w => call'[v] = call[v]
  BY <1>4, <1>5 DEF CallsTypeOK
<1>7. /\ DOMAIN cursors' = DOMAIN cursors \ S
      /\ \A i \in DOMAIN cursors' : cursors'[i] = cursors[i]
      /\ CursorsTypeOK' /\ CursorsBounded'
  BY <1>1, <1>2, DroppedCursors
<1>8. CallsTypeOK' /\ KvTypeOK'
  BY <1>2, <1>5, <1>6 DEF CallsTypeOK, KvTypeOK
<1>9. CursorsAreOwned'
  BY <1>2, <1>5, <1>6 DEF CursorsAreOwned
<1>10. ASSUME NEW v \in Workers, v # w, call[v].at \in ScanAts PROVE Progress(call[v], cursors', now)
  <2>1. PICK d : d = call[v]
    OBVIOUS
  <2>2. d \in ScanCalls /\ Progress(d, cursors, now)
    BY <1>10, <2>1, CallByPlace DEF CallsTypeOK, ScansProgress
  <2>3. d.got \in Seq(StoreEntries) /\ d.all \in Seq(StoreEntries) /\ d.born \in Nat /\ d.cursor \in Nat
    BY <2>2 DEF ScanCalls
  <2>4. CASE d.cursor \notin S
    BY <1>7, <2>1, <2>2, <2>4 DEF Progress
  <2>5. CASE d.cursor \in S /\ d.at \in {"valid", "peek", "advance"}
    <3>1. PICK cur : cur = cursors[d.cursor]
      OBVIOUS
    <3>2. d.cursor \in DOMAIN cursors /\ Reclaimed(cur, call[w].clock) /\ cur \in CursorStates
      BY <1>1, <2>5, <3>1 DEF CursorsTypeOK
    <3>3. cur.entries = d.all /\ cur.created = d.born /\ d.born <= now /\ cur.pos \in Nat
      BY <2>2, <2>5, <3>1, <3>2 DEF Progress, ScanAts, CursorStates
    <3>4. CASE call[w].clock - cur.created >= CursorTtl
      <4>1. now - d.born >= CursorTtl
        BY <1>3, <2>3, <3>3, <3>4, StoreConstants
      <4> QED
        BY <1>7, <2>1, <2>5, <3>3, <4>1 DEF Progress
    <3>5. CASE cur.pos >= Len(cur.entries)
      <4>1. Len(d.all) \in Nat
        BY <2>3
      <4>2. d.at # "advance"
        BY <2>2, <3>1, <3>2, <3>3, <3>5, <4>1 DEF Progress, ScanAts
      <4>3. cur.pos <= Len(d.all) /\ d.got = SubSeq(d.all, 1, cur.pos)
        BY <2>2, <2>5, <3>1, <3>2, <4>2 DEF Progress, ScanAts
      <4>4. cur.pos = Len(d.all)
        BY <3>3, <3>5, <4>1, <4>3
      <4>5. d.got = d.all
        BY <2>3, <4>3, <4>4, SubSeqFull
      <4> QED
        BY <1>7, <2>1, <2>5, <3>3, <4>5 DEF Progress
    <3> QED
      BY <3>2, <3>4, <3>5 DEF Reclaimed
  <2>6. CASE d.at \in {"drop", "dead"}
    BY <2>1, <2>2, <2>6 DEF Progress
  <2> QED
    BY <1>10, <2>1, <2>4, <2>5, <2>6 DEF ScanAts
<1>11. ScansProgress'
  <2> SUFFICES ASSUME NEW v \in Workers PROVE Progress(call'[v], cursors', now')
    BY DEF ScansProgress
  <2>1. CASE call'[v].at \notin ScanAts
    BY <2>1 DEF Progress
  <2>2. CASE call'[v].at \in ScanAts
    <3>1. v # w /\ call'[v] = call[v]
      BY <1>5, <1>6, <2>2
    <3> QED
      BY <1>2, <1>10, <2>2, <3>1
  <2> QED
    BY <2>1, <2>2
<1> QED
  BY <1>7, <1>8, <1>9, <1>11

\* A new cursor has a number that nobody holds.
LEMMA ScanOpenIsSafe ==
  ASSUME StoreInv, NEW w \in Workers, ScanOpen(w)
  PROVE  StoreInv'
<1> USE DEF StoreInv
<1>1. call[w].at = "snapshot" /\ UNCHANGED <<kv, now>>
  BY DEF ScanOpen, At
<1>2. call[w] \in SnapshotCalls /\ now \in Nat /\ ids \in Nat
  BY <1>1, CallByPlace DEF CallsTypeOK, CursorsTypeOK
<1>3. CASE Return(w) /\ UNCHANGED <<cursors, ids>>
  <2>1. KvTypeOK'
    BY <1>1 DEF KvTypeOK
  <2> QED
    BY <1>1, <1>3, <2>1, NoCallIsQuiet, QuietCall DEF Return, Goto
<1>4. CASE ~(Return(w) /\ UNCHANGED <<cursors, ids>>)
  <2>1. PICK all, cur, c :
          /\ all = call[w].entries /\ cur = [entries |-> all, pos |-> 0, created |-> now]
          /\ c = [at |-> "valid", cursor |-> ids, cap |-> StartLen, first |-> TRUE,
                  got |-> << >>, all |-> all, born |-> now]
    OBVIOUS
  <2>2. /\ ~(Cardinality(DOMAIN cursors) >= MaxCursors)
        /\ cursors' = Put(cursors, ids, cur) /\ ids' = ids + 1 /\ call' = [call EXCEPT ![w] = c]
    BY <1>4, <2>1 DEF ScanOpen, Goto
  <2>3. all \in Seq(StoreEntries)
    BY <1>2, <2>1 DEF SnapshotCalls
  <2>4. cur \in CursorStates /\ cur.entries = all /\ cur.pos = 0 /\ cur.created = now
    BY <1>2, <2>1, <2>3 DEF CursorStates
  <2>5. /\ c \in ScanCalls /\ c.at = "valid" /\ c.cursor = ids /\ c.got = << >>
        /\ c.all = all /\ c.born = now
    BY <1>2, <2>1, <2>3, StoreConstants, EmptySeq DEF ScanCalls, ScanAts
  <2>6. ids \notin DOMAIN cursors
    BY <1>2 DEF CursorsTypeOK
  <2>7. /\ DOMAIN cursors' = DOMAIN cursors \cup {ids} /\ cursors'[ids] = cur
        /\ \A i \in DOMAIN cursors : cursors'[i] = cursors[i]
    BY <2>2, <2>6 DEF Put
  <2>8. /\ IsFiniteSet(DOMAIN cursors') /\ Cardinality(DOMAIN cursors') = Cardinality(DOMAIN cursors) + 1
        /\ Cardinality(DOMAIN cursors) \in Nat
    BY <2>6, <2>7, FS_AddElement, FS_CardinalityType DEF CursorsTypeOK
  <2>9. CursorsTypeOK'
    <3>1. \A i \in DOMAIN cursors' : i \in Nat /\ i < ids + 1 /\ cursors'[i] \in CursorStates
      BY <1>2, <2>4, <2>7 DEF CursorsTypeOK
    <3> QED
      BY <1>1, <1>2, <2>2, <2>8, <3>1 DEF CursorsTypeOK
  <2>10. CursorsBounded'
    BY <2>2, <2>8, StoreConstants DEF CursorsBounded
  <2>11. /\ call' \in [Workers -> Calls] /\ call'[w] = c
         /\ \A v \in Workers : v # w => call'[v] = call[v]
    BY <2>2, <2>5 DEF CallsTypeOK, Calls
  <2>12. CallsTypeOK' /\ KvTypeOK'
    <3>1. ClockIsPast(c, now)
      BY <2>5 DEF ClockIsPast
    <3> QED
      BY <1>1, <2>11, <3>1 DEF CallsTypeOK, KvTypeOK
  <2>13. CursorsAreOwned'
    <3>1. \A v \in Workers : call[v].at \in ScanAts => call[v].cursor \in Nat /\ call[v].cursor < ids
      BY CallByPlace DEF CallsTypeOK, CursorsAreOwned, ScanCalls
    <3> QED
      BY <1>2, <2>2, <2>5, <2>11, <3>1 DEF CursorsAreOwned
  <2>14. Progress(c, cursors', now)
    <3>1. 0 <= Len(all) /\ SubSeq(all, 1, 0) = << >>
      BY <2>3, SubSeqEmpty
    <3> QED
      BY <1>2, <2>4, <2>5, <2>7, <3>1 DEF Progress
  <2>15. ScansProgress'
    <3> SUFFICES ASSUME NEW v \in Workers, v # w PROVE Progress(call[v], cursors', now)
      BY <1>1, <2>11, <2>14 DEF ScansProgress
    <3>1. Progress(call[v], cursors, now)
      BY DEF ScansProgress
    <3>2. CASE call[v].at \notin ScanAts
      BY <3>2 DEF Progress
    <3>3. CASE call[v].at \in ScanAts
      <4>1. call[v].cursor \in Nat /\ call[v].cursor < ids
        BY <3>3, CallByPlace DEF CallsTypeOK, CursorsAreOwned, ScanCalls
      <4>2. call[v].cursor # ids
        BY <1>2, <4>1
      <4> QED
        BY <2>7, <3>1, <4>2 DEF Progress
    <3> QED
      BY <3>2, <3>3
  <2> QED
    BY <2>9, <2>10, <2>12, <2>13, <2>15
<1> QED
  BY <1>3, <1>4

\* The four steps of a read, and the end of the iterator.
LEMMA ScanValidIsSafe ==
  ASSUME StoreInv, NEW w \in Workers, ScanValid(w)
  PROVE  StoreInv'
<1> USE DEF StoreInv
<1>1. PICK d, at, c : /\ d = call[w]
                      /\ at = IF d.cursor \in DOMAIN cursors THEN "peek" ELSE IF d.first THEN "dead" ELSE "drop"
                      /\ c = [d EXCEPT !.at = at]
  OBVIOUS
<1>2. d.at = "valid" /\ call' = [call EXCEPT ![w] = c] /\ UNCHANGED <<kv, cursors, ids, now>>
  BY <1>1 DEF ScanValid, At, Goto
<1>3. d \in ScanCalls /\ Progress(d, cursors, now)
  BY <1>1, <1>2, CallByPlace DEF CallsTypeOK, ScansProgress, ScanAts
<1>4. \/ d.cursor \in DOMAIN cursors /\ at = "peek"
      \/ d.cursor \notin DOMAIN cursors /\ at \in {"dead", "drop"}
  <2>1. CASE d.cursor \in DOMAIN cursors
    BY <1>1, <2>1
  <2>2. CASE d.cursor \notin DOMAIN cursors
    <3>1. PICK a : a = IF d.first THEN "dead" ELSE "drop"
      OBVIOUS
    <3>2. a \in {"dead", "drop"}
      BY <3>1, Zenon
    <3>3. at = a
      BY <1>1, <2>2, <3>1, Zenon
    <3> QED
      BY <2>2, <3>2, <3>3
  <2> QED
    BY <2>1, <2>2
<1>5. /\ c \in ScanCalls /\ c.at = at /\ c.cursor = d.cursor /\ c.got = d.got /\ c.all = d.all /\ c.born = d.born
  BY <1>1, <1>3, <1>4 DEF ScanCalls, ScanAts
<1>6. Progress(c, cursors, now)
  BY <1>2, <1>3, <1>4, <1>5 DEF Progress, ScanAts
<1>7. CursorsTypeOK' /\ CursorsBounded'
  BY <1>2 DEF CursorsTypeOK, CursorsBounded
<1>8. c \in Calls /\ c.at \in ScanAts /\ d.at \in ScanAts
  BY <1>2, <1>4, <1>5 DEF Calls, ScanAts
<1> QED
  BY <1>1, <1>2, <1>5, <1>6, <1>7, <1>8, OneScanMoves

LEMMA ScanPeekIsSafe ==
  ASSUME StoreInv, NEW w \in Workers, ScanPeek(w)
  PROVE  StoreInv'
<1> USE DEF StoreInv
<1>1. PICK d, cur, need, e : /\ d = call[w] /\ cur = cursors[d.cursor]
                             /\ e = cur.entries[cur.pos + 1] /\ need = PairLen(e)
  OBVIOUS
<1>2. d.at = "peek" /\ UNCHANGED <<kv, ids, now>>
  BY <1>1 DEF ScanPeek, At
<1>3. d \in ScanCalls /\ Progress(d, cursors, now) /\ d.at \in ScanAts
  BY <1>1, <1>2, CallByPlace DEF CallsTypeOK, ScansProgress, ScanAts
<1>4. /\ d.got \in Seq(StoreEntries) /\ d.all \in Seq(StoreEntries) /\ d.born \in Nat /\ d.cap \in Nat
      /\ Len(d.all) \in Nat /\ d.born <= now
  BY <1>3 DEF ScanCalls, Progress
<1>5. d.cursor \in DOMAIN cursors =>
        /\ cur \in CursorStates /\ cur.pos \in Nat /\ cur.entries = d.all /\ cur.created = d.born
        /\ cur.pos <= Len(d.all) /\ d.got = SubSeq(d.all, 1, cur.pos)
  BY <1>1, <1>2, <1>3 DEF CursorsTypeOK, Progress, CursorStates
<1>6. CASE d.cursor \notin DOMAIN cursors \/ cur.pos >= Len(cur.entries)
  <2>1. PICK c : c = [d EXCEPT !.at = "drop"]
    OBVIOUS
  <2>2. cursors' = Drop(cursors, {d.cursor}) /\ call' = [call EXCEPT ![w] = c]
    BY <1>1, <1>6, <2>1 DEF ScanPeek, Goto
  <2>3. c \in ScanCalls /\ c.at = "drop" /\ c.cursor = d.cursor /\ c.got = d.got /\ c.all = d.all /\ c.born = d.born
    BY <1>3, <2>1 DEF ScanCalls, ScanAts
  <2>4. now - d.born >= CursorTtl \/ d.got = d.all
    <3>1. CASE d.cursor \notin DOMAIN cursors
      BY <1>2, <1>3, <3>1 DEF Progress
    <3>2. CASE d.cursor \in DOMAIN cursors
      <4>1. cur.pos = Len(d.all)
        BY <1>4, <1>5, <1>6, <3>2
      <4> QED
        BY <1>4, <1>5, <3>2, <4>1, SubSeqFull
    <3> QED
      BY <3>1, <3>2
  <2>5. Progress(c, cursors', now)
    BY <1>4, <2>3, <2>4 DEF Progress
  <2>6. /\ DOMAIN cursors' = DOMAIN cursors \ {d.cursor}
        /\ \A i \in DOMAIN cursors' : cursors'[i] = cursors[i]
        /\ CursorsTypeOK' /\ CursorsBounded'
    BY <1>2, <2>2, DroppedCursors
  <2>7. c \in Calls /\ c.at \in ScanAts
    BY <2>3 DEF Calls, ScanAts
  <2> QED
    BY <1>1, <1>2, <1>3, <2>2, <2>3, <2>5, <2>6, <2>7, OneScanMoves
<1>7. CASE ~(d.cursor \notin DOMAIN cursors \/ cur.pos >= Len(cur.entries))
  <2>1. d.cursor \in DOMAIN cursors /\ cur.pos < Len(d.all) /\ cur.pos + 1 \in 1..Len(d.all)
    BY <1>4, <1>5, <1>7
  <2>2. e = d.all[cur.pos + 1] /\ e \in StoreEntries
    BY <1>1, <1>4, <1>5, <2>1
  <2>3. need \in Nat
    BY <1>1, <2>2 DEF PairLen, StoreEntries
  <2>4. PICK s : s = Append(d.got, e)
    OBVIOUS
  <2>5. s = SubSeq(d.all, 1, cur.pos + 1) /\ s \in Seq(StoreEntries)
    <3>1. Append(SubSeq(d.all, 1, cur.pos), d.all[cur.pos + 1]) = SubSeq(d.all, 1, cur.pos + 1)
      BY <1>4, <1>5, <2>1
    <3>2. s = SubSeq(d.all, 1, cur.pos + 1)
      BY <1>5, <2>1, <2>2, <2>4, <3>1
    <3>3. Append(d.got, e) \in Seq(StoreEntries)
      BY <1>4, <2>2
    <3> QED
      BY <2>4, <3>2, <3>3
  <2>6. PICK ca, cv, cd : /\ ca = [d EXCEPT !.at = "advance", !.got = s]
                          /\ cv = [d EXCEPT !.at = "valid", !.cap = need, !.first = FALSE]
                          /\ cd = [d EXCEPT !.at = "drop"]
    OBVIOUS
  <2>7. /\ cursors' = cursors
        /\ \/ call' = [call EXCEPT ![w] = ca]
           \/ call' = [call EXCEPT ![w] = cv]
           \/ call' = [call EXCEPT ![w] = cd] /\ ~(need <= d.cap) /\ ~Grows(need, d.cap)
    BY <1>1, <1>7, <2>4, <2>6 DEF ScanPeek, Goto
  <2>8. CursorsTypeOK' /\ CursorsBounded'
    BY <1>2, <2>7 DEF CursorsTypeOK, CursorsBounded
  <2>9. CASE call' = [call EXCEPT ![w] = ca]
    <3>1. ca \in ScanCalls /\ ca.at = "advance" /\ ca.cursor = d.cursor /\ ca.got = s /\ ca.all = d.all /\ ca.born = d.born
      BY <1>3, <2>5, <2>6 DEF ScanCalls, ScanAts
    <3>2. Progress(ca, cursors', now)
      BY <1>1, <1>4, <1>5, <2>1, <2>5, <2>7, <3>1 DEF Progress
    <3>3. ca \in Calls /\ ca.at \in ScanAts
      BY <3>1 DEF Calls, ScanAts
    <3> QED
      BY <1>1, <1>2, <1>3, <2>7, <2>8, <2>9, <3>1, <3>2, <3>3, OneScanMoves
  <2>10. CASE call' = [call EXCEPT ![w] = cv]
    <3>1. cv \in ScanCalls /\ cv.at = "valid" /\ cv.cursor = d.cursor /\ cv.got = d.got /\ cv.all = d.all /\ cv.born = d.born
      BY <1>3, <2>3, <2>6 DEF ScanCalls, ScanAts
    <3>2. Progress(cv, cursors', now)
      BY <1>1, <1>4, <1>5, <2>1, <2>7, <3>1 DEF Progress
    <3>3. cv \in Calls /\ cv.at \in ScanAts
      BY <3>1 DEF Calls, ScanAts
    <3> QED
      BY <1>1, <1>2, <1>3, <2>7, <2>8, <2>10, <3>1, <3>2, <3>3, OneScanMoves
  <2>11. CASE call' = [call EXCEPT ![w] = cd] /\ ~(need <= d.cap) /\ ~Grows(need, d.cap)
    <3>1. cd \in ScanCalls /\ cd.at = "drop" /\ cd.cursor = d.cursor /\ cd.got = d.got /\ cd.all = d.all /\ cd.born = d.born
      BY <1>3, <2>6 DEF ScanCalls, ScanAts
    <3>2. PairLen(d.all[cur.pos + 1]) > MaxRead
      <4>1. need > MaxRead
        BY <1>4, <2>3, <2>11, StoreConstants DEF Grows
      <4> QED
        BY <1>1, <2>2, <4>1
    <3>3. Progress(cd, cursors', now)
      BY <1>4, <2>1, <3>1, <3>2 DEF Progress
    <3>4. cd \in Calls /\ cd.at \in ScanAts
      BY <3>1 DEF Calls, ScanAts
    <3> QED
      BY <1>1, <1>2, <1>3, <2>7, <2>8, <2>11, <3>1, <3>3, <3>4, OneScanMoves
  <2> QED
    BY <2>7, <2>9, <2>10, <2>11
<1> QED
  BY <1>6, <1>7

LEMMA ScanAdvanceIsSafe ==
  ASSUME StoreInv, NEW w \in Workers, ScanAdvance(w)
  PROVE  StoreInv'
<1> USE DEF StoreInv
<1>1. PICK d, cur, c : /\ d = call[w] /\ cur = cursors[d.cursor]
                       /\ c = [d EXCEPT !.at = "valid", !.cap = StartLen, !.first = TRUE]
  OBVIOUS
<1>2. d.at = "advance" /\ UNCHANGED <<kv, ids, now>> /\ call' = [call EXCEPT ![w] = c]
  BY <1>1 DEF ScanAdvance, At, Goto
<1>3. d \in ScanCalls /\ Progress(d, cursors, now) /\ d.at \in ScanAts
  BY <1>1, <1>2, CallByPlace DEF CallsTypeOK, ScansProgress, ScanAts
<1>4. /\ d.got \in Seq(StoreEntries) /\ d.all \in Seq(StoreEntries) /\ d.born \in Nat
      /\ Len(d.all) \in Nat /\ d.born <= now
  BY <1>3 DEF ScanCalls, Progress
<1>5. d.cursor \in DOMAIN cursors =>
        /\ cur \in CursorStates /\ cur.pos \in Nat /\ cur.entries = d.all /\ cur.created = d.born
        /\ cur.pos < Len(d.all) /\ d.got = SubSeq(d.all, 1, cur.pos + 1)
  BY <1>1, <1>2, <1>3 DEF CursorsTypeOK, Progress, CursorStates
<1>6. c \in ScanCalls /\ c.at = "valid" /\ c.cursor = d.cursor /\ c.got = d.got /\ c.all = d.all /\ c.born = d.born
  BY <1>1, <1>3, StoreConstants DEF ScanCalls, ScanAts
<1>7. c \in Calls /\ c.at \in ScanAts
  BY <1>6 DEF Calls, ScanAts
<1>8. CASE d.cursor \notin DOMAIN cursors
  <2>1. cursors' = cursors
    BY <1>1, <1>8 DEF ScanAdvance
  <2>2. CursorsTypeOK' /\ CursorsBounded'
    BY <1>2, <2>1 DEF CursorsTypeOK, CursorsBounded
  <2>3. Progress(c, cursors', now)
    BY <1>2, <1>3, <1>6, <1>8, <2>1 DEF Progress
  <2> QED
    BY <1>1, <1>2, <1>3, <1>6, <1>7, <2>1, <2>2, <2>3, OneScanMoves
<1>9. CASE d.cursor \in DOMAIN cursors /\ cur.pos + 1 >= Len(cur.entries)
  <2>1. cursors' = Drop(cursors, {d.cursor})
    BY <1>1, <1>9 DEF ScanAdvance
  <2>2. /\ DOMAIN cursors' = DOMAIN cursors \ {d.cursor}
        /\ \A i \in DOMAIN cursors' : cursors'[i] = cursors[i]
        /\ CursorsTypeOK' /\ CursorsBounded'
    BY <1>2, <2>1, DroppedCursors
  <2>3. cur.pos + 1 = Len(d.all)
    BY <1>4, <1>5, <1>9
  <2>4. d.got = d.all
    BY <1>4, <1>5, <1>9, <2>3, SubSeqFull
  <2>5. Progress(c, cursors', now)
    BY <1>4, <1>6, <2>2, <2>4 DEF Progress
  <2> QED
    BY <1>1, <1>2, <1>3, <1>6, <1>7, <2>2, <2>5, OneScanMoves
<1>10. CASE d.cursor \in DOMAIN cursors /\ ~(cur.pos + 1 >= Len(cur.entries))
  <2>1. PICK n, next : n = cur.pos + 1 /\ next = [cur EXCEPT !.pos = n]
    OBVIOUS
  <2>2. cursors' = [cursors EXCEPT ![d.cursor] = next]
    BY <1>1, <1>10, <2>1 DEF ScanAdvance
  <2>3. next \in CursorStates /\ next.pos = n /\ next.entries = d.all /\ next.created = d.born /\ n \in Nat
    <3>1. cur \in CursorStates /\ cur.pos \in Nat /\ cur.entries = d.all /\ cur.created = d.born
      BY <1>5, <1>10
    <3>2. n \in Nat
      BY <2>1, <3>1
    <3>3. next \in CursorStates /\ next.pos = n /\ next.entries = cur.entries /\ next.created = cur.created
      BY <2>1, <3>1, <3>2 DEF CursorStates
    <3> QED
      BY <3>1, <3>2, <3>3
  <2>4. /\ DOMAIN cursors' = DOMAIN cursors /\ cursors'[d.cursor] = next
        /\ \A i \in DOMAIN cursors : i # d.cursor => cursors'[i] = cursors[i]
    BY <1>10, <2>2
  <2>5. CursorsTypeOK' /\ CursorsBounded'
    <3>1. \A i \in DOMAIN cursors' : cursors'[i] \in CursorStates
      BY <2>3, <2>4 DEF CursorsTypeOK
    <3> QED
      BY <1>2, <2>4, <3>1, FewerCursors
  <2>6. Progress(c, cursors', now)
    <3>1. n <= Len(d.all) /\ d.got = SubSeq(d.all, 1, n)
      BY <1>4, <1>5, <1>10, <2>1
    <3> QED
      BY <1>4, <1>6, <1>10, <2>3, <2>4, <3>1 DEF Progress
  <2> QED
    BY <1>1, <1>2, <1>3, <1>6, <1>7, <2>4, <2>5, <2>6, OneScanMoves
<1> QED
  BY <1>8, <1>9, <1>10

LEMMA ScanEndIsSafe ==
  ASSUME StoreInv, NEW w \in Workers, ScanEnd(w)
  PROVE  StoreInv'
<1> USE DEF StoreInv
<1>1. call[w].at \in ScanAts /\ UNCHANGED <<kv, ids, now>> /\ call' = [call EXCEPT ![w] = NoCall]
  BY DEF ScanEnd, At, Return, Goto, ScanAts
<1>2. Progress(NoCall, cursors', now)
  BY NoCallIsQuiet DEF Progress
<1>3. CASE cursors' = Drop(cursors, {call[w].cursor})
  <2>1. /\ DOMAIN cursors' = DOMAIN cursors \ {call[w].cursor}
        /\ \A i \in DOMAIN cursors' : cursors'[i] = cursors[i]
        /\ CursorsTypeOK' /\ CursorsBounded'
    BY <1>1, <1>3, DroppedCursors
  <2> QED
    BY <1>1, <1>2, <2>1, NoCallIsQuiet, OneScanMoves
<1>4. CASE cursors' = cursors
  <2>1. CursorsTypeOK' /\ CursorsBounded'
    BY <1>1, <1>4 DEF CursorsTypeOK, CursorsBounded
  <2> QED
    BY <1>1, <1>2, <1>4, <2>1, NoCallIsQuiet, OneScanMoves
<1> QED
  BY <1>3, <1>4 DEF ScanEnd

LEMMA StoreInvNext == StoreInv /\ [StoreNext]_storeVars => StoreInv'
<1> SUFFICES ASSUME StoreInv, [StoreNext]_storeVars PROVE StoreInv'
  OBVIOUS
<1>1. CASE Tick
  <2> USE DEF StoreInv
  <2>1. now' = now + 1 /\ UNCHANGED <<kv, cursors, ids, call>> /\ now \in Nat
    BY <1>1 DEF Tick, CursorsTypeOK
  <2>2. KvTypeOK' /\ CursorsTypeOK' /\ CursorsAreOwned' /\ CursorsBounded'
    BY <2>1 DEF KvTypeOK, CursorsTypeOK, CursorsAreOwned, CursorsBounded
  <2>3. ASSUME NEW w \in Workers PROVE ClockIsPast(call[w], now')
    <3>1. call[w] \in Calls /\ ClockIsPast(call[w], now)
      BY DEF CallsTypeOK
    <3>2. /\ call[w].at \in {"sweep", "reclaim"} => call[w].clock \in Nat
          /\ call[w].at = "account" /\ call[w].then.at = "reclaim" => call[w].then.clock \in Nat
      BY <3>1, CallByPlace DEF SweepCalls, ReclaimCalls, AccountCalls, NoCall
    <3> QED
      BY <2>1, <3>1, <3>2 DEF ClockIsPast
  <2>4. CallsTypeOK'
    BY <2>1, <2>3 DEF CallsTypeOK
  <2>5. ASSUME NEW w \in Workers PROVE Progress(call[w], cursors, now')
    <3>1. call[w] \in Calls /\ Progress(call[w], cursors, now)
      BY DEF CallsTypeOK, ScansProgress
    <3>2. CASE call[w].at \notin ScanAts
      BY <3>2 DEF Progress
    <3>3. CASE call[w].at \in ScanAts
      <4>1. PICK c \in ScanCalls : c = call[w]
        BY <3>1, <3>3, CallByPlace
      <4>2. now' \in Nat /\ now <= now'
        BY <2>1
      <4>3. Progress(c, cursors, now')
        BY <2>1, <3>1, <4>1, <4>2, ProgressOn
      <4> QED
        BY <4>1, <4>3
    <3> QED
      BY <3>2, <3>3
  <2>6. ScansProgress'
    BY <2>1, <2>5 DEF ScansProgress
  <2> QED
    BY <2>2, <2>4, <2>6
<1>2. ASSUME NEW w \in Workers, NEW k \in Keys, NEW v \in Sizes, NEW ttl \in {0, Ttl}, SetReleased(w, k, v, ttl)
      PROVE  StoreInv'
  BY <1>2, SetsAreQuiet
<1>3. ASSUME NEW w \in Workers, NEW k \in Keys, GuestGet(w, k) \/ Del(w, k) PROVE StoreInv'
  BY <1>3, GetsAreQuiet
<1>4. ASSUME NEW w \in Workers, SetTotal(w) \/ SetInsert(w) \/ Account(w) \/ Get(w) \/ Reap(w) PROVE StoreInv'
  BY <1>4, CallsAreQuiet
<1>5. ASSUME NEW w \in Workers,
             ScanBegin(w) \/ ScanReset(w) \/ SweeperTick(w) \/ Sweep(w) \/ SweepAccount(w) \/ Snapshot(w) \/ Abandon(w)
      PROVE  StoreInv'
  BY <1>5, SweepsAreQuiet
<1>6. ASSUME NEW w \in Workers,
             SweepCursors(w) \/ ScanOpen(w) \/ ScanValid(w) \/ ScanPeek(w) \/ ScanAdvance(w) \/ ScanEnd(w)
      PROVE  StoreInv'
  BY <1>6, SweepCursorsIsSafe, ScanOpenIsSafe, ScanValidIsSafe, ScanPeekIsSafe, ScanAdvanceIsSafe, ScanEndIsSafe
<1>7. CASE UNCHANGED storeVars
  BY <1>7 DEF storeVars, StoreInv, KvTypeOK, CursorsTypeOK, CallsTypeOK, CursorsAreOwned, ScansProgress, CursorsBounded
<1> QED
  BY <1>1, <1>2, <1>3, <1>4, <1>5, <1>6, <1>7 DEF StoreNext

\* A scan owns its cursor, and what it has yielded is what its cursor has passed,
\* or all of it, or the cursor was left for longer than it lives (host_state.rs
\* scan_begin, scan_advance, sweep).
THEOREM StoreInvHolds == StoreSpec => []StoreInv
  BY StoreInvInit, StoreInvNext, PTL DEF StoreSpec

\* An iteration over pairs that fit a read ends with its whole snapshot unless its
\* cursor was left for longer than it lives, and no interleaving of scans holds
\* more than MAX_CURSORS snapshots (host_state.rs scan_begin, sweep).
THEOREM ScansStayComplete == StoreSpec => []ScanIsComplete
<1>1. StoreInv => ScanIsComplete
  <2> SUFFICES ASSUME StoreInv PROVE WholeSnapshot
    BY DEF StoreInv, ScanIsComplete
  <2> USE DEF StoreInv
  <2> SUFFICES ASSUME NEW w \in Workers, call[w].at \in {"drop", "dead"}, now - call[w].born < CursorTtl,
                      \A i \in 1..Len(call[w].all) : PairLen(call[w].all[i]) <= MaxRead
               PROVE  call[w].got = call[w].all
    BY DEF WholeSnapshot
  <2>1. PICK c : c = call[w]
    OBVIOUS
  <2>2. c \in ScanCalls /\ Progress(c, cursors, now)
    BY <2>1, CallByPlace DEF CallsTypeOK, ScansProgress, ScanAts
  <2>3. /\ c.born \in Nat /\ now \in Nat
        /\ \A i \in 1..Len(c.all) : PairLen(c.all[i]) \in Nat
    BY <2>2 DEF ScanCalls, CursorsTypeOK, PairLen, StoreEntries
  <2>4. ~(now - c.born >= CursorTtl) /\ \A i \in 1..Len(c.all) : ~(PairLen(c.all[i]) > MaxRead)
    BY <2>1, <2>3, StoreConstants
  <2> QED
    BY <2>1, <2>2, <2>4 DEF Progress, ScanAts
<1> QED
  BY <1>1, StoreInvHolds, PTL
=============================================================================
