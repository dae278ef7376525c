------------------------ MODULE ProxyAttemptsProofs ------------------------
(***************************************************************************)
(* For every set of requests, every family of peer lists, with repeated    *)
(* addresses too, and every retry budget: the types, the in-flight gauge,  *)
(* the retry budget and the delivery of non-idempotent requests, as        *)
(* invariants of ProxyAttempts.                                            *)
(***************************************************************************)
EXTENDS ProxyAttempts, PeerHealthProofs, FiniteSetTheorems

(***************************************************************************)
(* The inductive invariant.  The block has a slot for every address that   *)
(* no registered list left out; the locals of a request fit the place it   *)
(* is at.                                                                  *)
(***************************************************************************)
BlockOK == \A a \in Addr \ dropped : SlotsOf(slots, a) # {}

PeerOf(q) == q.list[q.idx]

AttemptOK(q) ==
  /\ q.pc \notin {"idle", "pick"} => q.idx \in DOMAIN q.list
  /\ IsFiniteSet(q.asked) /\ q.attempt = Cardinality(q.asked)
  /\ q.pc \in {"pick", "acquire"} => q.asked = q.tried
  /\ q.pc \in {"fly", "record", "release"} => q.asked = q.tried \cup {PeerOf(q)}
  /\ q.pc = "acquire" => PeerOf(q) \notin q.tried
  /\ q.pc = "acquire" /\ q.kind # "ws" => q.attempt < Retries + 1
  /\ q.kind # "ws" => q.attempt <= Retries + 1

DeliveryOK(q) ==
  q.kind = "post" =>
    /\ q.saw <= 1
    /\ q.pc \in {"pick", "acquire", "fly"} \/ q.again => q.saw = 0

Inv ==
  /\ AttemptsTypeOK
  /\ BlockOK
  /\ \A r \in Req : AttemptOK(request[r]) /\ DeliveryOK(request[r])
  /\ GaugeBounded
  /\ GaugeExact

(***************************************************************************)
(* The fields of a request's locals.                                       *)
(***************************************************************************)
LEMMA RequestFields ==
  ASSUME NEW q \in Request
  PROVE  /\ q.pc \in PCs /\ q.kind \in Kinds /\ q.list \in Seq(Addr)
         /\ q.idx \in Nat /\ q.attempt \in Nat /\ q.tried \in SUBSET Addr
         /\ q.success \in BOOLEAN /\ q.again \in BOOLEAN /\ q.held \in BOOLEAN
         /\ q.saw \in Nat /\ q.asked \in SUBSET Addr
  BY DEF Request

(***************************************************************************)
(* A slot that serves no request fits its place.                           *)
(***************************************************************************)
LEMMA IdleOK == IdleRequest \in Request /\ AttemptOK(IdleRequest) /\ DeliveryOK(IdleRequest)
<1>1. IdleRequest \in Request
  BY EmptySeq DEF IdleRequest, Request, PCs, Kinds
<1>2. IsFiniteSet({}) /\ Cardinality({}) = 0
  BY FS_EmptySet
<1>3. AttemptOK(IdleRequest)
  BY <1>2, AttemptsAssumption DEF IdleRequest, AttemptOK
<1> QED
  BY <1>1, <1>3 DEF IdleRequest, DeliveryOK

(***************************************************************************)
(* Which attempts hold an address, and how one request's step changes      *)
(* their number: by one where the request starts or ceases to hold the     *)
(* address, otherwise not at all.                                          *)
(***************************************************************************)
Holds(q, a) == q.pc \in {"fly", "record", "release"} /\ PeerOf(q) = a

LEMMA HoldersChange ==
  ASSUME request \in [Req -> Request],
         NEW r \in Req, NEW q \in Request, request' = [request EXCEPT ![r] = q], NEW a
  PROVE  /\ Cardinality(Holders(a)) \in Nat
         /\ Holds(q, a) <=> Holds(request[r], a)
              => Cardinality(Holders(a)') = Cardinality(Holders(a))
         /\ Holds(q, a) /\ ~Holds(request[r], a)
              => Cardinality(Holders(a)') = Cardinality(Holders(a)) + 1
         /\ ~Holds(q, a) /\ Holds(request[r], a)
              => /\ Cardinality(Holders(a)') = Cardinality(Holders(a)) - 1
                 /\ Cardinality(Holders(a)) > 0
<1>1. Holders(a) = {x \in Req : Holds(request[x], a)}
  BY DEF Holders, Peer, Holds, PeerOf
<1>2. Holders(a)' = {x \in Req : Holds(request'[x], a)}
  BY DEF Holders, Peer, Holds, PeerOf
<1>3. Holders(a)' = IF Holds(q, a) THEN Holders(a) \cup {r} ELSE Holders(a) \ {r}
  BY <1>1, <1>2
<1>4. IsFiniteSet(Holders(a))
  <2>1. Holders(a) \subseteq Req
    BY DEF Holders
  <2> QED
    BY <2>1, AttemptsAssumption, FS_Subset
<1>5. Cardinality(Holders(a)) \in Nat
  BY <1>4, FS_CardinalityType
<1>6. r \in Holders(a) <=> Holds(request[r], a)
  BY <1>1
<1>7. CASE Holds(q, a) <=> Holds(request[r], a)
  <2>1. Holders(a)' = Holders(a)
    BY <1>3, <1>6, <1>7
  <2> QED
    BY <2>1, <1>5, <1>7
<1>8. CASE Holds(q, a) /\ ~Holds(request[r], a)
  BY <1>3, <1>4, <1>5, <1>6, <1>8, FS_AddElement
<1>9. CASE ~Holds(q, a) /\ Holds(request[r], a)
  <2>1. Cardinality(Holders(a)') = Cardinality(Holders(a)) - 1
    BY <1>3, <1>4, <1>6, <1>9, FS_RemoveElement
  <2>2. Holders(a) # {}
    BY <1>6, <1>9
  <2>3. Cardinality(Holders(a)) # 0
    BY <2>2, <1>4, FS_EmptySet
  <2> QED
    BY <2>1, <2>3, <1>5, <1>9
<1> QED
  BY <1>7, <1>8, <1>9

(***************************************************************************)
(* A step of one request preserves the invariant if it leaves the request  *)
(* fit for its place, the block well formed with the same addresses, and   *)
(* the balance of the gauges.                                              *)
(***************************************************************************)
LEMMA RequestStep ==
  ASSUME Inv, NEW r \in Req, NEW q \in Request, AttemptOK(q), DeliveryOK(q),
         request' = [request EXCEPT ![r] = q],
         UNCHANGED registryVars,
         slots' \in Seq(Slot),
         \A a : SlotsOf(slots', a) = SlotsOf(slots, a),
         abandoned' \in [Addr -> Nat],
         GaugeBounded', GaugeExact'
  PROVE  Inv'
<1>1. request' \in [Req -> Request]
  BY DEF Inv, AttemptsTypeOK
<1>2. \A x \in Req : AttemptOK(request'[x]) /\ DeliveryOK(request'[x])
  BY DEF Inv, AttemptsTypeOK
<1>3. (\A x \in Req : AttemptOK(request[x]) /\ DeliveryOK(request[x]))'
  <2>1. ASSUME NEW x PROVE AttemptOK(request[x])' <=> AttemptOK(request'[x])
    BY DEF AttemptOK, PeerOf, IdleRequest
  <2>2. ASSUME NEW x PROVE DeliveryOK(request[x])' <=> DeliveryOK(request'[x])
    BY DEF DeliveryOK
  <2> QED
    BY <1>2, <2>1, <2>2
<1>4. \A x \in Req : request'[x].pc \notin {"idle", "pick"} => request'[x].idx \in DOMAIN request'[x].list
  BY <1>2 DEF AttemptOK
<1>5. AttemptsTypeOK'
  BY <1>1, <1>4 DEF Inv, AttemptsTypeOK, registryVars
<1>6. BlockOK'
  BY DEF Inv, BlockOK, SlotsOf, registryVars
<1> QED
  BY <1>3, <1>5, <1>6 DEF Inv

(***************************************************************************)
(* The same for a step that neither acquires nor releases.                 *)
(***************************************************************************)
LEMMA QuietStep ==
  ASSUME Inv, NEW r \in Req, NEW q \in Request, AttemptOK(q), DeliveryOK(q),
         request' = [request EXCEPT ![r] = q],
         UNCHANGED <<registryVars, abandoned>>,
         slots' \in Seq(Slot), SameGauges(slots, slots'),
         \A a : Holds(q, a) <=> Holds(request[r], a)
  PROVE  Inv'
<1>1.
      /\ \A a : SlotsOf(slots', a) = SlotsOf(slots, a)
      /\ \A a : Gauge(slots', a) = Gauge(slots, a)
  BY SameGaugesLemma DEF Inv, BlockOK, AttemptsTypeOK
<1>2. ASSUME NEW a PROVE Cardinality(Holders(a)') = Cardinality(Holders(a))
  BY HoldersChange DEF Inv, AttemptsTypeOK
<1>3. GaugeBounded'
  BY <1>1, <1>2 DEF Inv, GaugeBounded, registryVars
<1>4. GaugeExact'
  BY <1>1, <1>2 DEF Inv, GaugeExact, registryVars
<1> QED
  BY <1>1, <1>3, <1>4, RequestStep DEF Inv, AttemptsTypeOK

(***************************************************************************)
(* The initial states satisfy the invariant.                               *)
(***************************************************************************)
LEMMA InitInv == AttemptsInit => Inv
<1> SUFFICES ASSUME AttemptsInit PROVE Inv
  OBVIOUS
<1>1. runtime \in Lists /\ runtime \in Seq(Addr)
  BY AttemptsAssumption DEF AttemptsInit
<1>2. AllHealthy \in [Addr -> ActivePeer]
  BY DEF AllHealthy, FreshActive, ActivePeer
<1>3. <<>> \in Seq(Slot) /\ \A a : Gauge(<<>>, a) = 0 /\ Once(<<>>, a)
  BY EmptySeq DEF Gauge, SlotsOf, Once
<1>4. /\ slots \in Seq(Slot)
      /\ \A a : SlotsOf(slots, a) # {} <=> Listed(runtime, a)
      /\ \A a : Gauge(slots, a) = 0
  <2>1. slots = Register(<<>>, AllHealthy, runtime)
    BY DEF AttemptsInit
  <2>2. PICK none, active : none = <<>> /\ active = AllHealthy
    OBVIOUS
  <2>3. none \in Seq(Slot) /\ active \in [Addr -> ActivePeer]
    BY <2>2, <1>2, <1>3
  <2>4. slots = Register(none, active, runtime)
    BY <2>1, <2>2
  <2>5. /\ slots \in Seq(Slot)
        /\ \A a : SlotsOf(slots, a) # {} <=> Listed(runtime, a)
        /\ \A a : ~Listed(runtime, a) => Gauge(slots, a) = 0
        /\ \A a : Listed(runtime, a) /\ Once(none, a) => Gauge(slots, a) = Gauge(none, a)
    BY <2>3, <2>4, <1>1, RegisterGauge
  <2> QED
    BY <2>2, <2>5, <1>3
<1>5. BlockOK
  BY <1>4 DEF AttemptsInit, BlockOK, AddrsOf, Listed
<1>6. \A r \in Req : request[r] = IdleRequest
  BY DEF AttemptsInit
<1>7. AttemptsTypeOK
  <2>1. request \in [Req -> Request] /\ \A r \in Req : request[r].pc = "idle"
    BY <1>6, IdleOK DEF AttemptsInit, IdleRequest
  <2> QED
    BY <2>1, <1>1, <1>4 DEF AttemptsInit, AttemptsTypeOK
<1>8. \A r \in Req : AttemptOK(request[r]) /\ DeliveryOK(request[r])
  BY <1>6, IdleOK
<1>9. ASSUME NEW a PROVE Cardinality(Holders(a)) = 0
  <2>1. Holders(a) = {}
    BY <1>6 DEF Holders, IdleRequest
  <2> QED
    BY <2>1, FS_EmptySet
<1>10. GaugeBounded /\ GaugeExact
  BY <1>4, <1>9 DEF AttemptsInit, GaugeBounded, GaugeExact
<1> QED
  BY <1>5, <1>7, <1>8, <1>10 DEF Inv

(***************************************************************************)
(* Every step preserves it: the steps that touch no gauge first.           *)
(***************************************************************************)
LEMMA StartInv ==
  ASSUME Inv, NEW r \in Req, NEW k \in Kinds, Start(r, k)
  PROVE  Inv'
<1> DEFINE q == [IdleRequest EXCEPT !.pc = "pick", !.kind = k, !.list = runtime]
<1>1. request[r].pc = "idle"
  BY DEF Start
<1>2. request' = [request EXCEPT ![r] = q]
  BY DEF Start
<1>3. q \in Request
  BY IdleOK, AttemptsAssumption DEF Inv, AttemptsTypeOK, Request, PCs, IdleRequest
<1>4. AttemptOK(q) /\ DeliveryOK(q)
  BY IdleOK DEF AttemptOK, DeliveryOK, IdleRequest
<1>5. \A a : Holds(q, a) <=> Holds(request[r], a)
  BY <1>1 DEF Holds, IdleRequest
<1>6. slots' \in Seq(Slot) /\ SameGauges(slots, slots') /\ UNCHANGED <<registryVars, abandoned>>
  BY DEF Inv, AttemptsTypeOK, Start, SameGauges
<1> HIDE DEF q
<1> QED
  BY <1>2, <1>3, <1>4, <1>5, <1>6, QuietStep

(***************************************************************************)
(* A pick takes an untried peer and moves no gauge.                        *)
(***************************************************************************)
LEMMA PickPeerInv ==
  ASSUME Inv, NEW r \in Req, NEW i \in DOMAIN request[r].list, PickPeer(r, i)
  PROVE  Inv'
<1> DEFINE q == [request[r] EXCEPT !.pc = "acquire", !.idx = i]
<1>1. request[r] \in Request /\ AttemptOK(request[r]) /\ DeliveryOK(request[r]) /\ request[r].pc = "pick"
  BY DEF Inv, AttemptsTypeOK, PickPeer
<1>2. i \in Nat
  BY <1>1, RequestFields, LenProperties
<1>3. request[r].list[i] \notin request[r].tried
  BY DEF PickPeer, Candidates
<1>4. request[r].kind # "ws" => request[r].attempt < Retries + 1
  BY DEF PickPeer, MayAttempt, Ws
<1>5. request' = [request EXCEPT ![r] = q]
  BY DEF PickPeer
<1>6. q \in Request
  BY <1>1, <1>2 DEF Request, PCs
<1>7. AttemptOK(q)
  BY <1>1, <1>3, <1>4 DEF AttemptOK, PeerOf, Request
<1>8. DeliveryOK(q)
  BY <1>1 DEF DeliveryOK, Request
<1>9. \A a : Holds(q, a) <=> Holds(request[r], a)
  BY <1>1 DEF Holds, Request
<1>10. slots' \in Seq(Slot) /\ SameGauges(slots, slots') /\ UNCHANGED <<registryVars, abandoned>>
  BY DEF Inv, AttemptsTypeOK, PickPeer, SameGauges
<1> HIDE DEF q
<1> QED
  BY <1>5, <1>6, <1>7, <1>8, <1>9, <1>10, QuietStep

(***************************************************************************)
(* A request that ends before an attempt leaves nothing behind.            *)
(***************************************************************************)
LEMMA EndInv ==
  ASSUME Inv, NEW r \in Req, GiveUpRequest(r) \/ Deny(r)
  PROVE  Inv'
<1>1. request' = [request EXCEPT ![r] = IdleRequest] /\ request[r].pc = "pick"
  BY DEF GiveUpRequest, Deny
<1>2. \A a : Holds(IdleRequest, a) <=> Holds(request[r], a)
  BY <1>1 DEF Holds, IdleRequest
<1>3. slots' \in Seq(Slot) /\ SameGauges(slots, slots') /\ UNCHANGED <<registryVars, abandoned>>
  BY DEF Inv, AttemptsTypeOK, GiveUpRequest, Deny, SameGauges
<1> QED
  BY <1>1, <1>2, <1>3, IdleOK, QuietStep

(***************************************************************************)
(* What the upstream answered decides the rest of the attempt; a           *)
(* non-idempotent request that a peer may have seen is not tried again.    *)
(***************************************************************************)
LEMMA OutcomeInv ==
  ASSUME Inv, NEW r \in Req, NEW o \in Outcomes, Outcome(r, o)
  PROVE  Inv'
<1> DEFINE next == IF Answered(r, o) THEN "release" ELSE "record"
           ok   == o = "ok"
           more == TriesAgain(r, o)
           seen == IF o = "connect" \/ Idempotent(r) THEN request[r].saw ELSE request[r].saw + 1
           hold == ~Answered(r, o)
           q    == [request[r] EXCEPT !.pc = next, !.success = ok, !.again = more,
                                  !.saw = seen, !.held = hold]
<1>1. request[r] \in Request /\ AttemptOK(request[r]) /\ DeliveryOK(request[r]) /\ request[r].pc = "fly"
  BY DEF Inv, AttemptsTypeOK, Outcome
<1>2. request' = [request EXCEPT ![r] = q]
  BY DEF Outcome
<1>3. next \in {"release", "record"} /\ ok \in BOOLEAN /\ hold \in BOOLEAN
  OBVIOUS
<1>4. more \in BOOLEAN
  BY DEF TriesAgain, Answered, MayRetry
<1>5. seen \in Nat
  BY <1>1, RequestFields
<1>6. request[r].kind = "post" => seen <= 1 /\ (more => seen = 0)
  BY <1>1 DEF DeliveryOK, TriesAgain, MayRetry, Ws, Idempotent
<1>7. slots' \in Seq(Slot) /\ SameGauges(slots, slots') /\ UNCHANGED <<registryVars, abandoned>>
  BY DEF Inv, AttemptsTypeOK, Outcome, SameGauges
<1> HIDE DEF next, ok, more, seen, hold
<1>8. q \in Request
  BY <1>1, <1>3, <1>4, <1>5 DEF Request, PCs
<1>9. AttemptOK(q)
  BY <1>1, <1>3 DEF AttemptOK, PeerOf, Request
<1>10. DeliveryOK(q)
  BY <1>1, <1>3, <1>6 DEF DeliveryOK, Request
<1>11. \A a : Holds(q, a) <=> Holds(request[r], a)
  BY <1>1, <1>3 DEF Holds, PeerOf, Request
<1> HIDE DEF q
<1> QED
  BY <1>2, <1>7, <1>8, <1>9, <1>10, <1>11, QuietStep

(***************************************************************************)
(* Recording an outcome, in the block or in an orphaned one, moves no      *)
(* gauge.                                                                  *)
(***************************************************************************)
LEMMA RecordKeepsGauges ==
  ASSUME Inv, NEW r \in Req
  PROVE  RecordOutcome(r) \in Seq(Slot) /\ SameGauges(slots, RecordOutcome(r))
<1>1. slots \in Seq(Slot) /\ request[r] \in Request
  BY DEF Inv, AttemptsTypeOK
<1>2. request[r].idx \in Nat /\ Now \in Nat
  BY <1>1, RequestFields, HealthAssumption DEF Now
<1>3. SameGauges(slots, slots)
  BY DEF SameGauges
<1> QED
  BY <1>1, <1>2, <1>3, OutcomeKeepsGauges DEF RecordOutcome

(***************************************************************************)
(* Recording leaves the attempt holding its peer.                          *)
(***************************************************************************)
LEMMA RecordInv ==
  ASSUME Inv, NEW r \in Req, Record(r)
  PROVE  Inv'
<1> DEFINE q == [request[r] EXCEPT !.pc = "release", !.held = FALSE, !.success = FALSE]
<1>1. request[r] \in Request /\ AttemptOK(request[r]) /\ DeliveryOK(request[r]) /\ request[r].pc = "record"
  BY DEF Inv, AttemptsTypeOK, Record
<1>2. request' = [request EXCEPT ![r] = q] /\ UNCHANGED <<registryVars, abandoned>>
  BY DEF Record
<1>3. q \in Request
  BY <1>1 DEF Request, PCs
<1>4. AttemptOK(q)
  BY <1>1 DEF AttemptOK, PeerOf, Request
<1>5. DeliveryOK(q)
  BY <1>1 DEF DeliveryOK, Request
<1>6. \A a : Holds(q, a) <=> Holds(request[r], a)
  BY <1>1 DEF Holds, PeerOf, Request
<1>7. slots' \in Seq(Slot) /\ SameGauges(slots, slots')
  BY RecordKeepsGauges DEF Record
<1> HIDE DEF q
<1> QED
  BY <1>2, <1>3, <1>4, <1>5, <1>6, <1>7, QuietStep

(***************************************************************************)
(* The success of an established tunnel is recorded after the release.     *)
(***************************************************************************)
LEMMA CreditInv ==
  ASSUME Inv, NEW r \in Req, Credit(r)
  PROVE  Inv'
<1>1. request' = [request EXCEPT ![r] = IdleRequest] /\ request[r].pc = "credit" /\ UNCHANGED <<registryVars, abandoned>>
  BY DEF Credit
<1>2. \A a : Holds(IdleRequest, a) <=> Holds(request[r], a)
  BY <1>1 DEF Holds, IdleRequest
<1>3. slots' \in Seq(Slot) /\ SameGauges(slots, slots')
  BY RecordKeepsGauges DEF Credit
<1> QED
  BY <1>1, <1>2, <1>3, IdleOK, QuietStep

(***************************************************************************)
(* Acquiring a peer counts it once, where it has a slot.                   *)
(***************************************************************************)
LEMMA AcquireInv ==
  ASSUME Inv, NEW r \in Req, AcquirePeer(r)
  PROVE  Inv'
<1> DEFINE p == PeerOf(request[r])
           n == request[r].attempt + 1
           q == [request[r] EXCEPT !.pc = "fly", !.attempt = n, !.asked = request[r].asked \cup {p}]
<1>1. request[r] \in Request /\ AttemptOK(request[r]) /\ DeliveryOK(request[r]) /\ request[r].pc = "acquire"
  BY DEF Inv, AttemptsTypeOK, AcquirePeer
<1>2. request' = [request EXCEPT ![r] = q]
  BY DEF AcquirePeer, Peer, PeerOf
<1>3. p \in Addr
  BY <1>1, RequestFields, ElementOfSeq, LenProperties DEF AttemptOK, PeerOf
<1>4. n \in Nat /\ (request[r].kind # "ws" => n <= Retries + 1)
  BY <1>1, RequestFields, AttemptsAssumption DEF AttemptOK
<1>5. IsFiniteSet(request[r].asked \cup {p}) /\ n = Cardinality(request[r].asked \cup {p})
  <2>1. PICK asked : asked = request[r].asked
    OBVIOUS
  <2>2. IsFiniteSet(asked) /\ request[r].attempt = Cardinality(asked) /\ p \notin asked
    BY <1>1, <2>1 DEF AttemptOK
  <2> HIDE DEF p
  <2>3. IsFiniteSet(asked \cup {p}) /\ Cardinality(asked \cup {p}) = Cardinality(asked) + 1
    BY <2>2, FS_AddElement
  <2> QED
    BY <2>1, <2>2, <2>3
<1>6. slots' = IncInFlight(slots, p) /\ UNCHANGED <<registryVars, abandoned>>
  BY DEF AcquirePeer, Peer, PeerOf
<1> HIDE DEF p, n
<1>7. q \in Request
  BY <1>1, <1>3, <1>4 DEF Request, PCs
<1>8. AttemptOK(q)
  BY <1>1, <1>4, <1>5 DEF AttemptOK, PeerOf, Request, p
<1>9. DeliveryOK(q)
  BY <1>1 DEF DeliveryOK, Request
<1>10. \A a : ~Holds(request[r], a) /\ (Holds(q, a) <=> a = p)
  BY <1>1 DEF Holds, PeerOf, Request, p
<1> HIDE DEF q
<1>11. /\ slots' \in Seq(Slot)
       /\ \A a : SlotsOf(slots', a) = SlotsOf(slots, a)
       /\ \A a : Gauge(slots', a)
                   = IF a = p /\ SlotsOf(slots, p) # {} THEN Gauge(slots, a) + 1 ELSE Gauge(slots, a)
  BY <1>3, <1>6, IncGauge DEF Inv, AttemptsTypeOK, BlockOK
<1>12. ASSUME NEW a
       PROVE  /\ Cardinality(Holders(a)) \in Nat
              /\ Cardinality(Holders(a)')
                   = IF a = p THEN Cardinality(Holders(a)) + 1 ELSE Cardinality(Holders(a))
  BY <1>2, <1>7, <1>10, HoldersChange DEF Inv, AttemptsTypeOK
<1>13. \A a : Gauge(slots, a) \in Nat
  BY GaugeType DEF Inv, AttemptsTypeOK, BlockOK
<1>14. abandoned' = abandoned /\ abandoned \in [Addr -> Nat] /\ dropped' = dropped /\ doubled' = doubled
  BY <1>6 DEF Inv, AttemptsTypeOK, registryVars
<1>15. GaugeBounded'
  BY <1>11, <1>12, <1>13, <1>14 DEF Inv, GaugeBounded
<1>16. GaugeExact'
  BY <1>11, <1>12, <1>13, <1>14 DEF Inv, GaugeExact, BlockOK
<1> QED
  BY <1>2, <1>6, <1>7, <1>8, <1>9, <1>11, <1>14, <1>15, <1>16, RequestStep

(***************************************************************************)
(* What is left of an attempt after its release.                           *)
(***************************************************************************)
LEMMA ReleaseLocals ==
  ASSUME Inv, NEW r \in Req, Release(r)
  PROVE  \E q \in Request : /\ request' = [request EXCEPT ![r] = q]
                            /\ AttemptOK(q) /\ DeliveryOK(q)
                            /\ \A a : ~Holds(q, a)
<1>1. request[r] \in Request /\ AttemptOK(request[r]) /\ DeliveryOK(request[r]) /\ request[r].pc = "release"
  BY DEF Inv, AttemptsTypeOK, Release
<1>2. CASE /\ request[r].again
           /\ request' = [request EXCEPT ![r].pc = "pick", ![r].tried = @ \cup {Peer(r)},
                                 ![r].again = FALSE]
  <2> DEFINE t == request[r].tried \cup {Peer(r)}
             q == [request[r] EXCEPT !.pc = "pick", !.tried = t, !.again = FALSE]
  <2>1. request' = [request EXCEPT ![r] = q]
    BY <1>2
  <2>2. t = request[r].asked
    BY <1>1 DEF AttemptOK, PeerOf, Peer
  <2> HIDE DEF t
  <2>3. q \in Request
    BY <1>1, <2>2 DEF Request, PCs
  <2>4. AttemptOK(q)
    BY <1>1, <2>2 DEF AttemptOK, Request
  <2>5. DeliveryOK(q)
    BY <1>1, <1>2 DEF DeliveryOK, Request
  <2>6. \A a : ~Holds(q, a)
    BY <1>1 DEF Holds, Request
  <2> HIDE DEF q
  <2> QED
    BY <2>1, <2>3, <2>4, <2>5, <2>6
<1>3. CASE /\ Ws(r) /\ request[r].success
           /\ request' = [request EXCEPT ![r].pc = "credit", ![r].held = TRUE]
  <2> DEFINE q == [request[r] EXCEPT !.pc = "credit", !.held = TRUE]
  <2>1. request' = [request EXCEPT ![r] = q]
    BY <1>3
  <2>2. q \in Request
    BY <1>1 DEF Request, PCs
  <2>3. AttemptOK(q)
    BY <1>1 DEF AttemptOK, Request
  <2>4. DeliveryOK(q)
    BY <1>1, <1>3 DEF DeliveryOK, Request, Ws
  <2>5. \A a : ~Holds(q, a)
    BY <1>1 DEF Holds, Request
  <2> HIDE DEF q
  <2> QED
    BY <2>1, <2>2, <2>3, <2>4, <2>5
<1>4. CASE request' = [request EXCEPT ![r] = IdleRequest]
  <2>1. \A a : ~Holds(IdleRequest, a)
    BY DEF Holds, IdleRequest
  <2> QED
    BY <2>1, <1>4, IdleOK
<1> QED
  BY <1>2, <1>3, <1>4 DEF Release

(***************************************************************************)
(* Releasing a peer takes back what its acquisition added, if the gauge    *)
(* still has it.                                                           *)
(***************************************************************************)
LEMMA ReleaseInv ==
  ASSUME Inv, NEW r \in Req, Release(r)
  PROVE  Inv'
<1> DEFINE p == PeerOf(request[r])
<1>1. request[r] \in Request /\ AttemptOK(request[r]) /\ request[r].pc = "release"
  BY DEF Inv, AttemptsTypeOK, Release
<1>2. p \in Addr
  BY <1>1, RequestFields, ElementOfSeq, LenProperties DEF AttemptOK, PeerOf
<1>3. PICK q \in Request : /\ request' = [request EXCEPT ![r] = q]
                           /\ AttemptOK(q) /\ DeliveryOK(q)
                           /\ \A a : ~Holds(q, a)
  BY ReleaseLocals
<1>4. slots' = DecInFlight(slots, p) /\ UNCHANGED <<registryVars, abandoned>>
  BY DEF Release, Peer, PeerOf
<1>5. \A a : Holds(request[r], a) <=> a = p
  BY <1>1 DEF Holds
<1> HIDE DEF p
<1>6. /\ slots' \in Seq(Slot)
      /\ \A a : SlotsOf(slots', a) = SlotsOf(slots, a)
      /\ \A a : Gauge(slots', a)
                  = IF a = p /\ Gauge(slots, a) # 0 THEN Gauge(slots, a) - 1 ELSE Gauge(slots, a)
  BY <1>2, <1>4, DecGauge DEF Inv, AttemptsTypeOK, BlockOK
<1>7. ASSUME NEW a
      PROVE  /\ Cardinality(Holders(a)) \in Nat
             /\ a = p => Cardinality(Holders(a)) > 0
             /\ Cardinality(Holders(a)')
                  = IF a = p THEN Cardinality(Holders(a)) - 1 ELSE Cardinality(Holders(a))
  BY <1>3, <1>5, HoldersChange DEF Inv, AttemptsTypeOK
<1>8. \A a : Gauge(slots, a) \in Nat
  BY GaugeType DEF Inv, AttemptsTypeOK, BlockOK
<1>9. abandoned' = abandoned /\ abandoned \in [Addr -> Nat] /\ dropped' = dropped /\ doubled' = doubled
  BY <1>4 DEF Inv, AttemptsTypeOK, registryVars
<1>10. GaugeBounded'
  BY <1>6, <1>7, <1>8, <1>9 DEF Inv, GaugeBounded
<1>11. GaugeExact'
  <2>1. ASSUME NEW a \in Addr \ (dropped \cup doubled)
        PROVE  Gauge(slots', a) = Cardinality(Holders(a)') + abandoned[a]
    <3>1. Gauge(slots, a) = Cardinality(Holders(a)) + abandoned[a] /\ abandoned[a] \in Nat
      BY <1>9 DEF Inv, GaugeExact
    <3> QED
      BY <3>1, <1>6, <1>7, <1>8
  <2> QED
    BY <2>1, <1>9 DEF GaugeExact
<1> QED
  BY <1>3, <1>4, <1>6, <1>9, <1>10, <1>11, RequestStep

(***************************************************************************)
(* An abandoned attempt leaves its acquisition in the gauge; `abandoned`   *)
(* accounts for it.                                                        *)
(***************************************************************************)
LEMMA AbandonInv ==
  ASSUME Inv, NEW r \in Req, AbandonAttempt(r)
  PROVE  Inv'
<1> DEFINE p == PeerOf(request[r])
<1>1. request[r] \in Request /\ AttemptOK(request[r]) /\ request[r].pc = "fly"
  BY DEF Inv, AttemptsTypeOK, AbandonAttempt
<1>2. p \in Addr
  BY <1>1, RequestFields, ElementOfSeq, LenProperties DEF AttemptOK, PeerOf
<1>3. request' = [request EXCEPT ![r] = IdleRequest] /\ slots' = slots /\ UNCHANGED registryVars
  BY DEF AbandonAttempt
<1>4. abandoned \in [Addr -> Nat] /\ abandoned' = [abandoned EXCEPT ![p] = @ + 1]
  BY DEF AbandonAttempt, Peer, PeerOf, Inv, AttemptsTypeOK
<1>5. \A a : ~Holds(IdleRequest, a) /\ (Holds(request[r], a) <=> a = p)
  BY <1>1 DEF Holds, IdleRequest
<1> HIDE DEF p
<1>6. ASSUME NEW a
      PROVE  /\ Cardinality(Holders(a)) \in Nat
             /\ Cardinality(Holders(a)')
                  = IF a = p THEN Cardinality(Holders(a)) - 1 ELSE Cardinality(Holders(a))
  BY <1>3, <1>5, IdleOK, HoldersChange DEF Inv, AttemptsTypeOK
<1>7. \A a : Gauge(slots, a) \in Nat
  BY GaugeType DEF Inv, AttemptsTypeOK, BlockOK
<1>8. abandoned' \in [Addr -> Nat]
  BY <1>2, <1>4
<1>9. GaugeBounded'
  BY <1>3, <1>4, <1>6, <1>7 DEF Inv, GaugeBounded, registryVars
<1>10. GaugeExact'
  BY <1>3, <1>4, <1>6, <1>7 DEF Inv, GaugeExact, registryVars
<1>11. /\ slots' \in Seq(Slot)
       /\ \A a : SlotsOf(slots', a) = SlotsOf(slots, a)
  BY <1>3 DEF Inv, AttemptsTypeOK, BlockOK
<1> QED
  BY <1>3, <1>8, <1>9, <1>10, <1>11, IdleOK, RequestStep

(***************************************************************************)
(* A registration moves the gauges of the addresses that stay and forgets  *)
(* the others; the requests in flight keep everything but the block their  *)
(* outcome would have gone to.                                             *)
(***************************************************************************)
LEMMA ReloadRegisterInv ==
  ASSUME Inv, NEW p \in Publisher, NEW l \in Lists, ReloadRegister(p, l)
  PROVE  Inv'
<1>1. l \in Seq(Addr)
  BY AttemptsAssumption
<1>2. AllHealthy \in [Addr -> ActivePeer]
  BY DEF AllHealthy, FreshActive, ActivePeer
<1>3. slots \in Seq(Slot)
  BY DEF Inv, AttemptsTypeOK, BlockOK
<1>4. /\ slots' \in Seq(Slot)
      /\ \A a : SlotsOf(slots', a) # {} <=> Listed(l, a)
      /\ \A a : ~Listed(l, a) => Gauge(slots', a) = 0
      /\ \A a : Listed(l, a) /\ Once(slots, a) => Gauge(slots', a) = Gauge(slots, a)
  BY <1>1, <1>2, <1>3, RegisterGauge DEF ReloadRegister
<1>5. /\ \A a \in Addr \ dropped' : Listed(l, a) /\ a \in Addr \ dropped
      /\ \A a \in Addr \ doubled' : Once(slots, a) /\ a \in Addr \ doubled
  BY DEF ReloadRegister, AddrsOf, Listed, Doubled, Once
<1>6. ASSUME NEW r \in Req
      PROVE  /\ request'[r] \in Request /\ AttemptOK(request'[r]) /\ DeliveryOK(request'[r])
             /\ request'[r].pc = request[r].pc /\ PeerOf(request'[r]) = PeerOf(request[r])
             /\ request'[r].pc \notin {"idle", "pick"} => request'[r].idx \in DOMAIN request'[r].list
  <2> DEFINE q == [request[r] EXCEPT !.held = FALSE]
  <2>1. request'[r] = q
    BY DEF ReloadRegister
  <2>2. request[r] \in Request /\ AttemptOK(request[r]) /\ DeliveryOK(request[r])
    BY DEF Inv, AttemptsTypeOK
  <2>3. q \in Request /\ q.pc = request[r].pc /\ PeerOf(q) = PeerOf(request[r])
    BY <2>2 DEF Request, PeerOf
  <2>4. AttemptOK(q)
    <3>1. /\ q.pc = request[r].pc /\ q.kind = request[r].kind /\ q.list = request[r].list
          /\ q.idx = request[r].idx /\ q.attempt = request[r].attempt
          /\ q.tried = request[r].tried /\ q.asked = request[r].asked
      BY <2>2 DEF Request
    <3> HIDE DEF q
    <3> QED
      BY <2>2, <3>1 DEF AttemptOK, PeerOf
  <2>5. DeliveryOK(q)
    BY <2>2 DEF DeliveryOK, Request
  <2> HIDE DEF q
  <2> QED
    BY <2>1, <2>3, <2>4, <2>5 DEF AttemptOK
<1>7. request' \in [Req -> Request]
  <2>1. request' = [r \in Req |-> request'[r]]
    BY DEF ReloadRegister
  <2> QED
    BY <2>1, <1>6
<1>8. AttemptsTypeOK'
  BY <1>4, <1>6, <1>7 DEF Inv, AttemptsTypeOK, ReloadRegister, Doubled
<1>9. BlockOK'
  <2>1. \A a \in Addr \ dropped' : SlotsOf(slots', a) # {}
    BY <1>4, <1>5
  <2> QED
    BY <2>1, <1>4 DEF BlockOK, SlotsOf
<1>10. (\A r \in Req : AttemptOK(request[r]) /\ DeliveryOK(request[r]))'
  <2>1. ASSUME NEW r PROVE AttemptOK(request[r])' <=> AttemptOK(request'[r])
    BY DEF AttemptOK, PeerOf, IdleRequest
  <2>2. ASSUME NEW r PROVE DeliveryOK(request[r])' <=> DeliveryOK(request'[r])
    BY DEF DeliveryOK
  <2> QED
    BY <1>6, <2>1, <2>2
<1>11. \A a : Holders(a)' = Holders(a)
  BY <1>6 DEF Holders, Peer, PeerOf
<1>12. ASSUME NEW a PROVE Cardinality(Holders(a)) \in Nat
  <2>1. Holders(a) \subseteq Req
    BY DEF Holders
  <2> QED
    BY <2>1, AttemptsAssumption, FS_Subset, FS_CardinalityType
<1>13. abandoned' = abandoned /\ abandoned \in [Addr -> Nat]
  BY DEF Inv, AttemptsTypeOK, ReloadRegister
<1>14. GaugeBounded'
  <2>1. ASSUME NEW a \in Addr \ doubled'
        PROVE  Gauge(slots', a) <= Cardinality(Holders(a)') + abandoned'[a]
    BY <1>4, <1>5, <1>11, <1>12, <1>13, GaugeType DEF Inv, GaugeBounded
  <2> QED
    BY <2>1 DEF GaugeBounded
<1>15. GaugeExact'
  <2>1. ASSUME NEW a \in Addr \ (dropped' \cup doubled')
        PROVE  Gauge(slots', a) = Cardinality(Holders(a)') + abandoned'[a]
    BY <1>4, <1>5, <1>11, <1>13 DEF Inv, GaugeExact
  <2> QED
    BY <2>1 DEF GaugeExact
<1> QED
  BY <1>8, <1>9, <1>10, <1>14, <1>15 DEF Inv

(***************************************************************************)
(* Publishing, and a stuttering step, change nothing the rest is about.    *)
(***************************************************************************)
LEMMA PublishInv ==
  ASSUME Inv, (\E p \in Publisher : ReloadPublish(p)) \/ UNCHANGED attemptVars
  PROVE  Inv'
<1>1. UNCHANGED <<slots, request, abandoned, dropped, doubled>>
  BY DEF ReloadPublish, attemptVars
<1>2. AttemptsTypeOK'
  BY <1>1 DEF Inv, AttemptsTypeOK, ReloadPublish, attemptVars
<1>3. \A a : Holders(a)' = Holders(a)
  BY <1>1 DEF Holders, Peer
<1>4. GaugeBounded' /\ GaugeExact'
  BY <1>1, <1>3 DEF Inv, GaugeBounded, GaugeExact
<1>5. BlockOK'
  BY <1>1 DEF Inv, BlockOK, SlotsOf
<1>6. (\A r \in Req : AttemptOK(request[r]) /\ DeliveryOK(request[r]))'
  BY <1>1 DEF Inv, AttemptOK, DeliveryOK, PeerOf, IdleRequest
<1> QED
  BY <1>2, <1>4, <1>5, <1>6 DEF Inv

(***************************************************************************)
(* The invariant is inductive.                                             *)
(***************************************************************************)
LEMMA NextInv == Inv /\ [AttemptsNext]_attemptVars => Inv'
<1> SUFFICES ASSUME Inv, [AttemptsNext]_attemptVars PROVE Inv'
  OBVIOUS
<1>1. ASSUME NEW r \in Req, NEW k \in Kinds, Start(r, k) PROVE Inv'
  BY <1>1, StartInv
<1>2. ASSUME NEW r \in Req, Step(r) PROVE Inv'
  <2>1. CASE \E i \in DOMAIN request[r].list : PickPeer(r, i)
    BY <2>1, PickPeerInv
  <2>2. CASE \E o \in Outcomes : Outcome(r, o)
    BY <2>2, OutcomeInv
  <2>3. CASE GiveUpRequest(r) \/ Deny(r)
    BY <2>3, EndInv
  <2>4. CASE AcquirePeer(r)
    BY <2>4, AcquireInv
  <2>5. CASE Record(r)
    BY <2>5, RecordInv
  <2>6. CASE Release(r)
    BY <2>6, ReleaseInv
  <2>7. CASE Credit(r)
    BY <2>7, CreditInv
  <2>8. CASE CancelRequest(r) \/ BadHandshake(r)
    BY <2>8, AbandonInv DEF CancelRequest, BadHandshake
  <2> QED
    BY <1>2, <2>1, <2>2, <2>3, <2>4, <2>5, <2>6, <2>7, <2>8 DEF Step
<1>3. ASSUME NEW p \in Publisher, NEW l \in Lists, ReloadRegister(p, l) PROVE Inv'
  BY <1>3, ReloadRegisterInv
<1>4. CASE (\E p \in Publisher : ReloadPublish(p)) \/ UNCHANGED attemptVars
  BY <1>4, PublishInv
<1> QED
  BY <1>1, <1>2, <1>3, <1>4 DEF AttemptsNext

(***************************************************************************)
(* The inductive invariant holds in every reachable state.                 *)
(***************************************************************************)
THEOREM InvHolds == AttemptsSpec => []Inv
  BY InitInv, NextInv, PTL DEF AttemptsSpec

(***************************************************************************)
(* Every variable keeps its type; an attempt under way has an index into   *)
(* the list its request pinned, whatever reloads did since (pick_peer).    *)
(***************************************************************************)
THEOREM TypeCorrect == AttemptsSpec => []AttemptsTypeOK
<1>1. Inv => AttemptsTypeOK
  BY DEF Inv
<1> QED
  BY <1>1, InvHolds, PTL

(***************************************************************************)
(* The gauge of an address never counts an attempt that does not exist,    *)
(* for any number of requests and reloads and any lists, until a reload    *)
(* replaces a block with two slots of the address (inc_in_flight,          *)
(* dec_in_flight, register).                                               *)
(***************************************************************************)
THEOREM GaugeNeverInvents == AttemptsSpec => []GaugeBounded
<1>1. Inv => GaugeBounded
  BY DEF Inv
<1> QED
  BY <1>1, InvHolds, PTL

(***************************************************************************)
(* The gauge of an address that no reload dropped is exact: registering a  *)
(* list in another order, with other neighbours or with the address twice, *)
(* neither loses nor duplicates an acquisition in flight (register); only  *)
(* a block with two slots of the address cannot be replaced without that.  *)
(***************************************************************************)
THEOREM GaugeSurvivesReloads == AttemptsSpec => []GaugeExact
<1>1. Inv => GaugeExact
  BY DEF Inv
<1> QED
  BY <1>1, InvHolds, PTL

(***************************************************************************)
(* A non-idempotent request reaches at most one peer, whatever fails and   *)
(* times out (proxy::may_retry).                                           *)
(***************************************************************************)
THEOREM DeliveredOnce == AttemptsSpec => []NonIdempotentOnce
<1>1. Inv => NonIdempotentOnce
  BY RequestFields DEF Inv, AttemptsTypeOK, NonIdempotentOnce, Idempotent, DeliveryOK
<1> QED
  BY <1>1, InvHolds, PTL

(***************************************************************************)
(* A request asks as many addresses as it makes attempts and stays within  *)
(* its budget, although reloads may give it another registry between two   *)
(* attempts (untried_healthy, mark_tried).                                 *)
(***************************************************************************)
THEOREM AttemptsAreDistinct == AttemptsSpec => []NoRevisit
<1>1. Inv => NoRevisit
  BY DEF Inv, NoRevisit, AttemptOK, Ws
<1> QED
  BY <1>1, InvHolds, PTL
=============================================================================
