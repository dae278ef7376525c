--------------------------- MODULE ProxyAttempts ---------------------------
(***************************************************************************)
(* The attempt loops of proxied requests (pipeline/mod.rs step 10, ws.rs,  *)
(* pipeline_peer.rs) against the shared health registry of one upstream,   *)
(* while reloads replace the peer list under them.                         *)
(*                                                                         *)
(* A request pins the peer list of the runtime snapshot it starts with and *)
(* keeps using its indices, whatever the registry has become meanwhile.    *)
(* Each attempt picks a peer, acquires its in-flight gauge, waits for the  *)
(* upstream, records the outcome, releases the gauge and decides whether   *)
(* to try another peer.  The steps of different requests and of a reload   *)
(* interleave at the granularity of the registry's locks.                  *)
(*                                                                         *)
(* Which candidate a pick takes is left open: a plugin of the balancer     *)
(* phase may pin any of them, and so may the default balancers.  No peer   *)
(* is probed actively, so the table of the active plane has no entry       *)
(* (AllHealthy).  The clock stands still at Now, the start of every        *)
(* failure window: attempts are short against fail_timeout, and            *)
(* HealthTimeline is about time.                                           *)
(***************************************************************************)
EXTENDS PeerHealth

CONSTANTS
  Req,            \* concurrent requests; each may be followed by another
  Publisher,      \* callers of apply_runtime: the reload that has the gate, the ingress task
  Lists,          \* peer lists a configuration may have
  Retries,        \* upstream.retries
  RetryOnTimeout, \* upstream.retry_on_timeout
  MaxAbandoned    \* bound on attempts that end without a release

ASSUME AttemptsAssumption ==
  /\ IsFiniteSet(Req)
  /\ Lists \subseteq Seq(Addr)
  /\ Retries \in Nat
  /\ RetryOnTimeout \in BOOLEAN
  /\ MaxAbandoned \in Nat

VARIABLES
  slots,     \* the registered block
  runtime,   \* the peer list of the published runtime snapshot
  pending,   \* per publisher, the list it has registered and not yet published, if any
  request,   \* the state of each request
  abandoned, \* history: per address, attempts that ended without a release
  dropped,   \* history: addresses that some registered list did not have
  doubled    \* history: addresses that a replaced block had in two slots

attemptVars == <<slots, runtime, pending, request, abandoned, dropped, doubled>>

AllHealthy == [a \in Addr |-> FreshActive]

Now == 0

AddrsOf(l) == {l[i] : i \in DOMAIN l}

(***************************************************************************)
(* The locals of a request: its kind (an idempotent method, another method *)
(* or a WebSocket upgrade, which is a GET), the peer list it pinned, the   *)
(* index and the number of its current attempt, the addresses it marked    *)
(* tried, whether the attempt succeeded and whether another follows, and   *)
(* whether the block its outcome is recorded in is still the registered    *)
(* one; as history, how many attempts may have delivered a non-idempotent  *)
(* request and which addresses the request was sent to.                    *)
(***************************************************************************)
Outcomes == {"ok", "refused", "connect", "sent", "response", "timeout"}
PCs == {"idle", "pick", "acquire", "fly", "record", "release", "credit"}

Kinds == {"get", "post", "ws"}

Request == [pc : PCs, kind : Kinds, list : Seq(Addr), idx : Nat, attempt : Nat,
            tried : SUBSET Addr, success : BOOLEAN, again : BOOLEAN, held : BOOLEAN,
            saw : Nat, asked : SUBSET Addr]

IdleRequest == [pc |-> "idle", kind |-> "get", list |-> <<>>, idx |-> 0, attempt |-> 0,
                tried |-> {}, success |-> FALSE, again |-> FALSE, held |-> FALSE,
                saw |-> 0, asked |-> {}]

AttemptsTypeOK ==
  /\ slots \in Seq(Slot)
  /\ runtime \in Lists
  /\ pending \in [Publisher -> SUBSET Lists]
  /\ request \in [Req -> Request]
  /\ \A r \in Req : request[r].pc \notin {"idle", "pick"} => request[r].idx \in DOMAIN request[r].list
  /\ abandoned \in [Addr -> Nat]
  /\ dropped \in SUBSET Addr /\ doubled \in SUBSET Addr

AttemptsInit ==
  /\ runtime \in Lists
  /\ slots = Register(<<>>, AllHealthy, runtime)
  /\ pending = [p \in Publisher |-> {}]
  /\ request = [r \in Req |-> IdleRequest]
  /\ abandoned = [a \in Addr |-> 0]
  /\ dropped = Addr \ AddrsOf(runtime)
  /\ doubled = {}

registryVars == <<runtime, pending, dropped, doubled>>

(***************************************************************************)
(* The attempt loop of a request.                                          *)
(***************************************************************************)
Peer(r) == request[r].list[request[r].idx]

Ws(r) == request[r].kind = "ws"
Idempotent(r) == request[r].kind # "post"

\* A new request pins the runtime snapshot and reaches the attempt loop.
Start(r, k) ==
  /\ request[r].pc = "idle"
  /\ request' = [request EXCEPT ![r] = [IdleRequest EXCEPT !.pc = "pick", !.kind = k, !.list = runtime]]
  /\ UNCHANGED <<slots, registryVars, abandoned>>

\* Mutation: the healthy peers, tried or not.
CandidatesAgain(r) == HealthyIndices(slots, Len(request[r].list), Now)

\* untried_healthy over healthy_indices; a valid plugin pin is one of them.
Candidates(r) ==
  {i \in HealthyIndices(slots, Len(request[r].list), Now) : request[r].list[i] \notin request[r].tried}

\* The loop's `for attempt in 0..attempts`; the WebSocket walk has no ceiling.
MayAttempt(r) == Ws(r) \/ request[r].attempt < Retries + 1

PickPeer(r, i) ==
  /\ request[r].pc = "pick"
  /\ MayAttempt(r)
  /\ i \in Candidates(r)
  /\ request' = [request EXCEPT ![r].pc = "acquire", ![r].idx = i]
  /\ UNCHANGED <<slots, registryVars, abandoned>>

\* The loop ends without an answer: attempts used up or no candidate left.
GiveUpRequest(r) ==
  /\ request[r].pc = "pick"
  /\ ~MayAttempt(r) \/ Candidates(r) = {}
  /\ request' = [request EXCEPT ![r] = IdleRequest]
  /\ UNCHANGED <<slots, registryVars, abandoned>>

\* A plugin of the balancer phase denies the request.
Deny(r) ==
  /\ request[r].pc = "pick"
  /\ MayAttempt(r)
  /\ request' = [request EXCEPT ![r] = IdleRequest]
  /\ UNCHANGED <<slots, registryVars, abandoned>>

AcquirePeer(r) ==
  /\ request[r].pc = "acquire"
  /\ slots' = IncInFlight(slots, Peer(r))
  /\ request' = [request EXCEPT ![r].pc = "fly", ![r].attempt = @ + 1,
                        ![r].asked = @ \cup {Peer(r)}]
  /\ UNCHANGED <<registryVars, abandoned>>

\* Mutation: a request that was sent is retried whatever its method.
MayRetryAny(r, o) ==
  \/ o \in {"connect", "sent"}
  \/ o = "timeout" /\ RetryOnTimeout /\ request[r].attempt < Retries + 1

\* proxy::may_retry for the failure kind, with may_retry_timeout.
MayRetry(r, o) ==
  \/ o = "connect"
  \/ Idempotent(r) /\ o = "sent"
  \/ /\ Idempotent(r) /\ o = "timeout"
     /\ RetryOnTimeout /\ request[r].attempt < Retries + 1

\* A WebSocket handshake that was answered is released first; only a 101 is
\* recorded, as a success, and after the release.
Answered(r, o) == Ws(r) /\ o \in {"ok", "refused"}

\* The walk over the peers goes on after any failed WebSocket handshake.
TriesAgain(r, o) == IF Ws(r) THEN ~Answered(r, o) ELSE MayRetry(r, o)

\* The upstream's answer, error or timeout, and the lookup of the block the
\* outcome goes to.  "refused" is a handshake answered with another status
\* than 101.
Outcome(r, o) ==
  /\ request[r].pc = "fly"
  /\ o = "refused" => Ws(r)
  /\ request' = [request EXCEPT ![r].pc = IF Answered(r, o) THEN "release" ELSE "record",
                        ![r].success = o = "ok",
                        ![r].again = TriesAgain(r, o),
                        ![r].saw = IF o = "connect" \/ Idempotent(r) THEN @ ELSE @ + 1,
                        ![r].held = ~Answered(r, o)]
  /\ UNCHANGED <<slots, registryVars, abandoned>>

\* record_success / record_failure: written to the block found by the lookup,
\* which a registration may have replaced in between.
RecordOutcome(r) ==
  IF ~request[r].held THEN slots
  ELSE IF request[r].success THEN RecordSuccess(slots, request[r].idx, Now)
  ELSE RecordFailure(slots, request[r].idx, Now)

Record(r) ==
  /\ request[r].pc = "record"
  /\ slots' = RecordOutcome(r)
  /\ request' = [request EXCEPT ![r].pc = "release", ![r].held = FALSE, ![r].success = FALSE]
  /\ UNCHANGED <<registryVars, abandoned>>

\* release_peer, then mark_tried and the next attempt, or the end.
Release(r) ==
  /\ request[r].pc = "release"
  /\ slots' = DecInFlight(slots, Peer(r))
  /\ \/ /\ request[r].again
        /\ request' = [request EXCEPT ![r].pc = "pick", ![r].tried = @ \cup {Peer(r)},
                              ![r].again = FALSE]
     \/ /\ Ws(r) /\ request[r].success
        /\ request' = [request EXCEPT ![r].pc = "credit", ![r].held = TRUE]
     \/ /\ ~request[r].again /\ ~(Ws(r) /\ request[r].success)
        /\ request' = [request EXCEPT ![r] = IdleRequest]
  /\ UNCHANGED <<registryVars, abandoned>>

Credit(r) ==
  /\ request[r].pc = "credit"
  /\ slots' = RecordOutcome(r)
  /\ request' = [request EXCEPT ![r] = IdleRequest]
  /\ UNCHANGED <<registryVars, abandoned>>

TotalAbandoned == MapThenSumSet(LAMBDA a : abandoned[a], Addr)

\* The request ends without release_peer.
AbandonAttempt(r) ==
  /\ request[r].pc = "fly"
  /\ TotalAbandoned < MaxAbandoned
  /\ request' = [request EXCEPT ![r] = IdleRequest]
  /\ abandoned' = [abandoned EXCEPT ![Peer(r)] = @ + 1]
  /\ UNCHANGED <<slots, registryVars>>

\* The client goes away: the handler is dropped where it awaits the upstream.
CancelRequest(r) == AbandonAttempt(r)

\* The upgrade request to the picked peer cannot be built: an early return.
BadHandshake(r) == Ws(r) /\ AbandonAttempt(r)

(***************************************************************************)
(* apply_runtime: the registry takes the new list first, the runtime       *)
(* snapshot that requests pin follows.  The reload gate serialises the     *)
(* reloads, but the merge task of the ingress plane publishes without it,  *)
(* so the two steps of two publishers may interleave.                      *)
(***************************************************************************)
ReloadRegister(p, l) ==
  /\ pending[p] = {}
  /\ pending' = [pending EXCEPT ![p] = {l}]
  /\ slots' = Register(slots, AllHealthy, l)
  /\ request' = [r \in Req |-> [request[r] EXCEPT !.held = FALSE]]
  /\ dropped' = dropped \cup (Addr \ AddrsOf(l))
  /\ doubled' = doubled \cup Doubled(slots)
  /\ UNCHANGED <<runtime, abandoned>>

ReloadPublish(p) ==
  /\ runtime' \in pending[p]
  /\ pending' = [pending EXCEPT ![p] = {}]
  /\ UNCHANGED <<slots, request, abandoned, dropped, doubled>>

Step(r) ==
  \/ \E i \in DOMAIN request[r].list : PickPeer(r, i)
  \/ \E o \in Outcomes : Outcome(r, o)
  \/ GiveUpRequest(r) \/ Deny(r) \/ AcquirePeer(r) \/ Record(r) \/ Release(r) \/ Credit(r)
  \/ CancelRequest(r) \/ BadHandshake(r)

AttemptsNext ==
  \/ \E r \in Req : (\E k \in Kinds : Start(r, k)) \/ Step(r)
  \/ \E p \in Publisher : ReloadPublish(p) \/ \E l \in Lists : ReloadRegister(p, l)

AttemptsSpec == AttemptsInit /\ [][AttemptsNext]_attemptVars

-----------------------------------------------------------------------------
(***************************************************************************)
(* A non-idempotent request is delivered at most once (may_retry): no      *)
(* sequence of failures, timeouts and retries sends it to a second peer    *)
(* once a peer may have seen it.                                           *)
(***************************************************************************)
NonIdempotentOnce == \A r \in Req : ~Idempotent(r) => request[r].saw <= 1

(***************************************************************************)
(* No attempt is wasted (mark_tried, untried_healthy): a request never     *)
(* asks an address twice, even across failures and reloads, so it makes    *)
(* exactly as many attempts as addresses it asked, within its budget.      *)
(***************************************************************************)
NoRevisit ==
  \A r \in Req :
    /\ request[r].attempt = Cardinality(request[r].asked)
    /\ ~Ws(r) => request[r].attempt <= Retries + 1

(***************************************************************************)
(* The in-flight gauge of an address (inc_in_flight, dec_in_flight,        *)
(* register) counts no attempt that does not exist: whatever reloads move  *)
(* it, it is at most the attempts holding the address plus those that      *)
(* ended without a release.  A list may name the address twice; only the   *)
(* next registration then goes wrong, because the gauge is kept in the     *)
(* first of the slots and inherited from the last (doubled).               *)
(***************************************************************************)
Holders(a) == {r \in Req : request[r].pc \in {"fly", "record", "release"} /\ Peer(r) = a}

GaugeBounded ==
  \A a \in Addr \ doubled : Gauge(slots, a) <= Cardinality(Holders(a)) + abandoned[a]

(***************************************************************************)
(* The gauge is exact for an address that every registered list had: no    *)
(* reload that keeps the address loses or duplicates an acquisition, again *)
(* unless it replaces a block with two slots of the address.               *)
(***************************************************************************)
GaugeExact ==
  \A a \in Addr \ (dropped \cup doubled) :
    Gauge(slots, a) = Cardinality(Holders(a)) + abandoned[a]
=============================================================================
