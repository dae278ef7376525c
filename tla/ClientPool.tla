----------------------------- MODULE ClientPool -----------------------------
(***************************************************************************)
(* The pooled upstream clients: one per peer address and transport, warmed *)
(* by apply_runtime before a snapshot is published, taken (and, when       *)
(* missing, created) by the attempts of requests that pinned a snapshot,   *)
(* and pruned by the next apply.  Two appliers, the reload path and the    *)
(* ingress plane, do not exclude each other, and every access to the pool  *)
(* is one critical section of its own.                                     *)
(***************************************************************************)
EXTENDS Naturals, FiniteSets

CONSTANTS
  PoolConfigs,    \* [peers : set of addresses, endpoints : set of host names,
              \*  tls : "plain" or a TLS identity, timeout : a number]
  PoolBoot,       \* the configuration of the first apply
  Appliers,   \* the reload path and the ingress plane
  PoolRequests,
  Lookups,    \* what resolving a host name may give: sets of addresses
  MaxApplies  \* bound on the applies after boot

VARIABLES
  http,       \* ClientPool.http: address -> the timeout its client was built with
  https,      \* ClientPool.https: <<address, identity>> -> that timeout
  published,  \* the upstream of the published snapshot: [peers, tls, timeout]
  apply,      \* per applier: what it is doing
  pin,        \* per request: the upstream of its snapshot, or NoPin
  lit,        \* history: keys a request created since they were last pruned
  alone,      \* history: no other apply overlapped the latest one
  applies

poolVars == <<http, https, published, apply, pin, lit, alone, applies>>

NoPin == [peers |-> {}, tls |-> "plain", timeout |-> 0]  \* no upstream has it
NoApply == [pc |-> "idle"]

(***************************************************************************)
(* PoolKey: the address for plaintext, the address and the paths and names *)
(* of the TLS section (not the contents of its files) for TLS.             *)
(***************************************************************************)
KeysOf(up) == {<<a, up.tls>> : a \in up.peers}
Pooled == {<<a, "plain">> : a \in DOMAIN http} \cup DOMAIN https

Put(f, k, v) == [x \in DOMAIN f \cup {k} |-> IF x = k THEN v ELSE f[x]]
Keep(f, ks) == [x \in DOMAIN f \cap ks |-> f[x]]

(***************************************************************************)
(* get and get_tls: the first call for a key fixes its client.             *)
(***************************************************************************)
Get(k, timeout) ==
  IF k[2] = "plain"
  THEN /\ http' = IF k[1] \in DOMAIN http THEN http ELSE Put(http, k[1], timeout)
       /\ UNCHANGED https
  ELSE /\ https' = IF k \in DOMAIN https THEN https ELSE Put(https, k, timeout)
       /\ UNCHANGED http

PoolInit ==
  /\ published = [peers |-> PoolBoot.peers, tls |-> PoolBoot.tls, timeout |-> PoolBoot.timeout]
  /\ http = IF PoolBoot.tls = "plain" THEN [a \in PoolBoot.peers |-> PoolBoot.timeout] ELSE [a \in {} |-> 0]
  /\ https = IF PoolBoot.tls = "plain" THEN [a \in {} |-> 0]
             ELSE [k \in KeysOf(PoolBoot) |-> PoolBoot.timeout]
  /\ apply = [a \in Appliers |-> NoApply]
  /\ pin = [r \in PoolRequests |-> NoPin]
  /\ lit = {} /\ alone = TRUE /\ applies = 0

(***************************************************************************)
(* resolve_config folds what the endpoints resolve to into the peers (none *)
(* when no lookup answers); then apply_runtime starts.  A TLS section      *)
(* whose files cannot be read fails before anything changes, so that case  *)
(* is the absence of a step.                                               *)
(***************************************************************************)
Resolved(c, found) ==
  [peers |-> c.peers \cup (IF c.endpoints = {} THEN {} ELSE found),
   tls |-> c.tls, timeout |-> c.timeout]

BeginApply(a) ==
  /\ apply[a] = NoApply
  /\ applies < MaxApplies
  /\ \E c \in PoolConfigs, found \in Lookups :
       /\ c.endpoints = {} => found = {}
       /\ LET up == Resolved(c, found)
          IN  apply' = [apply EXCEPT ![a] = [pc |-> "warm", up |-> up, todo |-> KeysOf(up)]]
  /\ alone' = (\A b \in Appliers : apply[b] = NoApply)
  /\ applies' = applies + 1
  /\ UNCHANGED <<http, https, published, pin, lit>>

Prewarm(a) ==
  /\ apply[a].pc = "warm"
  /\ \E k \in apply[a].todo :
       /\ Get(k, apply[a].up.timeout)
       /\ apply' = [apply EXCEPT ![a].todo = @ \ {k}]
  /\ UNCHANGED <<published, pin, lit, alone, applies>>

\* Mutation: the clients of a removed upstream stay.
EvictHttpNever(a) ==
  /\ apply[a].pc = "warm" /\ apply[a].todo = {}
  /\ apply' = [apply EXCEPT ![a].pc = "evict"]
  /\ UNCHANGED <<http, https, published, pin, lit, alone, applies>>

(***************************************************************************)
(* evict_except: the two maps are pruned under one lock after the other.   *)
(***************************************************************************)
EvictHttp(a) ==
  /\ apply[a].pc = "warm" /\ apply[a].todo = {}
  /\ http' = Keep(http, {k[1] : k \in {x \in KeysOf(apply[a].up) : x[2] = "plain"}})
  /\ lit' = {k \in lit : k[2] # "plain"}
  /\ apply' = [apply EXCEPT ![a].pc = "evict"]
  /\ UNCHANGED <<https, published, pin, alone, applies>>

EvictHttps(a) ==
  /\ apply[a].pc = "evict"
  /\ https' = Keep(https, KeysOf(apply[a].up))
  /\ lit' = {k \in lit : k[2] = "plain"}
  /\ apply' = [apply EXCEPT ![a].pc = "publish"]
  /\ UNCHANGED <<http, published, pin, alone, applies>>

Publish(a) ==
  /\ apply[a].pc = "publish"
  /\ published' = apply[a].up
  /\ apply' = [apply EXCEPT ![a] = NoApply]
  /\ UNCHANGED <<http, https, pin, lit, alone, applies>>

(***************************************************************************)
(* A request pins the published snapshot and takes a client for each of    *)
(* its attempts, however old its snapshot has become.                      *)
(***************************************************************************)
PinSnapshot(r) ==
  /\ pin[r] = NoPin
  /\ pin' = [pin EXCEPT ![r] = published]
  /\ UNCHANGED <<http, https, published, apply, lit, alone, applies>>

Attempt(r) ==
  /\ pin[r] # NoPin
  /\ \E k \in KeysOf(pin[r]) :
       /\ Get(k, pin[r].timeout)
       /\ lit' = IF k \in Pooled THEN lit ELSE lit \cup {k}
  /\ UNCHANGED <<published, apply, pin, alone, applies>>

UnpinSnapshot(r) ==
  /\ pin[r] # NoPin
  /\ pin' = [pin EXCEPT ![r] = NoPin]
  /\ UNCHANGED <<http, https, published, apply, lit, alone, applies>>

PoolNext ==
  \/ \E a \in Appliers : BeginApply(a) \/ Prewarm(a) \/ EvictHttp(a) \/ EvictHttps(a) \/ Publish(a)
  \/ \E r \in PoolRequests : PinSnapshot(r) \/ Attempt(r) \/ UnpinSnapshot(r)

PoolSpec == PoolInit /\ [][PoolNext]_poolVars

-----------------------------------------------------------------------------
(***************************************************************************)
(* After an apply that no other apply overlapped (state.rs apply_runtime,  *)
(* client.rs evict_except): every peer of the published snapshot has its   *)
(* client before the first request needs it, and a client of any other     *)
(* address or TLS identity is there only because a request on an older     *)
(* snapshot created it again after the eviction.                           *)
(***************************************************************************)
PoolFollowsConfig ==
  alone /\ (\A a \in Appliers : apply[a] = NoApply)
    => /\ KeysOf(published) \subseteq Pooled
       /\ Pooled \ KeysOf(published) \subseteq lit
=============================================================================
