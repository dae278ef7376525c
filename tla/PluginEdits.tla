---------------------------- MODULE PluginEdits ----------------------------
(***************************************************************************)
(* What plugins read and write of a message through the host imports       *)
(* (openrusty-wasm, linker.rs, linker_req.rs, linker_rewrite.rs) and what  *)
(* becomes of it: the request that is built for a peer (openrusty-proxy,   *)
(* forward.rs), the response of a proxied request (pipeline/mod.rs), of a  *)
(* short circuit (resp_shortcut.rs) and of a dynamic module (dynamic.rs,   *)
(* dynamic_api.rs).                                                        *)
(*                                                                         *)
(* A guest may call any import in any phase.  Which phases run, and what   *)
(* they decide, is the subject of RequestPhases: here the stages matter at *)
(* which messages are read and written.  Names are compared without case,  *)
(* so a name is its lower-case form; values are opaque.                    *)
(***************************************************************************)
EXTENDS Naturals, Sequences, SequencesExt, TLC

CONSTANTS
  ClientHeaders, \* header lists that clients send
  ServerHeaders, \* header lists that peers answer with
  RequestNames,  \* names that plugins set or delete in the request
  ResponseNames, \* names that plugins set or delete in the response
  Values,        \* values that plugins set
  Parts,         \* paths and queries that plugins set
  InvalidUri,    \* those of Parts that valid_uri refuses
  InvalidQuery,  \* those of Parts that valid_query refuses
  InvalidName,   \* a name no HTTP header has
  InvalidValue,  \* a value no HTTP header has
  Peers,         \* the number of peers
  MaxCalls       \* bound on the calls of the plugins

VARIABLES
  stage,  \* how far the request is
  ctx,    \* the request as plugins see it
  resp,   \* resp_headers of the session
  edits,  \* resp_edits, of all instances in the order of the calls
  body,   \* resp_body of the session
  wire,   \* the request that is sent to peers
  answer, \* the response to the client
  client, \* the headers the client sent
  calls   \* calls made

vars == <<stage, ctx, resp, edits, body, wire, answer, client, calls>>

None == [at |-> "none"]
Bodies == {"none", "empty", "bytes"}

Init ==
  /\ stage = "new"
  /\ ctx = [path |-> "p", query |-> "q", headers |-> << >>, peer |-> 0]
  /\ resp = << >> /\ edits = << >> /\ body = "none"
  /\ wire = None /\ answer = None /\ client = << >> /\ calls = 0

Named(h, n) == SelectSeq(h, LAMBDA e : e[1] = n)
NotNamed(h, n) == SelectSeq(h, LAMBDA e : e[1] # n)
Has(h, n) == \E i \in 1..Len(h) : h[i][1] = n
ValuesOf(h, n) == [i \in 1..Len(Named(h, n)) |-> Named(h, n)[i][2]]

-----------------------------------------------------------------------------
(***************************************************************************)
(* The request arrives.                                                    *)
(***************************************************************************)
\* fold_h2_authority: HTTP/2 carries the host outside the header list.
FoldAuthority(h, authority) ==
  IF Has(h, "host") \/ authority = "" THEN h ELSE Append(h, <<"host", authority>>)

\* handle_request and dispatch build the context; only the former folds.
Receive(h, authority, kind) ==
  /\ stage = "new"
  /\ client' = h
  /\ ctx' = [ctx EXCEPT !.headers = IF kind = "pre" THEN FoldAuthority(h, authority) ELSE h]
  /\ stage' = kind
  /\ UNCHANGED <<resp, edits, body, wire, answer, calls>>

-----------------------------------------------------------------------------
(***************************************************************************)
(* The imports.                                                            *)
(***************************************************************************)
Plugins == {"pre", "dynamic", "balancer", "filter"}

\* A plugin runs and makes a call; a refused call changes nothing.
Import ==
  /\ stage \in Plugins /\ calls < MaxCalls
  /\ calls' = calls + 1
  /\ UNCHANGED <<stage, wire, answer, client>>

ReqSetUri(v) ==
  /\ Import
  /\ ctx' = IF v \in InvalidUri THEN ctx ELSE [ctx EXCEPT !.path = v]
  /\ UNCHANGED <<resp, edits, body>>

ReqSetQuery(v) ==
  /\ Import
  /\ ctx' = IF v \in InvalidQuery THEN ctx ELSE [ctx EXCEPT !.query = v]
  /\ UNCHANGED <<resp, edits, body>>

\* Mutation: no header is protected.
IsProtectedNever(n) == FALSE

\* is_protected_header.
IsProtected(n) == n = "content-length"

\* Every match is removed, the new pair comes last.
ReqSetHeader(n, v) ==
  /\ Import
  /\ ctx' = IF IsProtected(n) THEN ctx
            ELSE [ctx EXCEPT !.headers = Append(NotNamed(@, n), <<n, v>>)]
  /\ UNCHANGED <<resp, edits, body>>

ReqDelHeader(n) ==
  /\ Import
  /\ ctx' = IF IsProtected(n) THEN ctx ELSE [ctx EXCEPT !.headers = NotNamed(@, n)]
  /\ UNCHANGED <<resp, edits, body>>

\* balancer_set_peer; dynamic modules have no peers.
BalancerSetPeer(i) ==
  /\ Import
  /\ ctx' = IF i < Peers /\ stage # "dynamic" THEN [ctx EXCEPT !.peer = i + 1] ELSE ctx
  /\ UNCHANGED <<resp, edits, body>>

\* The first match takes the value, or the pair is appended.
Replace(h, n, v) ==
  IF Has(h, n)
  THEN LET first == CHOOSE i \in 1..Len(h) : h[i][1] = n /\ \A j \in 1..i - 1 : h[j][1] # n
       IN [h EXCEPT ![first] = <<n, v>>]
  ELSE Append(h, <<n, v>>)

RespHeaderSet(n, v) ==
  /\ Import
  /\ resp' = Replace(resp, n, v)
  /\ edits' = Append(edits, [op |-> "set", name |-> n, value |-> v])
  /\ UNCHANGED <<ctx, body>>

RespHeaderDel(n) ==
  /\ Import
  /\ resp' = NotNamed(resp, n)
  /\ edits' = Append(edits, [op |-> "del", name |-> n, value |-> ""])
  /\ UNCHANGED <<ctx, body>>

\* resp_body_set: too large a body is refused, an empty one is carried.
RespBodySet(b) ==
  /\ Import
  /\ body' = IF b = "large" THEN body ELSE b
  /\ UNCHANGED <<ctx, resp, edits>>

-----------------------------------------------------------------------------
(***************************************************************************)
(* The request for a peer.                                                 *)
(***************************************************************************)
\* is_hop_by_hop, one name for all of them.
IsHopByHop(n) == n = "connection"

\* HeaderName::from_bytes and HeaderValue::from_str.
Sendable(e) == e[1] # InvalidName /\ e[2] # InvalidValue

\* merge_xff: the client comes last.  The values are joined before they are
\* validated, so one that is invalid takes the whole header away.
MergeXff(h) ==
  IF \E i \in DOMAIN h : h[i] = <<"x-forwarded-for", InvalidValue>> THEN << >>
  ELSE Append(ValuesOf(h, "x-forwarded-for"), "client")

\* build_outgoing: Host is the peer, X-Forwarded-For gains the client.
BuildOutgoing(h) ==
  [at |-> "sent",
   headers |-> SelectSeq(h, LAMBDA e : /\ ~IsHopByHop(e[1])
                                       /\ e[1] \notin {"host", "x-forwarded-for"}
                                       /\ Sendable(e)),
   xff |-> MergeXff(h),
   host |-> "peer"]

\* is_websocket_upgrade looks at the rewritten headers; the handshake that
\* ws.rs then builds is not the subject here.
Upgrade(h) == ValuesOf(h, "connection") # << >> /\ ValuesOf(h, "connection")[1] = "upgrade"

\* The facts of all attempts are fixed before the first balancer phase.
Freeze ==
  /\ stage = "pre" /\ ~Upgrade(ctx.headers)
  /\ wire' = [target |-> <<ctx.path, ctx.query>>, ctx |-> ctx.headers] @@ BuildOutgoing(ctx.headers)
  /\ stage' = "balancer"
  /\ UNCHANGED <<ctx, resp, edits, body, answer, client, calls>>

\* A peer answers: what earlier phases set of the response is replaced.
Answered(h) ==
  /\ stage = "balancer"
  /\ resp' = SelectSeq(h, LAMBDA e : ~IsHopByHop(e[1]))
  /\ stage' = "filter"
  /\ UNCHANGED <<ctx, edits, body, wire, answer, client, calls>>

-----------------------------------------------------------------------------
(***************************************************************************)
(* The response to the client.                                             *)
(***************************************************************************)
Wellformed(h) == SelectSeq(h, Sendable)

\* with_plugin_headers: content-length is derived; a body has a content type.
PluginHeaders(h, typed) ==
  LET kept == SelectSeq(Wellformed(h), LAMBDA e : e[1] # "content-length")
  IN IF typed /\ ~Has(h, "content-type") THEN Append(kept, <<"content-type", "text/plain">>)
     ELSE kept

\* Done and Deny before the proxy: done_response, deny_response.
ShortCircuit(deny) ==
  /\ stage = "pre"
  /\ answer' = [at |-> "short", headers |-> PluginHeaders(resp, deny \/ body = "bytes")]
  /\ stage' = "end"
  /\ UNCHANGED <<ctx, resp, edits, body, wire, client, calls>>

\* The response that streams; no name is protected here.
Stream ==
  /\ stage = "filter"
  /\ answer' = [at |-> "stream", headers |-> Wellformed(resp)]
  /\ stage' = "end"
  /\ UNCHANGED <<ctx, resp, edits, body, wire, client, calls>>

\* One recorded edit on a header list.
ApplyEdit(h, e) == IF e.op = "set" THEN Replace(h, e.name, e.value) ELSE NotNamed(h, e.name)

\* final_headers: the edits are replayed on a list that has them already.
FinalHeaders == FoldLeft(ApplyEdit, resp, edits)

\* outcome_response; without a body the headers are dropped.
DynamicAnswer ==
  /\ stage = "dynamic"
  /\ answer' = [at |-> "dynamic",
                headers |-> IF body = "bytes" THEN PluginHeaders(FinalHeaders, TRUE) ELSE << >>]
  /\ stage' = "end"
  /\ UNCHANGED <<ctx, resp, edits, body, wire, client, calls>>

Next ==
  \/ \E h \in ClientHeaders, a \in {"", "authority"}, kind \in {"pre", "dynamic"} :
       Receive(h, a, kind)
  \/ \E v \in Parts : ReqSetUri(v) \/ ReqSetQuery(v)
  \/ \E n \in RequestNames, v \in Values : ReqSetHeader(n, v)
  \/ \E n \in RequestNames : ReqDelHeader(n)
  \/ \E i \in 0..Peers : BalancerSetPeer(i)
  \/ \E n \in ResponseNames, v \in Values : RespHeaderSet(n, v)
  \/ \E n \in ResponseNames : RespHeaderDel(n)
  \/ \E b \in {"empty", "bytes", "large"} : RespBodySet(b)
  \/ Freeze
  \/ \E h \in ServerHeaders : Answered(h)
  \/ \E deny \in BOOLEAN : ShortCircuit(deny)
  \/ Stream
  \/ DynamicAnswer

Spec == Init /\ [][Next]_vars
-----------------------------------------------------------------------------
\* Whatever plugins did to the request, every attempt sends a body length that
\* is the client's, one Host, no hop-by-hop header, and a chain of forwarders
\* that ends with the client and keeps what the plugins saw, or no chain at all
\* if one of them set an invalid value (build_outgoing, req_set_header).  What
\* HTTP cannot carry reaches neither a peer nor, on any of the three ways to
\* answer, the client.
WireIsSafe ==
  /\ wire.at = "sent" =>
       LET seen == ValuesOf(wire.ctx, "x-forwarded-for")
       IN  /\ ValuesOf(wire.headers, "content-length") = ValuesOf(client, "content-length")
           /\ \A n \in {"host", "connection", "x-forwarded-for"} : ~Has(wire.headers, n)
           /\ wire.xff # seen \o <<"client">> => wire.xff = << >> /\ InvalidValue \in ToSet(seen)
  /\ \A m \in {wire, answer} :
       m.at # "none" => \A e \in ToSet(m.headers) : e[1] # InvalidName /\ e[2] # InvalidValue

\* The replay of the edits on the headers that carry them moves headers around
\* and changes nothing else: under every name a dynamic module's response has
\* what the last of its calls left (final_headers).
ReplayIsIdempotent ==
  stage = "dynamic" => \A n \in ResponseNames : ValuesOf(FinalHeaders, n) = ValuesOf(resp, n)

=============================================================================
