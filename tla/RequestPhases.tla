--------------------------- MODULE RequestPhases ---------------------------
(***************************************************************************)
(* One request through the plugin phases: the handler of proxied requests  *)
(* (pipeline/mod.rs), its WebSocket branch (ws.rs), the streaming response *)
(* body (body_filter.rs), the single-module pipeline of the dynamic API    *)
(* (openrusty-wasm, dynamic.rs), and the chain of plugins that each phase  *)
(* runs (session.rs, runner.rs).                                           *)
(*                                                                         *)
(* A phase is synchronous, so its steps, one per plugin, interleave with   *)
(* nothing.  What is uncertain is what the plugins do (return any          *)
(* decision, fail, write a response body), what the upstream does, and     *)
(* where the request ends: its handler or its body can be dropped at every *)
(* await.  Peer selection and retries are the subject of ProxyAttempts:    *)
(* here an attempt is an outcome.  Headers and payloads are left out.      *)
(***************************************************************************)
EXTENDS Naturals, FiniteSets

CONSTANTS
  N,              \* plugins of the pinned snapshot, in chain order 1..N
  FailClosed,     \* those whose failure policy is FailClosed
  Retries,        \* upstream.retries
  PeerCount,      \* number of peers of the upstream
  LogOnNoRoute,   \* the values of plugins.log_on_no_route that are considered
  PluginStatus,   \* the status of a plugin's Deny
  UpstreamStatus, \* the status of the upstream's response
  MaxChunks       \* bound on the data chunks of a response

ASSUME PhasesAssumption ==
  /\ N # 0 /\ {N, Retries, PeerCount, PluginStatus, UpstreamStatus, MaxChunks} \subseteq Nat
  /\ FailClosed \subseteq 1..N
  /\ LogOnNoRoute \subseteq BOOLEAN
  /\ PluginStatus # 503

(***************************************************************************)
(* Phases in the order of their ids, and the decisions of a plugin.        *)
(***************************************************************************)
Phases == {"PostRead", "Rewrite", "Access", "Content", "Balancer",
           "HeaderFilter", "BodyFilter", "Log"}

Id == [PostRead |-> 0, Rewrite |-> 1, Access |-> 2, Content |-> 3, Balancer |-> 4,
       HeaderFilter |-> 5, BodyFilter |-> 6, Log |-> 7]

Declined == [is |-> "Declined", status |-> 0]
Okay == [is |-> "Ok", status |-> 0]
Done == [is |-> "Done", status |-> 0]
Deny(s) == [is |-> "Deny", status |-> s]

Decisions == {Declined, Okay, Done, Deny(PluginStatus), Deny(503)}

Terminal(d) == d.is \in {"Done", "Deny"}

Bodies == {"none", "empty", "bytes"}
Kinds == {"http", "ws", "dynamic"}

VARIABLES
  kind,     \* which handler serves the request
  pc,       \* the phase that is running, or where the handler is
  next,     \* the next plugin of the running phase
  last,     \* the decision of the running phase so far
  session,  \* whether a session was created for the request
  live,     \* plugins with an instance in the session
  body,     \* the response body the session carries
  attempt,  \* upstream attempts made
  stream,   \* the FilteredBody
  answer,   \* the form of the response and the status given to the log
  served,   \* the status of the response, 0 before there is one
  stats,    \* plugin calls measured in the session and not yet drained
  recorded, \* plugin calls drained into the metrics
  past      \* history, see History

control == <<kind, pc, next, last, session>>
phaseVars == <<control, live, body, attempt, stream, answer, served, stats, recorded, past>>

\* History: calls made, log calls per plugin, final body_filter runs, one more
\* than the id of the latest phase (0 before the first), the last body some
\* plugin wrote, whether one was written after the answer was decided, whether
\* the request was dropped at an await, whether a FailClosed plugin failed
\* where its decision counts.
History == [calls : Nat, log : [1..N -> Nat], finals : Nat, top : 0..8, wrote : Bodies,
            late : BOOLEAN, dropped : BOOLEAN, closed : BOOLEAN]

Fresh == [calls |-> 0, log |-> [i \in 1..N |-> 0], finals |-> 0, top |-> 0, wrote |-> "none",
          late |-> FALSE, dropped |-> FALSE, closed |-> FALSE]

NoStream == [open |-> FALSE, lastSent |-> FALSE, logDone |-> FALSE, gone |-> FALSE, chunks |-> 0]

NoAnswer == [form |-> "none", status |-> 0]

Places == {"start", "buffer", "resolve", "upstream", "stream", "final", "tunnel", "end"}

PhasesTypeOK ==
  /\ kind \in Kinds
  /\ pc \in Phases \cup Places
  /\ next \in 1..N + 1
  /\ last \in Decisions
  /\ session \in BOOLEAN
  /\ live \in SUBSET (1..N)
  /\ body \in Bodies
  /\ attempt \in 0..PeerCount
  /\ stream \in [open : BOOLEAN, lastSent : BOOLEAN, logDone : BOOLEAN, gone : BOOLEAN,
                 chunks : 0..MaxChunks]
  /\ answer \in [form : {"none", "done", "deny", "text", "dynamic", "stream", "tunnel"},
                 status : Nat]
  /\ {served, stats, recorded} \subseteq Nat
  /\ past \in History
  /\ ~session => pc \in Places /\ past.calls = 0

PhasesInit ==
  /\ kind \in Kinds
  /\ pc = "start" /\ next = 1 /\ last = Declined /\ session = FALSE
  /\ live = {} /\ body = "none" /\ attempt = 0
  /\ stream = NoStream /\ answer = NoAnswer
  /\ served = 0 /\ stats = 0 /\ recorded = 0
  /\ past = Fresh

\* What the steps of the chain change, and what the steps of the handler do.
chainVars == <<live, body, stats>>
handlerVars == <<session, attempt, stream, answer, served, recorded>>

-----------------------------------------------------------------------------
(***************************************************************************)
(* run_phase: the chain of one phase.                                      *)
(***************************************************************************)
\* The dynamic pipeline is synthesized from one module.
Chain == IF kind = "dynamic" THEN 1 ELSE N

Running(ph) == pc = ph /\ next <= Chain
Returned(ph) == pc = ph /\ next > Chain

\* Enter a phase at the head of the chain.
Run(ph) ==
  /\ pc' = ph /\ next' = 1 /\ last' = Declined
  /\ past' = [past EXCEPT !.top = Id[ph] + 1]

\* The body_filter run whose chunk is the last one.
RunFinal ==
  /\ pc' = "BodyFilter" /\ next' = 1 /\ last' = Declined
  /\ past' = [past EXCEPT !.top = Id["BodyFilter"] + 1, !.finals = @ + 1]

\* Mutation: the failure policy is ignored.
FallbackOpen(i) == Declined

\* fallback_decision.
Fallback(i) == IF i \in FailClosed THEN Deny(503) ELSE Declined

\* Mutation: a terminal decision stops the log phase too.
AfterStops(d) == IF Terminal(d) THEN Chain + 1 ELSE next + 1

\* The next plugin: a terminal decision stops the chain, except in Log.
After(d) == IF Terminal(d) /\ pc # "Log" THEN Chain + 1 ELSE next + 1

\* Mutation: a plugin that writes no body clears the one carried.
CarriedAlways(w) == w

\* The pull of resp_body: a call that wrote none keeps what is carried.
Carried(w) == IF w = "none" THEN body ELSE w

\* The callers ignore the decisions of body_filter and log, and the dynamic
\* pipeline that of header_filter as well.
Ignored(ph) == ph \in {"BodyFilter", "Log"} \/ (kind = "dynamic" /\ ph = "HeaderFilter")

\* The log calls of each plugin, with the one being made.
LogCalls == IF pc = "Log" THEN [past.log EXCEPT ![next] = @ + 1] ELSE past.log

\* One plugin invocation that ended with decision d, having written w.
Invoke(d, w, failed) ==
  /\ next' = After(d) /\ last' = d
  /\ body' = Carried(w)
  /\ past' = [past EXCEPT
       !.calls = @ + 1,
       !.log = LogCalls,
       !.wrote = IF w = "none" THEN @ ELSE w,
       !.late = @ \/ (w # "none" /\ answer.form # "none"),
       !.closed = @ \/ (failed /\ next \in FailClosed /\ ~Ignored(pc))]
  /\ UNCHANGED <<kind, pc, handlerVars>>

\* runner::run_phase on an instance, created on first use: a decision, or a
\* trap, a timeout or a bad code, which the failure policy decides.
Call(d, w, failed) ==
  /\ pc \in Phases /\ Running(pc)
  /\ IF failed THEN d = Fallback(next) ELSE d \in Decisions \ {Deny(503)}
  /\ live' = live \cup {next}
  /\ stats' = stats + 1
  /\ Invoke(d, w, failed)

\* The module cannot be instantiated; the next phase tries again.
InstantiateFails ==
  /\ pc \in Phases /\ Running(pc)
  /\ next \notin live
  /\ stats' = stats + 1
  /\ Invoke(Fallback(next), "none", TRUE)
  /\ UNCHANGED live

-----------------------------------------------------------------------------
(***************************************************************************)
(* The handlers, up to the attempt loop.                                   *)
(***************************************************************************)
\* To a point outside the phases.
Goto(place) == pc' = place /\ UNCHANGED <<next, last, past>>

\* finish_log with status s, then a response of the given form.
Finish(form, s) == answer' = [form |-> form, status |-> s] /\ Run("Log")

\* A response without a session: no phase runs for it.
Refuse(s) ==
  /\ served' = s
  /\ Goto("end")
  /\ UNCHANGED <<kind, chainVars, session, attempt, stream, answer, recorded>>

\* No route, or a route to an unknown upstream.
NoRoute(s) ==
  /\ pc = "start" /\ kind # "dynamic" /\ s \in {404, 502}
  /\ \/ FALSE \in LogOnNoRoute /\ Refuse(s)
     \/ /\ TRUE \in LogOnNoRoute
        /\ session' = TRUE
        /\ Finish("text", s)
        /\ UNCHANGED <<kind, chainVars, attempt, stream, served, recorded>>

Route ==
  /\ pc = "start" /\ kind # "dynamic"
  /\ session' = TRUE
  /\ Run("PostRead")
  /\ UNCHANGED <<kind, chainVars, attempt, stream, answer, served, recorded>>

\* dispatch and resolve: the body is buffered before there is a session.
Dispatch ==
  /\ kind = "dynamic"
  /\ \/ pc = "start" /\ Goto("buffer") /\ UNCHANGED session
     \/ pc = "buffer" /\ Goto("resolve") /\ UNCHANGED session
     \/ pc = "resolve" /\ session' = TRUE /\ Run("PostRead")
  /\ UNCHANGED <<kind, chainVars, attempt, stream, answer, served, recorded>>

\* The feature is gone, the body too large, the module invalid, missing or broken.
DispatchFails(s) ==
  /\ kind = "dynamic"
  /\ \/ pc = "start" /\ s = 404
     \/ pc = "buffer" /\ s = 413
     \/ pc = "resolve" /\ s \in {400, 404, 500}
  /\ Refuse(s)

Pre == {"PostRead", "Rewrite", "Access", "Content"}

\* log_status: 200 if the session carries a body.
DoneStatus == IF body = "bytes" THEN 200 ELSE 204

\* Deny or Done in a phase before the proxy.
ShortCircuit ==
  /\ pc \in Pre /\ Returned(pc) /\ Terminal(last)
  /\ LET s == IF last.is = "Done" THEN DoneStatus ELSE last.status
     IN \/ /\ kind = "dynamic"
           /\ answer' = [form |-> "dynamic", status |-> s]
           /\ Run("HeaderFilter")
        \/ kind # "dynamic" /\ Finish(IF last.is = "Done" THEN "done" ELSE "deny", s)
  /\ UNCHANGED <<kind, chainVars, session, attempt, stream, served, recorded>>

\* The phase passed: on to the next, to the body or to the attempt loop.
Proceed ==
  /\ pc \in Pre /\ Returned(pc) /\ ~Terminal(last)
  /\ \/ pc = "PostRead" /\ Run("Rewrite") /\ UNCHANGED answer
     \/ pc = "Rewrite" /\ Run("Access") /\ UNCHANGED answer
     \/ pc = "Access" /\ kind = "http" /\ Goto("buffer") /\ UNCHANGED answer
     \/ pc = "Access" /\ kind = "ws" /\ Run("Balancer") /\ UNCHANGED answer
     \/ pc = "Access" /\ kind = "dynamic" /\ Run("Content") /\ UNCHANGED answer
     \/ pc = "Content" /\ kind = "http" /\ Run("Balancer") /\ UNCHANGED answer
     \/ /\ pc = "Content" /\ kind = "dynamic"
        /\ answer' = [form |-> "dynamic", status |-> 500]
        /\ Run("HeaderFilter")
  /\ UNCHANGED <<kind, chainVars, session, attempt, stream, served, recorded>>

\* A WebSocket upgrade over HTTP/2.
NoUpgrade ==
  /\ Returned("Access") /\ ~Terminal(last) /\ kind = "ws"
  /\ Finish("text", 502)
  /\ UNCHANGED <<kind, chainVars, session, attempt, stream, served, recorded>>

\* The request body is buffered, or larger than MAX_BODY.
Buffer ==
  /\ pc = "buffer" /\ kind = "http"
  /\ \/ Run("Content") /\ UNCHANGED answer
     \/ Finish("text", 413)
  /\ UNCHANGED <<kind, chainVars, session, attempt, stream, served, recorded>>

-----------------------------------------------------------------------------
(***************************************************************************)
(* The attempt loop, by its outcomes.                                      *)
(***************************************************************************)
\* pick_peer found an untried peer; a Done of the balancer phase is no denial.
PickPeer ==
  /\ Returned("Balancer") /\ last.is # "Deny"
  /\ attempt < PeerCount
  /\ attempt' = attempt + 1
  /\ Goto("upstream")
  /\ UNCHANGED <<kind, chainVars, session, stream, answer, served, recorded>>

\* The balancer phase denied the request, or there is no candidate.
NoPeer ==
  /\ Returned("Balancer")
  /\ Finish("text", IF last.is = "Deny" THEN last.status ELSE 502)
  /\ UNCHANGED <<kind, chainVars, session, attempt, stream, served, recorded>>

\* A failure that may be retried; the WebSocket walk has no ceiling.
TryNext ==
  /\ pc = "upstream"
  /\ \/ (kind = "ws" \/ attempt < Retries + 1) /\ Run("Balancer") /\ UNCHANGED answer
     \/ kind = "http" /\ attempt >= Retries + 1 /\ Finish("text", 502)
  /\ UNCHANGED <<kind, chainVars, session, attempt, stream, served, recorded>>

\* A failure that may not; an upgrade that is refused or cannot be passed on.
UpstreamFails ==
  /\ pc = "upstream"
  /\ Finish("text", 502)
  /\ UNCHANGED <<kind, chainVars, session, attempt, stream, served, recorded>>

Respond ==
  /\ pc = "upstream" /\ kind = "http"
  /\ Run("HeaderFilter")
  /\ UNCHANGED <<kind, chainVars, session, attempt, stream, answer, served, recorded>>

\* The upstream switches protocols: 101, and a task that owns the session.
Upgrade ==
  /\ pc = "upstream" /\ kind = "ws"
  /\ answer' = [form |-> "tunnel", status |-> 101]
  /\ served' = 101
  /\ Goto("tunnel")
  /\ UNCHANGED <<kind, chainVars, session, attempt, stream, recorded>>

\* Either side closes, or one of the two upgrades fails: run_ws_log.
TunnelCloses ==
  /\ pc = "tunnel"
  /\ Run("Log")
  /\ UNCHANGED <<kind, chainVars, session, attempt, stream, answer, served, recorded>>

-----------------------------------------------------------------------------
(***************************************************************************)
(* The response body.                                                      *)
(***************************************************************************)
HeadersFiltered ==
  /\ Returned("HeaderFilter")
  /\ \/ /\ kind = "dynamic"
        /\ Run("Log")
        /\ UNCHANGED <<stream, answer, served>>
     \/ /\ kind = "http" /\ last.is = "Deny"
        /\ Finish("text", last.status)
        /\ UNCHANGED <<stream, served>>
     \/ /\ kind = "http" /\ last.is # "Deny"
        /\ stream' = [NoStream EXCEPT !.open = TRUE]
        /\ answer' = [form |-> "stream", status |-> UpstreamStatus]
        /\ served' = UpstreamStatus
        /\ Goto("stream")
  /\ UNCHANGED <<kind, chainVars, session, attempt, recorded>>

streamRest == <<kind, chainVars, session, attempt, answer, served, recorded>>

\* A data chunk passes through body_filter.
Chunk ==
  /\ pc = "stream" /\ stream.open /\ stream.chunks < MaxChunks
  /\ stream' = [stream EXCEPT !.chunks = @ + 1]
  /\ Run("BodyFilter")
  /\ UNCHANGED streamRest

\* The upstream's body ends or fails.
StreamEnds ==
  /\ pc = "stream" /\ stream.open
  /\ stream' = [stream EXCEPT !.open = FALSE]
  /\ Goto("final")
  /\ UNCHANGED streamRest

\* The FilteredBody is dropped: the client is gone, or the end was reached.
StreamDropped ==
  /\ pc = "stream"
  /\ stream' = [stream EXCEPT !.open = FALSE, !.gone = TRUE]
  /\ Goto("final")
  /\ UNCHANGED streamRest

\* Mutation: the drop does not know that the final call was made.
FinalFilterAgain ==
  /\ pc = "final" /\ (~stream.lastSent \/ (stream.gone /\ past.finals < 2))
  /\ stream' = [stream EXCEPT !.lastSent = TRUE]
  /\ RunFinal
  /\ UNCHANGED streamRest

\* The two guarded calls that the end, the failure and the drop of a body all
\* make: body_filter with the empty last chunk, then the log phase.
FinalFilter ==
  /\ pc = "final" /\ ~stream.lastSent
  /\ stream' = [stream EXCEPT !.lastSent = TRUE]
  /\ RunFinal
  /\ UNCHANGED streamRest

FinalLog ==
  /\ pc = "final" /\ stream.lastSent /\ ~stream.logDone
  /\ stream' = [stream EXCEPT !.logDone = TRUE]
  /\ Run("Log")
  /\ UNCHANGED streamRest

Finalized ==
  /\ pc = "final" /\ stream.lastSent /\ stream.logDone
  /\ Goto(IF stream.gone THEN "end" ELSE "stream")
  /\ UNCHANGED <<stream, streamRest>>

\* body_filter returns to the poll or the drop that called it.
ChunkFiltered ==
  /\ Returned("BodyFilter")
  /\ Goto(IF stream.lastSent THEN "final" ELSE "stream")
  /\ UNCHANGED <<stream, streamRest>>

\* done_response, deny_response, text_response and the dynamic outcome are
\* built after the log phase, from the body carried then.
Response ==
  IF answer.form = "done" \/ (answer.form = "dynamic" /\ answer.status = 204)
  THEN DoneStatus ELSE answer.status

\* The log phase returns: the stats are drained, except in the dynamic
\* pipeline, which has no collector for them.
Logged ==
  /\ Returned("Log")
  /\ IF kind = "dynamic" THEN UNCHANGED <<stats, recorded>>
     ELSE recorded' = recorded + stats /\ stats' = 0
  /\ served' = Response
  /\ Goto(IF answer.form = "stream" THEN "final" ELSE "end")
  /\ UNCHANGED <<kind, live, body, session, attempt, stream, answer>>

\* The handler is dropped where it awaits the client or the upstream, the
\* tunnel task where the process ends: no log phase runs.
Dropped ==
  /\ pc \in {"buffer", "resolve", "upstream", "tunnel"}
  /\ pc' = "end"
  /\ past' = [past EXCEPT !.dropped = TRUE]
  /\ UNCHANGED <<kind, next, last, chainVars, handlerVars>>

Terminated == pc = "end" /\ UNCHANGED phaseVars

PhasesNext ==
  \/ \E w \in Bodies, d \in Decisions, failed \in BOOLEAN : Call(d, w, failed)
  \/ InstantiateFails
  \/ \E s \in {400, 404, 413, 500, 502} : NoRoute(s) \/ DispatchFails(s)
  \/ Route \/ Dispatch \/ ShortCircuit \/ Proceed \/ NoUpgrade \/ Buffer
  \/ PickPeer \/ NoPeer \/ TryNext \/ UpstreamFails \/ Respond \/ Upgrade \/ TunnelCloses
  \/ HeadersFiltered \/ Chunk \/ ChunkFiltered \/ StreamEnds \/ StreamDropped
  \/ FinalFilter \/ FinalLog \/ Finalized
  \/ Logged \/ Dropped \/ Terminated

PhasesSpec == PhasesInit /\ [][PhasesNext]_phaseVars

-----------------------------------------------------------------------------
(***************************************************************************)
(* Phases run in the order of their ids (Phase), each once but the         *)
(* balancer, once per attempt, and body_filter, once per chunk; nothing    *)
(* runs after the log phase, however the request ends. The final           *)
(* body_filter run (last = true) of a response happens once, before the    *)
(* log phase, and no chunk is filtered after it: the end of the stream,    *)
(* its failure and the drop of the body (poll_frame, Drop) agree on who    *)
(* makes it.                                                               *)
(***************************************************************************)
Begins(ph) == pc # ph /\ pc' = ph

PhasesInOrder ==
  [][/\ \A ph \in Phases : Begins(ph) =>
          IF ph \in {"Balancer", "BodyFilter"} THEN Id[ph] + 1 >= past.top
                                               ELSE Id[ph] >= past.top
     /\ Begins("BodyFilter") => past.finals = 0
     /\ Begins("Log") /\ answer.form = "stream" => past.finals = 1]_phaseVars

(***************************************************************************)
(* A request for which a session was created ends with one call of the log *)
(* phase to every plugin of its chain (finish_log, run_log, run_ws_log),   *)
(* whatever any plugin decided, unless it was dropped at an await; and     *)
(* every call made on behalf of a proxied request, those of the log phase  *)
(* included, is then in the metrics, once (record_phase_time,              *)
(* take_phase_stats).                                                      *)
(***************************************************************************)
EveryPluginLogs ==
  /\ recorded + stats = past.calls
  /\ pc = "end" /\ session /\ ~past.dropped =>
       /\ \A i \in 1..Chain : past.log[i] = 1
       /\ kind # "dynamic" => stats = 0

(***************************************************************************)
(* Once a plugin that fails closed has failed in a phase whose decision    *)
(* counts (run_phase, fallback_decision), the upstream is not asked and no *)
(* upstream response is passed on, in this or a later attempt, and the     *)
(* client gets a 503.                                                      *)
(***************************************************************************)
FailClosedStops ==
  past.closed =>
    /\ pc \notin {"buffer", "upstream", "stream", "tunnel"}
    /\ pc = "end" => served = 503

(***************************************************************************)
(* The status logged is the status served (resp_shortcut.rs), unless a     *)
(* body was written after the decision, by the log phase or by the         *)
(* header_filter of the dynamic pipeline, or a dynamic module denied with  *)
(* a 204 and a body, which is upgraded like a Done; and a Done is served   *)
(* as 200 exactly if the last body any plugin wrote, in any phase, has     *)
(* bytes.                                                                  *)
(***************************************************************************)
DeniedWith204 == answer.form = "dynamic" /\ PluginStatus = 204

StatusAgrees ==
  pc = "end" /\ session /\ ~past.dropped =>
    /\ \/ served = answer.status
       \/ (past.late \/ DeniedWith204) /\ answer.status = 204 /\ served = 200
       \/ past.late /\ answer.form = "done" /\ answer.status = 200 /\ served = 204
    /\ answer.form = "done" => (served = 200 <=> past.wrote = "bytes")
=============================================================================
