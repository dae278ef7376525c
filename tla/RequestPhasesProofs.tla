------------------------ MODULE RequestPhasesProofs ------------------------
(***************************************************************************)
(* The four promises of the phase chain, for every number of plugins,      *)
(* peers and chunks, every failure policy and every status: by an          *)
(* invariant that says, for each place of the handler, which phases have   *)
(* run, who has logged, and how the answer relates to the body carried.    *)
(***************************************************************************)
EXTENDS RequestPhases, TLAPS

LogsNone == \A i \in 1..N : past.log[i] = 0
LogsAll == \A i \in 1..Chain : past.log[i] = 1

\* The phases that have run, by the place of the handler.
TopOK ==
  /\ pc \in Phases => past.top = Id[pc] + 1
  /\ pc \in {"start", "resolve"} => past.top = 0
  /\ pc = "buffer" => past.top <= 3 /\ (kind = "dynamic" => past.top = 0)
  /\ pc \in {"upstream", "tunnel"} => past.top = 5
  /\ pc \in {"stream", "final"} /\ ~stream.lastSent => past.top \in {6, 7}
  /\ pc = "final" /\ stream.lastSent /\ ~stream.logDone => past.top = 7

\* The states of a streamed body.
StreamOK ==
  /\ pc \in {"stream", "final", "BodyFilter"} => answer.form = "stream"
  /\ answer.form = "stream" => kind = "http"
  /\ stream.logDone => stream.lastSent
  /\ stream.open => ~stream.lastSent
  /\ pc = "final" => ~stream.open
  /\ past.finals = IF stream.lastSent THEN 1 ELSE 0
  /\ stream.lastSent => answer.form = "stream"
  /\ pc = "BodyFilter" => ~stream.logDone
  /\ pc = "Log" /\ answer.form = "stream" => stream.logDone /\ stream.lastSent
  /\ pc \in {"stream", "BodyFilter"} => (stream.open <=> ~stream.lastSent)
  /\ pc = "stream" => (stream.logDone <=> stream.lastSent)

\* The form of the answer, by the place of the handler.
FormOK ==
  /\ pc \in Pre \cup {"start", "buffer", "resolve", "Balancer", "upstream"} => answer.form = "none"
  /\ pc = "HeaderFilter" => answer.form = IF kind = "dynamic" THEN "dynamic" ELSE "none"
  /\ pc = "Log" => answer.form # "none"
  /\ pc = "tunnel" => answer.form = "tunnel"
  /\ answer.form \in {"text", "done", "deny", "dynamic"} => pc \in {"HeaderFilter", "Log", "end"}
  /\ answer.form = "dynamic" => kind = "dynamic"
  /\ answer.form = "none" => ~past.late

\* What the handlers have each for themselves: the dynamic pipeline has no
\* attempts, and buffers the body before there is a session.
KindOK ==
  /\ pc \in {"Balancer", "upstream", "tunnel"} => kind # "dynamic"
  /\ pc = "resolve" => kind = "dynamic"
  /\ pc \in {"start", "resolve"} \/ (pc = "buffer" /\ kind = "dynamic") => ~session
  /\ pc \in {"upstream", "tunnel", "stream", "final"} \/ (pc = "buffer" /\ kind # "dynamic") => session

\* A session's plugins have logged, are logging or have not.
LogOK ==
  /\ next <= Chain + 1
  /\ recorded + stats = past.calls
  /\ pc \in Phases => session
  /\ pc = "Log" => \A i \in 1..N : past.log[i] = IF i < next THEN 1 ELSE 0
  /\ pc \in {"stream", "final"} /\ stream.logDone => LogsAll /\ stats = 0
  /\ pc \in {"stream", "final"} /\ ~stream.logDone => LogsNone
  /\ pc \notin {"Log", "stream", "final", "end"} => LogsNone
  /\ pc = "end" /\ session /\ ~past.dropped => LogsAll /\ (kind # "dynamic" => stats = 0)

\* A failure that closes the request is the decision of its phase, then the
\* status of its answer.
ClosedOK ==
  past.closed =>
    \/ /\ pc \in Pre \cup {"Balancer", "HeaderFilter"} /\ ~Ignored(pc)
       /\ next > Chain /\ last = Deny(503)
    \/ /\ pc \in {"HeaderFilter", "Log", "end"} /\ (pc = "HeaderFilter" => Ignored(pc))
       /\ answer.form \in {"text", "deny", "dynamic"} /\ answer.status = 503
       /\ pc = "end" => served = 503

\* The answer and the body carried.
AnswerOK ==
  /\ past.wrote = body
  /\ answer.form = "done" =>
       /\ answer.status \in {200, 204}
       /\ ~past.late => answer.status = DoneStatus
  /\ answer.form = "dynamic" /\ answer.status = 204 /\ ~past.late /\ PluginStatus # 204 =>
       body # "bytes"
  /\ answer.form = "stream" => served = answer.status
  /\ pc = "end" /\ session /\ ~past.dropped => answer.form # "none" /\ served = Response

Inv ==
  PhasesTypeOK /\ TopOK /\ StreamOK /\ FormOK /\ KindOK /\ LogOK /\ ClosedOK /\ AnswerOK

-----------------------------------------------------------------------------
LEMMA Constants ==
  /\ N \in Nat /\ N >= 1 /\ PeerCount \in Nat /\ PluginStatus \in Nat /\ UpstreamStatus \in Nat
  /\ MaxChunks \in Nat /\ Retries \in Nat
BY PhasesAssumption

LEMMA ChainSize == ASSUME PhasesTypeOK PROVE Chain \in Nat /\ 1 <= Chain /\ Chain <= N
BY Constants DEF Chain, PhasesTypeOK

LEMMA DecisionKinds ==
  \A d \in Decisions : d.status \in Nat /\ (d.is \in {"Done", "Deny"} <=> Terminal(d))
BY Constants DEF Decisions, Declined, Okay, Done, Deny, Terminal

(***************************************************************************)
(* Entering a phase: only the history's latest phase changes.              *)
(***************************************************************************)
SamePast(ph) ==
  /\ past' \in History /\ past'.top = Id[ph] + 1 /\ Id[ph] \in 0..7
  /\ past'.calls = past.calls /\ past'.log = past.log /\ past'.finals = past.finals
  /\ past'.wrote = past.wrote
  /\ past'.late = past.late /\ past'.dropped = past.dropped /\ past'.closed = past.closed

LEMMA RunPast ==
  ASSUME past \in History, NEW ph \in Phases, Run(ph)
  PROVE  SamePast(ph) /\ pc' = ph /\ next' = 1 /\ last' = Declined
<1>1. Id[ph] \in 0..7
  BY DEF Id, Phases
<1>2. past' = [past EXCEPT !.top = Id[ph] + 1] /\ pc' = ph /\ next' = 1 /\ last' = Declined
  BY DEF Run
<1>3. past' \in History
  BY <1>1, <1>2 DEF History
<1>4. /\ past'.top = Id[ph] + 1
      /\ past'.calls = past.calls /\ past'.log = past.log /\ past'.finals = past.finals
      /\ past'.wrote = past.wrote
  BY <1>2 DEF History
<1>5. past'.late = past.late /\ past'.dropped = past.dropped /\ past'.closed = past.closed
  BY <1>2 DEF History
<1> QED
  BY <1>1, <1>2, <1>3, <1>4, <1>5 DEF SamePast

LEMMA InitInv == PhasesInit => Inv
<1> SUFFICES ASSUME PhasesInit PROVE Inv
  OBVIOUS
<1> USE Constants
<1>1. past \in History /\ past.calls = 0 /\ past.log = [i \in 1..N |-> 0] /\ past.finals = 0
      /\ past.top = 0 /\ past.wrote = "none"
  BY DEF PhasesInit, Fresh, History, Bodies
<1>2. past.late = FALSE /\ past.dropped = FALSE /\ past.closed = FALSE
  BY DEF PhasesInit, Fresh
<1>3. stream.lastSent = FALSE /\ stream.logDone = FALSE /\ stream.open = FALSE
  BY DEF PhasesInit, NoStream
<1>4. stream \in [open : BOOLEAN, lastSent : BOOLEAN, logDone : BOOLEAN, gone : BOOLEAN,
                  chunks : 0..MaxChunks]
  BY DEF PhasesInit, NoStream
<1>5. answer.form = "none" /\ answer \in [form : {"none", "done", "deny", "text", "dynamic", "stream", "tunnel"},
                 status : Nat]
  BY DEF PhasesInit, NoAnswer
<1>6. PhasesTypeOK
  <2>1. last \in Decisions /\ session \in BOOLEAN /\ live \in SUBSET (1..N)
    BY DEF PhasesInit, Decisions
  <2>2. /\ pc \in Places /\ next \in 1..N + 1 /\ body \in Bodies /\ attempt \in 0..PeerCount
        /\ {served, stats, recorded} \subseteq Nat /\ kind \in Kinds
    BY DEF PhasesInit, Places, Bodies
  <2> QED
    BY <1>1, <1>4, <1>5, <2>1, <2>2 DEF PhasesTypeOK
<1>7. LogOK
  BY <1>1, <1>6, ChainSize DEF PhasesInit, LogOK, Phases, LogsNone, LogsAll
<1>8. TopOK /\ FormOK /\ KindOK
  BY <1>1, <1>2, <1>5 DEF PhasesInit, TopOK, FormOK, KindOK, Phases, Pre
<1>9. StreamOK
  BY <1>1, <1>3, <1>5 DEF PhasesInit, StreamOK
<1>10. ClosedOK /\ AnswerOK
  BY <1>1, <1>2, <1>5 DEF PhasesInit, ClosedOK, AnswerOK
<1> QED
  BY <1>6, <1>7, <1>8, <1>9, <1>10 DEF Inv

Answers == [form : {"none", "done", "deny", "text", "dynamic", "stream", "tunnel"}, status : Nat]

(***************************************************************************)
(* A phase begins and no answer is decided yet.                            *)
(***************************************************************************)
LEMMA EnterStep ==
  ASSUME Inv, NEW ph \in Pre \cup {"Balancer", "HeaderFilter"}, Run(ph), session' = TRUE,
         pc # "end", answer.form = "none", ~past.closed,
         ph \in {"Balancer", "HeaderFilter"} => kind # "dynamic",
         UNCHANGED <<kind, chainVars, stream, answer, served, recorded>>, attempt' \in 0..PeerCount
  PROVE  Inv'
<1>1. /\ SamePast(ph) /\ pc' = ph /\ next' = 1 /\ last' = Declined /\ ph \in Phases
      /\ past' \in History
  BY RunPast DEF Inv, PhasesTypeOK, Phases, Pre, SamePast
<1>2. pc \notin {"Log", "stream", "final", "BodyFilter", "tunnel"}
  BY DEF Inv, FormOK, StreamOK
<1>3. Chain' = Chain /\ Chain \in Nat /\ 1 <= Chain /\ UNCHANGED <<live, body, stats>>
  BY ChainSize DEF Inv, Chain, chainVars
<1>4. PhasesTypeOK'
  <2>1. Declined \in Decisions /\ 1 \in 1..N + 1
    BY Constants DEF Decisions
  <2> QED
    BY <1>1, <1>3, <2>1 DEF Inv, PhasesTypeOK, History
<1>5. TopOK' /\ FormOK' /\ KindOK'
  <2>1. TopOK'
    BY <1>1 DEF TopOK, SamePast, Pre
  <2>2. FormOK'
    BY <1>1 DEF Inv, FormOK, SamePast, Pre, Phases
  <2>3. KindOK'
    BY <1>1 DEF KindOK, Pre
  <2> QED
    BY <2>1, <2>2, <2>3
<1>6. StreamOK'
  BY <1>1 DEF Inv, StreamOK, SamePast, Pre
<1>7. LogOK'
  BY <1>1, <1>2, <1>3 DEF Inv, LogOK, SamePast, LogsNone, Pre
<1>8. ClosedOK'
  BY <1>1 DEF ClosedOK, SamePast
<1>9. AnswerOK'
  BY <1>1, <1>3 DEF Inv, AnswerOK, SamePast, Pre
<1> QED
  BY <1>4, <1>5, <1>6, <1>7, <1>8, <1>9 DEF Inv

(***************************************************************************)
(* The answer is decided: the log phase begins or, in the dynamic          *)
(* pipeline, the header filter.                                            *)
(***************************************************************************)
LEMMA AnswerStep ==
  ASSUME Inv, NEW ph \in {"HeaderFilter", "Log"}, NEW f \in {"text", "done", "deny", "dynamic"},
         NEW s \in Nat, Run(ph), answer' = [form |-> f, status |-> s], session' = TRUE,
         pc # "end", answer.form = "none",
         ph = "HeaderFilter" <=> f = "dynamic",
         f = "dynamic" => kind = "dynamic" /\ (s = 204 /\ PluginStatus # 204 => body # "bytes"),
         f = "done" => s = DoneStatus,
         past.closed => f # "done" /\ s = 503,
         UNCHANGED <<kind, chainVars, attempt, stream, served, recorded>>
  PROVE  Inv'
<1>1. /\ SamePast(ph) /\ pc' = ph /\ next' = 1 /\ last' = Declined /\ ph \in Phases
      /\ past' \in History
  BY RunPast DEF Inv, PhasesTypeOK, Phases, SamePast
<1>2. pc \notin {"Log", "stream", "final", "BodyFilter", "tunnel"}
  BY DEF Inv, FormOK, StreamOK
<1>3. Chain' = Chain /\ Chain \in Nat /\ 1 <= Chain /\ UNCHANGED <<live, body, stats>>
  BY ChainSize DEF Inv, Chain, chainVars
<1>4. answer' \in Answers /\ answer'.form = f /\ answer'.status = s
  BY DEF Answers
<1>5. PhasesTypeOK'
  <2>1. Declined \in Decisions /\ 1 \in 1..N + 1
    BY Constants DEF Decisions
  <2> QED
    BY <1>1, <1>3, <1>4, <2>1 DEF Inv, PhasesTypeOK, History, Answers
<1>6. TopOK' /\ FormOK' /\ KindOK'
  <2>1. TopOK'
    BY <1>1 DEF TopOK, SamePast
  <2>2. FormOK'
    BY <1>1, <1>4 DEF Inv, FormOK, SamePast, Pre, Phases
  <2>3. KindOK'
    BY <1>1 DEF KindOK
  <2> QED
    BY <2>1, <2>2, <2>3
<1>7. StreamOK'
  BY <1>1, <1>4 DEF Inv, StreamOK, SamePast
<1>8. LogOK'
  BY <1>1, <1>2, <1>3 DEF Inv, LogOK, SamePast, LogsNone
<1>9. ClosedOK'
  BY <1>1, <1>4 DEF ClosedOK, SamePast, Ignored
<1>10. AnswerOK'
  <2>1. DoneStatus' = DoneStatus /\ DoneStatus \in {200, 204}
    BY <1>3 DEF DoneStatus
  <2> QED
    BY <1>1, <1>3, <1>4, <2>1 DEF Inv, AnswerOK, SamePast
<1> QED
  BY <1>5, <1>6, <1>7, <1>8, <1>9, <1>10 DEF Inv

(***************************************************************************)
(* The handler comes to an await before an answer is decided.              *)
(***************************************************************************)
LEMMA AwaitStep ==
  ASSUME Inv, NEW place \in {"buffer", "resolve", "upstream"}, Goto(place),
         pc # "end", answer.form = "none", ~past.closed,
         place = "buffer" => past.top <= 3 /\ (kind = "dynamic" => past.top = 0),
         place = "resolve" => past.top = 0 /\ kind = "dynamic",
         place = "upstream" => past.top = 5 /\ kind # "dynamic",
         session <=> (place = "upstream" \/ (place = "buffer" /\ kind # "dynamic")),
         UNCHANGED <<kind, chainVars, session, stream, answer, served, recorded>>,
         attempt' \in 0..PeerCount
  PROVE  Inv'
<1>1. pc' = place /\ UNCHANGED <<next, last, past>> /\ place \in Places /\ place \notin Phases
  BY DEF Goto, Places, Phases
<1>2. pc \notin {"Log", "stream", "final", "BodyFilter", "tunnel"}
  BY DEF Inv, FormOK, StreamOK
<1>3. Chain' = Chain /\ UNCHANGED <<live, body, stats>>
  BY DEF Chain, chainVars
<1>4. PhasesTypeOK'
  BY <1>1, <1>3 DEF Inv, PhasesTypeOK
<1>5. TopOK'
  BY <1>1 DEF TopOK
<1>6. FormOK'
  BY <1>1 DEF Inv, FormOK, Pre
<1>7. KindOK'
  BY <1>1 DEF KindOK
<1>8. StreamOK'
  BY <1>1 DEF Inv, StreamOK
<1>9. LogOK'
  BY <1>1, <1>2, <1>3 DEF Inv, LogOK, LogsNone
<1>10. ClosedOK'
  BY <1>1 DEF ClosedOK
<1>11. AnswerOK'
  BY <1>1, <1>3 DEF Inv, AnswerOK
<1> QED
  BY <1>4, <1>5, <1>6, <1>7, <1>8, <1>9, <1>10, <1>11 DEF Inv

(***************************************************************************)
(* A response without a session.                                           *)
(***************************************************************************)
LEMMA RefuseStep ==
  ASSUME Inv, NEW s \in Nat, pc \in {"start", "buffer", "resolve"}, ~session, Refuse(s)
  PROVE  Inv'
<1>1. /\ pc' = "end" /\ served' = s /\ UNCHANGED <<next, last, past>>
      /\ UNCHANGED <<kind, live, body, stats, session, attempt, stream, answer, recorded>>
  BY DEF Refuse, Goto, chainVars
<1>2. answer.form = "none" /\ ~past.closed
  BY DEF Inv, FormOK, ClosedOK, Pre
<1>3. PhasesTypeOK'
  BY <1>1 DEF Inv, PhasesTypeOK, Places
<1>4. TopOK' /\ KindOK'
  BY <1>1 DEF TopOK, KindOK, Phases
<1>5. FormOK' /\ StreamOK'
  BY <1>1, <1>2 DEF Inv, FormOK, StreamOK, Pre
<1>6. LogOK'
  BY <1>1 DEF Inv, LogOK, Chain, Phases
<1>7. ClosedOK' /\ AnswerOK'
  BY <1>1, <1>2 DEF Inv, ClosedOK, AnswerOK
<1> QED
  BY <1>3, <1>4, <1>5, <1>6, <1>7 DEF Inv

(***************************************************************************)
(* The handler or the tunnel task is dropped at an await.                  *)
(***************************************************************************)
LEMMA DroppedStep ==
  ASSUME Inv, Dropped
  PROVE  Inv'
<1>1. /\ pc \in {"buffer", "resolve", "upstream", "tunnel"} /\ pc' = "end"
      /\ past' = [past EXCEPT !.dropped = TRUE]
      /\ UNCHANGED <<kind, next, last, live, body, stats, session, attempt, stream, answer,
                     served, recorded>>
  BY DEF Dropped, chainVars, handlerVars
<1>2. past' \in History
  BY <1>1 DEF Inv, PhasesTypeOK, History
<1>3. /\ past'.calls = past.calls /\ past'.finals = past.finals /\ past'.wrote = past.wrote
  BY <1>1 DEF Inv, PhasesTypeOK, History
<1>4. past'.late = past.late /\ past'.closed = past.closed /\ past'.dropped = TRUE
  BY <1>1 DEF Inv, PhasesTypeOK, History
<1>5. ~past.closed /\ answer.form \in {"none", "tunnel"}
  BY <1>1 DEF Inv, ClosedOK, Pre, FormOK
<1>6. PhasesTypeOK'
  BY <1>1, <1>2, <1>3 DEF Inv, PhasesTypeOK, Places
<1>7. TopOK' /\ KindOK'
  BY <1>1 DEF TopOK, KindOK, Phases
<1>8. FormOK' /\ StreamOK'
  BY <1>1, <1>3, <1>4, <1>5 DEF Inv, FormOK, StreamOK, Pre
<1>9. LogOK'
  BY <1>1, <1>3, <1>4 DEF Inv, LogOK, Chain, Phases
<1>10. ClosedOK' /\ AnswerOK'
  BY <1>1, <1>3, <1>4, <1>5 DEF Inv, ClosedOK, AnswerOK
<1> QED
  BY <1>6, <1>7, <1>8, <1>9, <1>10 DEF Inv

(***************************************************************************)
(* An unmatched request is refused without a session, or answered with one *)
(* whose log phase then runs.                                              *)
(***************************************************************************)
LEMMA NoRouteAnswers ==
  ASSUME NEW s, NoRoute(s), ~Refuse(s)
  PROVE  /\ session' = TRUE /\ answer' = [form |-> "text", status |-> s] /\ Run("Log")
         /\ UNCHANGED <<kind, chainVars, attempt, stream, served, recorded>>
<1>1. /\ session' = TRUE /\ Finish("text", s)
      /\ UNCHANGED <<kind, chainVars, attempt, stream, served, recorded>>
  BY Zenon DEF NoRoute
<1> QED
  BY <1>1, Zenon DEF Finish

(***************************************************************************)
(* The handlers up to the attempt loop.                                    *)
(***************************************************************************)
LEMMA StartStep ==
  ASSUME Inv,
         \/ \E s \in {400, 404, 413, 500, 502} : NoRoute(s) \/ DispatchFails(s)
         \/ Route \/ Dispatch
  PROVE  Inv'
<1>1. pc \in {"start", "buffer", "resolve"} /\ answer.form = "none" /\ ~past.closed /\ ~session
  <2>1. pc \in {"start", "resolve"} \/ (pc = "buffer" /\ kind = "dynamic")
    <3>1. ASSUME NEW s, NoRoute(s) PROVE pc = "start"
      BY <3>1 DEF NoRoute
    <3>2. ASSUME NEW s, DispatchFails(s)
          PROVE  pc \in {"start", "resolve"} \/ (pc = "buffer" /\ kind = "dynamic")
      BY <3>2 DEF DispatchFails
    <3> QED
      BY <3>1, <3>2 DEF Route, Dispatch
  <2> QED
    BY <2>1 DEF Inv, FormOK, ClosedOK, KindOK, Pre
<1>2. attempt \in 0..PeerCount
  BY DEF Inv, PhasesTypeOK
<1>3. ASSUME NEW s \in {400, 404, 413, 500, 502}, NoRoute(s) PROVE Inv'
  <2>1. CASE Refuse(s)
    BY <1>1, <2>1, RefuseStep
  <2>2. CASE ~Refuse(s)
    <3>1. /\ session' = TRUE /\ answer' = [form |-> "text", status |-> s] /\ Run("Log")
          /\ UNCHANGED <<kind, chainVars, attempt, stream, served, recorded>>
      BY <1>3, <2>2, NoRouteAnswers, Zenon
    <3>2. PICK ph, f : ph = "Log" /\ f = "text"
      OBVIOUS
    <3>3. Run(ph) /\ answer' = [form |-> f, status |-> s]
      BY <3>1, <3>2
    <3>4. s \in Nat /\ pc # "end"
      BY <1>1
    <3> QED
      BY <1>1, <3>1, <3>2, <3>3, <3>4, AnswerStep
  <2> QED
    BY <2>1, <2>2
<1>4. ASSUME NEW s \in {400, 404, 413, 500, 502}, DispatchFails(s) PROVE Inv'
  BY <1>1, <1>4, RefuseStep DEF DispatchFails
<1>5. CASE Route
  BY <1>1, <1>2, <1>5, EnterStep DEF Route, Pre
<1>6. CASE Dispatch
  <2>1. CASE pc = "start"
    BY <1>1, <1>2, <1>6, <2>1, AwaitStep DEF Dispatch, Inv, TopOK
  <2>2. CASE pc = "buffer"
    BY <1>1, <1>2, <1>6, <2>2, AwaitStep DEF Dispatch, Inv, TopOK
  <2>3. CASE pc = "resolve"
    BY <1>1, <1>2, <1>6, <2>3, EnterStep DEF Dispatch, Pre
  <2> QED
    BY <1>1, <2>1, <2>2, <2>3
<1> QED
  BY <1>3, <1>4, <1>5, <1>6

LEMMA PhaseReturns ==
  ASSUME Inv, pc \in Pre \/ Returned("Balancer") \/ (Returned("HeaderFilter") /\ kind # "dynamic")
  PROVE  /\ answer.form = "none" /\ session = TRUE /\ last \in Decisions
         /\ past.closed => last = Deny(503)
<1>1. answer.form = "none" /\ last \in Decisions
  BY DEF Inv, FormOK, PhasesTypeOK, Returned, Pre
<1>2. session = TRUE
  BY DEF Inv, LogOK, PhasesTypeOK, Phases, Pre, Returned
<1>3. past.closed => last = Deny(503)
  BY DEF Inv, ClosedOK, Ignored, Returned, Pre
<1> QED
  BY <1>1, <1>2, <1>3

LEMMA ShortCircuitStep ==
  ASSUME Inv, ShortCircuit
  PROVE  Inv'
<1> DEFINE s == IF last.is = "Done" THEN DoneStatus ELSE last.status
           f == IF last.is = "Done" THEN "done" ELSE "deny"
<1>1. /\ answer.form = "none" /\ session = TRUE /\ last \in Decisions /\ pc \in Pre /\ Terminal(last)
      /\ past.closed => last = Deny(503)
  BY PhaseReturns DEF ShortCircuit
<1>2. pc # "end"
  BY <1>1 DEF Pre
<1>3. /\ s \in Nat /\ (f = "done" => s = DoneStatus)
      /\ past.closed => f # "done" /\ s = 503
      /\ s = 204 /\ PluginStatus # 204 => body # "bytes"
  BY <1>1, Constants DEF Decisions, Declined, Okay, Done, Deny, Terminal, DoneStatus
<1>4. /\ session' = TRUE /\ UNCHANGED <<kind, chainVars, attempt, stream, served, recorded>>
      /\ \/ kind = "dynamic" /\ answer' = [form |-> "dynamic", status |-> s] /\ Run("HeaderFilter")
         \/ answer' = [form |-> f, status |-> s] /\ Run("Log")
  BY <1>1 DEF ShortCircuit, Finish
<1>5. f \in {"done", "deny"}
  OBVIOUS
<1> HIDE DEF s, f
<1> QED
  BY <1>1, <1>2, <1>3, <1>4, <1>5, AnswerStep

LEMMA ProceedStep ==
  ASSUME Inv, Proceed
  PROVE  Inv'
<1>1. /\ answer.form = "none" /\ session = TRUE /\ last \in Decisions /\ pc \in Pre /\ ~Terminal(last)
      /\ past.closed => last = Deny(503)
  BY PhaseReturns DEF Proceed
<1>2. pc # "end" /\ ~past.closed
  BY <1>1 DEF Pre, Terminal, Deny
<1>3. attempt' \in 0..PeerCount /\ session' = TRUE /\ UNCHANGED <<kind, chainVars, attempt, stream, served, recorded>>
  BY <1>1 DEF Inv, PhasesTypeOK, Proceed
<1>4. CASE pc = "PostRead" \/ pc = "Rewrite"
  BY <1>1, <1>2, <1>3, <1>4, EnterStep DEF Proceed, Pre
<1>5. CASE pc = "Access"
  <2>1. past.top = 3
    BY <1>5 DEF Inv, TopOK, Id, Phases
  <2>2. CASE kind = "http"
    BY <1>1, <1>2, <1>3, <1>5, <2>1, <2>2, AwaitStep DEF Proceed
  <2>3. CASE kind = "ws" \/ kind = "dynamic"
    BY <1>1, <1>2, <1>3, <1>5, <2>3, EnterStep DEF Proceed, Pre
  <2> QED
    BY <2>2, <2>3 DEF Inv, PhasesTypeOK, Kinds
<1>6. CASE pc = "Content"
  <2>1. CASE kind = "dynamic"
    <3>1. answer' = [form |-> "dynamic", status |-> 500] /\ Run("HeaderFilter")
      BY <1>6, <2>1 DEF Proceed
    <3> QED
      BY <1>1, <1>2, <1>3, <2>1, <3>1, AnswerStep
  <2>2. CASE kind # "dynamic"
    BY <1>1, <1>2, <1>3, <1>6, <2>2, EnterStep DEF Proceed
  <2> QED
    BY <2>1, <2>2
<1> QED
  BY <1>1, <1>4, <1>5, <1>6 DEF Pre

(***************************************************************************)
(* A 413 or 502 of the handler itself, or an attempt.                      *)
(***************************************************************************)
LEMMA TextStep ==
  ASSUME Inv, NEW s \in Nat, Finish("text", s), pc # "end", answer.form = "none", session = TRUE,
         past.closed => s = 503,
         UNCHANGED <<kind, chainVars, session, attempt, stream, served, recorded>>
  PROVE  Inv'
<1>1. answer' = [form |-> "text", status |-> s] /\ Run("Log") /\ session' = TRUE
  BY DEF Finish
<1> QED
  BY <1>1, AnswerStep

LEMMA AttemptStep ==
  ASSUME Inv,
         NoUpgrade \/ Buffer \/ PickPeer \/ NoPeer \/ TryNext \/ UpstreamFails \/ Respond
  PROVE  Inv'
<1>1. attempt \in 0..PeerCount /\ kind \in Kinds
  BY DEF Inv, PhasesTypeOK
<1>2. CASE NoUpgrade
  <2>1. /\ answer.form = "none" /\ session = TRUE /\ pc = "Access" /\ ~Terminal(last)
        /\ past.closed => last = Deny(503)
    BY <1>2, PhaseReturns DEF NoUpgrade, Returned, Pre
  <2>2. ~past.closed
    BY <2>1 DEF Terminal, Deny
  <2> QED
    BY <1>2, <2>1, <2>2, TextStep DEF NoUpgrade
<1>3. CASE Buffer
  <2>1. answer.form = "none" /\ session = TRUE /\ ~past.closed /\ pc = "buffer" /\ kind = "http"
    BY <1>3 DEF Buffer, Inv, FormOK, KindOK, ClosedOK, PhasesTypeOK, Pre
  <2>2. CASE Run("Content") /\ UNCHANGED answer
    BY <1>1, <1>3, <2>1, <2>2, EnterStep DEF Buffer, Pre
  <2>3. CASE Finish("text", 413)
    BY <1>3, <2>1, <2>3, TextStep DEF Buffer
  <2> QED
    BY <1>3, <2>2, <2>3 DEF Buffer
<1>4. CASE PickPeer
  <2>1. /\ answer.form = "none" /\ session = TRUE /\ pc = "Balancer"
        /\ past.closed => last = Deny(503)
    BY <1>4, PhaseReturns DEF PickPeer, Returned
  <2>2. ~past.closed /\ past.top = 5 /\ kind # "dynamic"
    BY <1>4, <2>1 DEF PickPeer, Deny, Inv, TopOK, Id, Phases, KindOK
  <2>3. attempt' \in 0..PeerCount
    BY <1>1, <1>4, Constants DEF PickPeer
  <2> QED
    BY <1>4, <2>1, <2>2, <2>3, AwaitStep DEF PickPeer
<1>5. CASE NoPeer
  <2> DEFINE s == IF last.is = "Deny" THEN last.status ELSE 502
  <2>1. /\ answer.form = "none" /\ session = TRUE /\ pc = "Balancer" /\ last \in Decisions
        /\ past.closed => last = Deny(503)
    BY <1>5, PhaseReturns DEF NoPeer, Returned
  <2>2. s \in Nat /\ (past.closed => s = 503)
    BY <2>1, DecisionKinds DEF Deny
  <2>3. Finish("text", s) /\ UNCHANGED <<kind, chainVars, session, attempt, stream, served, recorded>>
    BY <1>5 DEF NoPeer
  <2> HIDE DEF s
  <2> QED
    BY <2>1, <2>2, <2>3, TextStep
<1>6. CASE TryNext \/ UpstreamFails \/ Respond
  <2>1. /\ pc = "upstream" /\ answer.form = "none" /\ session = TRUE /\ ~past.closed
        /\ kind # "dynamic"
    BY <1>6 DEF TryNext, UpstreamFails, Respond, Inv, FormOK, KindOK, ClosedOK, PhasesTypeOK, Pre
  <2>2. UNCHANGED <<kind, chainVars, session, attempt, stream, served, recorded>>
    BY <1>6 DEF TryNext, UpstreamFails, Respond
  <2>3. CASE Finish("text", 502)
    BY <2>1, <2>2, <2>3, TextStep
  <2>4. CASE (Run("Balancer") \/ Run("HeaderFilter")) /\ UNCHANGED answer
    BY <1>1, <2>1, <2>2, <2>4, EnterStep
  <2> QED
    BY <1>6, <2>3, <2>4 DEF TryNext, UpstreamFails, Respond
<1> QED
  BY <1>2, <1>3, <1>4, <1>5, <1>6

(***************************************************************************)
(* One plugin of the running phase.                                        *)
(***************************************************************************)
LEMMA InvokeStep ==
  ASSUME Inv, pc \in Phases, Running(pc), NEW d \in Decisions, NEW w \in Bodies, NEW failed \in BOOLEAN,
         failed => d = Fallback(next),
         Invoke(d, w, failed), stats' = stats + 1, live' \in SUBSET (1..N)
  PROVE  Inv'
<1>1. /\ next' = After(d) /\ last' = d /\ body' = Carried(w)
      /\ UNCHANGED <<kind, pc, session, attempt, stream, answer, served, recorded>>
  BY DEF Invoke, handlerVars
<1>2. /\ next \in 1..N /\ next <= Chain /\ Chain' = Chain /\ Chain \in Nat /\ Chain <= N
      /\ N \in Nat
  BY <1>1, ChainSize, Constants DEF Inv, PhasesTypeOK, Running, Chain
<1>3. past \in History
  BY DEF Inv, PhasesTypeOK
<1> DEFINE calls == past.calls + 1
           wrote == IF w = "none" THEN past.wrote ELSE w
           late == past.late \/ (w # "none" /\ answer.form # "none")
           closed == past.closed \/ (failed /\ next \in FailClosed /\ ~Ignored(pc))
<1>4. past' = [past EXCEPT !.calls = calls, !.log = LogCalls, !.wrote = wrote, !.late = late, !.closed = closed]
  BY DEF Invoke
<1>5. calls \in Nat /\ LogCalls \in [1..N -> Nat] /\ wrote \in Bodies
  BY <1>2, <1>3 DEF History, LogCalls
<1>6. late \in BOOLEAN /\ closed \in BOOLEAN
  BY <1>3 DEF History
<1> HIDE DEF calls, wrote, late, closed
<1>7. /\ past'.calls = calls /\ past'.log = LogCalls /\ past'.wrote = wrote
      /\ past'.finals = past.finals /\ past'.top = past.top
      /\ past'.late = late /\ past'.closed = closed /\ past'.dropped = past.dropped
  BY <1>3, <1>4 DEF History
<1>8. past' \in History
  BY <1>3, <1>4, <1>5, <1>6 DEF History
<1>9. /\ next' \in Nat /\ next < next' /\ next' <= Chain + 1
      /\ pc = "Log" => next' = next + 1
  BY <1>1, <1>2 DEF After
<1>10. body' \in Bodies
  BY <1>1 DEF Carried, Inv, PhasesTypeOK
<1>11. PhasesTypeOK'
  BY <1>1, <1>2, <1>8, <1>9, <1>10 DEF Inv, PhasesTypeOK, LogOK
<1>12. TopOK' /\ KindOK'
  BY <1>1, <1>7 DEF Inv, TopOK, KindOK
<1>13. FormOK' /\ StreamOK'
  BY <1>1, <1>7 DEF Inv, FormOK, StreamOK, late
<1>14. LogOK'
  <2>1. recorded' + stats' = past'.calls
    BY <1>1, <1>3, <1>7 DEF Inv, LogOK, PhasesTypeOK, History, calls
  <2>2. CASE pc = "Log"
    <3>1. \A i \in 1..N : past'.log[i] = IF i < next' THEN 1 ELSE 0
      <4>1. past.log \in [1..N -> Nat] /\ past'.log = [past.log EXCEPT ![next] = @ + 1]
        BY <1>3, <1>7, <2>2 DEF History, LogCalls
      <4>2. \A i \in 1..N : past.log[i] = IF i < next THEN 1 ELSE 0
        BY <2>2 DEF Inv, LogOK
      <4> QED
        BY <1>2, <1>9, <2>2, <4>1, <4>2
    <3> QED
      BY <1>1, <1>2, <1>9, <2>1, <2>2, <3>1 DEF Inv, LogOK
  <2>3. CASE pc # "Log"
    BY <1>1, <1>2, <1>7, <1>9, <2>1, <2>3 DEF Inv, LogOK, LogsNone, Phases, LogCalls
  <2> QED
    BY <2>2, <2>3
<1>15. ClosedOK'
  <2>1. CASE past.closed
    BY <1>1, <1>2, <2>1 DEF Inv, ClosedOK, Ignored, Phases
  <2>2. CASE ~past.closed /\ past'.closed
    <3>1. d = Deny(503) /\ ~Ignored(pc) /\ Terminal(d)
      <4>1. failed /\ next \in FailClosed /\ ~Ignored(pc)
        BY <1>7, <2>2, Zenon DEF closed
      <4>2. d = Fallback(next)
        BY <4>1
      <4> QED
        BY <4>1, <4>2 DEF Fallback, Terminal, Deny
    <3>2. pc \in Pre \cup {"Balancer", "HeaderFilter"} /\ next' = Chain + 1
      BY <1>1, <3>1 DEF Ignored, Phases, Pre, After
    <3> QED
      BY <1>1, <1>2, <3>1, <3>2 DEF ClosedOK, Ignored
  <2>3. CASE ~past'.closed
    BY <2>3 DEF ClosedOK
  <2> QED
    BY <2>1, <2>2, <2>3
<1>16. AnswerOK'
  <2>1. past'.wrote = body'
    BY <1>1, <1>7 DEF Inv, AnswerOK, Carried, wrote
  <2>2. answer.form # "none" /\ ~past'.late => body' = body /\ ~past.late
    BY <1>1, <1>7 DEF Carried, late
  <2> QED
    BY <1>1, <2>1, <2>2 DEF Inv, AnswerOK, DoneStatus, Phases
<1> QED
  BY <1>11, <1>12, <1>13, <1>14, <1>15, <1>16 DEF Inv

LEMMA CallStep ==
  ASSUME Inv,
         \/ \E w \in Bodies, d \in Decisions, failed \in BOOLEAN : Call(d, w, failed)
         \/ InstantiateFails
  PROVE  Inv'
<1>1. next <= Chain => next \in 1..N
  BY ChainSize, Constants DEF Inv, PhasesTypeOK
<1>2. ASSUME NEW w \in Bodies, NEW d \in Decisions, NEW failed \in BOOLEAN, Call(d, w, failed)
      PROVE  Inv'
  <2>1. /\ pc \in Phases /\ Running(pc) /\ stats' = stats + 1 /\ Invoke(d, w, failed)
        /\ live' = live \cup {next}
    BY <1>2 DEF Call
  <2>2. failed => d = Fallback(next)
    BY <1>2 DEF Call
  <2>3. live' \in SUBSET (1..N)
    BY <1>1, <2>1 DEF Inv, PhasesTypeOK, Running
  <2> QED
    BY <2>1, <2>2, <2>3, InvokeStep
<1>3. CASE InstantiateFails
  <2>1. /\ pc \in Phases /\ Running(pc) /\ stats' = stats + 1 /\ live' = live
        /\ Invoke(Fallback(next), "none", TRUE)
    BY <1>3 DEF InstantiateFails
  <2>2. Fallback(next) \in Decisions /\ "none" \in Bodies /\ live' \in SUBSET (1..N)
    BY <2>1 DEF Fallback, Decisions, Bodies, Inv, PhasesTypeOK
  <2> QED
    BY <2>1, <2>2, InvokeStep, Zenon
<1> QED
  BY <1>2, <1>3

(***************************************************************************)
(* The response: an upgrade, a stream, or none left to send.               *)
(***************************************************************************)
Streams == [open : BOOLEAN, lastSent : BOOLEAN, logDone : BOOLEAN, gone : BOOLEAN, chunks : 0..MaxChunks]

LEMMA UpgradeStep ==
  ASSUME Inv, Upgrade
  PROVE  Inv'
<1>1. /\ pc = "upstream" /\ kind = "ws" /\ pc' = "tunnel" /\ served' = 101
      /\ answer' = [form |-> "tunnel", status |-> 101]
      /\ UNCHANGED <<next, last, past, kind, live, body, stats, session, attempt, stream, recorded>>
  BY DEF Upgrade, Goto, chainVars
<1>2. answer' \in Answers /\ answer'.form = "tunnel" /\ answer'.status = 101
  BY <1>1 DEF Answers
<1>3. answer.form = "none" /\ ~past.closed /\ session
  BY <1>1 DEF Inv, FormOK, ClosedOK, KindOK, Pre
<1>4. PhasesTypeOK'
  BY <1>1, <1>2 DEF Inv, PhasesTypeOK, Places, Answers
<1>5. TopOK' /\ KindOK'
  BY <1>1, <1>3 DEF Inv, TopOK, KindOK, Phases
<1>6. FormOK' /\ StreamOK'
  BY <1>1, <1>2, <1>3 DEF Inv, FormOK, StreamOK, Pre
<1>7. LogOK'
  BY <1>1 DEF Inv, LogOK, LogsNone, Chain, Phases
<1>8. ClosedOK' /\ AnswerOK'
  BY <1>1, <1>2, <1>3 DEF Inv, ClosedOK, AnswerOK
<1> QED
  BY <1>4, <1>5, <1>6, <1>7, <1>8 DEF Inv

(***************************************************************************)
(* The log phase begins after the answer was decided: the tunnel closed,   *)
(* the dynamic response's headers are filtered, the stream is over.        *)
(***************************************************************************)
LEMMA LogStep ==
  ASSUME Inv, Run("Log"), LogsNone, pc # "end", answer.form # "none", session,
         past.closed => pc = "HeaderFilter",
         stream' \in Streams, stream'.lastSent = stream.lastSent, stream'.open = stream.open,
         stream'.logDone => stream'.lastSent,
         answer.form = "stream" => stream'.logDone /\ stream'.lastSent,
         UNCHANGED <<kind, chainVars, session, attempt, answer, served, recorded>>
  PROVE  Inv'
<1>1. /\ SamePast("Log") /\ pc' = "Log" /\ next' = 1 /\ last' = Declined /\ past' \in History
  BY RunPast DEF Inv, PhasesTypeOK, Phases, SamePast
<1>2. Chain' = Chain /\ Chain \in Nat /\ 1 <= Chain /\ UNCHANGED <<live, body, stats>>
  BY ChainSize DEF Inv, Chain, chainVars
<1>3. PhasesTypeOK'
  <2>1. Declined \in Decisions /\ 1 \in 1..N + 1
    BY Constants DEF Decisions
  <2> QED
    BY <1>1, <1>2, <2>1 DEF Inv, PhasesTypeOK, Phases, Streams
<1>4. TopOK' /\ KindOK'
  BY <1>1 DEF TopOK, KindOK, SamePast, Phases
<1>5. FormOK'
  BY <1>1 DEF Inv, FormOK, SamePast, Pre
<1>6. StreamOK'
  BY <1>1 DEF Inv, StreamOK, SamePast
<1>7. LogOK'
  BY <1>1, <1>2 DEF Inv, LogOK, LogsNone, SamePast
<1>8. ClosedOK'
  <2>1. past.closed => answer.form \in {"text", "deny", "dynamic"} /\ answer.status = 503
    BY DEF Inv, ClosedOK, FormOK, Ignored
  <2> QED
    BY <1>1, <2>1 DEF ClosedOK, SamePast
<1>9. AnswerOK'
  BY <1>1, <1>2 DEF Inv, AnswerOK, SamePast, DoneStatus
<1> QED
  BY <1>3, <1>4, <1>5, <1>6, <1>7, <1>8, <1>9 DEF Inv

LEMMA HeadersStep ==
  ASSUME Inv, HeadersFiltered
  PROVE  Inv'
<1>1. /\ pc = "HeaderFilter" /\ LogsNone /\ past.top = 6 /\ session = TRUE /\ last \in Decisions
      /\ UNCHANGED <<kind, chainVars, session, attempt, recorded>>
  BY DEF HeadersFiltered, Returned, Inv, LogOK, TopOK, Id, Phases, PhasesTypeOK
<1>2. CASE kind = "dynamic"
  <2>1. Run("Log") /\ UNCHANGED <<stream, answer, served>>
    BY <1>2 DEF HeadersFiltered
  <2>2. answer.form = "dynamic" /\ stream \in Streams /\ (stream.logDone => stream.lastSent)
    BY <1>1, <1>2 DEF Inv, FormOK, PhasesTypeOK, StreamOK, Streams
  <2> QED
    BY <1>1, <2>1, <2>2, LogStep
<1>3. CASE kind # "dynamic"
  <2>1. answer.form = "none" /\ (past.closed => last = Deny(503))
    BY <1>3, PhaseReturns DEF HeadersFiltered
  <2>2. CASE last.is = "Deny"
    <3>1. Finish("text", last.status) /\ UNCHANGED <<stream, served>>
      BY <1>3, <2>2 DEF HeadersFiltered
    <3>2. last.status \in Nat /\ (past.closed => last.status = 503)
      BY <1>1, <2>1, DecisionKinds DEF Deny
    <3> QED
      BY <1>1, <2>1, <3>1, <3>2, TextStep
  <2>3. CASE last.is # "Deny"
    <3>1. /\ stream' = [NoStream EXCEPT !.open = TRUE]
          /\ answer' = [form |-> "stream", status |-> UpstreamStatus]
          /\ served' = UpstreamStatus /\ pc' = "stream" /\ kind = "http"
          /\ UNCHANGED <<next, last, past, live, body, stats>>
      BY <1>1, <1>3, <2>3 DEF HeadersFiltered, Goto, chainVars
    <3>2. /\ answer' \in Answers /\ answer'.form = "stream" /\ answer'.status = UpstreamStatus
      BY <3>1, Constants DEF Answers
    <3>3. stream' \in Streams
      <4>1. NoStream \in Streams
        BY Constants DEF NoStream, Streams
      <4> QED
        BY <3>1, <4>1 DEF Streams
    <3>4. stream'.open = TRUE /\ stream'.lastSent = FALSE /\ stream'.logDone = FALSE
      BY <3>1 DEF NoStream
    <3>5. ~past.closed /\ past.finals = 0
      BY <2>1, <2>3 DEF Deny, Inv, StreamOK
    <3>6. PhasesTypeOK'
      BY <1>1, <3>1, <3>2, <3>3, Constants DEF Inv, PhasesTypeOK, Places, Answers, Streams
    <3>7. TopOK' /\ KindOK'
      BY <1>1, <3>1, <3>4 DEF TopOK, KindOK, Phases
    <3>8. FormOK'
      BY <2>1, <3>1, <3>2 DEF Inv, FormOK, Pre
    <3>9. StreamOK'
      BY <1>1, <3>1, <3>2, <3>4, <3>5 DEF StreamOK
    <3>10. LogOK'
      BY <1>1, <3>1, <3>4 DEF Inv, LogOK, LogsNone, Chain, Phases
    <3>11. ClosedOK' /\ AnswerOK'
      BY <3>1, <3>2, <3>5 DEF Inv, ClosedOK, AnswerOK
    <3> QED
      BY <3>6, <3>7, <3>8, <3>9, <3>10, <3>11 DEF Inv
  <2> QED
    BY <2>2, <2>3
<1> QED
  BY <1>2, <1>3

(***************************************************************************)
(* The streamed body, between its phases.                                  *)
(***************************************************************************)
LEMMA StreamPlace ==
  ASSUME Inv, NEW place \in {"stream", "final"}, Goto(place), pc \in {"stream", "final", "BodyFilter"},
         stream' \in Streams, stream'.lastSent = stream.lastSent, stream'.logDone = stream.logDone,
         stream'.open => ~stream.lastSent, place = "final" => ~stream'.open,
         place = "stream" => (stream'.open <=> ~stream.lastSent) /\ (stream.logDone <=> stream.lastSent),
         UNCHANGED streamRest
  PROVE  Inv'
<1>1. /\ pc' = place /\ place \in Places
      /\ UNCHANGED <<next, last, past, kind, live, body, stats, session, attempt, answer, served,
                     recorded>>
  BY DEF Goto, Places, streamRest, chainVars
<1>2. answer.form = "stream" /\ session /\ ~past.closed
  BY DEF Inv, StreamOK, KindOK, LogOK, ClosedOK, Phases, Pre
<1>3. PhasesTypeOK'
  BY <1>1 DEF Inv, PhasesTypeOK, Streams
<1>4. TopOK'
  BY <1>1 DEF Inv, TopOK, StreamOK, Id, Phases
<1>5. KindOK' /\ FormOK'
  BY <1>1, <1>2 DEF Inv, KindOK, FormOK, Pre
<1>6. StreamOK'
  BY <1>1, <1>2 DEF Inv, StreamOK
<1>7. LogOK'
  BY <1>1 DEF Inv, LogOK, StreamOK, LogsNone, LogsAll, Chain, Phases
<1>8. ClosedOK' /\ AnswerOK'
  BY <1>1, <1>2 DEF Inv, ClosedOK, AnswerOK
<1> QED
  BY <1>3, <1>4, <1>5, <1>6, <1>7, <1>8 DEF Inv

(***************************************************************************)
(* A chunk goes to body_filter, or the last one does.                      *)
(***************************************************************************)
LEMMA FilterStep ==
  ASSUME Inv, pc \in {"stream", "final"}, stream' \in Streams, ~stream.lastSent,
         stream'.logDone = stream.logDone, stream'.open <=> ~stream'.lastSent,
         pc' = "BodyFilter", next' = 1, last' = Declined, past' \in History,
         past'.top = 7, past'.finals = IF stream'.lastSent THEN 1 ELSE 0,
         past'.calls = past.calls, past'.log = past.log, past'.wrote = past.wrote,
         past'.late = past.late, past'.closed = past.closed, past'.dropped = past.dropped,
         UNCHANGED streamRest
  PROVE  Inv'
<1>1. UNCHANGED <<kind, live, body, stats, session, attempt, answer, served, recorded>>
  BY DEF streamRest, chainVars
<1>2. answer.form = "stream" /\ session /\ ~past.closed /\ ~stream.logDone
  BY DEF Inv, StreamOK, KindOK, LogOK, ClosedOK, Phases, Pre
<1>3. Chain' = Chain /\ Chain \in Nat /\ 1 <= Chain
  BY <1>1, ChainSize DEF Inv, Chain
<1>4. PhasesTypeOK'
  <2>1. Declined \in Decisions /\ 1 \in 1..N + 1
    BY Constants DEF Decisions
  <2> QED
    BY <1>1, <1>2, <2>1 DEF Inv, PhasesTypeOK, Phases, Streams
<1>5. TopOK'
  BY DEF TopOK, Id, Phases
<1>6. KindOK' /\ FormOK'
  BY <1>1, <1>2 DEF Inv, KindOK, FormOK, Pre
<1>7. StreamOK'
  BY <1>1, <1>2 DEF Inv, StreamOK
<1>8. LogOK'
  BY <1>1, <1>2, <1>3 DEF Inv, LogOK, LogsNone
<1>9. ClosedOK' /\ AnswerOK'
  BY <1>1, <1>2 DEF Inv, ClosedOK, AnswerOK
<1> QED
  BY <1>4, <1>5, <1>6, <1>7, <1>8, <1>9 DEF Inv

LEMMA ChunkStep ==
  ASSUME Inv, Chunk \/ FinalFilter
  PROVE  Inv'
<1>1. stream \in Streams /\ past \in History
  BY DEF Inv, PhasesTypeOK, Streams
<1>2. CASE Chunk
  <2>1. /\ pc = "stream" /\ stream.open /\ stream' = [stream EXCEPT !.chunks = @ + 1]
        /\ stream.chunks < MaxChunks /\ Run("BodyFilter") /\ UNCHANGED streamRest
    BY <1>2 DEF Chunk
  <2>2. stream.chunks + 1 \in 0..MaxChunks
    BY <1>1, <2>1, Constants DEF Streams
  <2>3. stream' \in Streams
    BY <1>1, <2>1, <2>2 DEF Streams
  <2>4. stream'.logDone = stream.logDone /\ stream'.lastSent = stream.lastSent /\ stream'.open = stream.open
    BY <1>1, <2>1 DEF Streams
  <2>5. ~stream.lastSent /\ past.finals = 0
    BY <2>1 DEF Inv, StreamOK
  <2>6. SamePast("BodyFilter") /\ pc' = "BodyFilter" /\ next' = 1 /\ last' = Declined
    BY <1>1, <2>1, RunPast DEF Phases
  <2> QED
    <3>1. past'.top = 7 /\ past'.finals = IF stream'.lastSent THEN 1 ELSE 0
      BY <2>4, <2>5, <2>6 DEF SamePast, Id
    <3> QED
      BY <2>1, <2>3, <2>4, <2>5, <2>6, <3>1, FilterStep DEF SamePast
<1>3. CASE FinalFilter
  <2>1. /\ pc = "final" /\ ~stream.lastSent /\ stream' = [stream EXCEPT !.lastSent = TRUE]
        /\ RunFinal /\ UNCHANGED streamRest
    BY <1>3 DEF FinalFilter
  <2>2. stream' \in Streams
    BY <1>1, <2>1 DEF Streams
  <2>3. stream'.logDone = stream.logDone /\ stream'.lastSent = TRUE /\ stream'.open = stream.open
    BY <1>1, <2>1 DEF Streams
  <2>4. past.finals = 0 /\ past.finals + 1 = 1
    BY <2>1 DEF Inv, StreamOK
  <2>5. /\ pc' = "BodyFilter" /\ next' = 1 /\ last' = Declined
        /\ past' = [past EXCEPT !.top = 7, !.finals = 1]
    BY <2>1, <2>4 DEF RunFinal, Id
  <2>6. past' \in History
    <3>1. 7 \in 0..8 /\ 1 \in Nat
      OBVIOUS
    <3> QED
      BY <1>1, <2>5, <3>1 DEF History
  <2>7. /\ past'.top = 7 /\ past'.finals = 1
        /\ past'.calls = past.calls /\ past'.log = past.log /\ past'.wrote = past.wrote
    BY <1>1, <2>5 DEF History
  <2>8. past'.late = past.late /\ past'.closed = past.closed /\ past'.dropped = past.dropped
    BY <1>1, <2>5 DEF History
  <2>9. ~stream'.open
    BY <2>1, <2>3 DEF Inv, StreamOK
  <2> QED
    BY <2>1, <2>2, <2>3, <2>5, <2>6, <2>7, <2>8, <2>9, FilterStep
<1> QED
  BY <1>2, <1>3

LEMMA StreamStep ==
  ASSUME Inv, StreamEnds \/ StreamDropped \/ ChunkFiltered \/ (Finalized /\ ~stream.gone)
  PROVE  Inv'
<1>1. stream \in Streams
  BY DEF Inv, PhasesTypeOK, Streams
<1>2. CASE StreamEnds \/ StreamDropped
  <2>1. Goto("final") /\ pc = "stream" /\ UNCHANGED streamRest
    BY <1>2 DEF StreamEnds, StreamDropped
  <2>2. \/ stream' = [stream EXCEPT !.open = FALSE]
        \/ stream' = [stream EXCEPT !.open = FALSE, !.gone = TRUE]
    BY <1>2 DEF StreamEnds, StreamDropped
  <2>3. stream' \in Streams
    BY <1>1, <2>2 DEF Streams
  <2>4. stream'.logDone = stream.logDone /\ stream'.lastSent = stream.lastSent /\ stream'.open = FALSE
    BY <1>1, <2>2 DEF Streams
  <2> QED
    BY <2>1, <2>3, <2>4, StreamPlace
<1>3. CASE ChunkFiltered
  <2>1. /\ Goto(IF stream.lastSent THEN "final" ELSE "stream") /\ pc = "BodyFilter"
        /\ UNCHANGED <<stream, streamRest>>
    BY <1>3 DEF ChunkFiltered, Returned
  <2>2. CASE stream.lastSent
    <3>1. Goto("final") /\ ~stream.open
      BY <2>1, <2>2 DEF Inv, StreamOK
    <3> QED
      BY <1>1, <2>1, <3>1, StreamPlace
  <2>3. CASE ~stream.lastSent
    <3>1. Goto("stream") /\ stream.open /\ ~stream.logDone
      BY <2>1, <2>3 DEF Inv, StreamOK
    <3> QED
      BY <1>1, <2>1, <2>3, <3>1, StreamPlace
  <2> QED
    BY <2>2, <2>3
<1>4. CASE Finalized /\ ~stream.gone
  <2>1. Goto("stream") /\ pc = "final" /\ stream.lastSent /\ stream.logDone /\ UNCHANGED <<stream, streamRest>>
    BY <1>4 DEF Finalized
  <2>2. ~stream.open
    BY <2>1 DEF Inv, StreamOK
  <2> QED
    BY <1>1, <2>1, <2>2, StreamPlace
<1> QED
  BY <1>2, <1>3, <1>4

(***************************************************************************)
(* The log phase of a tunnel or of a stream begins.                        *)
(***************************************************************************)
LEMMA LateLogStep ==
  ASSUME Inv, TunnelCloses \/ FinalLog
  PROVE  Inv'
<1>1. stream \in Streams
  BY DEF Inv, PhasesTypeOK, Streams
<1>2. CASE TunnelCloses
  <2>1. /\ pc = "tunnel" /\ Run("Log")
        /\ UNCHANGED <<kind, chainVars, session, attempt, stream, answer, served, recorded>>
    BY <1>2 DEF TunnelCloses
  <2>2. LogsNone /\ answer.form = "tunnel" /\ session /\ ~past.closed /\ (stream.logDone => stream.lastSent)
    BY <2>1 DEF Inv, LogOK, FormOK, KindOK, ClosedOK, StreamOK, Pre
  <2> QED
    BY <1>1, <2>1, <2>2, LogStep
<1>3. CASE FinalLog
  <2>1. /\ pc = "final" /\ stream.lastSent /\ ~stream.logDone /\ Run("Log")
        /\ stream' = [stream EXCEPT !.logDone = TRUE] /\ UNCHANGED streamRest
    BY <1>3 DEF FinalLog
  <2>2. LogsNone /\ answer.form = "stream" /\ session /\ ~past.closed
    BY <2>1 DEF Inv, LogOK, KindOK, ClosedOK, StreamOK, Pre
  <2>3. stream' \in Streams
    BY <1>1, <2>1 DEF Streams
  <2>4. stream'.logDone = TRUE /\ stream'.lastSent = stream.lastSent /\ stream'.open = stream.open
    BY <1>1, <2>1 DEF Streams
  <2> QED
    BY <2>1, <2>2, <2>3, <2>4, LogStep DEF streamRest
<1> QED
  BY <1>2, <1>3

(***************************************************************************)
(* The body is gone: the request ends.                                     *)
(***************************************************************************)
LEMMA GoneStep ==
  ASSUME Inv, Finalized, stream.gone
  PROVE  Inv'
<1>1. /\ pc = "final" /\ pc' = "end" /\ stream.lastSent /\ stream.logDone
      /\ UNCHANGED <<next, last, past, kind, live, body, stats, session, attempt, stream, answer,
                     served, recorded>>
  BY DEF Finalized, Goto, streamRest, chainVars
<1>2. answer.form = "stream" /\ session /\ ~past.closed /\ LogsAll /\ stats = 0
  BY <1>1 DEF Inv, StreamOK, KindOK, ClosedOK, LogOK, Pre
<1>3. PhasesTypeOK'
  BY <1>1 DEF Inv, PhasesTypeOK, Places
<1>4. TopOK' /\ KindOK'
  BY <1>1 DEF TopOK, KindOK, Phases
<1>5. FormOK' /\ StreamOK'
  BY <1>1, <1>2 DEF Inv, FormOK, StreamOK, Pre
<1>6. LogOK'
  BY <1>1, <1>2 DEF Inv, LogOK, LogsAll, Chain, Phases
<1>7. ClosedOK' /\ AnswerOK'
  BY <1>1, <1>2 DEF Inv, ClosedOK, AnswerOK, Response
<1> QED
  BY <1>3, <1>4, <1>5, <1>6, <1>7 DEF Inv

(***************************************************************************)
(* The log phase returns: the statistics are drained and the response is   *)
(* built.                                                                  *)
(***************************************************************************)
LEMMA LoggedStep ==
  ASSUME Inv, Logged
  PROVE  Inv'
<1>1. /\ pc = "Log" /\ next > Chain /\ served' = Response
      /\ pc' = (IF answer.form = "stream" THEN "final" ELSE "end")
      /\ IF kind = "dynamic" THEN UNCHANGED <<stats, recorded>>
         ELSE recorded' = recorded + stats /\ stats' = 0
      /\ UNCHANGED <<next, last, past, kind, live, body, session, attempt, stream, answer>>
  BY DEF Logged, Returned, Goto
<1>2. session /\ answer.form # "none" /\ recorded \in Nat /\ stats \in Nat
  BY <1>1 DEF Inv, LogOK, FormOK, PhasesTypeOK, Phases
<1>3. recorded' \in Nat /\ stats' \in Nat /\ recorded' + stats' = past.calls
      /\ (kind # "dynamic" => stats' = 0)
  BY <1>1, <1>2 DEF Inv, LogOK
<1>4. Chain' = Chain /\ Chain \in Nat /\ Chain <= N /\ LogsAll
  <2>1. Chain' = Chain /\ Chain \in Nat /\ Chain <= N
    BY <1>1, ChainSize DEF Inv, Chain
  <2> QED
    BY <1>1, <2>1, Constants DEF Inv, LogOK, LogsAll, PhasesTypeOK
<1>5. Response \in Nat
  BY DEF Response, DoneStatus, Inv, PhasesTypeOK
<1>6. PhasesTypeOK'
  BY <1>1, <1>3, <1>5 DEF Inv, PhasesTypeOK, Places
<1>7. TopOK' /\ KindOK'
  BY <1>1, <1>2 DEF Inv, TopOK, KindOK, StreamOK, Phases
<1>8. FormOK' /\ StreamOK'
  BY <1>1, <1>2 DEF Inv, FormOK, StreamOK, Pre
<1>9. LogOK'
  BY <1>1, <1>2, <1>3, <1>4 DEF Inv, LogOK, LogsAll, StreamOK, Phases
<1>10. ClosedOK'
  <2>1. past.closed =>
          /\ answer.form \in {"text", "deny", "dynamic"} /\ answer.status = 503 /\ pc' = "end"
          /\ served' = 503
    BY <1>1 DEF Inv, ClosedOK, Response, Pre
  <2> QED
    BY <1>1, <2>1 DEF ClosedOK
<1>11. AnswerOK'
  BY <1>1, <1>2 DEF Inv, AnswerOK, Response, DoneStatus
<1> QED
  BY <1>6, <1>7, <1>8, <1>9, <1>10, <1>11 DEF Inv

LEMMA NextInv ==
  ASSUME Inv, [PhasesNext]_phaseVars
  PROVE  Inv'
<1>1. CASE \/ \E w \in Bodies, d \in Decisions, failed \in BOOLEAN : Call(d, w, failed)
           \/ InstantiateFails
  BY <1>1, CallStep
<1>2. CASE \/ \E s \in {400, 404, 413, 500, 502} : NoRoute(s) \/ DispatchFails(s)
           \/ Route \/ Dispatch
  BY <1>2, StartStep
<1>3. CASE ShortCircuit
  BY <1>3, ShortCircuitStep
<1>4. CASE Proceed
  BY <1>4, ProceedStep
<1>5. CASE NoUpgrade \/ Buffer \/ PickPeer \/ NoPeer \/ TryNext \/ UpstreamFails \/ Respond
  BY <1>5, AttemptStep
<1>6. CASE Upgrade
  BY <1>6, UpgradeStep
<1>7. CASE HeadersFiltered
  BY <1>7, HeadersStep
<1>8. CASE Chunk \/ FinalFilter
  BY <1>8, ChunkStep
<1>9. CASE StreamEnds \/ StreamDropped \/ ChunkFiltered
  BY <1>9, StreamStep
<1>10. CASE Finalized
  BY <1>10, StreamStep, GoneStep
<1>11. CASE TunnelCloses \/ FinalLog
  BY <1>11, LateLogStep
<1>12. CASE Logged
  BY <1>12, LoggedStep
<1>13. CASE Dropped
  BY <1>13, DroppedStep
<1>14. CASE UNCHANGED phaseVars
  <2>1. UNCHANGED <<kind, pc, next, last, session, live, body, attempt, stream, answer, served,
                    stats, recorded, past>>
    BY <1>14 DEF phaseVars, control
  <2> QED
    BY <2>1
    DEF Inv, PhasesTypeOK, TopOK, StreamOK, FormOK, KindOK, LogOK, ClosedOK, AnswerOK, LogsNone, LogsAll,
        Chain, Ignored, DoneStatus, Response
<1> QED
  BY <1>1, <1>2, <1>3, <1>4, <1>5, <1>6, <1>7, <1>8, <1>9, <1>10, <1>11, <1>12, <1>13, <1>14
  DEF PhasesNext, Terminated

(***************************************************************************)
(* The invariant holds throughout.                                         *)
(***************************************************************************)
THEOREM InvHolds == PhasesSpec => []Inv
<1>1. Inv /\ [PhasesNext]_phaseVars => Inv'
  BY NextInv
<1> QED
  BY InitInv, <1>1, PTL DEF PhasesSpec

(***************************************************************************)
(* Every plugin of the chain of a request that was not dropped logs once,  *)
(* and every call is counted once (finish_log, run_log, run_ws_log,        *)
(* take_phase_stats), for every number of plugins and whatever they do.    *)
(***************************************************************************)
THEOREM LogsOnce == PhasesSpec => []EveryPluginLogs
<1>1. Inv => EveryPluginLogs
  BY DEF Inv, LogOK, LogsAll, EveryPluginLogs
<1> QED
  BY InvHolds, <1>1, PTL

(***************************************************************************)
(* A plugin that fails closed stops the request before the upstream, and   *)
(* before its response, with a 503 (run_phase, fallback_decision).         *)
(***************************************************************************)
THEOREM ClosedIsClosed == PhasesSpec => []FailClosedStops
<1>1. Inv => FailClosedStops
  BY DEF Inv, ClosedOK, FailClosedStops, Pre
<1> QED
  BY InvHolds, <1>1, PTL

(***************************************************************************)
(* The status logged is the status served, up to a body written after the  *)
(* decision (done_response, deny_response, invoke).                        *)
(***************************************************************************)
THEOREM LoggedIsServed == PhasesSpec => []StatusAgrees
<1>1. Inv => StatusAgrees
  <2> SUFFICES ASSUME Inv, pc = "end", session, ~past.dropped
               PROVE  /\ \/ served = answer.status
                         \/ (past.late \/ DeniedWith204) /\ answer.status = 204 /\ served = 200
                         \/ past.late /\ answer.form = "done" /\ answer.status = 200 /\ served = 204
                      /\ answer.form = "done" => (served = 200 <=> past.wrote = "bytes")
    BY DEF StatusAgrees
  <2>1. served = Response /\ past.wrote = body
    BY DEF Inv, AnswerOK
  <2>2. CASE answer.form = "done"
    BY <2>1, <2>2 DEF Inv, AnswerOK, Response, DoneStatus
  <2>3. CASE answer.form = "dynamic"
    BY <2>1, <2>3 DEF Inv, AnswerOK, Response, DoneStatus, DeniedWith204
  <2>4. CASE answer.form \notin {"done", "dynamic"}
    BY <2>1, <2>4 DEF Response
  <2> QED
    BY <2>2, <2>3, <2>4
<1> QED
  BY InvHolds, <1>1, PTL

(***************************************************************************)
(* What a step that begins phase ph needs of the phases before it.         *)
(***************************************************************************)
Follows(ph) ==
  /\ IF ph \in {"Balancer", "BodyFilter"} THEN Id[ph] + 1 >= past.top ELSE Id[ph] >= past.top
  /\ ph = "BodyFilter" => past.finals = 0
  /\ ph = "Log" /\ answer.form = "stream" => past.finals = 1

LEMMA NextFollows ==
  ASSUME Inv, PhasesNext, pc' \in Phases, pc' # pc
  PROVE  Follows(pc')
<1>1. CASE \/ \E w \in Bodies, d \in Decisions, failed \in BOOLEAN : Call(d, w, failed)
           \/ InstantiateFails
  BY <1>1 DEF Call, InstantiateFails, Invoke
<1>2. CASE \E s \in {400, 404, 413, 500, 502} : NoRoute(s)
  <2>1. pc = "start" /\ pc' = "Log"
    <3>1. PICK s : NoRoute(s)
      BY <1>2
    <3>2. pc = "start" /\ (Refuse(s) \/ Finish("text", s))
      BY <3>1, Zenon DEF NoRoute
    <3>3. CASE Refuse(s)
      <4>1. pc' = "end"
        BY <3>3 DEF Refuse, Goto
      <4> QED
        BY <4>1 DEF Phases
    <3>4. CASE Finish("text", s)
      BY <3>2, <3>4 DEF Finish, Run
    <3> QED
      BY <3>2, <3>3, <3>4
  <2>2. past.top = 0 /\ answer.form # "stream"
    BY <2>1 DEF Inv, TopOK, FormOK
  <2> QED
    BY <2>1, <2>2 DEF Follows, Id
<1>3. CASE \E s \in {400, 404, 413, 500, 502} : DispatchFails(s)
  BY <1>3 DEF DispatchFails, Refuse, Goto, Phases
<1>4. CASE Route \/ Dispatch
  <2>1. \/ pc \in {"start", "resolve"} /\ pc' = "PostRead"
        \/ pc' \in {"buffer", "resolve"}
    BY <1>4 DEF Route, Dispatch, Goto, Run
  <2> QED
    BY <2>1 DEF Inv, TopOK, Follows, Id, Phases
<1>5. CASE ShortCircuit
  <2>1. pc \in Pre /\ pc' \in {"HeaderFilter", "Log"}
    BY <1>5 DEF ShortCircuit, Finish, Run
  <2> QED
    BY <2>1 DEF Inv, TopOK, FormOK, Follows, Id, Phases, Pre
<1>6. CASE Proceed
  <2>1. \/ pc = "PostRead" /\ pc' = "Rewrite"
        \/ pc = "Rewrite" /\ pc' = "Access"
        \/ pc = "Access" /\ pc' \in {"buffer", "Balancer", "Content"}
        \/ pc = "Content" /\ pc' \in {"Balancer", "HeaderFilter"}
    BY <1>6 DEF Proceed, Goto, Run
  <2> QED
    BY <2>1 DEF Inv, TopOK, Follows, Id, Phases
<1>7. CASE NoUpgrade \/ Buffer \/ PickPeer \/ NoPeer \/ TryNext \/ UpstreamFails \/ Respond
  <2>1. \/ pc = "Access" /\ pc' = "Log"
        \/ pc = "buffer" /\ pc' \in {"Content", "Log"}
        \/ pc = "Balancer" /\ pc' \in {"upstream", "Log"}
        \/ pc = "upstream" /\ pc' \in {"Balancer", "HeaderFilter", "Log"}
    BY <1>7 DEF NoUpgrade, Buffer, PickPeer, NoPeer, TryNext, UpstreamFails, Respond, Returned,
       Finish, Goto, Run
  <2> QED
    BY <2>1 DEF Inv, PhasesTypeOK, History, TopOK, FormOK, Follows, Id, Phases, Pre
<1>8. CASE Upgrade \/ StreamEnds \/ StreamDropped \/ ChunkFiltered \/ Finalized \/ Logged \/ Dropped
  <2>1. pc' \in {"tunnel", "final", "stream", "end"}
    BY <1>8 DEF Upgrade, StreamEnds, StreamDropped, ChunkFiltered, Finalized, Logged, Dropped, Goto
  <2> QED
    BY <2>1 DEF Phases
<1>9. CASE HeadersFiltered
  <2>1. pc = "HeaderFilter" /\ pc' \in {"Log", "stream"}
    BY <1>9 DEF HeadersFiltered, Returned, Finish, Goto, Run
  <2>2. answer.form # "stream"
    BY <2>1 DEF Inv, FormOK
  <2> QED
    BY <2>1, <2>2 DEF Inv, TopOK, Follows, Id, Phases
<1>10. CASE TunnelCloses
  <2>1. pc = "tunnel" /\ pc' = "Log"
    BY <1>10 DEF TunnelCloses, Run
  <2> QED
    BY <2>1 DEF Inv, TopOK, FormOK, Follows, Id
<1>11. CASE Chunk \/ FinalFilter
  <2>1. pc \in {"stream", "final"} /\ pc' = "BodyFilter" /\ ~stream.lastSent
    BY <1>11 DEF Chunk, FinalFilter, Run, RunFinal, Inv, StreamOK
  <2> QED
    BY <2>1 DEF Inv, TopOK, StreamOK, Follows, Id
<1>12. CASE FinalLog
  <2>1. pc = "final" /\ pc' = "Log" /\ stream.lastSent /\ ~stream.logDone
    BY <1>12 DEF FinalLog, Run
  <2> QED
    BY <2>1 DEF Inv, TopOK, StreamOK, Follows, Id
<1>13. CASE Terminated
  <2>1. pc' = pc
    BY <1>13 DEF Terminated, phaseVars, control
  <2> QED
    BY <2>1
<1> QED
  BY <1>1, <1>2, <1>3, <1>4, <1>5, <1>6, <1>7, <1>8, <1>9, <1>10, <1>11, <1>12, <1>13 DEF PhasesNext

(***************************************************************************)
(* The phases run in the order of their ids, the final body_filter once    *)
(* and before the log phase, and nothing after it (Phase, poll_frame,      *)
(* drop).                                                                  *)
(***************************************************************************)
THEOREM PhasesAreOrdered == PhasesSpec => PhasesInOrder
<1> DEFINE InOrder ==
      /\ \A ph \in Phases : Begins(ph) =>
           IF ph \in {"Balancer", "BodyFilter"} THEN Id[ph] + 1 >= past.top
                                                ELSE Id[ph] >= past.top
      /\ Begins("BodyFilter") => past.finals = 0
      /\ Begins("Log") /\ answer.form = "stream" => past.finals = 1
<1>1. Inv /\ [PhasesNext]_phaseVars => [InOrder]_phaseVars
  <2> SUFFICES ASSUME Inv, PhasesNext PROVE InOrder
    BY DEF phaseVars
  <2>1. pc' \in Phases /\ pc' # pc => Follows(pc')
    BY NextFollows
  <2> QED
    BY <2>1 DEF Follows, Begins, Phases
<1> QED
  BY InvHolds, <1>1, PTL DEF PhasesSpec, PhasesInOrder
=============================================================================
