------------------------- MODULE AffinityScheduler -------------------------
(***************************************************************************)
(* The balancer plugin vllm-kv-scheduler over the shared key-value store:  *)
(* requests of one task stick to the peer of the task's record while the   *)
(* record lives, a new task goes to the least loaded peer that is healthy  *)
(* and below max_tasks_per_node.                                           *)
(*                                                                         *)
(* Instances of the plugin run at the same time and every import is a step *)
(* of its own; between the look at the records and the write of its own    *)
(* one, a request can be overtaken.  A scan is one step here (PluginStore  *)
(* has its details); a scan that was refused or cut short looks to the     *)
(* plugin like one over fewer records.  Which peers are in the list and    *)
(* healthy is open whenever it is looked at.  A string is a model value, a *)
(* blank one is "".                                                        *)
(***************************************************************************)
EXTENDS Naturals, FiniteSets, SequencesExt

CONSTANTS
  Requests,   \* concurrent requests
  Inputs,     \* the setting extract, and the query, path or body it is about
  Tasks,      \* the task keys among the inputs
  Peers,      \* number of peers of the upstream
  Views,      \* what a session may see: sets of healthy peers
  Cap,        \* max_tasks_per_node, 0 is unlimited
  Ttl,        \* affinity_ttl_s, 0 is for ever
  MaxTime,
  MaxStarts   \* runs of the plugin, retries included

VARIABLES
  aff,        \* the records aff:<task>: peer and end of life
  sched,      \* the records sched:<idx>: time and end of life
  time, starts,
  sreq,       \* the requests
  peak,       \* history: most requests that were deciding at one time
  blind       \* history: the tasks some request placed without all the records

affVars == <<aff, sched, time, starts, sreq, peak, blind>>

Index == 1..Peers
Never == MaxTime + Ttl + 1
NotAString == "not a string"

-----------------------------------------------------------------------------
(***************************************************************************)
(* The task key, as a set of at most one.  Queries and bodies are          *)
(* sequences of <<name, value>> in the order of the text, paths sequences  *)
(* of segments.                                                            *)
(***************************************************************************)
QueryParam(query, name) ==
  LET i == SelectInSeq(query, LAMBDA p : p[1] = name)
  IN  IF i = 0 THEN {} ELSE {query[i][2]}

PathSegment(path, n) ==
  LET s == SelectSeq(path, LAMBDA x : x # "")
  IN  IF n \in DOMAIN s THEN {s[n]} ELSE {}

\* The first occurrence that is a string wins, at whatever depth.
JsonStringField(body, field) ==
  LET i == SelectInSeq(body, LAMBDA p : p[1] = field /\ p[2] # NotAString)
  IN  IF i = 0 THEN {} ELSE {body[i][2]}

ParseExtract(rule) == IF rule.from = "path" THEN rule.n > 0 ELSE rule.name # ""

TaskKey(in) ==
  IF ~ParseExtract(in.extract) THEN {}
  ELSE CASE in.extract.from = "query" -> QueryParam(in.query, in.extract.name)
         [] in.extract.from = "path" -> PathSegment(in.path, in.extract.n)
         [] in.extract.from = "body" -> JsonStringField(in.body, in.extract.name) \ {""}

ASSUME AffinityAssumption ==
  /\ IsFiniteSet(Requests) /\ IsFiniteSet(Tasks)
  /\ {Peers, Cap, Ttl, MaxTime} \subseteq Nat
  /\ Views \subseteq SUBSET Index
  /\ \A in \in Inputs : /\ in.extract.from \in {"query", "path", "body"}
                       /\ TaskKey(in) \subseteq Tasks

-----------------------------------------------------------------------------
NoRecord == [peer |-> 0, until |-> 0]
Live(rec) == time < rec.until
Until == IF Ttl = 0 THEN Never ELSE time + Ttl

NoSession == [pc |-> "idle", key |-> {}, view |-> {}, idx |-> 0, active |-> <<>>, pin |-> 0,
         mixed |-> FALSE, was |-> NoRecord, stored |-> TRUE]

AffinityInit ==
  /\ aff = [t \in Tasks |-> NoRecord]
  /\ sched = [p \in Index |-> [at |-> 0, until |-> 0]]
  /\ time = 0 /\ starts = 0
  /\ sreq = [r \in Requests |-> NoSession]
  /\ peak = 0 /\ blind = {}

Deciding(s) == {r \in Requests : s[r].pc \in {"lookup", "renew", "scan", "stamps", "assign", "mark"}}
TaskOf(r) == CHOOSE t \in sreq[r].key : TRUE

\* History: a request whose task another request decides about at the same time.
Mingled(s) ==
  [r \in Requests |->
     IF \E q \in Requests \ {r} : s[q].key = s[r].key /\ "idle" \notin {s[q].pc, s[r].pc}
     THEN [s[r] EXCEPT !.mixed = TRUE] ELSE s[r]]

Step(s) ==
  /\ sreq' = Mingled(s)
  /\ peak' = IF Cardinality(Deciding(s)) > peak THEN Cardinality(Deciding(s)) ELSE peak

Idling == UNCHANGED <<time, starts, blind>>

(***************************************************************************)
(* on_balancer.  The view of the peers was taken when the session was made *)
(* and stays for all attempts of the request.                              *)
(***************************************************************************)
OnBalancer(s, key) ==
  [s EXCEPT !.key = key, !.pin = 0, !.idx = 0, !.active = <<>>, !.stored = TRUE,
            !.mixed = FALSE, !.pc = IF key = {} THEN "pick" ELSE "lookup",
            !.was = IF key # {} /\ Live(aff[CHOOSE t \in key : TRUE])
                    THEN aff[CHOOSE t \in key : TRUE] ELSE NoRecord]

Begin(r) ==
  /\ sreq[r].pc = "idle" /\ starts < MaxStarts
  /\ starts' = starts + 1
  /\ \E in \in Inputs, view \in Views :
       Step([sreq EXCEPT ![r] = OnBalancer([NoSession EXCEPT !.view = view], TaskKey(in))])
  /\ UNCHANGED <<aff, sched, time, blind>>

\* affinity_peer: the record's index is looked up in the list of today.
AffinityPeer(r) ==
  /\ sreq[r].pc = "lookup"
  /\ LET rec == aff[TaskOf(r)]
         hit == Live(rec) /\ rec.peer \in sreq[r].view
     IN  Step([sreq EXCEPT ![r].idx = IF hit THEN rec.peer ELSE 0,
                           ![r].pc = IF hit THEN "renew" ELSE "scan"])
  /\ Idling /\ UNCHANGED <<aff, sched>>

\* kv_set; the store refuses a write over its quota and nobody looks.
KvSet(r, peer) ==
  \/ aff' = [aff EXCEPT ![TaskOf(r)] = [peer |-> peer, until |-> Until]]
  \/ aff' = aff

Renew(r) ==
  /\ sreq[r].pc = "renew"
  /\ KvSet(r, sreq[r].idx)
  /\ Step([sreq EXCEPT ![r].pin = sreq[r].idx, ![r].pc = "pick",
                       ![r].stored = aff'[TaskOf(r)] = [peer |-> sreq[r].idx, until |-> Until]])
  /\ Idling /\ UNCHANGED sched

-----------------------------------------------------------------------------
(***************************************************************************)
(* gather_and_pick.                                                        *)
(***************************************************************************)
LiveTasks == {t \in Tasks : Live(aff[t])}
Load(seen, p) == Cardinality({t \in seen : aff[t].peer = p})

\* kv_scan yields the live records: none when the store has no cursor left,
\* and not the rest when the cursor is reclaimed under it.
Scan(r) ==
  /\ sreq[r].pc = "scan"
  /\ \E seen \in SUBSET LiveTasks :
       /\ Step([sreq EXCEPT ![r].active = [p \in Index |-> Load(seen, p)], ![r].pc = "stamps"])
       /\ blind' = IF seen = LiveTasks THEN blind ELSE blind \cup sreq[r].key
  /\ UNCHANGED <<aff, sched, time, starts>>

\* Mutation: a node at its capacity still takes one more task.
ChooseLeastLoadedPastCap(view, active, last) ==
  LET open == {p \in view : Cap = 0 \/ active[p] <= Cap}
      less(p, q) == \/ active[p] < active[q]
                    \/ active[p] = active[q] /\ last[p] < last[q]
                    \/ active[p] = active[q] /\ last[p] = last[q] /\ p <= q
  IN  IF open = {} THEN 0 ELSE CHOOSE p \in open : \A q \in open : less(p, q)

\* Healthy and below the cap; fewest tasks, oldest assignment, lowest index.
ChooseLeastLoaded(view, active, last) ==
  LET open == {p \in view : Cap = 0 \/ active[p] < Cap}
      less(p, q) == \/ active[p] < active[q]
                    \/ active[p] = active[q] /\ last[p] < last[q]
                    \/ active[p] = active[q] /\ last[p] = last[q] /\ p <= q
  IN  IF open = {} THEN 0 ELSE CHOOSE p \in open : \A q \in open : less(p, q)

\* sched_ts of every peer and the choice.  The times only break ties, so that
\* they are read one after the other does not matter.
SchedTs(r) ==
  /\ sreq[r].pc = "stamps"
  /\ LET last == [p \in Index |-> IF Live(sched[p]) THEN sched[p].at ELSE 0]
         pick == ChooseLeastLoaded(sreq[r].view, sreq[r].active, last)
     IN  Step([sreq EXCEPT ![r].active = <<>>, ![r].idx = pick,
                           ![r].pc = IF pick = 0 THEN "pick" ELSE "assign"])
  /\ Idling /\ UNCHANGED <<aff, sched>>

Assign(r) ==
  /\ sreq[r].pc = "assign"
  /\ KvSet(r, sreq[r].idx)
  /\ Step([sreq EXCEPT ![r].pc = "mark", ![r].stored = aff'[TaskOf(r)] = [peer |-> sreq[r].idx, until |-> Until]])
  /\ Idling /\ UNCHANGED sched

\* A write that the store refuses would leave an older time, which breaks ties.
Mark(r) ==
  /\ sreq[r].pc = "mark"
  /\ sched' = [sched EXCEPT ![sreq[r].idx] = [at |-> time, until |-> Until]]
  /\ Step([sreq EXCEPT ![r].pin = sreq[r].idx, ![r].pc = "pick"])
  /\ Idling /\ UNCHANGED aff

-----------------------------------------------------------------------------
(***************************************************************************)
(* The server takes the pin or balances by itself (PickPeer of             *)
(* ProxyAttempts); when the attempt fails it runs the plugin again, over   *)
(* the same view.  The end gives no slot back, the record lives on         *)
(* (on_log).                                                               *)
(***************************************************************************)
Retry(r) ==
  /\ sreq[r].pc = "pick" /\ starts < MaxStarts
  /\ starts' = starts + 1
  /\ Step([sreq EXCEPT ![r] = OnBalancer(@, sreq[r].key)])
  /\ UNCHANGED <<aff, sched, time, blind>>

OnLog(r) ==
  /\ sreq[r].pc = "pick"
  /\ Step([sreq EXCEPT ![r] = NoSession])
  /\ Idling /\ UNCHANGED <<aff, sched>>

AffinityTick ==
  /\ time < MaxTime /\ time' = time + 1
  /\ UNCHANGED <<aff, sched, starts, sreq, peak, blind>>

AffinityNext ==
  \/ \E r \in Requests :
       \/ Begin(r) \/ AffinityPeer(r) \/ Renew(r) \/ Scan(r) \/ SchedTs(r)
       \/ Assign(r) \/ Mark(r) \/ Retry(r) \/ OnLog(r)
  \/ AffinityTick

AffinitySpec == AffinityInit /\ [][AffinityNext]_affVars

-----------------------------------------------------------------------------
(***************************************************************************)
(* max_tasks_per_node is exceeded by no more than the requests that        *)
(* decided at the same time, however records expire, are renewed after     *)
(* their end and peers come and go (gather_and_pick reads the records      *)
(* before it writes its own).  Tasks that were placed after a scan that    *)
(* did not yield every record are beyond the bound.                        *)
(***************************************************************************)
CapHolds ==
  \A p \in Index : Cap > 0 /\ peak > 0 => Load(LiveTasks \ blind, p) <= Cap + peak - 1

(***************************************************************************)
(* A request that decides alone about its task stays with the peer the     *)
(* task had, if that peer is in its view and the record outlived the look, *)
(* and leaves a record of the peer it pinned (on_balancer).                *)
(***************************************************************************)
Sticky ==
  \A r \in Requests :
    LET s == sreq[r]
    IN  s.pc = "pick" /\ s.key # {} /\ ~s.mixed =>
          /\ s.was.peer \in s.view /\ time < s.was.until => s.pin = s.was.peer
          /\ s.pin # 0 /\ s.stored /\ Live(aff[TaskOf(r)]) => aff[TaskOf(r)].peer = s.pin

AffinityIsBounded == CapHolds /\ Sticky
=============================================================================
