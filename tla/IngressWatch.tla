---------------------------- MODULE IngressWatch ----------------------------
(***************************************************************************)
(* The Kubernetes ingress plane: start (ingress::run), one watch loop per  *)
(* kind and namespace (openrusty-k8s/src/watch.rs, snapshot.rs), the slots *)
(* and the pair their snapshots are folded into, and the task that renders *)
(* the pair and publishes it (apply_pair).  The API server is external: it *)
(* answers a LIST with the objects of the newest revision, and a WATCH     *)
(* with the changes after the revision it was opened at.                   *)
(***************************************************************************)
EXTENDS Integers, ClusterAccess, ClusterRender

CONSTANTS Namespace,     \* the configured namespaces
          Contents,      \* by loop, what its namespace may hold: name -> object
          Environments,  \* environments the process may start in
          FileRuntimes,  \* what a reload of the configuration file publishes
          Starts         \* where to start: the cluster, the paths that may not
                         \* be listed, whether a TLS listener gave the process
                         \* a resolver, and bounds on the changes, the faults
                         \* of the API server and the reloads of the file

VARIABLES mode,       \* where run is: "start", "client", "watching", "ended"
          access,     \* what load returned, until the client is built
          past,       \* the cluster at every revision, the last one is current
          denied,     \* paths the API server refuses
          left,       \* changes, faults and reloads that may still happen
          w,          \* the locals of every watch loop
          slots,      \* the last snapshot each loop handed over
          sending,    \* the fold a loop has computed and not yet sent
          pair,       \* the value of the watch channel, by kind
          unseen,     \* the channel holds a value the merge task has not seen
          merger,     \* the locals of the merge task
          resolver,   \* there is an SNI resolver
          runtime,    \* routes and upstreams in force
          sni,        \* the SNI table
          applied,    \* history: the pair whose routes were published last
          secured,    \* history: the pair whose secrets were published last
          reloaded,   \* history: the routes in force are those of a reload
          forgotten,  \* history: loops a resync tick restarted with a change pending
          overtaken   \* history: kinds whose channel value is an outdated fold

server == <<past, denied, left, resolver>>
plane == <<slots, sending, pair, unseen, forgotten, overtaken>>
published == <<runtime, sni, applied, secured, reloaded>>
vars == <<mode, access, server, w, plane, merger, published>>

Kind == {"ingress", "secret"}

(* resource_paths: one path per configured namespace and kind.             *)
Loop == Kind \X Namespace

Content == UNION {Contents[l] : l \in Loop}

(* Contents are functions; a reload checks the upstreams of its routes     *)
(* (config.rs 464-469).                                                    *)
ASSUME WatchAssumption ==
  /\ \A c \in Content : c = [n \in DOMAIN c |-> c[n]]
  /\ \A s \in Starts : s.cluster \in [Loop -> Content]
  /\ \A f \in FileRuntimes : \A r \in f.routes : \E u \in f.upstreams : u.name = r.upstream

Revision == Len(past) - 1
At(l, rv) == past[rv + 1][l]

NoSnapshot == [items |-> <<>>, rv |-> -1]

(* replace_from_list: exactly the listed objects, at the list's revision.  *)
ReplaceFromList(items, rv) == [items |-> items, rv |-> rv]

(* Objects by name: one inserted or replaced, one removed.                 *)
Insert(items, name, object) ==
  [n \in DOMAIN items \cup {name} |-> IF n = name THEN object ELSE items[n]]

Remove(items, name) == [n \in DOMAIN items \ {name} |-> items[n]]

(* A mutation: a removal is folded but does not advance the revision.      *)
ApplyEventKeepingRevision(snap, type, name, object, rv) ==
  [items |-> CASE type \in {"ADDED", "MODIFIED"} -> Insert(snap.items, name, object)
               [] type = "DELETED" -> Remove(snap.items, name)
               [] OTHER -> snap.items,
   rv |-> IF type = "DELETED" THEN snap.rv ELSE rv]

(* apply_event: an object is inserted, replaced or removed, and the        *)
(* revision advances; a bookmark only advances it.                         *)
ApplyEvent(snap, type, name, object, rv) ==
  [items |-> CASE type \in {"ADDED", "MODIFIED"} -> Insert(snap.items, name, object)
               [] type = "DELETED" -> Remove(snap.items, name)
               [] OTHER -> snap.items,
   rv |-> rv]

(* The locals of a loop before a LIST; those of the cycle before are dead. *)
Begun == [pc |-> "list", snap |-> NoSnapshot, dirty |-> FALSE,
          window |-> "none", restart |-> -1, alive |-> FALSE]

Watching(l) == mode = "watching" /\ sending[l] = {}

(* The fold of all slots of a kind, keyed by <<namespace, name>>.          *)
Folded(kind, s) ==
  LET keys == UNION {{n} \X DOMAIN s[<<kind, n>>].items : n \in Namespace}
  IN  [k \in keys |-> s[<<kind, k[1]>>].items[k[2]]]

Empty == [k \in {} |-> {}]

StaticRuntime == BuildIngressConfig(Empty)

Idle == [pc |-> "idle", pair |-> [k \in Kind |-> Empty], refused |-> FALSE]

NoAccess == [load |-> Failed, strict |-> FALSE, entries |-> 0]

Init ==
  /\ mode = "start" /\ access = NoAccess
  /\ \E s \in Starts :
       /\ past = <<s.cluster>> /\ denied = s.denied /\ resolver = s.resolver
       /\ left = [changes |-> s.changes, faults |-> s.faults, reloads |-> s.reloads]
  /\ w = [l \in Loop |-> Begun]
  /\ slots = [l \in Loop |-> NoSnapshot]
  /\ sending = [l \in Loop |-> {}]
  /\ pair = [k \in Kind |-> Empty] /\ unseen = FALSE
  /\ merger = Idle
  /\ runtime = StaticRuntime /\ sni = Empty
  /\ applied = [k \in Kind |-> Empty] /\ secured = applied /\ reloaded = FALSE
  /\ forgotten = {} /\ overtaken = {}

-----------------------------------------------------------------------------
(* Start                                                                   *)

(* Credentials are loaded once; without them the task ends and the static  *)
(* configuration stays.                                                    *)
LoadCredentials ==
  /\ mode = "start"
  /\ \E env \in Environments :
       /\ access' = [load |-> Load(env), strict |-> Strict(env), entries |-> Len(Candidates(env))]
       /\ mode' = IF Load(env).ok THEN "client" ELSE "ended"
  /\ UNCHANGED <<server, w, plane, merger, published>>

(* The client is built and the loops are spawned, or the task ends.        *)
BuildClient ==
  /\ mode = "client"
  /\ \E header, ca, cert \in BOOLEAN :
       mode' = IF ClientBuilds(access.load.credential, header, ca, cert) THEN "watching" ELSE "ended"
  /\ access' = NoAccess
  /\ UNCHANGED <<server, w, plane, merger, published>>

-----------------------------------------------------------------------------
(* One watch loop                                                          *)

Fault ==
  /\ left.faults > 0 /\ left' = [left EXCEPT !.faults = @ - 1]
  /\ UNCHANGED <<past, denied, resolver>>

(* The LIST answers.  A restart by the resync timer that finds the         *)
(* revision it left marks the snapshot as handed over already.             *)
ListOk(l) ==
  /\ Watching(l) /\ w[l].pc = "list" /\ l \notin denied
  /\ LET snap == ReplaceFromList(At(l, Revision), Revision)
         unchanged == w[l].restart = Revision
     IN  /\ w' = [w EXCEPT ![l] = [@ EXCEPT !.pc = "open", !.snap = snap,
                     !.dirty = ~unchanged, !.window = "list", !.restart = -1]]
         /\ forgotten' = IF unchanged THEN forgotten ELSE forgotten \ {l}
  /\ UNCHANGED <<mode, access, server, slots, sending, pair, unseen, overtaken, merger, published>>

(* A mutation: an error restarts the cycle the way the resync timer does.  *)
ReconnectResuming(l) == w' = [w EXCEPT ![l] = [Begun EXCEPT !.restart = w[l].snap.rv]]

(* Drop the stream, or what could not be opened, and go back to the LIST.  *)
Reconnect(l) == w' = [w EXCEPT ![l] = Begun]

(* The LIST fails: transport, status or body.  It is repeated after the    *)
(* backoff, with the revision of a resync kept for the comparison.         *)
ListFails(l) ==
  /\ Watching(l) /\ w[l].pc = "list" /\ Fault
  /\ UNCHANGED <<mode, access, w, plane, merger, published>>

(* A request that is never answered: neither the client nor the loop sets  *)
(* a time limit, and the resync timer is not looked at before the stream   *)
(* is open.  The loop does nothing any more.                               *)
Hang(l) ==
  /\ Watching(l) /\ w[l].pc \in {"list", "open"} /\ Fault
  /\ w' = [w EXCEPT ![l] = [Begun EXCEPT !.pc = "hung"]]
  /\ UNCHANGED <<mode, access, plane, merger, published>>

OpenOk(l) ==
  /\ Watching(l) /\ w[l].pc = "open"
  /\ w' = [w EXCEPT ![l] = [@ EXCEPT !.pc = "watch", !.alive = TRUE]]
  /\ UNCHANGED <<mode, access, server, plane, merger, published>>

(* The answer took so long that both timers are due when select! runs.     *)
OpenLate(l) ==
  /\ Watching(l) /\ w[l].pc = "open" /\ Fault
  /\ w' = [w EXCEPT ![l] = [@ EXCEPT !.pc = "watch", !.alive = TRUE, !.window = "late"]]
  /\ UNCHANGED <<mode, access, plane, merger, published>>

(* 410 Gone, another status or a transport error.                          *)
OpenFails(l) ==
  /\ Watching(l) /\ w[l].pc = "open" /\ Fault
  /\ Reconnect(l)
  /\ UNCHANGED <<mode, access, plane, merger, published>>

Pending(l) == {rv \in (w[l].snap.rv + 1)..Revision : At(l, rv) # At(l, rv - 1)}

EventType(before, after, name) ==
  CASE name \notin DOMAIN before -> "ADDED"
    [] name \in DOMAIN before /\ name \notin DOMAIN after -> "DELETED"
    [] OTHER -> "MODIFIED"

(* apply_line: the next change is folded; the first one opens the window.  *)
Receive(l) ==
  /\ Watching(l) /\ w[l].pc = "watch" /\ w[l].alive /\ Pending(l) # {}
  /\ LET rv == CHOOSE r \in Pending(l) : \A q \in Pending(l) : r <= q
         before == At(l, rv - 1)
         after == At(l, rv)
         name == CHOOSE n \in DOMAIN before \cup DOMAIN after :
                   \/ n \notin DOMAIN before \/ n \notin DOMAIN after
                   \/ before[n] # after[n]
         type == EventType(before, after, name)
         object == IF name \in DOMAIN after THEN after[name] ELSE before[name]
     IN  w' = [w EXCEPT ![l] =
                 [@ EXCEPT !.snap = ApplyEvent(w[l].snap, type, name, object, rv), !.dirty = TRUE,
                           !.window = IF w[l].window = "none" THEN "change" ELSE w[l].window]]
  /\ UNCHANGED <<mode, access, server, plane, merger, published>>

(* A bookmark: the revision advances, nothing becomes dirty.               *)
Bookmark(l) ==
  /\ Watching(l) /\ w[l].pc = "watch" /\ w[l].alive /\ Pending(l) = {}
  /\ w[l].snap.rv < Revision
  /\ w' = [w EXCEPT ![l].snap = ApplyEvent(@, "BOOKMARK", Nothing, Nothing, Revision)]
  /\ UNCHANGED <<mode, access, server, plane, merger, published>>

(* The stream ends, errs or carries a line that cannot be used.            *)
StreamEnds(l) ==
  /\ Watching(l) /\ w[l].pc = "watch" /\ w[l].alive /\ Fault
  /\ Reconnect(l)
  /\ UNCHANGED <<mode, access, plane, merger, published>>

(* The stream dies silently: nothing arrives on it any more.               *)
Stall(l) ==
  /\ Watching(l) /\ w[l].pc = "watch" /\ w[l].alive /\ Fault
  /\ w' = [w EXCEPT ![l].alive = FALSE]
  /\ UNCHANGED <<mode, access, plane, merger, published>>

(* The window closes.  on_snapshot folds the snapshot into its slot under  *)
(* the lock of the slots; the fold is sent after the lock was released.    *)
CloseWindow(l) ==
  /\ Watching(l) /\ w[l].pc = "watch" /\ w[l].window # "none"
  /\ w' = [w EXCEPT ![l].window = "none", ![l].dirty = FALSE]
  /\ IF w[l].dirty
     THEN /\ slots' = [slots EXCEPT ![l] = w[l].snap]
          /\ sending' = [sending EXCEPT ![l] = {Folded(l[1], slots')}]
          /\ forgotten' = forgotten \ {l}
     ELSE UNCHANGED <<slots, sending, forgotten>>
  /\ UNCHANGED <<mode, access, server, pair, unseen, overtaken, merger, published>>

(* send_if_modified: the channel takes the fold, whatever it holds.        *)
Send(l) ==
  /\ mode = "watching" /\ sending[l] # {}
  /\ \E fold \in sending[l] :
       /\ pair' = [pair EXCEPT ![l[1]] = fold]
       /\ overtaken' = IF fold # Folded(l[1], slots)
                       THEN overtaken \cup {l[1]} ELSE overtaken \ {l[1]}
  /\ unseen' = TRUE
  /\ sending' = [sending EXCEPT ![l] = {}]
  /\ UNCHANGED <<mode, access, server, w, slots, forgotten, merger, published>>

(* A mutation: the timer is only looked at while the stream delivers.      *)
ResyncWhileAlive(l) ==
  /\ Watching(l) /\ w[l].pc = "watch" /\ w[l].window # "list" /\ w[l].alive
  /\ w' = [w EXCEPT ![l] = [Begun EXCEPT !.restart = w[l].snap.rv]]
  /\ forgotten' = IF w[l].dirty THEN forgotten \cup {l} ELSE forgotten
  /\ UNCHANGED <<mode, access, server, slots, sending, pair, unseen, overtaken, merger, published>>

(* The resync timer, which runs much longer than the window of a LIST.     *)
(* The cycle restarts from the revision of the snapshot, handed over or    *)
(* not.                                                                    *)
Resync(l) ==
  /\ Watching(l) /\ w[l].pc = "watch" /\ w[l].window # "list"
  /\ w' = [w EXCEPT ![l] = [Begun EXCEPT !.restart = w[l].snap.rv]]
  /\ forgotten' = IF w[l].dirty THEN forgotten \cup {l} ELSE forgotten
  /\ UNCHANGED <<mode, access, server, slots, sending, pair, unseen, overtaken, merger, published>>

-----------------------------------------------------------------------------
(* The merge task                                                          *)

(* changed() returns and marks the value as seen; the second window opens. *)
Wake ==
  /\ mode = "watching" /\ merger.pc = "idle" /\ unseen
  /\ unseen' = FALSE
  /\ merger' = [merger EXCEPT !.pc = "debounce"]
  /\ UNCHANGED <<mode, access, server, w, slots, sending, pair, forgotten, overtaken, published>>

(* The pair is taken and rendered; an error keeps the previous runtime.    *)
TakePair ==
  /\ merger.pc = "debounce"
  /\ unseen' = FALSE
  /\ merger' = IF Renders(pair["ingress"], pair["secret"])
               THEN [pc |-> "apply", pair |-> pair, refused |-> FALSE] ELSE Idle
  /\ UNCHANGED <<mode, access, server, w, slots, sending, pair, forgotten, overtaken, published>>

(* apply_pair after names were resolved: apply_runtime swaps the routes ... *)
ApplyRuntime ==
  /\ merger.pc = "apply"
  /\ runtime' = BuildIngressConfig(merger.pair["ingress"])
  /\ applied' = merger.pair /\ reloaded' = FALSE
  /\ merger' = [merger EXCEPT !.pc = "tls"]
  /\ UNCHANGED <<mode, access, server, w, plane, sni, secured>>

(* ... and only then the rendered secrets replace the SNI table, if there  *)
(* is one; handshakes in between see the table before.                     *)
PublishTls ==
  /\ merger.pc = "tls"
  /\ \/ /\ resolver
        /\ sni' = UpdateFromTlsPairs(RenderTls(merger.pair["ingress"], merger.pair["secret"]))
        /\ secured' = merger.pair
     \/ ~resolver /\ UNCHANGED <<sni, secured>>
  /\ merger' = Idle
  /\ UNCHANGED <<mode, access, server, w, plane, runtime, applied, reloaded>>

(* Outbound TLS material cannot be built: the previous runtime stays.      *)
PlansFail ==
  /\ merger.pc = "apply" /\ Fault
  /\ merger' = [Idle EXCEPT !.refused = TRUE]
  /\ UNCHANGED <<mode, access, w, plane, published>>

(* A reload of the configuration file publishes its routes alone; the SNI  *)
(* table and the static base of the merge task are those of before.        *)
FileReload ==
  /\ left.reloads > 0 /\ left' = [left EXCEPT !.reloads = @ - 1]
  /\ runtime' \in FileRuntimes /\ reloaded' = TRUE
  /\ UNCHANGED <<mode, access, past, denied, resolver, w, plane, merger, sni, applied, secured>>

(* A change to one object of the cluster.                                  *)
Change ==
  /\ mode = "watching" /\ left.changes > 0 /\ left' = [left EXCEPT !.changes = @ - 1]
  /\ \E l \in Loop : \E c \in Contents[l] :
       /\ \E n \in DOMAIN c \cup DOMAIN At(l, Revision) :
            /\ c # At(l, Revision)
            /\ \A m \in (DOMAIN c \cup DOMAIN At(l, Revision)) \ {n} :
                  m \in DOMAIN c /\ m \in DOMAIN At(l, Revision) /\ c[m] = At(l, Revision)[m]
       /\ past' = Append(past, [past[Len(past)] EXCEPT ![l] = c])
  /\ UNCHANGED <<mode, access, denied, resolver, w, plane, merger, published>>

Step(l) == ListOk(l) \/ OpenOk(l) \/ Receive(l) \/ CloseWindow(l) \/ Resync(l) \/ Send(l)

Misfortune(l) == ListFails(l) \/ OpenLate(l) \/ OpenFails(l) \/ StreamEnds(l) \/ Stall(l) \/ Hang(l)

MergeStep == Wake \/ TakePair \/ ApplyRuntime \/ PublishTls

Next ==
  \/ LoadCredentials \/ BuildClient
  \/ \E l \in Loop : Step(l) \/ Misfortune(l) \/ Bookmark(l)
  \/ MergeStep \/ PlansFail
  \/ FileReload \/ Change

(* Tasks that tokio polls when their timer or their I/O is ready; a        *)
(* request that is not answered is Hang.                                   *)
Fairness ==
  /\ WF_vars(LoadCredentials \/ BuildClient \/ MergeStep)
  /\ \A l \in Loop : WF_vars(Step(l))

Spec == Init /\ [][Next]_vars /\ Fairness

-----------------------------------------------------------------------------
(* Properties                                                              *)

(* Every snapshot a loop holds or has handed over is the state of its      *)
(* namespace at the revision it claims, whatever was missed, repeated or   *)
(* re-listed (snapshot.rs 3-4, 13-15).                                     *)
SnapshotConsistent ==
  \A l \in Loop : \A s \in {w[l].snap, slots[l]} :
    s # NoSnapshot => s.rv <= Revision /\ s.items = At(l, s.rv)

(* What a loop does not hold for hand-over it has handed over: a change is *)
(* dropped in no other way than by a resync tick that falls into an open   *)
(* window (watch.rs 183-190).                                              *)
OnlyResyncForgets ==
  \A l \in Loop :
    w[l].pc = "watch" /\ ~w[l].dirty /\ l \notin forgotten =>
      slots[l] # NoSnapshot /\ slots[l].items = w[l].snap.items

(* The published configuration is closed: every route finds its upstream,  *)
(* no two claim one key unless a configuration file alone is served (the   *)
(* file is not checked for it), and every TLS host of the Ingresses the    *)
(* SNI table came from has its certificate, unless the material is no      *)
(* certificate (render/tls.rs 26-34).  The table is that of the routes     *)
(* published last, but between the two stores of apply_pair                *)
(* (ingress/mod.rs 363, 369).                                              *)
PublishedIsClosed ==
  /\ \A r \in runtime.routes : \E u \in runtime.upstreams : u.name = r.upstream
  /\ Merges(runtime.routes) \/ reloaded \/ runtime = StaticRuntime
  /\ \A t \in Sections(secured["ingress"]) :
       /\ t.key \in DOMAIN secured["secret"]
       /\ \A h \in t.hosts : Lookup(sni, Nothing, h) =
            IF Certified(secured["secret"][t.key].pem) THEN secured["secret"][t.key].pem ELSE Nothing
  /\ resolver /\ merger.pc # "tls" => secured = applied

(* A source the operator named is final: with a configured path, or with a *)
(* $KUBECONFIG that has an entry, the service account of the node is never *)
(* used (auth/mod.rs 9-12).  Of a $KUBECONFIG such as ":", which names     *)
(* none, it does not hold (auth/mod.rs 129).                               *)
NamedSourceIsFinal ==
  mode = "client" /\ access.strict /\ access.entries > 0 => access.load.source # "pod"

(* What a loop has to have handed over: the objects of its namespace.  A   *)
(* loop that may not list has none; one that waits for an answer, or that  *)
(* dropped a change at a resync tick, is where it was.                     *)
Expected(l) ==
  IF l \in denied THEN NoSnapshot
  ELSE IF w[l].pc = "hung" \/ l \in forgotten THEN slots[l]
  ELSE [items |-> At(l, Revision), rv |-> Revision]

(* What the cluster holds is what is served, by loop, kind and table.      *)
Converged ==
  /\ \A k \in Kind \ overtaken : pair[k] = Folded(k, [l \in Loop |-> Expected(l)])
  /\ Renders(pair["ingress"], pair["secret"]) /\ ~merger.refused =>
       /\ reloaded \/ runtime = BuildIngressConfig(pair["ingress"])
       /\ resolver => sni = UpdateFromTlsPairs(RenderTls(pair["ingress"], pair["secret"]))

(* Once the cluster and the faults are quiet, the gateway serves what the  *)
(* cluster holds, after silent deaths of streams too (watch.rs 18-21).     *)
(* What it lags behind in is named where it does: in the namespace of a    *)
(* loop whose request is never answered or whose change was dropped by a   *)
(* resync tick (ResyncMissesNothing), in a kind whose fold was overtaken   *)
(* (OnlyFresherReplaces), after outbound TLS material was refused, and in  *)
(* the routes after a reload (ingress/mod.rs 32-36).                       *)
Converges == <>[](mode = "ended" \/ Converged)

(* The comment of the resync says that an unchanged revision means nothing *)
(* was missed (watch.rs 184-186).                                          *)
ResyncMissesNothing ==
  \A l \in Loop : w[l].pc = "watch" /\ ~w[l].dirty =>
    slots[l] # NoSnapshot /\ slots[l].items = w[l].snap.items

(* The documentation says that a snapshot is only ever replaced by a       *)
(* fresher one (watch.rs 25-30, sidecar.md 177-179): with no hand-over     *)
(* under way the channel holds what the loops have handed over.            *)
OnlyFresherReplaces ==
  \A k \in Kind : (\A n \in Namespace : sending[<<k, n>>] = {}) => pair[k] = Folded(k, slots)
=============================================================================
