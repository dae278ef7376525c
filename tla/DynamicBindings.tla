-------------------------- MODULE DynamicBindings --------------------------
(***************************************************************************)
(* The table that binds request paths to dynamic modules                   *)
(* (dynamic_routes.rs), its two kinds of writers (state.rs) and the admin  *)
(* API that registers and removes modules (dynamic_admin.rs).              *)
(*                                                                         *)
(* The table is immutable and is replaced as a whole.  An admin call loads *)
(* it, builds the next one and swaps it in by compare-and-swap, a bounded  *)
(* number of times; a reload loads, reconciles and stores.  Reloads are    *)
(* serialised by the reload gate, admin calls are not, and nothing orders  *)
(* the two.                                                                *)
(*                                                                         *)
(* A key of the table is a path for one method; requests and bindings of   *)
(* different methods do not meet.  A path is the sequence of its segments: *)
(* a prefix binding of p (written p/* in the code) matches p and what is   *)
(* below it.  Names and paths are valid; module contents are not modelled. *)
(***************************************************************************)
EXTENDS Naturals, FiniteSets, Sequences, SequencesExt

CONSTANTS
  Admin,       \* concurrent calls of the admin API
  Module,      \* module names
  Path,        \* paths that can be bound
  Asked,       \* paths of requests
  Config,      \* the [dynamic] sections: whether there is one, and its routes
  CasAttempts, \* tries of the compare-and-swap loops
  MaxBindings, \* MAX_BINDINGS
  NoModule,    \* the module of a path that is not bound
  MaxCalls,    \* bound on admin calls
  MaxReloads   \* bound on reloads

Route == [path : Path, prefix : BOOLEAN, module : Module]

ASSUME BindingsAssumption ==
  /\ Path \cup Asked \subseteq Seq(STRING)
  /\ Path # {} /\ Module # {}
  /\ Config \subseteq [on : BOOLEAN, routes : Seq(Route)]
  /\ \A c \in Config : \A i, j \in DOMAIN c.routes :
       c.routes[i].path = c.routes[j].path => i = j
  /\ {CasAttempts, MaxBindings, MaxCalls, MaxReloads} \subseteq Nat
  /\ NoModule \notin Module

VARIABLES
  enabled, \* whether the dynamic registry is there
  table,   \* the published table
  files,   \* modules that have an artifact on disk
  admin,   \* the locals of the admin calls
  reload,  \* the locals of the reload
  applied, \* history: the section whose routes were stored last
  calls,   \* history: admin calls so far
  reloads  \* history: reloads so far

vars == <<enabled, table, files, admin, reload, applied, calls, reloads>>

-----------------------------------------------------------------------------
(***************************************************************************)
(* The table: exact bindings by path, prefix bindings in search order, and *)
(* the paths that the configuration owns.                                  *)
(***************************************************************************)
Table == [exact : [Path -> Module \cup {NoModule}],
          prefix : Seq([path : Path, module : Module]),
          owned : SUBSET Path]

Empty == [exact |-> [p \in Path |-> NoModule], prefix |-> <<>>, owned |-> {}]

ExactPaths(t) == {p \in Path : t.exact[p] # NoModule}
PrefixPaths(t) == {t.prefix[i].path : i \in DOMAIN t.prefix}

Bound(t) == ExactPaths(t) \cup PrefixPaths(t)

Size(t) == Cardinality(ExactPaths(t)) + Len(t.prefix)

\* The table as the set of its routes (entries).
Entries(t) ==
  {[path |-> p, prefix |-> FALSE, module |-> t.exact[p]] : p \in ExactPaths(t)}
    \cup {[path |-> t.prefix[i].path, prefix |-> TRUE, module |-> t.prefix[i].module] :
            i \in DOMAIN t.prefix}

\* lookup: the exact binding, else the first prefix binding that matches.
Lookup(t, p) ==
  LET hits == {i \in DOMAIN t.prefix : IsPrefix(t.prefix[i].path, p)}
  IN IF p \in ExactPaths(t) THEN t.exact[p]
     ELSE IF hits = {} THEN NoModule
     ELSE t.prefix[Min(hits)].module

\* retain: the bindings of other paths, in their order.
Kept(list, gone) ==
  LET kept[i \in 0..Len(list)] ==
        IF i = 0 THEN <<>>
        ELSE IF list[i].path \in gone THEN kept[i - 1]
        ELSE Append(kept[i - 1], list[i])
  IN  kept[Len(list)]

Without(t, gone) ==
  [t EXCEPT !.exact = [p \in Path |-> IF p \in gone THEN NoModule ELSE t.exact[p]],
            !.prefix = Kept(t.prefix, gone)]

\* Mutation: the new prefix is appended and the list is not sorted.
InsertLast(list, e) == Append(list, e)

\* push and sort, longest first: the list is in that order and the sort is
\* stable, so the new binding lands before the first shorter one.  The code
\* measures bytes: of two prefixes of one path the longer has more segments too.
Insert(list, e) ==
  LET shorter == {i \in DOMAIN list : Len(list[i].path) < Len(e.path)}
  IN  InsertAt(list, Min(shorter \cup {Len(list) + 1}), e)

\* bind_owned, where it succeeds: one binding per path, of either shape.
\* owner is {path} for a route of the configuration, {} for a runtime one.
BindOwned(t, r, owner) ==
  LET rest == Without(t, {r.path})
  IN IF r.prefix
     THEN [rest EXCEPT !.prefix = Insert(@, [path |-> r.path, module |-> r.module]),
                       !.owned = @ \cup owner]
     ELSE [rest EXCEPT !.exact[r.path] = r.module, !.owned = @ \cup owner]

\* bind_owned fails: a new path and no room.
Full(t, p) == p \notin Bound(t) /\ Size(t) >= MaxBindings

UnbindModule(t, m) ==
  LET rest == Without(t, {e.path : e \in {x \in Entries(t) : x.module = m}})
  IN [rest EXCEPT !.owned = @ \cap Bound(rest)]

\* The routes of a configuration laid over the table t one by one; a route for
\* which there is no room is skipped.
Laid(t, routes) ==
  LET laid[i \in 0..Len(routes)] ==
        IF i = 0 THEN t
        ELSE IF Full(laid[i - 1], routes[i].path) THEN laid[i - 1]
        ELSE BindOwned(laid[i - 1], routes[i], {routes[i].path})
  IN  laid[Len(routes)]

\* Mutation: the keys of the old configuration stay marked as owned.
ReconcileMarked(t, routes) == Laid(Without(t, t.owned), routes)

\* reconcile: what the old configuration owned goes, the new routes are laid
\* over the rest.
Reconcile(t, routes) == Laid([Without(t, t.owned) EXCEPT !.owned = {}], routes)

-----------------------------------------------------------------------------
Ops == {"put", "bind", "delete"}

\* A call: the steps of its handler, its arguments, whether it binds, its
\* tries, the table it loaded and whether that is still the published one.
Call == [pc : {"idle", "work", "load", "cas"}, op : Ops, route : Route, binds : BOOLEAN,
         tries : 0..CasAttempts, loaded : Table, fresh : BOOLEAN]

AnyRoute == CHOOSE r \in Route : TRUE

Idle == [pc |-> "idle", op |-> "put", route |-> AnyRoute, binds |-> FALSE,
         tries |-> 0, loaded |-> Empty, fresh |-> FALSE]

AnyConfig == CHOOSE c \in Config : TRUE

NoReload == [pc |-> "idle", cfg |-> AnyConfig, loaded |-> Empty]

TypeOK ==
  /\ enabled \in BOOLEAN
  /\ table \in Table
  /\ files \in SUBSET Module
  /\ admin \in [Admin -> Call]
  /\ reload \in [pc : {"idle", "registry", "read", "write"}, cfg : Config, loaded : Table]
  /\ applied \in Config
  /\ calls \in 0..MaxCalls /\ reloads \in 0..MaxReloads

\* from_config with a [dynamic] section: the admin routes are mounted only then.
Init ==
  /\ applied \in {c \in Config : c.on}
  /\ enabled = TRUE
  /\ table = Reconcile(Empty, applied.routes)
  /\ files \in SUBSET Module
  /\ admin = [a \in Admin |-> Idle]
  /\ reload = NoReload
  /\ calls = 0 /\ reloads = 0

reloadVars == <<enabled, reload, applied, reloads>>

-----------------------------------------------------------------------------
(***************************************************************************)
(* PUT and DELETE /openrusty/dynamic/{name}.                               *)
(***************************************************************************)
\* An upload, with or without a binding; a binding to an artifact that is
\* there; a removal.  Without the registry the answer is 404.
Begin(a, op, r, binds) ==
  /\ admin[a].pc = "idle" /\ calls < MaxCalls
  /\ enabled
  /\ op = "bind" => binds
  /\ op = "delete" => ~binds
  /\ admin' = [admin EXCEPT ![a] = [Idle EXCEPT !.pc = "work", !.op = op, !.route = r,
                                                !.binds = binds]]
  /\ calls' = calls + 1
  /\ UNCHANGED <<table, files, reloadVars>>

\* The call ends without an effect: a body too large or invalid, an I/O error,
\* a client that goes away, a binding to an artifact that is missing.
Refuse(a) ==
  /\ admin[a].pc = "work"
  /\ admin' = [admin EXCEPT ![a] = Idle]
  /\ UNCHANGED <<table, files, calls, reloadVars>>

\* The artifact is renamed into place, found, or removed.
Artifact(a) ==
  /\ admin[a].pc = "work"
  /\ admin[a].op = "bind" => admin[a].route.module \in files
  /\ files' = CASE admin[a].op = "put" -> files \cup {admin[a].route.module}
                [] admin[a].op = "bind" -> files
                [] admin[a].op = "delete" -> files \ {admin[a].route.module}
  /\ LET c == admin[a]
     IN  admin' = [admin EXCEPT ![a] = IF c.op = "put" /\ ~c.binds THEN Idle
                                       ELSE [c EXCEPT !.pc = "load"]]
  /\ UNCHANGED <<table, calls, reloadVars>>

\* One round of the loop of bind_dynamic_route or unbind_dynamic_module.
LoadTable(a) ==
  /\ admin[a].pc = "load" /\ admin[a].tries < CasAttempts
  /\ LET c == admin[a]
     IN  admin' = [admin EXCEPT ![a] =
           IF c.op # "delete" /\ Full(table, c.route.path) THEN Idle
           ELSE [c EXCEPT !.pc = "cas", !.tries = @ + 1, !.loaded = table, !.fresh = TRUE]]
  /\ UNCHANGED <<table, files, calls, reloadVars>>

\* Contention: a bind answers 400, a removal reports no binding removed.
GiveUp(a) ==
  /\ admin[a].pc = "load" /\ admin[a].tries >= CasAttempts
  /\ admin' = [admin EXCEPT ![a] = Idle]
  /\ UNCHANGED <<table, files, calls, reloadVars>>

\* The table the call would publish.
NextTable(a) ==
  LET r == admin[a].route
  IN IF admin[a].op = "delete" THEN UnbindModule(admin[a].loaded, r.module)
     ELSE BindOwned(admin[a].loaded, r, {})

\* A store by anyone makes the tables loaded before it outdated.
Outdated(b) == [b EXCEPT !.fresh = FALSE]

\* Mutation: the swap compares the sizes of the tables, not their identity.
SwapBySize(a) ==
  /\ admin[a].pc = "cas" /\ Size(table) = Size(admin[a].loaded)
  /\ table' = NextTable(a)
  /\ admin' = [[b \in Admin |-> Outdated(admin[b])] EXCEPT ![a] = Idle]
  /\ UNCHANGED <<files, calls, reloadVars>>

Swap(a) ==
  /\ admin[a].pc = "cas" /\ admin[a].fresh
  /\ table' = NextTable(a)
  /\ admin' = [[b \in Admin |-> Outdated(admin[b])] EXCEPT ![a] = Idle]
  /\ UNCHANGED <<files, calls, reloadVars>>

SwapLost(a) ==
  /\ admin[a].pc = "cas" /\ ~admin[a].fresh
  /\ admin' = [admin EXCEPT ![a] = [@ EXCEPT !.pc = "load", !.loaded = Empty]]
  /\ UNCHANGED <<table, files, calls, reloadVars>>

-----------------------------------------------------------------------------
(***************************************************************************)
(* The part of a reload that concerns the dynamic API, inside the gate.    *)
(***************************************************************************)
ReloadBegin(c) ==
  /\ reload.pc = "idle" /\ reloads < MaxReloads
  /\ reload' = [NoReload EXCEPT !.pc = "registry", !.cfg = c]
  /\ reloads' = reloads + 1
  /\ UNCHANGED <<enabled, table, files, admin, applied, calls>>

\* apply_dynamic: the registry is there if the section is.
ApplyDynamic ==
  /\ reload.pc = "registry"
  /\ enabled' = reload.cfg.on
  /\ reload' = [reload EXCEPT !.pc = IF reload.cfg.on THEN "read" ELSE "write"]
  /\ UNCHANGED <<table, files, admin, applied, calls, reloads>>

\* apply_dynamic_routes: load, reconcile, store.
LoadRoutes ==
  /\ reload.pc = "read"
  /\ reload' = [reload EXCEPT !.pc = "write", !.loaded = table]
  /\ UNCHANGED <<enabled, table, files, admin, applied, calls, reloads>>

StoreRoutes ==
  /\ reload.pc = "write"
  /\ table' = IF reload.cfg.on THEN Reconcile(reload.loaded, reload.cfg.routes) ELSE Empty
  /\ admin' = [b \in Admin |-> Outdated(admin[b])]
  /\ applied' = reload.cfg
  /\ reload' = NoReload
  /\ UNCHANGED <<enabled, files, calls, reloads>>

AdminNext(a) ==
  \/ \E op \in Ops, r \in Route, binds \in BOOLEAN : Begin(a, op, r, binds)
  \/ Refuse(a) \/ Artifact(a) \/ LoadTable(a) \/ GiveUp(a) \/ Swap(a) \/ SwapLost(a)

Next ==
  \/ \E a \in Admin : AdminNext(a)
  \/ \E c \in Config : ReloadBegin(c)
  \/ ApplyDynamic \/ LoadRoutes \/ StoreRoutes

Spec == Init /\ [][Next]_vars

-----------------------------------------------------------------------------
(***************************************************************************)
(* A request is served by the most specific binding (lookup): its own path *)
(* if that is bound exactly, else the longest prefix binding above it,     *)
(* whatever sequence of binds, removals and reloads built the table.       *)
(***************************************************************************)
Above(t, p) ==
  {e \in Entries(t) : IF e.prefix THEN IsPrefix(e.path, p) ELSE e.path = p}

LookupMostSpecific ==
  \A p \in Asked :
    \/ Above(table, p) = {} /\ Lookup(table, p) = NoModule
    \/ \E e \in Above(table, p) :
         /\ \A f \in Above(table, p) : Len(f.path) <= Len(e.path)
         /\ Lookup(table, p) = e.module

(***************************************************************************)
(* A path has one binding at most, exact or prefix (bind_owned), and the   *)
(* table stays within MAX_BINDINGS, also when configured and runtime       *)
(* bindings compete for the room.                                          *)
(***************************************************************************)
OneBindingPerPath ==
  /\ Size(table) = Cardinality(Bound(table))
  /\ Size(table) <= MaxBindings

(***************************************************************************)
(* Concurrent registrations lose no updates (bind_dynamic_route,           *)
(* unbind_dynamic_module): a step that is not a reload's changes the       *)
(* binding of one path, or removes exactly the bindings of one module.     *)
(***************************************************************************)
NoLostUpdates ==
  [][table' # table =>
       \/ reload.pc = "write" /\ reload'.pc = "idle"
       \/ \E a \in Admin :
            LET r == admin[a].route
            IN /\ admin[a].pc = "cas" /\ admin'[a].pc = "idle"
               /\ IF admin[a].op = "delete"
                  THEN Entries(table') = {e \in Entries(table) : e.module # r.module}
                  ELSE /\ r \in Entries(table')
                       /\ {e \in Entries(table') : e.path # r.path}
                            = {e \in Entries(table) : e.path # r.path}]_vars

(***************************************************************************)
(* The table takes a path for the configuration's only while the           *)
(* configuration in force has it and it is bound (config_keys): a reload   *)
(* drops no path that only the runtime added.  A path of the configuration *)
(* that the runtime binds anew keeps its mark, so a reload without the     *)
(* path drops the runtime's binding.                                       *)
(***************************************************************************)
OwnedIsConfigured ==
  table.owned \subseteq
    Bound(table) \cap {applied.routes[i].path : i \in DOMAIN applied.routes}

\* Both, after every sequence of binds, removals and reloads (bind_owned,
\* unbind_module, reconcile).
TableIsSound == OneBindingPerPath /\ OwnedIsConfigured

(***************************************************************************)
(* "runtime-added bindings survive" a reload (apply_dynamic_routes): a     *)
(* reload with a [dynamic] section keeps every binding that the            *)
(* configuration neither owned nor brings.                                 *)
(***************************************************************************)
RuntimeBindingsSurvive ==
  [][reload.pc = "write" /\ reload'.pc = "idle" /\ reload.cfg.on =>
       \A e \in Entries(table) :
         \/ e.path \in table.owned
         \/ \E i \in DOMAIN reload.cfg.routes : reload.cfg.routes[i].path = e.path
         \/ e \in Entries(table')]_vars
=============================================================================
