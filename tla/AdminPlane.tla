----------------------------- MODULE AdminPlane -----------------------------
(***************************************************************************)
(* The routers of the listeners and the management plane behind them       *)
(* (app.rs, admin_auth.rs): which handler a request reaches on which       *)
(* socket, the token guard, and what the handlers do, while reloads rotate *)
(* the token and switch the section [dynamic].  The routers are built once *)
(* at boot; token and section are read per request.                        *)
(*                                                                         *)
(* A request is split where the code awaits: the guard and the handler run *)
(* at different times, and so does what a handler does after an await.     *)
(***************************************************************************)
EXTENDS ConfigRules

CONSTANTS
  Clients,       \* concurrent requests
  ListenerSets,  \* sets of listeners the process may be booted with
  Tokens,        \* values of [admin] token in configuration files
  Credentials,   \* what a client presents: [bearer, header]
  MaxReloads

VARIABLES
  listeners,     \* the effective listeners
  mounted,       \* whether [dynamic] was enabled when the routers were built
  token,         \* AppState.admin_token
  section,       \* whether AppState.dynamic holds a registry
  gate,          \* the holder of the reload gate
  draining,      \* the shutdown flag
  areq,          \* the requests
  reloads

adminVars == <<listeners, mounted, token, section, gate, draining, areq, reloads>>

Nobody == "nobody"
Hup == "SIGHUP"

\* The names of holders of the gate that are no client's.
ASSUME AdminAssumption == {Nobody, Hup} \cap Clients = {}

-----------------------------------------------------------------------------
\* A token of blanks is none.
EffectiveToken(t) == IF t = "blank" THEN "none" ELSE t

\* The bearer token first; the other header counts when there is none.
PresentedToken(c) ==
  IF EffectiveToken(c.bearer) # "none" THEN c.bearer ELSE EffectiveToken(c.header)

IsAlwaysOpen(path) == path \in {"ready", "live"}

(***************************************************************************)
(* The routers: the admin plane where it is mounted, then the dynamic API, *)
(* then the fallback; a listener with the admin role has nothing else.     *)
(* The registration face and the dynamic API exist only if the section was *)
(* there at boot.                                                          *)
(***************************************************************************)
Reading == {"status", "metrics"}
AdminRoutes == Reading \cup {"reload", "ready", "live", "shutdown"}
               \cup IF mounted THEN {"list", "register"} ELSE {}

Route(i, path) ==
  IF CarriesAdmin(listeners, i) /\ path \in AdminRoutes THEN path
  ELSE IF ~CarriesData(listeners, i) THEN "404"
  ELSE IF path = "module" /\ mounted THEN "module" ELSE "fallback"

Paths == Reading \cup {"reload", "ready", "live", "shutdown", "list", "register", "module", "other"}

-----------------------------------------------------------------------------
NoRequest == [pc |-> "idle", at |-> 0, path |-> "other", loopback |-> FALSE,
         creds |-> [bearer |-> "none", header |-> "none"], force |-> {}, by |-> "none"]

AdminInit ==
  /\ listeners \in ListenerSets
  /\ mounted \in BOOLEAN /\ section = mounted
  /\ token \in {EffectiveToken(t) : t \in Tokens}
  /\ gate = Nobody /\ draining = FALSE /\ reloads = 0
  /\ areq = [c \in Clients |-> NoRequest]

Static == UNCHANGED <<listeners, mounted>>

\* force is history: the tokens in force since the request arrived.
ArriveAdmin(c) ==
  /\ areq[c].pc = "idle"
  /\ \E i \in DOMAIN listeners, path \in Paths, lo \in BOOLEAN, creds \in Credentials :
       LET by == Route(i, path)
       IN  /\ by # "404"
           /\ areq' = [areq EXCEPT ![c] =
                [pc |-> IF by \in AdminRoutes THEN "guard" ELSE "handle", at |-> i, path |-> path,
                 loopback |-> lo, creds |-> creds, force |-> {token}, by |-> by]]
  /\ Static /\ UNCHANGED <<token, section, gate, draining, reloads>>

Done(c) == areq' = [areq EXCEPT ![c] = NoRequest]

\* Mutation: the guard is open when the client presents nothing.
AdminAuthLax(c) ==
  /\ areq[c].pc = "guard"
  /\ IF IsAlwaysOpen(areq[c].path) \/ token = "none"
        \/ PresentedToken(areq[c].creds) \in {token, "none"}
     THEN areq' = [areq EXCEPT ![c].pc = "handle"] ELSE Done(c)
  /\ Static /\ UNCHANGED <<token, section, gate, draining, reloads>>

AdminAuth(c) ==
  /\ areq[c].pc = "guard"
  /\ IF IsAlwaysOpen(areq[c].path) \/ token = "none" \/ PresentedToken(areq[c].creds) = token
     THEN areq' = [areq EXCEPT ![c].pc = "handle"] ELSE Done(c)
  /\ Static /\ UNCHANGED <<token, section, gate, draining, reloads>>

Handles(c, by) == areq[c].pc = "handle" /\ areq[c].by = by

-----------------------------------------------------------------------------
\* Handlers that only read: the runtime and the registries, the shutdown flag,
\* the modules and bindings.
Answer(c, paths) ==
  /\ \E by \in paths : Handles(c, by)
  /\ Done(c)
  /\ Static /\ UNCHANGED <<token, section, gate, draining, reloads>>

Read(c) == Answer(c, Reading)
Probe(c) == Answer(c, {"ready", "live"})
List(c) == Answer(c, {"list"})

Shutdown(c) ==
  /\ Handles(c, "shutdown")
  /\ draining' = TRUE
  /\ Done(c)
  /\ Static /\ UNCHANGED <<token, section, gate, reloads>>

(***************************************************************************)
(* reload_endpoint: refused to remote clients and while another reload     *)
(* runs.                                                                   *)
(***************************************************************************)
Reload(c) ==
  /\ Handles(c, "reload")
  /\ IF areq[c].loopback /\ gate = Nobody
     THEN /\ gate' = c
          /\ areq' = [areq EXCEPT ![c].pc = "reload"]
     ELSE Done(c) /\ UNCHANGED gate
  /\ Static /\ UNCHANGED <<token, section, draining, reloads>>

\* SIGHUP takes the same gate.
Sighup ==
  /\ gate = Nobody /\ reloads < MaxReloads
  /\ gate' = Hup
  /\ Static /\ UNCHANGED <<token, section, draining, areq, reloads>>

\* Requests in flight see the token change under them.
Rotated(t) ==
  [c \in Clients |-> IF areq[c].pc = "guard" THEN [areq[c] EXCEPT !.force = @ \cup {t}] ELSE areq[c]]

ReloadOk ==
  /\ gate # Nobody /\ reloads < MaxReloads
  /\ reloads' = reloads + 1
  /\ \E t \in Tokens :
       /\ token' = EffectiveToken(t)
       /\ areq' = IF gate = Hup THEN Rotated(EffectiveToken(t))
                  ELSE [Rotated(EffectiveToken(t)) EXCEPT ![gate] = NoRequest]
  /\ section' \in BOOLEAN
  /\ gate' = Nobody
  /\ Static /\ UNCHANGED <<draining>>

\* The reload fails, or its caller is gone.
ReloadFails ==
  /\ gate # Nobody
  /\ gate' = Nobody
  /\ areq' = IF gate = Hup THEN areq ELSE [areq EXCEPT ![gate] = NoRequest]
  /\ Static /\ UNCHANGED <<token, section, draining, reloads>>

(***************************************************************************)
(* register and unregister: 404 while the section is off; the registry     *)
(* that was there is then used across the awaits of the body and of the    *)
(* compiler.                                                               *)
(***************************************************************************)
Register(c) ==
  /\ Handles(c, "register")
  /\ IF section THEN areq' = [areq EXCEPT ![c].pc = "store"] ELSE Done(c)
  /\ Static /\ UNCHANGED <<token, section, gate, draining, reloads>>

Stored(c) ==
  /\ areq[c].pc = "store"
  /\ Done(c)
  /\ Static /\ UNCHANGED <<token, section, gate, draining, reloads>>

\* The body is too large, the module is refused, or the client is gone.
Refused(c) ==
  /\ areq[c].pc = "store"
  /\ Done(c)
  /\ Static /\ UNCHANGED <<token, section, gate, draining, reloads>>

(***************************************************************************)
(* Everything else: a bound path or the fixed route runs a module, other   *)
(* requests are proxied.  Neither touches what is modelled here.           *)
(***************************************************************************)
Fallback(c) ==
  /\ \E by \in {"fallback", "module"} : Handles(c, by)
  /\ Done(c)
  /\ Static /\ UNCHANGED <<token, section, gate, draining, reloads>>

AdminNext ==
  \/ \E c \in Clients :
       \/ ArriveAdmin(c) \/ AdminAuth(c) \/ Read(c) \/ Probe(c) \/ List(c) \/ Shutdown(c) \/ Reload(c)
       \/ Register(c) \/ Stored(c) \/ Refused(c) \/ Fallback(c)
  \/ Sighup \/ ReloadOk \/ ReloadFails

AdminSpec == AdminInit /\ [][AdminNext]_adminVars

-----------------------------------------------------------------------------
(***************************************************************************)
(* Whatever changed the process came in on the admin listener, if there is *)
(* one, showed a token that was in force between its arrival and its guard *)
(* (unless none was), and triggered a reload only from the loopback        *)
(* address, whichever reloads rotated the token meanwhile (admin_routes,   *)
(* admin_auth, reload_endpoint).                                           *)
(***************************************************************************)
Acts(c) == Shutdown(c) \/ (Reload(c) /\ gate' = c) \/ Stored(c)

AdminIsFenced ==
  [][\A c \in Clients : Acts(c) =>
       /\ (\E i \in DOMAIN listeners : listeners[i].role = "admin") => listeners[areq[c].at].role = "admin"
       /\ "none" \in areq[c].force \/ PresentedToken(areq[c].creds) \in areq[c].force
       /\ areq[c].path = "reload" => areq[c].loopback]_adminVars
=============================================================================
