----------------------------- MODULE ConfigRules -----------------------------
(***************************************************************************)
(* What a configuration file may say: the checks of config::validate, and  *)
(* the pure decisions the boot sequence takes from a configuration (which  *)
(* listeners exist, which terminate TLS or intercept, which carry the      *)
(* admin plane, which inherited socket serves which listener).             *)
(*                                                                         *)
(* A configuration is a record with the fields of the code, each reduced   *)
(* to what the checks tell apart: a name or path is "" or not, a number is *)
(* zero or not, and a file named by the configuration is "none", "good" or *)
(* "bad" (it cannot be read or parsed).                                    *)
(***************************************************************************)
EXTENDS Naturals, SequencesExt

Distinct(s) == \A i, j \in DOMAIN s : s[i] = s[j] => i = j

\* What the configuration file is parsed into, but for the sections that only
\* the checks below look into; descriptors are <<ip, port, number>>.
Addresses == STRING \X Nat
Descriptors == STRING \X Nat \X Nat
Materials == {"none", "good", "bad"}
ListenerConfigs ==
  [role : {"inbound", "outbound", "admin"}, addr : Addresses, transparent : BOOLEAN,
   detect : Nat, tls : BOOLEAN, cert : Materials, key : Materials]
Sections == {"level", "plugins", "dynamic", "listen", "listeners", "ingress", "egress",
             "upstreams", "routes", "logfile"}
IsConfig(c) == DOMAIN c = Sections /\ c.listeners \in Seq(ListenerConfigs) /\ c.listen \in Addresses

-----------------------------------------------------------------------------
(***************************************************************************)
(* The sections.                                                           *)
(***************************************************************************)
ValidPlugins(p) == p.timeout > 0 /\ p.memory > 0 /\ Distinct(p.order)

\* Routes are <<method, base path, module>>; "" is a field that does not normalise.
ValidDynamic(d) ==
  /\ d.timeout > 0 /\ d.memory > 0 /\ d.body > 0 /\ d.dir # ""
  /\ \A i \in DOMAIN d.routes : \A f \in 1..3 : d.routes[i][f] # ""
  /\ Distinct([i \in DOMAIN d.routes |-> <<d.routes[i][1], d.routes[i][2]>>])

(***************************************************************************)
(* One listener per role and per address.  An outbound listener ignores    *)
(* its TLS fields; elsewhere TLS needs a static pair or the ingress plane, *)
(* and half a pair is tolerated when the ingress plane provides.           *)
(***************************************************************************)
HasStatic(l) == l.cert # "none" /\ l.key # "none"

ValidListener(l, ingress) ==
  /\ l.transparent => l.detect > 0
  /\ l.role # "outbound" =>
       /\ ~(l.role # "admin" /\ l.transparent /\ l.tls)
       /\ ~l.tls => l.cert = "none" /\ l.key = "none"
       /\ l.tls => HasStatic(l) \/ ingress.enabled

ValidListeners(c) ==
  /\ Distinct([i \in DOMAIN c.listeners |-> c.listeners[i].role])
  /\ Distinct([i \in DOMAIN c.listeners |-> c.listeners[i].addr])
  /\ \A i \in DOMAIN c.listeners : ValidListener(c.listeners[i], c.ingress)

ValidIngress(g) == g.class # "" /\ \A i \in DOMAIN g.namespaces : g.namespaces[i] # ""

\* The gateway is "", "resolves" or "unknown".
ValidEgress(e) == e.mode = "gateway" => e.gateway = "resolves"

(***************************************************************************)
(* An upstream's TLS section needs a name that is not blank (whether it is *)
(* a server name at all is not looked at), an anchor or the explicit       *)
(* waiver, and both halves of a client pair or neither.                    *)
(***************************************************************************)
ValidUpstreamTls(t) ==
  /\ t.name # ""
  /\ t.ca # "none" \/ t.insecure
  /\ (t.cert = "none") = (t.key = "none")

ValidActive(a) == a.interval > 0 /\ a.timeout > 0 /\ a.down > 0 /\ a.up > 0 /\ a.path # ""

ValidUpstream(u) ==
  /\ u.name # ""
  /\ u.weights # <<>> \/ u.endpoints # <<>>
  /\ \A i \in DOMAIN u.endpoints : u.endpoints[i] # ""
  /\ \A i \in DOMAIN u.weights : u.weights[i] > 0
  /\ \A t \in u.tls : ValidUpstreamTls(t)
  /\ \A a \in u.active : ValidActive(a)

ValidRoutes(c) ==
  \A i \in DOMAIN c.routes :
    /\ c.routes[i].prefix # "" /\ c.routes[i].host # "blank"
    /\ \E j \in DOMAIN c.upstreams : c.upstreams[j].name = c.routes[i].upstream

Validate(c) ==
  /\ c.level # "other"
  /\ ValidPlugins(c.plugins)
  /\ \A d \in c.dynamic : ValidDynamic(d)
  /\ ValidListeners(c) /\ ValidIngress(c.ingress) /\ ValidEgress(c.egress)
  /\ Distinct([i \in DOMAIN c.upstreams |-> c.upstreams[i].name])
  /\ \A i \in DOMAIN c.upstreams : ValidUpstream(c.upstreams[i])
  /\ ValidRoutes(c)

-----------------------------------------------------------------------------
(***************************************************************************)
(* load_config: OPENRUSTY_DYNAMIC_DIR sets the directory of the section or *)
(* makes one with the defaults, before the validation.                     *)
(***************************************************************************)
DefaultDynamic(dir) == [dir |-> dir, timeout |-> 50, memory |-> 16, body |-> 1048576, routes |-> <<>>]

ApplyDynamicDirEnv(c, dir) ==
  [c EXCEPT !.dynamic = IF dir = "" THEN c.dynamic
                        ELSE IF c.dynamic = {} THEN {DefaultDynamic(dir)}
                        ELSE {[d EXCEPT !.dir = dir] : d \in c.dynamic}]

Loads(file, dir) == file.kind # "missing" /\ file.parses /\ Validate(ApplyDynamicDirEnv(file.cfg, dir))

-----------------------------------------------------------------------------
DefaultListener(addr) ==
  [role |-> "inbound", addr |-> addr, transparent |-> FALSE, detect |-> 3000,
   tls |-> FALSE, cert |-> "none", key |-> "none"]

EffectiveListeners(c) ==
  IF c.listeners # <<>> THEN c.listeners ELSE <<DefaultListener(c.listen)>>

UsesTls(l) == l.tls /\ l.role # "outbound"
UsesTransparent(l) == l.transparent /\ l.role # "admin"

\* TlsSources::classify: a static pair is read at boot, with or without ingress.
ReadsStatic(l) == UsesTls(l) /\ HasStatic(l)

\* listeners::spawn: the accept loop a listener gets.
LoopOf(l) == IF UsesTls(l) THEN "tls" ELSE IF UsesTransparent(l) THEN "transparent" ELSE "plain"

(***************************************************************************)
(* mounts: the admin plane is on the admin listener, or on every listener  *)
(* when there is none.                                                     *)
(***************************************************************************)
HasAdmin(ls) == \E i \in DOMAIN ls : ls[i].role = "admin"
CarriesAdmin(ls, i) == ls[i].role = "admin" \/ ~HasAdmin(ls)
CarriesData(ls, i) == ls[i].role # "admin"

OwnPorts(ls) == {ls[i].addr[2] : i \in DOMAIN ls}

(***************************************************************************)
(* match_ports: for each listener in order the first inherited socket not  *)
(* yet taken whose port is the listener's; <<>> when the two sides do not  *)
(* pair off.  The port of a descriptor that is no TCP listener is 0.       *)
(***************************************************************************)
FirstFree(fds, taken, port) ==
  LET free == {i \in DOMAIN fds : i \notin taken /\ fds[i][2] = port}
  IN  IF free = {} THEN 0 ELSE CHOOSE i \in free : \A j \in free : i <= j

\* Mutation: sockets are given out by position.
MatchPositional(fds, ls) ==
  IF Len(fds) = Len(ls) /\ {fds[i][2] : i \in DOMAIN fds} = OwnPorts(ls)
  THEN [i \in DOMAIN ls |-> i] ELSE <<>>

\* The pairing, listener by listener; 0 where no socket is left.
Pairing(fds, ls) ==
  CHOOSE o \in [1..Len(ls) -> 0..Len(fds)] :
    \A i \in 1..Len(ls) : o[i] = FirstFree(fds, {o[j] : j \in 1..i - 1}, ls[i].addr[2])

MatchPorts(fds, ls) ==
  LET order == Pairing(fds, ls)
  IN  IF (\E i \in DOMAIN fds : fds[i][2] = 0) \/ ToSet(order) # DOMAIN fds THEN <<>> ELSE order
=============================================================================
