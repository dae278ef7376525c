------------------------------ MODULE Sidecar ------------------------------
(***************************************************************************)
(* The sidecar's way into a pod: openrusty inject rewrites a workload      *)
(* manifest (once) and renders the sidecar's configuration, and the init   *)
(* container it adds installs the nat rules that hijack the pod's traffic. *)
(* Every iptables command may fail, the container is then run again by the *)
(* kubelet in the same network namespace, and traffic flows all the while. *)
(* The kernel's nat table is modelled from how the code drives it.         *)
(***************************************************************************)
EXTENDS ConfigRules

CONSTANTS
  Manifests,  \* [enabled, skip, uid, level, mode, gateway, app, parts]: a workload, by its
              \* annotations and the openrusty containers it already carries
  NoManifest, \* before the administrator has one
  Ports,      \* the ports that connections go to
  MaxFaults,  \* bound on commands that fail for no reason of their own
  MaxRuns     \* bound on runs of the init container

ASSUME SidecarAssumption ==
  /\ Manifests \subseteq
       [enabled : STRING, skip : SUBSET Nat, uid : STRING, level : STRING, mode : STRING,
        gateway : STRING, app : STRING, parts : SUBSET {"init", "proxy"}]
  /\ NoManifest.parts = {} /\ Ports \subseteq Nat

VARIABLES
  manifest,  \* the manifest, as it was and then as inject left it
  verdict,   \* of inject: "none", "injected", "untouched" or "refused"
  chains,    \* the rules of each direction's chain, where the chain exists
  hooks,     \* the number of jumps to each direction's chain
  run,       \* [pc, at, skip]: the init container's run of its plan
  faults, runs,
  blind      \* history: a check for the hook failed for no reason of its own

hijackVars == <<manifest, verdict, chains, hooks, run, faults, runs, blind>>

InboundPort == 4143
OutboundPort == 4140
AdminPort == 4191
LastPort == 65535  \* a port is a u16
Dirs == {"in", "out"}  \* OPENRUSTY_IN on PREROUTING, OPENRUSTY_OUT on OUTPUT

-----------------------------------------------------------------------------
(***************************************************************************)
(* inject.  parse_annotations rejects what it cannot read ("bad") and      *)
(* takes any number a port can have, 0 included; the sidecar's             *)
(* configuration is validated here, except that the gateway's name may     *)
(* resolve in the cluster only.                                            *)
(***************************************************************************)
ParseAnnotations(m) ==
  /\ "bad" \notin {m.enabled, m.uid, m.level, m.mode}
  /\ m.skip \subseteq 0..LastPort
  /\ m.mode = "gateway" => m.gateway # ""

Listener(role, port) ==
  [role |-> role, addr |-> <<"any", port>>, transparent |-> role # "admin", detect |-> 3000,
   tls |-> FALSE, cert |-> "none", key |-> "none"]

RenderConfig(m) ==
  [level |-> m.level, plugins |-> [timeout |-> 50, memory |-> 16, order |-> <<>>, loads |-> TRUE],
   dynamic |-> {}, listen |-> <<"any", InboundPort>>,
   listeners |-> <<Listener("inbound", InboundPort), Listener("outbound", OutboundPort),
                   Listener("admin", AdminPort)>>,
   ingress |-> [enabled |-> FALSE, class |-> "openrusty", namespaces |-> <<>>],
   egress |-> [mode |-> m.mode, gateway |-> IF m.mode = "gateway" THEN m.gateway ELSE ""],
   upstreams |-> IF m.app = "none" THEN <<>>
                 ELSE <<[name |-> "app", weights |-> <<1>>, endpoints |-> <<>>, tls |-> {}, active |-> {}]>>,
   routes |-> IF m.app = "none" THEN <<>>
              ELSE <<[prefix |-> "/", host |-> "none", upstream |-> "app"]>>]

Renders(m) ==
  LET c == RenderConfig(m)
  IN  Validate(c) \/ (c.egress.gateway = "unknown" /\ Validate([c EXCEPT !.egress.gateway = "resolves"]))

ChooseManifest ==
  /\ manifest = NoManifest
  /\ manifest' \in Manifests
  /\ UNCHANGED <<verdict, chains, hooks, run, faults, runs, blind>>

Inject ==
  /\ manifest # NoManifest /\ verdict = "none"
  /\ \/ /\ ~ParseAnnotations(manifest)
        /\ verdict' = "refused" /\ UNCHANGED manifest
     \/ /\ ParseAnnotations(manifest) /\ manifest.enabled = "disabled"
        /\ verdict' = "untouched" /\ UNCHANGED manifest
     \/ /\ ParseAnnotations(manifest) /\ manifest.enabled # "disabled"
        /\ IF manifest.parts # {} \/ ~Renders(manifest)
           THEN verdict' = "refused" /\ UNCHANGED manifest
           ELSE /\ verdict' = "injected"
                /\ manifest' = [manifest EXCEPT !.parts = {"init", "proxy"}]
  /\ UNCHANGED <<chains, hooks, run, faults, runs, blind>>

-----------------------------------------------------------------------------
(***************************************************************************)
(* The plan of build_rules: per direction create the chain, flush it, hook *)
(* it unless it is hooked, and append the exemptions before the redirect.  *)
(* A rule has what it matches and the port it redirects to, 0 to return.   *)
(***************************************************************************)
Return(match, port) == [match |-> match, port |-> port, to |-> 0]
Redirect(to) == [match |-> "all", port |-> 0, to |-> to]

IgnoreInbound(m) == m.skip \cup {AdminPort}

\* The ports are sorted; here their order is any one.
ReturnPorts(ports) == [i \in 1..Len(ports) |-> Return("port", ports[i])]

RulesIn(m) ==
  <<Return("lo", 0)>> \o ReturnPorts(SetToSeq(IgnoreInbound(m))) \o <<Redirect(InboundPort)>>

\* Mutation: the proxy is exempted behind the redirection.
RulesOutOwnerLast == <<Return("lo", 0), Return("port", 443), Redirect(OutboundPort), Return("proxy", 0)>>

\* The ports and subnets inject leaves at the defaults of the init container.
RulesOut == <<Return("lo", 0), Return("proxy", 0), Return("port", 443), Redirect(OutboundPort)>>

Do(op, d) == [op |-> op, dir |-> d, rule |-> Return("none", 0)]
Setup(d) == <<Do("N", d), Do("F", d), Do("C", d), Do("I", d)>>
Appends(d, rules) == [i \in 1..Len(rules) |-> [op |-> "A", dir |-> d, rule |-> rules[i]]]
Section(d, rules) == Setup(d) \o Appends(d, rules)
BuildRules(m) == Section("in", RulesIn(m)) \o Section("out", RulesOut)

\* The kernel: whether a command succeeds on the table, and the table after it.
Exists(d) == d \in DOMAIN chains
CanDo(c) == CASE c.op = "N" -> ~Exists(c.dir)
              [] c.op = "C" -> hooks[c.dir] > 0
              [] OTHER -> Exists(c.dir)

With(d, rules) == [x \in DOMAIN chains \cup {d} |-> IF x = d THEN rules ELSE chains[x]]
TableAfter(c) ==
  /\ chains' = CASE c.op \in {"N", "F"} -> With(c.dir, <<>>)
                 [] c.op = "A" -> With(c.dir, Append(chains[c.dir], c.rule))
                 [] OTHER -> chains
  /\ hooks' = IF c.op = "I" THEN [hooks EXCEPT ![c.dir] = @ + 1] ELSE hooks

-----------------------------------------------------------------------------
Down == [pc |-> "down", at |-> 1, skip |-> FALSE]

HijackInit ==
  /\ manifest = NoManifest /\ verdict = "none"
  /\ chains = <<>> /\ hooks = [d \in Dirs |-> 0]
  /\ run = Down /\ faults = 0 /\ runs = 0 /\ blind = FALSE

(***************************************************************************)
(* run: the arguments, then the backend, conntrack and a redirect probe in *)
(* a chain of its own, then the plan.  The arguments reject port 0.        *)
(***************************************************************************)
StartInit ==
  /\ verdict = "injected" /\ run.pc \in {"down", "failed"} /\ runs < MaxRuns
  /\ runs' = runs + 1
  /\ \/ 0 \in manifest.skip /\ run' = [Down EXCEPT !.pc = "failed"] /\ UNCHANGED faults
     \/ 0 \notin manifest.skip /\ run' = [Down EXCEPT !.pc = "plan"] /\ UNCHANGED faults
     \/ /\ faults < MaxFaults /\ faults' = faults + 1
        /\ run' = [Down EXCEPT !.pc = "failed"]
  /\ UNCHANGED <<manifest, verdict, chains, hooks, blind>>

Plan == BuildRules(manifest)
Command == Plan[run.at]

Advanced(skip) ==
  IF run.at = Len(Plan) THEN [run EXCEPT !.pc = "done"]
  ELSE [run EXCEPT !.at = run.at + 1, !.skip = skip]

(***************************************************************************)
(* exec_plan, one command.  A failing -N is taken for a chain that exists, *)
(* a failing -C for a hook that does not; any other failure aborts.        *)
(***************************************************************************)
SkipInsert ==
  /\ run.pc = "plan" /\ run.skip /\ Command.op = "I"
  /\ run' = Advanced(FALSE)
  /\ UNCHANGED <<manifest, verdict, chains, hooks, faults, runs, blind>>

Exec ==
  /\ run.pc = "plan" /\ ~(run.skip /\ Command.op = "I") /\ CanDo(Command)
  /\ TableAfter(Command)
  /\ run' = Advanced(Command.op = "C")
  /\ UNCHANGED <<manifest, verdict, faults, runs, blind>>

Fail(spurious) ==
  /\ run.pc = "plan" /\ ~(run.skip /\ Command.op = "I")
  /\ spurious \/ ~CanDo(Command)
  /\ spurious => faults < MaxFaults
  /\ faults' = IF spurious THEN faults + 1 ELSE faults
  /\ run' = IF Command.op \in {"N", "C"} THEN Advanced(FALSE) ELSE [run EXCEPT !.pc = "failed"]
  /\ blind' = (blind \/ (spurious /\ Command.op = "C"))
  /\ UNCHANGED <<manifest, verdict, chains, hooks, runs>>

HijackNext == ChooseManifest \/ Inject \/ StartInit \/ SkipInsert \/ Exec \/ \E s \in BOOLEAN : Fail(s)

HijackSpec == HijackInit /\ [][HijackNext]_hijackVars

-----------------------------------------------------------------------------
(***************************************************************************)
(* What the table does with a connection [dir, lo, proxy, port]: the port  *)
(* it is redirected to, or 0.                                              *)
(***************************************************************************)
Matches(r, k) ==
  \/ r.match = "all"
  \/ r.match = "lo" /\ k.lo
  \/ r.match = "proxy" /\ k.proxy
  \/ r.match = "port" /\ r.port = k.port

Verdict(k) ==
  LET rules == IF hooks[k.dir] > 0 THEN chains[k.dir] ELSE <<>>
      hits == {i \in DOMAIN rules : Matches(rules[i], k)}
      first == CHOOSE i \in hits : \A j \in hits : i <= j
  IN  IF hits = {} THEN 0 ELSE rules[first].to

Connections == [dir : Dirs, lo : BOOLEAN, proxy : BOOLEAN, port : Ports]

\* What must reach its destination untouched.
Exempt(k) ==
  \/ k.lo
  \/ k.dir = "out" /\ (k.proxy \/ k.port = 443)
  \/ k.dir = "in" /\ k.port \in IgnoreInbound(manifest)

(***************************************************************************)
(* At every moment, a run that failed half way and a second one over its   *)
(* remains included (init/exec.rs exec_plan), the proxy's own connections, *)
(* loopback and the exempt ports (the admin plane's with them) are never   *)
(* redirected, and what is redirected goes to a transparent listener of    *)
(* its direction; once a run succeeded, everything else is redirected and  *)
(* the chain is hooked once, unless the check for the hook misfired.       *)
(***************************************************************************)
Target(k) == IF k.dir = "in" THEN "inbound" ELSE "outbound"

HijackIsSafe ==
  verdict = "injected" =>
    /\ \A k \in Connections : Exempt(k) => Verdict(k) = 0
    /\ \A k \in Connections : Verdict(k) # 0 =>
         \E i \in DOMAIN RenderConfig(manifest).listeners :
           LET l == RenderConfig(manifest).listeners[i]
           IN  l.addr[2] = Verdict(k) /\ l.role = Target(k) /\ UsesTransparent(l)
    /\ run.pc = "done" =>
         /\ \A k \in Connections : ~Exempt(k) => Verdict(k) # 0
         /\ ~blind => \A d \in Dirs : hooks[d] = 1
=============================================================================
