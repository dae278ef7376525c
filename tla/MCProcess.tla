----------------------------- MODULE MCProcess -----------------------------
(***************************************************************************)
(* The life of a proxy process, for TLC: its injection into a pod, its     *)
(* start, a connection it intercepts, its administration, and its end      *)
(* (MCDrain).  The parts share no state, so a behaviour is one of the part *)
(* it starts with and the other parts stay as they began.                  *)
(***************************************************************************)
EXTENDS MCDrain, Startup, Sidecar, AdminPlane, Intercept

VARIABLE part

allVars == <<part, vars, bootVars, hijackVars, tapVars, adminVars>>

-----------------------------------------------------------------------------
(***************************************************************************)
(* Configurations: a good one, and variations of it that each stage of the *)
(* start accepts or refuses; sets of inherited and of busy sockets.        *)
(***************************************************************************)
Inbound(addr) == [role |-> "inbound", addr |-> addr, transparent |-> FALSE, detect |-> 1,
                  tls |-> FALSE, cert |-> "none", key |-> "none"]
Outbound(addr) == [Inbound(addr) EXCEPT !.role = "outbound", !.transparent = TRUE]
AdminListener(addr) == [Inbound(addr) EXCEPT !.role = "admin"]
WithTls(l, cert, key) == [l EXCEPT !.tls = TRUE, !.cert = cert, !.key = key]
Up == [name |-> "u", weights |-> <<1>>, endpoints |-> <<>>, tls |-> {}, active |-> {}]
UpTls == [name |-> "n", ca |-> "good", cert |-> "none", key |-> "none", insecure |-> FALSE]
Probing == [interval |-> 1, timeout |-> 1, up |-> 1, down |-> 1, path |-> "/"]
Dyn == [dir |-> "d", timeout |-> 1, memory |-> 1, body |-> 1, routes |-> <<<<"GET", "/a", "m">>>>]
A1 == <<"lo", 1>>
A2 == <<"lo", 2>>
A3 == <<"any", 1>>
Base == [level |-> "warn", plugins |-> [timeout |-> 1, memory |-> 1, order |-> <<"p">>, loads |-> TRUE],
         dynamic |-> {}, listen |-> A1, listeners |-> <<>>,
         ingress |-> [enabled |-> FALSE, class |-> "c", namespaces |-> <<>>],
         egress |-> [mode |-> "direct", gateway |-> ""],
         upstreams |-> <<Up>>, routes |-> <<[prefix |-> "/", host |-> "none", upstream |-> "u"]>>,
         logfile |-> "none"]
BootListeners ==
  {<<>>,
   <<Inbound(A1), AdminListener(A2)>>,
   <<Outbound(A2), Inbound(A1)>>,
   <<Inbound(A1), Outbound(A2), AdminListener(A3)>>,
   <<Inbound(A1), Inbound(A2)>>,
   <<Inbound(A1), AdminListener(A1)>>,
   <<WithTls(Inbound(A1), "good", "good")>>,
   <<WithTls(Inbound(A1), "good", "bad"), AdminListener(A2)>>,
   <<WithTls(Inbound(A1), "none", "good")>>,
   <<WithTls(Inbound(A1), "good", "good"), WithTls(AdminListener(A2), "good", "good")>>,
   <<WithTls(Outbound(A1), "bad", "bad"), Inbound(A2)>>,
   <<[Inbound(A1) EXCEPT !.cert = "good"]>>,
   <<[Outbound(A1) EXCEPT !.detect = 0]>>, <<WithTls([Inbound(A1) EXCEPT !.transparent = TRUE], "good", "good")>>}
UpstreamSets ==
  {<<>>, <<Up, Up>>, <<[Up EXCEPT !.weights = <<0>>]>>, <<[Up EXCEPT !.weights = <<>>]>>,
   <<[Up EXCEPT !.weights = <<>>, !.endpoints = <<"e">>]>>, <<[Up EXCEPT !.endpoints = <<"">>]>>,
   <<[Up EXCEPT !.active = {Probing}]>>, <<[Up EXCEPT !.active = {[Probing EXCEPT !.interval = 0]}]>>}
   \cup {<<[Up EXCEPT !.tls = {t}]>> : t \in
          {UpTls, [UpTls EXCEPT !.name = ""], [UpTls EXCEPT !.name = "not a server name"],
           [UpTls EXCEPT !.ca = "bad"], [UpTls EXCEPT !.ca = "none"],
           [UpTls EXCEPT !.ca = "none", !.insecure = TRUE], [UpTls EXCEPT !.cert = "good"],
           [UpTls EXCEPT !.cert = "good", !.key = "bad"]}}
   \cup {<<[Up EXCEPT !.weights = <<>>, !.endpoints = <<"e">>,
            !.tls = {[UpTls EXCEPT !.name = "not a server name"]}]>>}
BootConfigs ==
  {[Base EXCEPT !.listeners = ls, !.ingress.enabled = i] : ls \in BootListeners, i \in BOOLEAN}
  \cup {[Base EXCEPT !.upstreams = us] : us \in UpstreamSets}
  \cup {[Base EXCEPT !.upstreams = <<>>, !.routes = <<>>]}
  \cup {[Base EXCEPT !.logfile = l] : l \in {"good", "bad"}}
  \cup {[Base EXCEPT !.egress = [mode |-> "gateway", gateway |-> g]] : g \in {"", "resolves", "unknown"}}
  \cup {[Base EXCEPT !.plugins = [@ EXCEPT !.loads = FALSE]], [Base EXCEPT !.plugins = [@ EXCEPT !.timeout = 0]],
        [Base EXCEPT !.plugins = [@ EXCEPT !.order = <<"p", "p">>]], [Base EXCEPT !.level = "other"],
        [Base EXCEPT !.ingress = [@ EXCEPT !.class = ""]],
        [Base EXCEPT !.routes = <<[prefix |-> "/", host |-> "none", upstream |-> "v"]>>],
        [Base EXCEPT !.dynamic = {Dyn}], [Base EXCEPT !.dynamic = {[Dyn EXCEPT !.dir = ""]}],
        [Base EXCEPT !.dynamic = {[Dyn EXCEPT !.routes = @ \o @]}]}
BootFiles == {[kind |-> "regular", parses |-> TRUE, cfg |-> c] : c \in BootConfigs}
   \cup {[kind |-> k, parses |-> p, cfg |-> Base] : k \in {"special", "missing", "regular"}, p \in BOOLEAN}
\* Descriptors count from 3.
Inherit(addrs) == [i \in DOMAIN addrs |-> <<addrs[i][1], addrs[i][2], i + 2>>]
FdSets == {<<>>, <<A1>>, <<A1, A2>>, <<A2, A1>>, <<A3, A2, A1>>, <<A1, A1>>, <<<<"unix", 0>>>>}
BootEnvs == {[dir |-> d, fds |-> Inherit(f), forUs |-> u, busy |-> b] :
   d \in {"", "e"}, f \in FdSets, u \in {TRUE}, b \in {{}, {A2}}}
   \cup {[dir |-> "", fds |-> Inherit(<<A1>>), forUs |-> FALSE, busy |-> {}]}
BootNowhere == [file |-> [kind |-> "missing", parses |-> FALSE, cfg |-> Base], env |-> [dir |-> "none"]]

-----------------------------------------------------------------------------
\* Workloads by their annotations; two commands may fail, three runs.
Workload == [enabled |-> "enabled", skip |-> {}, uid |-> "good", level |-> "warn", mode |-> "direct",
             gateway |-> "", app |-> "8080", parts |-> {}]
Workloads ==
  {Workload, [Workload EXCEPT !.app = "none"], [Workload EXCEPT !.enabled = "disabled"],
   [Workload EXCEPT !.level = "bad"], [Workload EXCEPT !.parts = {"init"}]}
  \cup {[Workload EXCEPT !.skip = s] : s \in {{8080}, {0}, {65536}}}
  \cup {[Workload EXCEPT !.mode = "gateway", !.gateway = g] : g \in {"", "resolves", "unknown"}}

WorkloadNone == [Workload EXCEPT !.enabled = "none"]

-----------------------------------------------------------------------------
\* What clients send: the preface, a prefix of it, a request line, bytes that
\* stop being a method late, bytes that never were one, a method cut short.
TapStreams ==
  {<<"P", "R", "I", " ", "*", "x">>, <<"P", "R", "I", " ", "x">>, <<"P", "U", "T", " ", "x">>,
   <<"P", "U", "x">>, <<"x", "y">>, <<"P", "U", "T">>}
TapCases ==
  [role : {"inbound"}, mode : {"direct"}, gateway : {FALSE}]
  \cup [role : {"outbound"}, mode : {"direct", "deny"}, gateway : {FALSE}]
  \cup [role : {"outbound"}, mode : {"gateway"}, gateway : BOOLEAN]

TapMethods == {<<"P", "U", "T">>, <<"P", "A", "T">>}
TapPrefix == <<"P", "R", "I", " ", "*">>
TapDests == [port : {80, 443, 4143}]
TapGateway == [port |-> 15000]
TapNoCase == [role |-> "none", mode |-> "none", gateway |-> FALSE]

-----------------------------------------------------------------------------
\* A gateway with and without an admin listener; a client races a reload.
FencedListeners == {<<Inbound(A1), AdminListener(A2)>>, <<Inbound(A1)>>}
FencedCredentials ==
  {[bearer |-> b, header |-> h] : b \in {"none", "s1"}, h \in {"none", "s2"}}
  \cup {[bearer |-> "blank", header |-> "s1"]}

-----------------------------------------------------------------------------
PartsInit ==
  /\ part \in {"boot", "hijack", "tap", "admin", "drain"}
  /\ Init /\ BootInit /\ HijackInit /\ TapInit /\ AdminInit
  /\ part # "admin" => ~mounted /\ token = "none" /\ Len(listeners) = 1

PartsNext ==
  /\ UNCHANGED part
  /\ \/ part = "boot" /\ BootNext /\ UNCHANGED <<vars, hijackVars, tapVars, adminVars>>
     \/ part = "hijack" /\ HijackNext /\ UNCHANGED <<vars, bootVars, tapVars, adminVars>>
     \/ part = "tap" /\ TapNext /\ UNCHANGED <<vars, bootVars, hijackVars, adminVars>>
     \/ part = "admin" /\ AdminNext /\ UNCHANGED <<vars, bootVars, hijackVars, tapVars>>
     \/ part = "drain" /\ Next /\ UNCHANGED <<bootVars, hijackVars, tapVars, adminVars>>

\* Drain's fairness, for the behaviours that are Drain's.
PartsFairness ==
  /\ \A l \in Loop : WF_vars(part = "drain" /\ StartLoop(l)) /\ WF_vars(part = "drain" /\ StopLoop(l))
  /\ \A c \in Conn : WF_vars(part = "drain" /\ Notice(c)) /\ WF_vars(part = "drain" /\ Finish(c))
  /\ \A c \in Conn : WF_vars(part = "drain" /\ conn[c].told /\ CloseIdle(c))
  /\ WF_vars(part = "drain" /\ WakeOnFlag) /\ WF_vars(part = "drain" /\ MainRun)

PartsSpec == PartsInit /\ [][PartsNext]_allVars /\ PartsFairness
=============================================================================
