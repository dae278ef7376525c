------------------------------ MODULE Startup ------------------------------
(***************************************************************************)
(* From the configuration file to the accept loops: openrusty -t, which    *)
(* tests the file in a process of its own, and the boot sequence of main,  *)
(* stage by stage, with every early exit.  Sockets are inherited (socket   *)
(* activation) or bound.  The serving process is the subject of Drain;     *)
(* here it only accepts, and reopens its log on SIGUSR1.                   *)
(***************************************************************************)
EXTENDS ConfigRules

CONSTANTS
  Files,     \* [kind : "regular", "special" or "missing", parses : BOOLEAN, cfg]
  Envs,      \* [dir : OPENRUSTY_DYNAMIC_DIR, fds : sequences of inherited sockets,
             \*  forUs : LISTEN_PID names this process, busy : addresses in use]
  Nowhere    \* [file, env] before the administrator has chosen

ASSUME StartupAssumption ==
  /\ \A f \in Files : IsConfig(f.cfg)
  /\ \A e \in Envs : e.fds \in Seq(Descriptors) /\ Distinct(e.fds)

VARIABLES
  input,    \* [file, env]: what this process starts from
  tested,   \* the verdict of openrusty -t on the same file: "none", "ok", "failed"
  proc,     \* [pc, cause]: the stage reached, and why the process ended
  sockets,  \* the socket of each listener acquired so far
  fallback, \* the listener whose static pair is the resolver's fallback, or 0
  log       \* the file the log goes to

bootVars == <<input, tested, proc, sockets, fallback, log>>

File == input.file
Env == input.env
Cfg == ApplyDynamicDirEnv(File.cfg, Env.dir)
Listeners == EffectiveListeners(Cfg)
Activated == Env.forUs /\ Env.fds # <<>>

Stage(reached) == [pc |-> reached, cause |-> "none"]
Exited(cause) == [pc |-> "exited", cause |-> cause]

BootInit ==
  /\ input = Nowhere
  /\ tested = "none" /\ proc = Stage("down")
  /\ sockets = <<>> /\ fallback = 0 /\ log = "stdout"

ChooseFile ==
  /\ input = Nowhere
  /\ \E f \in Files, e \in Envs : input' = [file |-> f, env |-> e]
  /\ UNCHANGED <<tested, proc, sockets, fallback, log>>

(***************************************************************************)
(* check::run: load, validate and compile every plugin, in a process that  *)
(* opens no log, reads no certificate and takes no socket.                 *)
(***************************************************************************)
CheckRun == Loads(File, Env.dir) /\ Cfg.plugins.loads

Test ==
  /\ input # Nowhere /\ tested = "none"
  /\ tested' = IF CheckRun THEN "ok" ELSE "failed"
  /\ UNCHANGED <<input, proc, sockets, fallback, log>>

-----------------------------------------------------------------------------
(***************************************************************************)
(* main, in its order.  The file must be a regular one before it is read.  *)
(***************************************************************************)
LoadConfig ==
  /\ input # Nowhere /\ proc = Stage("down")
  /\ proc' = IF File.kind # "regular" THEN Exited("file")
             ELSE IF ~Loads(File, Env.dir) THEN Exited("config") ELSE Stage("loaded")
  /\ UNCHANGED <<input, tested, sockets, fallback, log>>

LoggingInit ==
  /\ proc = Stage("loaded")
  /\ proc' = IF Cfg.logfile = "bad" THEN Exited("log") ELSE Stage("logging")
  /\ log' = IF Cfg.logfile = "good" THEN "file" ELSE log
  /\ UNCHANGED <<input, tested, sockets, fallback>>

(***************************************************************************)
(* state::from_config: the upstreams' TLS material, then the plugins, then *)
(* the first snapshot with its prewarmed clients, whose constructor        *)
(* expects the server name to be one.                                      *)
(***************************************************************************)
TlsBuilds(t) == t.ca # "bad" /\ t.cert # "bad" /\ t.key # "bad"

BuildTlsPlans ==
  /\ proc = Stage("logging")
  /\ proc' = IF \A i \in DOMAIN Cfg.upstreams : \A t \in Cfg.upstreams[i].tls : TlsBuilds(t)
             THEN Stage("planned") ELSE Exited("upstream tls")
  /\ UNCHANGED <<input, tested, sockets, fallback, log>>

Bootstrap ==
  /\ proc = Stage("planned")
  /\ proc' = IF Cfg.plugins.loads THEN Stage("compiled") ELSE Exited("plugins")
  /\ UNCHANGED <<input, tested, sockets, fallback, log>>

\* A client is built for every peer; an upstream of endpoints has none at boot.
NameIsBad(u) == u.weights # <<>> /\ \E t \in u.tls : t.name = "not a server name"

ApplyRuntime ==
  /\ proc = Stage("compiled")
  /\ proc' = IF \E i \in DOMAIN Cfg.upstreams : NameIsBad(Cfg.upstreams[i])
             THEN [pc |-> "panicked", cause |-> "server name"] ELSE Stage("applied")
  /\ UNCHANGED <<input, tested, sockets, fallback, log>>

(***************************************************************************)
(* listeners::spawn: adopt all inherited sockets or bind one by one; with  *)
(* each socket the static pair of its listener is read, and replaces the   *)
(* resolver's fallback.  A failure drops the sockets taken so far.         *)
(***************************************************************************)
Adopt ==
  /\ proc = Stage("applied")
  /\ proc' = IF Activated /\ MatchPorts(Env.fds, Listeners) = <<>>
             THEN Exited("sockets") ELSE Stage("acquiring")
  /\ UNCHANGED <<input, tested, sockets, fallback, log>>

Acquire ==
  LET n == Len(sockets) + 1
      l == Listeners[n]
  IN  /\ proc = Stage("acquiring") /\ n <= Len(Listeners)
      /\ \/ /\ ~Activated /\ (l.addr \in Env.busy \/ l.addr \in ToSet(sockets))
            /\ proc' = Exited("sockets") /\ sockets' = <<>>
            /\ UNCHANGED fallback
         \/ /\ Activated \/ ~(l.addr \in Env.busy \/ l.addr \in ToSet(sockets))
            /\ IF ReadsStatic(l) /\ (l.cert = "bad" \/ l.key = "bad")
               THEN /\ proc' = Exited("static pair") /\ sockets' = <<>>
                    /\ UNCHANGED fallback
               ELSE /\ sockets' = Append(sockets, IF Activated
                                                  THEN Env.fds[MatchPorts(Env.fds, Listeners)[n]]
                                                  ELSE l.addr)
                    /\ fallback' = IF ReadsStatic(l) THEN n ELSE fallback
                    /\ UNCHANGED proc
      /\ UNCHANGED <<input, tested, log>>

Serve ==
  /\ proc = Stage("acquiring") /\ Len(sockets) = Len(Listeners)
  /\ proc' = Stage("serving")
  /\ UNCHANGED <<input, tested, sockets, fallback, log>>

(***************************************************************************)
(* SIGUSR1 reopens the path the log was opened with; the old file stays in *)
(* use when that fails, and there is nothing to reopen on stdout.          *)
(***************************************************************************)
Reopen ==
  /\ proc = Stage("serving")
  /\ log' \in IF log = "stdout" THEN {log} ELSE {log, "fresh file"}
  /\ UNCHANGED <<input, tested, proc, sockets, fallback>>

BootNext ==
  \/ ChooseFile \/ Test
  \/ LoadConfig \/ LoggingInit \/ BuildTlsPlans \/ Bootstrap \/ ApplyRuntime
  \/ Adopt \/ Acquire \/ Serve
  \/ Reopen

BootSpec == BootInit /\ [][BootNext]_bootVars

-----------------------------------------------------------------------------
Serving == proc.pc = "serving"

(***************************************************************************)
(* Every listener of the configuration accepts on a socket of its port, no *)
(* socket serves two of them, and activation leaves no inherited socket    *)
(* that nobody accepts on.                                                 *)
(***************************************************************************)
SocketsMatch ==
  /\ Len(sockets) = Len(Listeners) /\ Distinct(sockets)
  /\ \A i \in DOMAIN sockets : sockets[i][2] = Listeners[i].addr[2]
  /\ Activated => ToSet(sockets) = ToSet(Env.fds)

(***************************************************************************)
(* The admin plane is reachable, and apart from the data plane when the    *)
(* configuration gives it a listener of its own; a TLS listener has        *)
(* something to present, now or once the ingress plane has rendered.       *)
(***************************************************************************)
PlanesAreServed ==
  /\ \E i \in DOMAIN Listeners : CarriesAdmin(Listeners, i)
  /\ HasAdmin(Listeners) => \A i \in DOMAIN Listeners :
                              ~(CarriesAdmin(Listeners, i) /\ CarriesData(Listeners, i))
  /\ \A i \in DOMAIN Listeners :
       LoopOf(Listeners[i]) = "tls" => fallback # 0 \/ Cfg.ingress.enabled

(***************************************************************************)
(* openrusty -t and the boot sequence agree (check.rs run, main.rs main):  *)
(* a process serves only a file that passes the test, and one that passed  *)
(* keeps the process from serving only through what the test does not      *)
(* open: the log, certificates, the server name, sockets, or a path that   *)
(* is not a regular file.                                                  *)
(***************************************************************************)
Untested == {"none", "file", "log", "upstream tls", "server name", "sockets", "static pair"}

TestAgreesWithBoot ==
  /\ Serving => tested # "failed"
  /\ tested = "ok" => proc.cause \in Untested

(***************************************************************************)
(* Boot is all or nothing: what serves is the whole configuration, on the  *)
(* right sockets, and what failed holds no socket.                         *)
(***************************************************************************)
BootIsAllOrNothing ==
  /\ Serving => SocketsMatch /\ PlanesAreServed
  /\ proc.pc \in {"exited", "panicked"} => sockets = <<>>
  /\ TestAgreesWithBoot

(***************************************************************************)
(* client.rs build_tls_client expects a "validated server name": a         *)
(* configuration that passed validation never makes the process panic.     *)
(***************************************************************************)
ValidatedNamesDoNotPanic == proc.pc # "panicked"
=============================================================================
