------------------------------- MODULE Drain -------------------------------
(***************************************************************************)
(* Graceful shutdown: the three-phase sequence (shutdown.rs, main.rs), the *)
(* accept loops (h2c.rs, tls/accept.rs, transparent.rs) and the driver of  *)
(* each accepted connection (h2c.rs, drive).                               *)
(*                                                                         *)
(* All of them share one watch flag, which goes from FALSE to TRUE once,   *)
(* and one counter of accepted connections.  Every receiver of the flag is *)
(* cloned from one that has not consumed a change, so `changed` resolves   *)
(* exactly when the flag is set.  The sender lives as long as the process. *)
(*                                                                         *)
(* The process is gone once main has returned (pc "exited"): nothing runs  *)
(* any more and what is still open is cut.                                 *)
(***************************************************************************)
EXTENDS Naturals, FiniteSets

CONSTANTS
  Loop, \* accept tasks, one per listener
  Conn  \* connections the clients open over the life of the process

ASSUME DrainAssumption == IsFiniteSet(Loop) /\ IsFiniteSet(Conn)

VARIABLES
  flag,     \* the watch flag
  loop,     \* the state of each accept task
  conn,     \* the state of each connection
  inFlight, \* ShutdownSignal.in_flight
  ws,       \* connections upgraded to a WebSocket tunnel, which has its own task
  main,     \* the main task: its place, its mode and the report's numbers
  ended     \* history: connections that finished since at_signal was read

vars == <<flag, loop, conn, inFlight, ws, main, ended>>

(***************************************************************************)
(* A connection is set up (spawned, TLS handshake, protocol detection),    *)
(* then driven by hyper (idle or busy with a request) or tunnelled; when   *)
(* the task is through with it ("closing") it leaves the counter.  The     *)
(* connection of a task that panicked is "lost": closed, still counted.    *)
(* `shutting` is drive's local, `told` says hyper was asked to shut down.  *)
(***************************************************************************)
ConnPCs == {"none", "setup", "idle", "busy", "tunnel", "closing", "done", "lost"}

Fresh == [pc |-> "none", shutting |-> FALSE, told |-> FALSE]

MainPCs == {"serving", "load", "flip", "settle", "poll", "summary", "reported", "exited"}

TypeOK ==
  /\ flag \in BOOLEAN
  /\ loop \in [Loop -> {"start", "accept", "ended", "failed"}]
  /\ conn \in [Conn -> [pc : ConnPCs, shutting : BOOLEAN, told : BOOLEAN]]
  /\ inFlight \in Nat
  /\ ws \in SUBSET Conn
  /\ main \in [pc : MainPCs, fast : BOOLEAN, atSignal : Nat, timedOut : BOOLEAN,
               drained : Nat, forced : Nat, taskErrors : Nat]
  /\ ended \in SUBSET Conn

Init ==
  /\ flag = FALSE
  /\ loop = [l \in Loop |-> "start"]
  /\ conn = [c \in Conn |-> Fresh]
  /\ inFlight = 0
  /\ ws = {}
  /\ main = [pc |-> "serving", fast |-> FALSE, atSignal |-> 0, timedOut |-> FALSE,
             drained |-> 0, forced |-> 0, taskErrors |-> 0]
  /\ ended = {}

Running == main.pc # "exited"

Driven(c) == conn[c].pc \in {"idle", "busy"}
Open(c) == conn[c].pc \notin {"none", "done", "lost"}

(***************************************************************************)
(* serve_listener: the check before the loop, then the select over the     *)
(* flag and accept, both of which may be ready.                            *)
(***************************************************************************)
StartLoop(l) ==
  /\ Running /\ loop[l] = "start"
  /\ \/ loop' = [loop EXCEPT ![l] = IF flag THEN "ended" ELSE "accept"]
     \/ loop' = [loop EXCEPT ![l] = "failed"] \* local_addr
  /\ UNCHANGED <<flag, conn, inFlight, ws, main, ended>>

Accept(l, c) ==
  /\ Running /\ loop[l] = "accept" /\ conn[c].pc = "none"
  /\ inFlight' = inFlight + 1
  /\ conn' = [conn EXCEPT ![c].pc = "setup"]
  /\ UNCHANGED <<flag, loop, ws, main, ended>>

StopLoop(l) ==
  /\ Running /\ loop[l] = "accept" /\ flag
  /\ loop' = [loop EXCEPT ![l] = "ended"]
  /\ UNCHANGED <<flag, conn, inFlight, ws, main, ended>>

(***************************************************************************)
(* The connection task.                                                    *)
(***************************************************************************)
Goto(c, pc) ==
  /\ Running
  /\ conn' = [conn EXCEPT ![c].pc = pc]
  /\ UNCHANGED <<flag, loop, inFlight, main, ended>>

\* A failed handshake or detection, a rejected loop.
SetupFails(c) == conn[c].pc = "setup" /\ Goto(c, "closing") /\ UNCHANGED ws

\* drive samples the flag once, before its loop.
BeginDrive(c) ==
  /\ Running /\ conn[c].pc = "setup"
  /\ conn' = [conn EXCEPT ![c].pc = "idle", ![c].shutting = flag]
  /\ UNCHANGED <<flag, loop, inFlight, ws, main, ended>>

\* Mutation: the branch stops waiting for the flag and tells hyper nothing.
NoticeSilently(c) ==
  /\ Running /\ Driven(c) /\ ~conn[c].shutting /\ flag
  /\ conn' = [conn EXCEPT ![c].shutting = TRUE]
  /\ UNCHANGED <<flag, loop, inFlight, ws, main, ended>>

\* drive: the select's second branch, armed while not shutting.
Notice(c) ==
  /\ Running /\ Driven(c) /\ ~conn[c].shutting /\ flag
  /\ conn' = [conn EXCEPT ![c].shutting = TRUE, ![c].told = TRUE]
  /\ UNCHANGED <<flag, loop, inFlight, ws, main, ended>>

\* tunnel_to, for opaque bytes on a transparent listener.
BeginTunnel(c) == conn[c].pc = "setup" /\ Goto(c, "tunnel") /\ UNCHANGED ws

TunnelEnds(c) == conn[c].pc = "tunnel" /\ Goto(c, "closing") /\ UNCHANGED ws

\* hyper: a connection asked to shut down takes no further request and closes
\* when it is idle; otherwise the client decides.
Request(c) == conn[c].pc = "idle" /\ ~conn[c].told /\ Goto(c, "busy") /\ UNCHANGED ws

Respond(c) == conn[c].pc = "busy" /\ Goto(c, "idle") /\ UNCHANGED ws

CloseIdle(c) == conn[c].pc = "idle" /\ Goto(c, "closing") /\ UNCHANGED ws

\* The 101 answer ends the connection's future; the tunnel goes on elsewhere.
Upgrade(c) == conn[c].pc = "busy" /\ Goto(c, "closing") /\ ws' = ws \cup {c}

\* A handler panics: the task unwinds and never reaches its decrement.
Panic(c) == conn[c].pc = "busy" /\ Goto(c, "lost") /\ UNCHANGED ws

WsEnds(c) ==
  /\ Running /\ c \in ws
  /\ ws' = ws \ {c}
  /\ UNCHANGED <<flag, loop, conn, inFlight, main, ended>>

\* The end of the spawned task.
Finish(c) ==
  /\ Running /\ conn[c].pc = "closing"
  /\ conn' = [conn EXCEPT ![c].pc = "done"]
  /\ inFlight' = inFlight - 1
  /\ ended' = IF main.pc \in {"serving", "load"} THEN ended ELSE ended \cup {c}
  /\ UNCHANGED <<flag, loop, ws, main>>

(***************************************************************************)
(* The triggers: the admin endpoint sets the flag while it serves a        *)
(* request; main wakes on a signal or on the flag.                         *)
(***************************************************************************)
ShutdownEndpoint(c) ==
  /\ Running /\ conn[c].pc = "busy"
  /\ flag' = TRUE
  /\ UNCHANGED <<loop, conn, inFlight, ws, main, ended>>

Trigger(fast) ==
  /\ main.pc = "serving"
  /\ main' = [main EXCEPT !.pc = "load", !.fast = fast]
  /\ UNCHANGED <<flag, loop, conn, inFlight, ws, ended>>

WakeOnFlag == flag /\ Trigger(FALSE)

(***************************************************************************)
(* run and run_fast.                                                       *)
(***************************************************************************)
LoadAtSignal ==
  /\ main.pc = "load"
  /\ main' = [main EXCEPT !.pc = "flip", !.atSignal = inFlight]
  /\ UNCHANGED <<flag, loop, conn, inFlight, ws, ended>>

Flip ==
  /\ main.pc = "flip"
  /\ flag' = TRUE
  /\ main' = [main EXCEPT !.pc = "settle"]
  /\ UNCHANGED <<loop, conn, inFlight, ws, ended>>

\* Mutation: the accept tasks are not awaited.
SettleAtOnce ==
  /\ main.pc = "settle"
  /\ main' = [main EXCEPT !.pc = IF main.fast THEN "summary" ELSE "poll",
                          !.taskErrors = Cardinality({l \in Loop : loop[l] = "failed"})]
  /\ UNCHANGED <<flag, loop, conn, inFlight, ws, ended>>

\* Every accept task is awaited; run goes on to until_drained.
Settle ==
  /\ main.pc = "settle"
  /\ \A l \in Loop : loop[l] \in {"ended", "failed"}
  /\ main' = [main EXCEPT !.pc = IF main.fast THEN "summary" ELSE "poll",
                          !.taskErrors = Cardinality({l \in Loop : loop[l] = "failed"})]
  /\ UNCHANGED <<flag, loop, conn, inFlight, ws, ended>>

PollZero ==
  /\ main.pc = "poll" /\ inFlight = 0
  /\ main' = [main EXCEPT !.pc = "summary"]
  /\ UNCHANGED <<flag, loop, conn, inFlight, ws, ended>>

\* The wait may be cut short after any of the accept tasks that have ended.
ErrorsSoFar ==
  IF main.pc = "poll" THEN {main.taskErrors} ELSE 0 .. Cardinality({l \in Loop : loop[l] = "failed"})

\* Mutation: the timeout covers the accept tasks only.
GraceExpiresInSettle ==
  /\ main.pc = "settle" /\ ~main.fast
  /\ \E n \in ErrorsSoFar : main' = [main EXCEPT !.pc = "summary", !.timedOut = TRUE,
                                               !.taskErrors = n]
  /\ UNCHANGED <<flag, loop, conn, inFlight, ws, ended>>

GraceExpires ==
  /\ main.pc \in {"settle", "poll"} /\ ~main.fast
  /\ \E n \in ErrorsSoFar : main' = [main EXCEPT !.pc = "summary", !.timedOut = TRUE,
                                               !.taskErrors = n]
  /\ UNCHANGED <<flag, loop, conn, inFlight, ws, ended>>

SaturatingSub(m, n) == IF n > m THEN 0 ELSE m - n

\* Mutation: the remaining connections are not subtracted.
SummaryOfAll ==
  /\ main.pc = "summary"
  /\ main' = [main EXCEPT !.pc = "reported", !.drained = main.atSignal,
                          !.forced = IF main.fast \/ main.timedOut THEN inFlight ELSE 0]
  /\ UNCHANGED <<flag, loop, conn, inFlight, ws, ended>>

Summary ==
  /\ main.pc = "summary"
  /\ main' = [main EXCEPT !.pc = "reported",
                          !.drained = SaturatingSub(main.atSignal, inFlight),
                          !.forced = IF main.fast \/ main.timedOut THEN inFlight ELSE 0]
  /\ UNCHANGED <<flag, loop, conn, inFlight, ws, ended>>

Exit ==
  /\ main.pc = "reported"
  /\ main' = [main EXCEPT !.pc = "exited"]
  /\ UNCHANGED <<flag, loop, conn, inFlight, ws, ended>>

LoopNext(l) == StartLoop(l) \/ StopLoop(l) \/ \E c \in Conn : Accept(l, c)

ConnNext(c) ==
  \/ SetupFails(c) \/ BeginDrive(c) \/ BeginTunnel(c) \/ TunnelEnds(c)
  \/ Notice(c) \/ Request(c) \/ Respond(c) \/ CloseIdle(c) \/ Upgrade(c) \/ WsEnds(c) \/ Panic(c)
  \/ ShutdownEndpoint(c) \/ Finish(c)

MainRun == LoadAtSignal \/ Flip \/ Settle \/ PollZero \/ Summary \/ Exit

MainNext == (\E fast \in BOOLEAN : Trigger(fast)) \/ WakeOnFlag \/ MainRun \/ GraceExpires

Next == (\E l \in Loop : LoopNext(l)) \/ (\E c \in Conn : ConnNext(c)) \/ MainNext

(***************************************************************************)
(* Fairness: the runtime polls every task that is ready (accept loops,     *)
(* connection tasks, main).  Nothing is assumed of the clients and the     *)
(* upstreams: a request may never be answered, an idle connection that was *)
(* not asked to shut down may stay for ever.  The grace may be arbitrarily *)
(* long; where a property needs it to expire it says so (GraceIsFinite).   *)
(***************************************************************************)
Fairness ==
  /\ \A l \in Loop : WF_vars(StartLoop(l)) /\ WF_vars(StopLoop(l))
  /\ \A c \in Conn : WF_vars(Notice(c)) /\ WF_vars(Finish(c))
  /\ \A c \in Conn : WF_vars(conn[c].told /\ CloseIdle(c))
  /\ WF_vars(WakeOnFlag) /\ WF_vars(MainRun)

GraceIsFinite == WF_vars(GraceExpires)

Spec == Init /\ [][Next]_vars /\ Fairness

-----------------------------------------------------------------------------
(***************************************************************************)
(* A shutdown whose grace did not expire cuts nothing off (run): when main *)
(* stops waiting, no accepted connection is left, and none can come after  *)
(* the counter was read, although loops and connection tasks end on their  *)
(* own.  WebSocket tunnels are not counted and are cut.                    *)
(***************************************************************************)
CleanExitCutsNothing ==
  main.pc \in {"summary", "reported", "exited"} /\ ~main.fast /\ ~main.timedOut
    => \A c \in Conn : ~Open(c)

(***************************************************************************)
(* The report never claims a drained connection that was not (drained is   *)
(* at_signal less the remaining ones): it is at most the number of         *)
(* connections that finished since the signal, whichever were accepted in  *)
(* between.                                                                *)
(***************************************************************************)
ReportNeverOverstates ==
  main.pc \in {"reported", "exited"} => main.drained <= Cardinality(ended)

(***************************************************************************)
(* A connection that was being driven when the flag was set is asked to    *)
(* shut down or ends (drive), however long the grace: only the end of the  *)
(* process can come first.                                                 *)
(***************************************************************************)
DrivenAreTold ==
  \A c \in Conn :
    (flag /\ Driven(c) /\ ~conn[c].shutting)
      ~> (conn[c].told \/ ~Driven(c) \/ main.fast \/ main.timedOut)

(***************************************************************************)
(* Every trigger ends the process (run, run_fast): by signal or by the     *)
(* endpoint, gracefully or fast, with clients that never leave and         *)
(* upstreams that never answer.                                            *)
(***************************************************************************)
ShutdownCompletes == GraceIsFinite => ((flag \/ main.pc # "serving") ~> ~Running)

(***************************************************************************)
(* drive's comment (h2c.rs, "A signal that fired before the connection     *)
(* even started drains it right away"): a driver that knows of the         *)
(* shutdown has asked its connection to shut down.                         *)
(***************************************************************************)
EarlySignalDrains == \A c \in Conn : Driven(c) /\ conn[c].shutting => conn[c].told
=============================================================================
