--------------------------- MODULE ProcessProofs ----------------------------
(***************************************************************************)
(* The life of a proxy process, for every number of listeners, connections *)
(* and clients and every configuration.                                    *)
(* Drain: the types, and the two promises of a graceful shutdown. Both     *)
(* rest on the counter: it is the number of the connections that were      *)
(* accepted and whose task has not reached its decrement. Startup: a start *)
(* is all or nothing. Sidecar: the nat table is safe at every moment.      *)
(* AdminPlane: the fence before the admin handlers. Intercept: detection   *)
(* and routing of hijacked connections.                                    *)
(***************************************************************************)
EXTENDS Drain, Startup, Sidecar, AdminPlane, Intercept, SequenceTheorems, FiniteSetTheorems,
        WellFoundedInduction, TLAPS

Counted == {c \in Conn : conn[c].pc \notin {"none", "done"}}

CounterOK == inFlight = Cardinality(Counted)

(***************************************************************************)
(* Main is past the wait for the accept tasks and was not cut short.       *)
(***************************************************************************)
Clean == ~main.fast /\ ~main.timedOut

LoopsOK ==
  main.pc = "poll" \/ (main.pc \in {"summary", "reported", "exited"} /\ Clean)
    => \A l \in Loop : loop[l] \in {"ended", "failed"}

DrainedOK ==
  main.pc \in {"summary", "reported", "exited"} /\ Clean => Counted = {}

(***************************************************************************)
(* What at_signal counted is still counted or has ended since.             *)
(***************************************************************************)
EndedOK ==
  /\ \A c \in ended : conn[c].pc = "done"
  /\ main.pc \notin {"serving", "load"} => main.atSignal <= inFlight + Cardinality(ended)

Inv == TypeOK /\ CounterOK /\ LoopsOK /\ DrainedOK /\ EndedOK /\ ReportNeverOverstates

(***************************************************************************)
(* Sets of connections and of listeners have a size.                       *)
(***************************************************************************)
LEMMA Sizes ==
  /\ \A S \in SUBSET Conn : IsFiniteSet(S) /\ Cardinality(S) \in Nat
  /\ \A S \in SUBSET Loop : IsFiniteSet(S) /\ Cardinality(S) \in Nat
BY DrainAssumption, FS_Subset, FS_CardinalityType

(***************************************************************************)
(* How the step of one connection's task moves the counted connections.    *)
(***************************************************************************)
LEMMA CountedChange ==
  ASSUME TypeOK, NEW c \in Conn, NEW r \in [pc : ConnPCs, shutting : BOOLEAN, told : BOOLEAN],
         conn' = [conn EXCEPT ![c] = r]
  PROVE  /\ conn' \in [Conn -> [pc : ConnPCs, shutting : BOOLEAN, told : BOOLEAN]]
         /\ Counted' = IF r.pc \in {"none", "done"} THEN Counted \ {c} ELSE Counted \cup {c}
BY DEF TypeOK, Counted

LEMMA InitInv == Init => Inv
<1> SUFFICES ASSUME Init PROVE Inv
  OBVIOUS
<1>1. Counted = {}
  BY DEF Init, Counted, Fresh
<1>2. TypeOK
  BY DEF Init, TypeOK, Fresh, ConnPCs, MainPCs
<1> QED
  BY <1>1, <1>2, FS_EmptySet
  DEF Init, Inv, CounterOK, LoopsOK, DrainedOK, EndedOK, ReportNeverOverstates

(***************************************************************************)
(* An accept task starts or stops.                                         *)
(***************************************************************************)
LEMMA LoopStep ==
  ASSUME Inv, NEW l \in Loop, StartLoop(l) \/ StopLoop(l)
  PROVE  Inv'
<1>1. Counted' = Counted
  BY DEF Counted, StartLoop, StopLoop
<1>2. TypeOK'
  BY DEF Inv, TypeOK, StartLoop, StopLoop
<1>3. LoopsOK'
  BY DEF Inv, TypeOK, LoopsOK, Clean, StartLoop, StopLoop
<1> QED
  BY <1>1, <1>2, <1>3
  DEF Inv, CounterOK, DrainedOK, Clean, EndedOK, ReportNeverOverstates, StartLoop, StopLoop

(***************************************************************************)
(* A connection is accepted: a task still accepts, so main still waits.    *)
(***************************************************************************)
LEMMA AcceptStep ==
  ASSUME Inv, NEW l \in Loop, NEW c \in Conn, Accept(l, c)
  PROVE  Inv'
<1> DEFINE r == [conn[c] EXCEPT !.pc = "setup"]
<1>1. r \in [pc : ConnPCs, shutting : BOOLEAN, told : BOOLEAN] /\ r.pc = "setup"
  BY DEF Inv, TypeOK, ConnPCs
<1>2. conn' = [conn EXCEPT ![c] = r]
  BY DEF Accept, Inv, TypeOK
<1>3. Counted' = Counted \cup {c} /\ conn' \in [Conn -> [pc : ConnPCs, shutting : BOOLEAN, told : BOOLEAN]]
  BY <1>1, <1>2, CountedChange DEF Inv
<1>4. c \notin Counted /\ Counted \in SUBSET Conn
  BY DEF Counted, Accept
<1>5. CounterOK'
  BY <1>3, <1>4, Sizes, FS_AddElement DEF Inv, CounterOK, Accept
<1>6. TypeOK'
  BY <1>3 DEF Inv, TypeOK, Accept
<1>7. ~(main.pc = "poll" \/ (main.pc \in {"summary", "reported", "exited"} /\ Clean))
  BY DEF Inv, LoopsOK, Accept
<1>8. LoopsOK' /\ DrainedOK'
  BY <1>7 DEF LoopsOK, DrainedOK, Clean, Accept
<1>9. EndedOK'
  <2>1. \A x \in ended : x # c /\ conn'[x] = conn[x]
    BY DEF Inv, EndedOK, Accept, TypeOK
  <2>2. Cardinality(ended) \in Nat
    BY Sizes DEF Inv, TypeOK
  <2> QED
    BY <2>1, <2>2 DEF Inv, EndedOK, TypeOK, Accept
<1> QED
  BY <1>5, <1>6, <1>8, <1>9 DEF Inv, ReportNeverOverstates, Accept

(***************************************************************************)
(* A counted connection goes on and stays counted, whatever its task does. *)
(***************************************************************************)
LEMMA ConnStep ==
  ASSUME Inv, NEW c \in Conn, NEW r \in [pc : ConnPCs, shutting : BOOLEAN, told : BOOLEAN],
         conn[c].pc \notin {"none", "done"}, r.pc \notin {"none", "done"},
         conn' = [conn EXCEPT ![c] = r],
         flag' \in BOOLEAN, ws' \in SUBSET Conn,
         UNCHANGED <<loop, inFlight, main, ended>>
  PROVE  Inv'
<1>1. Counted' = Counted
  BY CountedChange DEF Inv, Counted
<1>2. TypeOK'
  BY CountedChange DEF Inv, TypeOK
<1>3. \A x \in ended : x # c /\ conn'[x] = conn[x]
  BY DEF Inv, EndedOK, TypeOK
<1> QED
  BY <1>1, <1>2, <1>3
  DEF Inv, CounterOK, LoopsOK, DrainedOK, Clean, EndedOK, ReportNeverOverstates

(***************************************************************************)
(* The task of a connection ends: it leaves the counter and, once          *)
(* at_signal was read, joins the ended.                                    *)
(***************************************************************************)
LEMMA FinishStep ==
  ASSUME Inv, NEW c \in Conn, Finish(c)
  PROVE  Inv'
<1> DEFINE r == [conn[c] EXCEPT !.pc = "done"]
<1>1. r \in [pc : ConnPCs, shutting : BOOLEAN, told : BOOLEAN] /\ r.pc = "done"
  BY DEF Inv, TypeOK, ConnPCs
<1>2. conn' = [conn EXCEPT ![c] = r]
  BY DEF Finish, Inv, TypeOK
<1>3. Counted' = Counted \ {c} /\ conn' \in [Conn -> [pc : ConnPCs, shutting : BOOLEAN, told : BOOLEAN]]
  BY <1>1, <1>2, CountedChange DEF Inv
<1>4. c \in Counted /\ Counted \in SUBSET Conn
  BY DEF Counted, Finish
<1>5. inFlight \in Nat /\ inFlight > 0
  BY <1>4, Sizes, FS_EmptySet DEF Inv, CounterOK
<1>6. CounterOK'
  BY <1>3, <1>4, Sizes, FS_RemoveElement DEF Inv, CounterOK, Finish
<1>7. TypeOK'
  BY <1>3, <1>5 DEF Inv, TypeOK, Finish
<1>8. c \notin ended /\ ended \in SUBSET Conn
  BY DEF Inv, EndedOK, Finish, TypeOK
<1>9. /\ Cardinality(ended) \in Nat /\ Cardinality(ended') \in Nat
      /\ Cardinality(ended) <= Cardinality(ended')
      /\ main.pc \notin {"serving", "load"} => Cardinality(ended') = Cardinality(ended) + 1
  BY <1>8, Sizes, FS_AddElement DEF Finish
<1>10. EndedOK'
  <2>1. \A x \in ended' : conn'[x].pc = "done"
    BY <1>1, <1>2, <1>8 DEF Inv, EndedOK, TypeOK, Finish
  <2>2. main.pc \notin {"serving", "load"} => main.atSignal <= inFlight' + Cardinality(ended')
    BY <1>5, <1>9 DEF Inv, EndedOK, TypeOK, Finish
  <2> QED
    BY <2>1, <2>2 DEF EndedOK, Finish
<1>11. ReportNeverOverstates'
  BY <1>9 DEF Inv, TypeOK, ReportNeverOverstates, Finish
<1> QED
  BY <1>3, <1>6, <1>7, <1>10, <1>11 DEF Inv, LoopsOK, DrainedOK, Clean, Finish

(***************************************************************************)
(* Main: the counter is read, the flag set, the accept tasks awaited, the  *)
(* counter polled, the report made.                                        *)
(***************************************************************************)
LEMMA MainStep ==
  ASSUME Inv, MainNext
  PROVE  Inv'
<1>1. Counted' = Counted /\ Cardinality(ended) \in Nat
  BY Sizes DEF Counted, Inv, TypeOK, MainNext, MainRun, Trigger, WakeOnFlag, LoadAtSignal, Flip, Settle, PollZero,
     Summary, Exit, GraceExpires
<1>2. Cardinality({l \in Loop : loop[l] = "failed"}) \in Nat
  BY Sizes
<1>3. CounterOK'
  BY <1>1 DEF Inv, CounterOK, MainNext, MainRun, Trigger, WakeOnFlag, LoadAtSignal, Flip, Settle,
     PollZero, Summary, Exit, GraceExpires
<1>4. CASE \E fast \in BOOLEAN : Trigger(fast)
  BY <1>1, <1>3, <1>4 DEF Inv, TypeOK, MainPCs, LoopsOK, DrainedOK, Clean, EndedOK, ReportNeverOverstates, Trigger
<1>5. CASE LoadAtSignal
  <2>1. main' = [main EXCEPT !.pc = "flip", !.atSignal = inFlight]
    BY <1>5 DEF LoadAtSignal
  <2>2. main'.pc = "flip" /\ main'.atSignal = inFlight
    BY <2>1 DEF Inv, TypeOK
  <2>3. TypeOK'
    BY <1>5, <2>1 DEF Inv, TypeOK, MainPCs, LoadAtSignal
  <2>4. EndedOK'
    BY <1>1, <1>5, <2>2 DEF Inv, TypeOK, EndedOK, LoadAtSignal
  <2> QED
    BY <1>3, <2>2, <2>3, <2>4 DEF Inv, LoopsOK, DrainedOK, ReportNeverOverstates
<1>6. CASE Flip
  BY <1>1, <1>3, <1>6 DEF Inv, TypeOK, MainPCs, LoopsOK, DrainedOK, Clean, EndedOK, ReportNeverOverstates, Flip
<1>7. CASE Settle
  BY <1>1, <1>2, <1>3, <1>7
  DEF Inv, TypeOK, MainPCs, LoopsOK, DrainedOK, Clean, EndedOK, ReportNeverOverstates, Settle
<1>8. CASE PollZero
  <2>1. Counted = {}
    BY <1>8, Sizes, FS_EmptySet DEF Inv, CounterOK, Counted, PollZero
  <2> QED
    BY <1>1, <1>3, <1>8, <2>1
    DEF Inv, TypeOK, MainPCs, LoopsOK, DrainedOK, Clean, EndedOK, ReportNeverOverstates, PollZero
<1>9. CASE Summary
  <2> DEFINE drained == SaturatingSub(main.atSignal, inFlight)
             forced == IF main.fast \/ main.timedOut THEN inFlight ELSE 0
  <2>1. main.atSignal \in Nat /\ inFlight \in Nat /\ main.atSignal <= inFlight + Cardinality(ended)
    BY <1>9 DEF Inv, TypeOK, EndedOK, Summary
  <2>2. drained \in Nat /\ forced \in Nat /\ drained <= Cardinality(ended)
    BY <1>1, <2>1 DEF SaturatingSub
  <2>3. main' = [main EXCEPT !.pc = "reported", !.drained = drained, !.forced = forced]
    BY <1>9 DEF Summary
  <2> HIDE DEF drained, forced
  <2>4. /\ main'.pc = "reported" /\ main'.drained = drained /\ main'.atSignal = main.atSignal
        /\ main'.fast = main.fast /\ main'.timedOut = main.timedOut
    BY <2>3 DEF Inv, TypeOK
  <2>5. TypeOK'
    BY <1>9, <2>2, <2>3 DEF Inv, TypeOK, MainPCs, Summary
  <2>6. EndedOK' /\ ReportNeverOverstates'
    BY <1>9, <2>1, <2>2, <2>4 DEF Inv, EndedOK, ReportNeverOverstates, Summary
  <2> QED
    BY <1>1, <1>3, <1>9, <2>4, <2>5, <2>6 DEF Inv, LoopsOK, DrainedOK, Clean, Summary
<1>10. CASE Exit
  BY <1>1, <1>3, <1>10 DEF Inv, TypeOK, MainPCs, LoopsOK, DrainedOK, Clean, EndedOK, ReportNeverOverstates, Exit
<1>11. CASE GraceExpires
  <2>1. PICK n \in ErrorsSoFar :
          main' = [main EXCEPT !.pc = "summary", !.timedOut = TRUE, !.taskErrors = n]
    BY <1>11 DEF GraceExpires
  <2>2. n \in Nat
    BY <1>2, <2>1 DEF ErrorsSoFar, Inv, TypeOK
  <2> QED
    BY <1>1, <1>3, <1>11, <2>1, <2>2
    DEF Inv, TypeOK, MainPCs, LoopsOK, DrainedOK, Clean, EndedOK, ReportNeverOverstates, GraceExpires
<1> QED
  BY <1>4, <1>5, <1>6, <1>7, <1>8, <1>9, <1>10, <1>11 DEF MainNext, MainRun, WakeOnFlag

LEMMA NextInv ==
  ASSUME Inv, [Next]_vars
  PROVE  Inv'
<1>1. ASSUME NEW l \in Loop, LoopNext(l) PROVE Inv'
  BY <1>1, LoopStep, AcceptStep DEF LoopNext
<1>2. ASSUME NEW c \in Conn, ConnNext(c) PROVE Inv'
  <2> DEFINE R == [pc : ConnPCs, shutting : BOOLEAN, told : BOOLEAN]
  <2>1. conn[c] \in R /\ conn \in [Conn -> R] /\ flag \in BOOLEAN /\ ws \in SUBSET Conn
    BY DEF Inv, TypeOK
  <2>2. ASSUME NEW p \in ConnPCs \ {"none", "done"}, Goto(c, p), ws' \in SUBSET Conn,
               conn[c].pc \notin {"none", "done"}
        PROVE  Inv'
    <3>1. [conn[c] EXCEPT !.pc = p] \in R /\ [conn[c] EXCEPT !.pc = p].pc = p
      BY <2>1
    <3>2. conn' = [conn EXCEPT ![c] = [conn[c] EXCEPT !.pc = p]]
      BY <2>1, <2>2 DEF Goto
    <3> QED
      BY <2>1, <2>2, <3>1, <3>2, ConnStep DEF Goto
  <2>3. CASE SetupFails(c) \/ BeginTunnel(c) \/ TunnelEnds(c) \/ Request(c) \/ Respond(c)
             \/ CloseIdle(c) \/ Panic(c)
    BY <2>1, <2>2, <2>3
    DEF SetupFails, BeginTunnel, TunnelEnds, Request, Respond, CloseIdle, Panic, ConnPCs
  <2>4. CASE Upgrade(c)
    BY <2>1, <2>2, <2>4 DEF Upgrade, ConnPCs
  <2>5. CASE BeginDrive(c)
    <3> DEFINE r == [conn[c] EXCEPT !.pc = "idle", !.shutting = flag]
    <3>1. r \in R /\ r.pc = "idle"
      BY <2>1 DEF ConnPCs
    <3>2. conn' = [conn EXCEPT ![c] = r]
      BY <2>1, <2>5 DEF BeginDrive
    <3>3. conn[c].pc \notin {"none", "done"} /\ UNCHANGED <<loop, inFlight, main, ended>>
      BY <2>5 DEF BeginDrive
    <3>4. flag' \in BOOLEAN /\ ws' \in SUBSET Conn
      BY <2>1, <2>5 DEF BeginDrive, Inv, TypeOK
    <3> HIDE DEF r
    <3> QED
      BY <3>1, <3>2, <3>3, <3>4, ConnStep
  <2>6. CASE Notice(c)
    <3> DEFINE r == [conn[c] EXCEPT !.shutting = TRUE, !.told = TRUE]
    <3>1. r \in R /\ r.pc = conn[c].pc
      BY <2>1
    <3>2. conn' = [conn EXCEPT ![c] = r]
      BY <2>1, <2>6 DEF Notice
    <3> QED
      BY <2>1, <2>6, <3>1, <3>2, ConnStep DEF Notice, Driven
  <2>7. CASE WsEnds(c) \/ ShutdownEndpoint(c)
    <3>1. Counted' = Counted
      BY <2>7 DEF Counted, WsEnds, ShutdownEndpoint
    <3>2. TypeOK'
      BY <2>7 DEF Inv, TypeOK, WsEnds, ShutdownEndpoint
    <3> QED
      BY <2>7, <3>1, <3>2
      DEF Inv, CounterOK, LoopsOK, DrainedOK, Clean, EndedOK, ReportNeverOverstates, WsEnds, ShutdownEndpoint
  <2> QED
    BY <1>2, <2>3, <2>4, <2>5, <2>6, <2>7, FinishStep DEF ConnNext
<1>3. CASE UNCHANGED vars
  <2>1. Counted' = Counted
    BY <1>3 DEF Counted, vars
  <2> QED
    BY <1>3, <2>1
    DEF vars, Inv, TypeOK, CounterOK, LoopsOK, DrainedOK, Clean, EndedOK, ReportNeverOverstates
<1> QED
  BY <1>1, <1>2, <1>3, MainStep DEF Next

(***************************************************************************)
(* The invariant holds throughout.                                         *)
(***************************************************************************)
THEOREM InvHolds == Spec => []Inv
<1>1. Inv /\ [Next]_vars => Inv'
  BY NextInv
<1> QED
  BY InitInv, <1>1, PTL DEF Spec

(***************************************************************************)
(* Types of the drain: the counter of accepted connections never           *)
(* underflows (fetch_sub at the end of every connection task).             *)
(***************************************************************************)
THEOREM TypeCorrect == Spec => []TypeOK
<1>1. Inv => TypeOK
  BY DEF Inv
<1> QED
  BY InvHolds, <1>1, PTL

(***************************************************************************)
(* A graceful shutdown within its grace leaves no connection open (run,    *)
(* until_drained), for every number of listeners and connections.          *)
(***************************************************************************)
THEOREM NothingIsCut == Spec => []CleanExitCutsNothing
<1>1. Inv => CleanExitCutsNothing
  BY DEF Inv, DrainedOK, Clean, Counted, CleanExitCutsNothing, Open
<1> QED
  BY InvHolds, <1>1, PTL

(***************************************************************************)
(* The report's drained count is covered by connections that finished      *)
(* after the signal (run, summary).                                        *)
(***************************************************************************)
THEOREM ReportIsHonest == Spec => []ReportNeverOverstates
<1>1. Inv => ReportNeverOverstates
  BY DEF Inv
<1> QED
  BY InvHolds, <1>1, PTL

-----------------------------------------------------------------------------
LessThan == {ss \in Nat \X Nat : ss[1] < ss[2]}

\* A set of natural numbers that is not empty has a least element.
LEMMA SmallestElement ==
  ASSUME NEW S, S \subseteq Nat, S # {}
  PROVE  \E x \in S : \A y \in S : x <= y
<1>1. IsWellFoundedOn(LessThan, Nat)
  BY NatLessThanWellFounded, Zenon DEF OpToRel, LessThan
<1>2. PICK x \in S : \A y \in S : ~ (<<y, x>> \in LessThan)
  BY <1>1, WFMin, Zenon
<1>3. \A y \in S : ~(y < x)
  BY <1>2 DEF LessThan
<1>4. \A y \in S : x <= y
  BY <1>3
<1> QED
  BY <1>4

(***************************************************************************)
(* Startup.  match_ports first: the pairing exists, so that what CHOOSE    *)
(* names is one, and it is a permutation.                                  *)
(***************************************************************************)
LEMMA FirstFreeIsFree ==
  ASSUME NEW fds \in Seq(Descriptors), NEW used, NEW port
  PROVE  /\ FirstFree(fds, used, port) \in 0..Len(fds)
         /\ LET i == FirstFree(fds, used, port)
            IN  i # 0 => i \in DOMAIN fds /\ i \notin used /\ fds[i][2] = port
<1>1. PICK free : free = {i \in DOMAIN fds : i \notin used /\ fds[i][2] = port}
  OBVIOUS
<1>2. DOMAIN fds = 1..Len(fds) /\ Len(fds) \in Nat
  OBVIOUS
<1>3. CASE free = {}
  <2>1. FirstFree(fds, used, port) = 0
    BY <1>1, <1>3 DEF FirstFree
  <2> QED
    BY <1>2, <2>1
<1>4. CASE free # {}
  <2>1. PICK x : x = CHOOSE i \in free : \A j \in free : i <= j
    OBVIOUS
  <2>2. \E i \in free : \A j \in free : i <= j
    BY <1>1, <1>2, <1>4, SmallestElement
  <2>3. x \in free
    BY <2>1, <2>2
  <2>4. FirstFree(fds, used, port) = x
    BY <1>1, <1>4, <2>1 DEF FirstFree
  <2> QED
    BY <1>1, <1>2, <2>3, <2>4
<1> QED
  BY <1>3, <1>4

Paired(fds, ls, o, n) ==
  \A i \in 1..n : o[i] = FirstFree(fds, {o[j] : j \in 1..i - 1}, ls[i].addr[2])

LEMMA PairingGrows ==
  ASSUME NEW fds \in Seq(Descriptors), NEW ls, NEW n \in Nat,
         NEW o \in [1..n -> 0..Len(fds)], Paired(fds, ls, o, n)
  PROVE  \E q \in [1..n + 1 -> 0..Len(fds)] : Paired(fds, ls, q, n + 1)
<1>1. PICK x : x = FirstFree(fds, {o[j] : j \in 1..n}, ls[n + 1].addr[2])
  OBVIOUS
<1>2. x \in 0..Len(fds)
  BY <1>1, FirstFreeIsFree
<1>3. PICK q : q = [i \in 1..n + 1 |-> IF i = n + 1 THEN x ELSE o[i]]
  OBVIOUS
<1>4. q \in [1..n + 1 -> 0..Len(fds)]
  BY <1>2, <1>3
<1>5. ASSUME NEW i \in 1..n + 1
      PROVE  q[i] = FirstFree(fds, {q[j] : j \in 1..i - 1}, ls[i].addr[2])
  <2>1. \A j \in 1..i - 1 : q[j] = o[j]
    BY <1>3
  <2>2. {q[j] : j \in 1..i - 1} = {o[j] : j \in 1..i - 1}
    BY <2>1
  <2>3. CASE i = n + 1
    <3>1. q[i] = x /\ i - 1 = n
      BY <1>3, <2>3
    <3> QED
      BY <1>1, <2>2, <2>3, <3>1
  <2>4. CASE i # n + 1
    <3>1. i \in 1..n /\ q[i] = o[i]
      BY <1>3, <2>4
    <3> QED
      BY <2>2, <3>1 DEF Paired
  <2> QED
    BY <2>3, <2>4
<1> QED
  BY <1>4, <1>5 DEF Paired

LEMMA PairingExists ==
  ASSUME NEW fds \in Seq(Descriptors), NEW ls, NEW n \in Nat
  PROVE  \E o \in [1..n -> 0..Len(fds)] : Paired(fds, ls, o, n)
<1>1. PICK S : S = {k \in Nat : ~\E o \in [1..k -> 0..Len(fds)] : Paired(fds, ls, o, k)}
  OBVIOUS
<1>2. ASSUME S # {} PROVE FALSE
  <2>1. PICK k \in S : \A y \in S : k <= y
    BY <1>1, <1>2, SmallestElement
  <2>2. k \in Nat /\ ~\E o \in [1..k -> 0..Len(fds)] : Paired(fds, ls, o, k)
    BY <1>1
  <2>3. CASE k = 0
    <3>1. PICK o : o = [i \in 1..0 |-> 0]
      OBVIOUS
    <3>2. o \in [1..0 -> 0..Len(fds)] /\ Paired(fds, ls, o, 0)
      BY <3>1 DEF Paired
    <3> QED
      BY <2>2, <2>3, <3>2
  <2>4. CASE k # 0
    <3>1. PICK m \in Nat : k = m + 1
      <4>1. k - 1 \in Nat /\ k = (k - 1) + 1
        BY <2>2, <2>4
      <4> QED
        BY <4>1
    <3>2. m \notin S
      BY <2>1, <3>1
    <3>3. PICK o \in [1..m -> 0..Len(fds)] : Paired(fds, ls, o, m)
      BY <1>1, <3>2
    <3> QED
      BY <2>2, <3>1, <3>3, PairingGrows
  <2> QED
    BY <2>3, <2>4
<1> QED
  BY <1>1, <1>2

\* match_ports returns a permutation: every listener has an inherited socket of
\* its port to itself, and every inherited socket a listener.
LEMMA MatchPortsIsPermutation ==
  ASSUME NEW fds \in Seq(Descriptors), NEW ls, Len(ls) \in Nat,
         NEW order, order = MatchPorts(fds, ls), order # <<>>
  PROVE  /\ order \in [1..Len(ls) -> DOMAIN fds]
         /\ \A i, j \in 1..Len(ls) : order[i] = order[j] => i = j
         /\ \A i \in 1..Len(ls) : fds[order[i]][2] = ls[i].addr[2]
         /\ \A x \in DOMAIN fds : \E i \in 1..Len(ls) : order[i] = x
<1>1. PICK n, o : n = Len(ls) /\ o = Pairing(fds, ls)
  OBVIOUS
<1>2. o \in [1..n -> 0..Len(fds)] /\ Paired(fds, ls, o, n)
  <2>1. \E q \in [1..n -> 0..Len(fds)] : Paired(fds, ls, q, n)
    BY <1>1, PairingExists
  <2>2. \E q \in [1..Len(ls) -> 0..Len(fds)] :
          \A i \in 1..Len(ls) : q[i] = FirstFree(fds, {q[j] : j \in 1..i - 1}, ls[i].addr[2])
    BY <1>1, <2>1, Zenon DEF Paired
  <2>3. /\ Pairing(fds, ls) \in [1..Len(ls) -> 0..Len(fds)]
        /\ Paired(fds, ls, Pairing(fds, ls), Len(ls))
    BY <2>2, Zenon DEF Pairing, Paired
  <2> QED
    BY <1>1, <2>3
<1>3. MatchPorts(fds, ls) = o /\ ToSet(o) = DOMAIN fds
  BY <1>1 DEF MatchPorts
<1>4. ToSet(o) = {o[i] : i \in 1..n}
  BY <1>2 DEF ToSet
<1>5. 0 \notin DOMAIN fds
  OBVIOUS
<1>6. \A i \in 1..n : o[i] \in DOMAIN fds
  BY <1>3, <1>4
<1>7. ASSUME NEW i \in 1..n PROVE o[i] \notin {o[j] : j \in 1..i - 1} /\ fds[o[i]][2] = ls[i].addr[2]
  <2>1. PICK t : t = {o[j] : j \in 1..i - 1}
    OBVIOUS
  <2>2. o[i] = FirstFree(fds, t, ls[i].addr[2])
    BY <1>2, <2>1 DEF Paired
  <2> QED
    BY <1>5, <1>6, <2>1, <2>2, FirstFreeIsFree
<1>8. ASSUME NEW i \in 1..n, NEW j \in 1..n, o[i] = o[j] PROVE i = j
  <2>1. ~(i < j)
    BY <1>1, <1>7, <1>8
  <2>2. ~(j < i)
    BY <1>1, <1>7, <1>8
  <2> QED
    BY <1>1, <2>1, <2>2
<1>9. \A x \in DOMAIN fds : \E i \in 1..n : o[i] = x
  BY <1>3, <1>4
<1> QED
  BY <1>1, <1>2, <1>3, <1>6, <1>7, <1>8, <1>9

-----------------------------------------------------------------------------
Loaded == {"loaded", "logging", "planned", "compiled", "applied", "acquiring", "serving"}
Compiled == {"compiled", "applied", "acquiring", "serving"}
Listening == {"acquiring", "serving"}

BootTypeOK ==
  /\ input = Nowhere \/ \E f \in Files, e \in Envs : input = [file |-> f, env |-> e]
  /\ tested \in {"none", "ok", "failed"}
  /\ proc \in [pc : Loaded \cup {"down", "exited", "panicked"}, cause : Untested \cup {"config", "plugins"}]
  /\ sockets \in Seq(Addresses \cup Descriptors)
  /\ fallback \in Nat

\* What a stage has established, and what an exit is due to.
BootStages ==
  /\ input = Nowhere => tested = "none" /\ proc = Stage("down") /\ sockets = <<>>
  /\ proc.pc \in Loaded => Loads(File, Env.dir)
  /\ proc.pc \in Compiled => Cfg.plugins.loads
  /\ proc.cause = "config" => ~Loads(File, Env.dir)
  /\ proc.cause = "plugins" => ~Cfg.plugins.loads

BootVerdict == (tested = "ok" => CheckRun) /\ (tested = "failed" => ~CheckRun)

\* The socket a listener is due.
SocketOf(i) ==
  IF Activated THEN Env.fds[MatchPorts(Env.fds, Listeners)[i]] ELSE Listeners[i].addr

\* The listeners have their sockets one by one, and with each its static pair.
BootSockets ==
  /\ proc.pc \notin Listening => sockets = <<>>
  /\ proc.pc \in Listening =>
       /\ Activated => MatchPorts(Env.fds, Listeners) # <<>>
       /\ Len(sockets) <= Len(Listeners)
       /\ \A i \in 1..Len(sockets) :
            /\ sockets[i] = SocketOf(i)
            /\ ReadsStatic(Listeners[i]) => fallback # 0
  /\ proc.pc = "serving" => Len(sockets) = Len(Listeners)

BootInv == BootTypeOK /\ BootStages /\ BootVerdict /\ BootSockets

LEMMA SameInput ==
  ASSUME input' = input
  PROVE  /\ File' = File /\ Env' = Env /\ Cfg' = Cfg /\ Listeners' = Listeners
         /\ Activated' = Activated /\ CheckRun' = CheckRun
         /\ Loads(File, Env.dir)' = Loads(File, Env.dir)
         /\ \A i : SocketOf(i)' = SocketOf(i)
  BY DEF File, Env, Cfg, Listeners, Activated, CheckRun, SocketOf

LEMMA SameVerdict == BootVerdict /\ input' = input /\ tested' = tested => BootVerdict'
<1> SUFFICES ASSUME BootVerdict, input' = input, tested' = tested PROVE BootVerdict'
  OBVIOUS
<1>1. CheckRun' = CheckRun
  BY SameInput
<1> QED
  BY <1>1 DEF BootVerdict

\* What is known of the input once there is one.
LEMMA InputType ==
  ASSUME BootTypeOK, input # Nowhere
  PROVE  /\ Cfg.listeners = File.cfg.listeners
         /\ Listeners \in Seq(ListenerConfigs) /\ Len(Listeners) \in Nat \ {0}
         /\ Env.fds \in Seq(Descriptors) /\ Distinct(Env.fds)
<1>1. PICK f \in Files, e \in Envs : input = [file |-> f, env |-> e]
  BY DEF BootTypeOK
<1>2. File = f /\ Env = e
  BY <1>1 DEF File, Env
<1>3. IsConfig(f.cfg) /\ e.fds \in Seq(Descriptors) /\ Distinct(e.fds)
  BY StartupAssumption
<1>4. PICK d : Cfg = [f.cfg EXCEPT !.dynamic = d]
  BY <1>2 DEF Cfg, ApplyDynamicDirEnv
<1>5. Cfg.listeners = f.cfg.listeners /\ Cfg.listen = f.cfg.listen
  BY <1>3, <1>4 DEF IsConfig, Sections
<1>6. f.cfg.listeners \in Seq(ListenerConfigs) /\ f.cfg.listen \in Addresses
  BY <1>3 DEF IsConfig
<1>7. CASE Cfg.listeners # <<>>
  <2>1. Listeners = f.cfg.listeners
    BY <1>5, <1>7 DEF Listeners, EffectiveListeners
  <2>2. Len(Listeners) \in Nat \ {0}
    BY <1>5, <1>6, <1>7, <2>1, EmptySeq
  <2> QED
    BY <1>2, <1>3, <1>5, <1>6, <2>1, <2>2
<1>8. CASE Cfg.listeners = <<>>
  <2>1. PICK l : l = DefaultListener(Cfg.listen)
    OBVIOUS
  <2>2. l \in ListenerConfigs
    BY <1>5, <1>6, <2>1 DEF DefaultListener, ListenerConfigs, Materials
  <2>3. Listeners = <<l>>
    BY <1>8, <2>1 DEF Listeners, EffectiveListeners
  <2>4. Listeners \in Seq(ListenerConfigs) /\ Len(Listeners) = 1
    BY <2>2, <2>3
  <2> QED
    BY <1>2, <1>3, <1>5, <2>4
<1> QED
  BY <1>7, <1>8

\* What validation has established of the listeners.
LEMMA ValidatedListeners ==
  ASSUME BootTypeOK, input # Nowhere, Loads(File, Env.dir)
  PROVE  /\ \A i, j \in 1..Len(Listeners) : Listeners[i].addr = Listeners[j].addr => i = j
         /\ \A i \in 1..Len(Listeners) :
              UsesTls(Listeners[i]) => HasStatic(Listeners[i]) \/ Cfg.ingress.enabled
<1>1. /\ Listeners \in Seq(ListenerConfigs) /\ Len(Listeners) \in Nat
      /\ Cfg.listeners \in Seq(ListenerConfigs) \/ Cfg.listeners = <<>>
  <2>1. CASE Cfg.listeners # <<>>
    BY <2>1, InputType DEF Listeners, EffectiveListeners
  <2> QED
    BY <2>1, InputType
<1>2. ValidListeners(Cfg)
  BY DEF Loads, Validate, Cfg
<1>3. CASE Cfg.listeners # <<>>
  <2>1. PICK ls : ls = Cfg.listeners
    OBVIOUS
  <2>2. Listeners = ls /\ DOMAIN ls = 1..Len(Listeners)
    BY <1>1, <1>3, <2>1 DEF Listeners, EffectiveListeners
  <2>3. Distinct([i \in DOMAIN ls |-> ls[i].addr]) /\ \A i \in DOMAIN ls : ValidListener(ls[i], Cfg.ingress)
    BY <1>2, <2>1 DEF ValidListeners
  <2>4. \A i, j \in DOMAIN ls : ls[i].addr = ls[j].addr => i = j
    BY <2>3 DEF Distinct
  <2>5. ASSUME NEW i \in 1..Len(Listeners), UsesTls(Listeners[i])
        PROVE  HasStatic(Listeners[i]) \/ Cfg.ingress.enabled
    <3>1. PICK l : l = Listeners[i]
      OBVIOUS
    <3>2. ValidListener(l, Cfg.ingress)
      BY <2>2, <2>3, <3>1
    <3>3. l.tls /\ l.role # "outbound"
      BY <2>5, <3>1 DEF UsesTls
    <3>4. HasStatic(l) \/ Cfg.ingress.enabled
      BY <3>2, <3>3, Zenon DEF ValidListener
    <3> QED
      BY <3>1, <3>4
  <2> QED
    BY <2>2, <2>4, <2>5
<1>4. CASE Cfg.listeners = <<>>
  <2>1. PICK l : l = DefaultListener(Cfg.listen)
    OBVIOUS
  <2>2. Listeners = <<l>>
    BY <1>4, <2>1 DEF Listeners, EffectiveListeners
  <2>3. Len(Listeners) = 1 /\ Listeners[1] = l /\ ~UsesTls(l)
    BY <2>1, <2>2 DEF UsesTls, DefaultListener
  <2> QED
    BY <2>3
<1> QED
  BY <1>3, <1>4

LEMMA BootInvInit == BootInit => BootInv
<1> SUFFICES ASSUME BootInit PROVE BootInv
  OBVIOUS
<1>1. proc = [pc |-> "down", cause |-> "none"]
  BY DEF BootInit, Stage
<1> QED
  BY <1>1, EmptySeq DEF BootInit, BootInv, BootTypeOK, BootStages, BootVerdict, BootSockets, Loaded, Compiled, Listening,
     Untested, Stage

\* A stage ends: the next one is reached, or the process ends, without a socket.
LEMMA StageEnds ==
  ASSUME BootInv, input # Nowhere, UNCHANGED <<input, tested, sockets, fallback>>,
         proc.pc \notin Listening,
         NEW p \in (Loaded \ {"serving"}) \cup {"exited", "panicked"},
         NEW c \in Untested \cup {"config", "plugins"},
         proc' = [pc |-> p, cause |-> c],
         p \in Loaded => Loads(File, Env.dir),
         p \in Compiled => Cfg.plugins.loads,
         c = "config" => ~Loads(File, Env.dir),
         c = "plugins" => ~Cfg.plugins.loads,
         p = "acquiring" => (Activated => MatchPorts(Env.fds, Listeners) # <<>>)
  PROVE  BootInv'
<1> USE DEF BootInv
<1>0. proc'.pc = p /\ proc'.cause = c /\ input' = input /\ tested' = tested
  OBVIOUS
<1>1. BootTypeOK'
  BY DEF BootTypeOK, Loaded
<1>2. BootStages'
  BY <1>0, SameInput DEF BootStages
<1>3. BootVerdict'
  BY <1>0, SameVerdict
<1>4. BootSockets'
  <2>1. sockets' = <<>> /\ Len(sockets') = 0
    BY DEF BootSockets
  <2>2. Len(Listeners) \in Nat
    BY InputType
  <2>3. \A i \in 1..Len(sockets') : FALSE
    BY <2>1
  <2> QED
    BY <1>0, <2>1, <2>2, <2>3, SameInput DEF BootSockets, Listening, Loaded
<1> QED
  BY <1>1, <1>2, <1>3, <1>4

LEMMA BootInvNext == BootInv /\ [BootNext]_bootVars => BootInv'
<1> SUFFICES ASSUME BootInv, [BootNext]_bootVars PROVE BootInv'
  OBVIOUS
<1> USE DEF BootInv
<1>1. CASE ChooseFile
  <2>1. /\ input = Nowhere /\ tested = "none" /\ proc = Stage("down") /\ sockets = <<>>
        /\ UNCHANGED <<tested, proc, sockets, fallback>>
    BY <1>1 DEF ChooseFile, BootStages
  <2>2. \E f \in Files, e \in Envs : input' = [file |-> f, env |-> e]
    BY <1>1 DEF ChooseFile
  <2>3. proc'.pc = "down" /\ proc'.cause = "none" /\ proc' = Stage("down")
    BY <2>1 DEF Stage
  <2>4. BootTypeOK'
    BY <2>1, <2>2 DEF BootTypeOK
  <2>5. BootStages' /\ BootVerdict' /\ BootSockets'
    BY <2>1, <2>3 DEF BootStages, BootVerdict, BootSockets, Loaded, Compiled, Listening
  <2> QED
    BY <2>4, <2>5
<1>2. CASE Test
  <2>1. input # Nowhere /\ UNCHANGED <<input, proc, sockets, fallback>>
    BY <1>2 DEF Test
  <2>2. \/ tested' = "ok" /\ CheckRun
        \/ tested' = "failed" /\ ~CheckRun
    BY <1>2, Zenon DEF Test
  <2>3. BootTypeOK'
    BY <2>1, <2>2 DEF BootTypeOK
  <2>4. BootVerdict'
    <3>1. CASE tested' = "ok" /\ CheckRun
      BY <2>1, <3>1, SameInput DEF BootVerdict
    <3>2. CASE tested' = "failed" /\ ~CheckRun
      BY <2>1, <3>2, SameInput DEF BootVerdict
    <3> QED
      BY <2>2, <3>1, <3>2
  <2>5. BootStages' /\ BootSockets'
    BY <2>1, SameInput DEF BootStages, BootSockets
  <2> QED
    BY <2>3, <2>4, <2>5
<1>3. CASE LoadConfig
  <2>1. input # Nowhere /\ proc.pc = "down" /\ UNCHANGED <<input, tested, sockets, fallback>>
    BY <1>3 DEF LoadConfig, Stage
  <2>2. \/ proc' = [pc |-> "exited", cause |-> "file"]
        \/ proc' = [pc |-> "exited", cause |-> "config"] /\ ~Loads(File, Env.dir)
        \/ proc' = [pc |-> "loaded", cause |-> "none"] /\ Loads(File, Env.dir)
    BY <1>3, Zenon DEF LoadConfig, Stage, Exited
  <2>3. CASE proc' = [pc |-> "exited", cause |-> "file"]
    BY <2>1, <2>3, StageEnds DEF Loaded, Compiled, Listening, Untested
  <2>4. CASE proc' = [pc |-> "exited", cause |-> "config"] /\ ~Loads(File, Env.dir)
    BY <2>1, <2>4, StageEnds DEF Loaded, Compiled, Listening, Untested
  <2>5. CASE proc' = [pc |-> "loaded", cause |-> "none"] /\ Loads(File, Env.dir)
    BY <2>1, <2>5, StageEnds DEF Loaded, Compiled, Listening, Untested
  <2> QED
    BY <2>2, <2>3, <2>4, <2>5
<1>4. CASE LoggingInit
  <2>1. proc.pc = "loaded" /\ UNCHANGED <<input, tested, sockets, fallback>>
    BY <1>4 DEF LoggingInit, Stage
  <2>2. \/ proc' = [pc |-> "exited", cause |-> "log"]
        \/ proc' = [pc |-> "logging", cause |-> "none"]
    BY <1>4, Zenon DEF LoggingInit, Stage, Exited
  <2>3. input # Nowhere /\ Loads(File, Env.dir)
    BY <2>1 DEF BootStages, Loaded, Stage
  <2>4. CASE proc' = [pc |-> "exited", cause |-> "log"]
    BY <2>1, <2>3, <2>4, StageEnds DEF Loaded, Compiled, Listening, Untested
  <2>5. CASE proc' = [pc |-> "logging", cause |-> "none"]
    BY <2>1, <2>3, <2>5, StageEnds DEF Loaded, Compiled, Listening, Untested
  <2> QED
    BY <2>2, <2>4, <2>5
<1>5. CASE BuildTlsPlans
  <2>1. proc.pc = "logging" /\ UNCHANGED <<input, tested, sockets, fallback>>
    BY <1>5 DEF BuildTlsPlans, Stage
  <2>2. \/ proc' = [pc |-> "exited", cause |-> "upstream tls"]
        \/ proc' = [pc |-> "planned", cause |-> "none"]
    BY <1>5, Zenon DEF BuildTlsPlans, Stage, Exited
  <2>3. input # Nowhere /\ Loads(File, Env.dir)
    BY <2>1 DEF BootStages, Loaded, Stage
  <2>4. CASE proc' = [pc |-> "exited", cause |-> "upstream tls"]
    BY <2>1, <2>3, <2>4, StageEnds DEF Loaded, Compiled, Listening, Untested
  <2>5. CASE proc' = [pc |-> "planned", cause |-> "none"]
    BY <2>1, <2>3, <2>5, StageEnds DEF Loaded, Compiled, Listening, Untested
  <2> QED
    BY <2>2, <2>4, <2>5
<1>6. CASE Bootstrap
  <2>1. proc.pc = "planned" /\ UNCHANGED <<input, tested, sockets, fallback>>
    BY <1>6 DEF Bootstrap, Stage
  <2>2. \/ proc' = [pc |-> "exited", cause |-> "plugins"] /\ ~Cfg.plugins.loads
        \/ proc' = [pc |-> "compiled", cause |-> "none"] /\ Cfg.plugins.loads
    BY <1>6, Zenon DEF Bootstrap, Stage, Exited
  <2>3. input # Nowhere /\ Loads(File, Env.dir)
    BY <2>1 DEF BootStages, Loaded, Stage
  <2>4. CASE proc' = [pc |-> "exited", cause |-> "plugins"] /\ ~Cfg.plugins.loads
    BY <2>1, <2>3, <2>4, StageEnds DEF Loaded, Compiled, Listening, Untested
  <2>5. CASE proc' = [pc |-> "compiled", cause |-> "none"] /\ Cfg.plugins.loads
    BY <2>1, <2>3, <2>5, StageEnds DEF Loaded, Compiled, Listening, Untested
  <2> QED
    BY <2>2, <2>4, <2>5
<1>7. CASE ApplyRuntime
  <2>1. proc.pc = "compiled" /\ UNCHANGED <<input, tested, sockets, fallback>>
    BY <1>7 DEF ApplyRuntime, Stage
  <2>2. \/ proc' = [pc |-> "panicked", cause |-> "server name"]
        \/ proc' = [pc |-> "applied", cause |-> "none"]
    BY <1>7, Zenon DEF ApplyRuntime, Stage
  <2>3. input # Nowhere /\ Loads(File, Env.dir) /\ Cfg.plugins.loads
    BY <2>1 DEF BootStages, Loaded, Compiled, Stage
  <2>4. CASE proc' = [pc |-> "panicked", cause |-> "server name"]
    BY <2>1, <2>3, <2>4, StageEnds DEF Loaded, Compiled, Listening, Untested
  <2>5. CASE proc' = [pc |-> "applied", cause |-> "none"]
    BY <2>1, <2>3, <2>5, StageEnds DEF Loaded, Compiled, Listening, Untested
  <2> QED
    BY <2>2, <2>4, <2>5
<1>8. CASE Adopt
  <2>1. proc.pc = "applied" /\ UNCHANGED <<input, tested, sockets, fallback>>
    BY <1>8 DEF Adopt, Stage
  <2>2. \/ proc' = [pc |-> "exited", cause |-> "sockets"]
        \/ /\ proc' = [pc |-> "acquiring", cause |-> "none"]
           /\ Activated => MatchPorts(Env.fds, Listeners) # <<>>
    BY <1>8, Zenon DEF Adopt, Stage, Exited
  <2>3. input # Nowhere /\ Loads(File, Env.dir) /\ Cfg.plugins.loads
    BY <2>1 DEF BootStages, Loaded, Compiled, Stage
  <2>4. CASE proc' = [pc |-> "exited", cause |-> "sockets"]
    BY <2>1, <2>3, <2>4, StageEnds DEF Loaded, Compiled, Listening, Untested
  <2>5. CASE proc' = [pc |-> "acquiring", cause |-> "none"] /\ (Activated => MatchPorts(Env.fds, Listeners) # <<>>)
    BY <2>1, <2>3, <2>5, StageEnds DEF Loaded, Compiled, Listening, Untested
  <2> QED
    BY <2>2, <2>4, <2>5
<1>9. CASE Acquire
  <2>1. /\ proc = Stage("acquiring") /\ proc.pc = "acquiring" /\ proc.cause = "none"
        /\ UNCHANGED <<input, tested>> /\ Len(sockets) + 1 <= Len(Listeners)
    BY <1>9 DEF Acquire, Stage
  <2>2. input # Nowhere /\ Loads(File, Env.dir) /\ Cfg.plugins.loads
    BY <2>1 DEF BootStages, Loaded, Compiled, Stage
  <2>3. PICK n, l : n = Len(sockets) + 1 /\ l = Listeners[n]
    OBVIOUS
  <2>4. /\ Len(sockets) \in Nat /\ n \in 1..Len(Listeners) /\ Len(Listeners) \in Nat
        /\ Listeners \in Seq(ListenerConfigs) /\ l \in ListenerConfigs
        /\ Env.fds \in Seq(Descriptors)
    BY <2>1, <2>2, <2>3, InputType DEF BootTypeOK
  <2>5. CASE /\ proc' \in [pc : {"exited"}, cause : {"sockets", "static pair"}]
             /\ sockets' = <<>> /\ fallback' = fallback
    <3>1. BootTypeOK'
      BY <2>1, <2>5, EmptySeq DEF BootTypeOK, Untested
    <3>2. BootStages' /\ BootSockets'
      BY <2>1, <2>2, <2>5 DEF BootStages, BootSockets, Loaded, Compiled, Listening
    <3>3. BootVerdict'
      BY <2>1, SameVerdict
    <3> QED
      BY <3>1, <3>2, <3>3
  <2>6. CASE /\ sockets' = Append(sockets, SocketOf(n))
             /\ fallback' = IF ReadsStatic(l) THEN n ELSE fallback
             /\ proc' = proc
    <3>1. SocketOf(n) \in Addresses \cup Descriptors
      <4>1. CASE Activated
        <5>1. MatchPorts(Env.fds, Listeners)[n] \in DOMAIN Env.fds
          <6>1. PICK o, fds, ls : o = MatchPorts(fds, ls) /\ fds = Env.fds /\ ls = Listeners
            OBVIOUS
          <6>2. o # <<>>
            BY <2>1, <4>1, <6>1 DEF BootSockets, Listening
          <6>3. o \in [1..Len(ls) -> DOMAIN fds]
            <7>1. fds \in Seq(Descriptors) /\ Len(ls) \in Nat /\ o = MatchPorts(fds, ls) /\ o # <<>>
              BY <2>4, <6>1, <6>2
            <7> QED
              BY <7>1, MatchPortsIsPermutation
          <6> QED
            BY <2>4, <6>1, <6>3
        <5> QED
          BY <2>4, <4>1, <5>1 DEF SocketOf
      <4>2. CASE ~Activated
        BY <2>3, <2>4, <4>2 DEF SocketOf, ListenerConfigs
      <4> QED
        BY <4>1, <4>2
    <3>2. PICK s : s = SocketOf(n)
      OBVIOUS
    <3>3. /\ sockets' \in Seq(Addresses \cup Descriptors) /\ Len(sockets') = n
          /\ sockets'[n] = s /\ \A i \in 1..Len(sockets) : sockets'[i] = sockets[i]
      BY <2>3, <2>6, <3>1, <3>2 DEF BootTypeOK
    <3>4. /\ ReadsStatic(l) => fallback' # 0
          /\ fallback # 0 => fallback' # 0
          /\ fallback' \in Nat
      <4>1. CASE ReadsStatic(l)
        BY <2>4, <2>6, <4>1
      <4>2. CASE ~ReadsStatic(l)
        BY <2>6, <4>2 DEF BootTypeOK
      <4> QED
        BY <4>1, <4>2
    <3>5. BootTypeOK'
      BY <2>1, <2>6, <3>3, <3>4 DEF BootTypeOK
    <3>6. BootStages' /\ BootVerdict'
      <4>1. BootVerdict'
        BY <2>1, SameVerdict
      <4>2. BootStages'
        BY <2>1, <2>2, <2>6, SameInput DEF BootStages
      <4> QED
        BY <4>1, <4>2
    <3>7. ASSUME NEW i \in 1..Len(sockets')
          PROVE  sockets'[i] = SocketOf(i)' /\ (ReadsStatic(Listeners[i])' => fallback' # 0)
      <4>1. SocketOf(i)' = SocketOf(i) /\ Listeners' = Listeners
        BY <2>1, SameInput
      <4>2. ReadsStatic(Listeners[i])' = ReadsStatic(Listeners[i])
        BY <4>1
      <4>3. CASE i = n
        BY <2>3, <3>2, <3>3, <3>4, <4>1, <4>2, <4>3
      <4>4. CASE i # n
        <5>1. i \in 1..Len(sockets)
          BY <2>3, <2>4, <3>3, <4>4
        <5>2. sockets[i] = SocketOf(i) /\ (ReadsStatic(Listeners[i]) => fallback # 0)
          BY <2>1, <5>1 DEF BootSockets, Listening
        <5> QED
          BY <3>3, <3>4, <4>1, <4>2, <5>1, <5>2
      <4> QED
        BY <4>3, <4>4
    <3>8. BootSockets'
      BY <2>1, <2>3, <2>4, <2>6, <3>3, <3>7, SameInput DEF BootSockets, Listening
    <3> QED
      BY <3>5, <3>6, <3>8
  <2>7. \/ /\ proc' \in [pc : {"exited"}, cause : {"sockets", "static pair"}]
           /\ sockets' = <<>> /\ fallback' = fallback
        \/ /\ sockets' = Append(sockets, SocketOf(n))
           /\ fallback' = IF ReadsStatic(l) THEN n ELSE fallback
           /\ proc' = proc
    <3>1. \/ proc' = Exited("sockets") /\ sockets' = <<>> /\ fallback' = fallback
          \/ proc' = Exited("static pair") /\ sockets' = <<>> /\ fallback' = fallback
          \/ /\ sockets' = Append(sockets, SocketOf(Len(sockets) + 1))
             /\ fallback' = IF ReadsStatic(Listeners[Len(sockets) + 1]) THEN Len(sockets) + 1 ELSE fallback
             /\ proc' = proc
      BY <1>9, Zenon DEF Acquire, SocketOf
    <3>2. CASE proc' = Exited("sockets") /\ sockets' = <<>> /\ fallback' = fallback
      BY <3>2 DEF Exited
    <3>3. CASE proc' = Exited("static pair") /\ sockets' = <<>> /\ fallback' = fallback
      BY <3>3 DEF Exited
    <3> QED
      BY <2>3, <3>1, <3>2, <3>3
  <2> QED
    BY <2>5, <2>6, <2>7
<1>10. CASE Serve
  <2>1. /\ proc.pc = "acquiring" /\ proc'.pc = "serving" /\ proc'.cause = "none" /\ proc.cause = "none"
        /\ proc' = [pc |-> "serving", cause |-> "none"]
        /\ Len(sockets) = Len(Listeners) /\ UNCHANGED <<input, tested, sockets, fallback>>
    BY <1>10 DEF Serve, Stage
  <2>2. input # Nowhere
    BY <2>1 DEF BootStages, Stage
  <2>3. BootTypeOK'
    BY <2>1 DEF BootTypeOK, Loaded, Untested
  <2>4. BootStages'
    BY <2>1, <2>2, SameInput DEF BootStages, Loaded, Compiled
  <2>5. BootVerdict'
    BY <2>1, SameVerdict
  <2>6. BootSockets'
    BY <2>1, SameInput DEF BootSockets, Listening
  <2> QED
    BY <2>3, <2>4, <2>5, <2>6
<1>11. CASE Reopen \/ UNCHANGED bootVars
  <2>1. UNCHANGED <<input, tested, proc, sockets, fallback>>
    BY <1>11 DEF Reopen, bootVars
  <2>2. BootTypeOK' /\ BootStages'
    BY <2>1, SameInput DEF BootTypeOK, BootStages
  <2>3. BootVerdict'
    BY <2>1, SameVerdict
  <2>4. BootSockets'
    BY <2>1, SameInput DEF BootSockets
  <2> QED
    BY <2>2, <2>3, <2>4
<1> QED
  BY <1>1, <1>2, <1>3, <1>4, <1>5, <1>6, <1>7, <1>8, <1>9, <1>10, <1>11 DEF BootNext

\* How far a start has come tells what it did: nothing is bound before the
\* configuration is loaded, compiled and valid, and from then on each listener
\* has the socket it is due or none yet (main.rs main, listeners.rs spawn,
\* sd_listen.rs match_ports).
THEOREM BootInvHolds == BootSpec => []BootInv
  BY BootInvInit, BootInvNext, PTL DEF BootSpec

LEMMA BootInvSuffices == BootInv => BootIsAllOrNothing
<1> SUFFICES ASSUME BootInv PROVE BootIsAllOrNothing
  OBVIOUS
<1> USE DEF BootInv
<1>1. TestAgreesWithBoot
  <2>1. Serving => tested # "failed"
    BY DEF BootStages, BootVerdict, Serving, CheckRun, Loaded, Compiled
  <2>2. tested = "ok" => proc.cause \in Untested
    BY DEF BootStages, BootVerdict, CheckRun, BootTypeOK
  <2> QED
    BY <2>1, <2>2 DEF TestAgreesWithBoot
<1>2. proc.pc \in {"exited", "panicked"} => sockets = <<>>
  BY DEF BootSockets, Listening
<1>3. ASSUME Serving PROVE SocketsMatch /\ PlanesAreServed
  <2>1. proc.pc = "serving" /\ input # Nowhere /\ Loads(File, Env.dir)
    BY <1>3 DEF Serving, BootStages, Loaded, Stage
  <2>2. PICK n : n = Len(Listeners)
    OBVIOUS
  <2>3. /\ Listeners \in Seq(ListenerConfigs) /\ n \in Nat \ {0} /\ DOMAIN Listeners = 1..n
        /\ Env.fds \in Seq(Descriptors) /\ Distinct(Env.fds)
    BY <2>1, <2>2, InputType
  <2>4. /\ Len(sockets) = n /\ DOMAIN sockets = 1..n
        /\ \A i \in 1..n : sockets[i] = SocketOf(i) /\ (ReadsStatic(Listeners[i]) => fallback # 0)
        /\ Activated => MatchPorts(Env.fds, Listeners) # <<>>
    BY <2>1, <2>2, <2>3 DEF BootSockets, Listening, BootTypeOK
  <2>5. ASSUME ~Activated PROVE SocketsMatch
    <3>1. \A i \in 1..n : sockets[i] = Listeners[i].addr
      BY <2>4, <2>5 DEF SocketOf
    <3>2. Distinct(sockets)
      BY <2>1, <2>2, <2>4, <3>1, ValidatedListeners DEF Distinct
    <3>3. \A i \in DOMAIN sockets : sockets[i][2] = Listeners[i].addr[2]
      BY <2>4, <3>1
    <3>4. Len(sockets) = Len(Listeners)
      BY <2>2, <2>4
    <3> QED
      BY <2>5, <3>2, <3>3, <3>4 DEF SocketsMatch
  <2>6. ASSUME Activated PROVE SocketsMatch
    <3>1. PICK o : o = MatchPorts(Env.fds, Listeners)
      OBVIOUS
    <3>2. /\ o \in [1..n -> DOMAIN Env.fds]
          /\ \A i, j \in 1..n : o[i] = o[j] => i = j
          /\ \A i \in 1..n : Env.fds[o[i]][2] = Listeners[i].addr[2]
          /\ \A x \in DOMAIN Env.fds : \E i \in 1..n : o[i] = x
      <4>1. MatchPorts(Env.fds, Listeners) # <<>> /\ Len(Listeners) \in Nat
        BY <2>2, <2>3, <2>4, <2>6
      <4>2. PICK fds, ls : fds = Env.fds /\ ls = Listeners
        OBVIOUS
      <4>3. /\ o \in [1..Len(ls) -> DOMAIN fds]
            /\ \A i, j \in 1..Len(ls) : o[i] = o[j] => i = j
            /\ \A i \in 1..Len(ls) : fds[o[i]][2] = ls[i].addr[2]
            /\ \A x \in DOMAIN fds : \E i \in 1..Len(ls) : o[i] = x
        <5>1. fds \in Seq(Descriptors) /\ Len(ls) \in Nat /\ o = MatchPorts(fds, ls) /\ o # <<>>
          BY <2>3, <3>1, <4>1, <4>2
        <5> QED
          BY <5>1, MatchPortsIsPermutation
      <4> QED
        BY <2>2, <4>2, <4>3
    <3>3. \A i \in 1..n : sockets[i] = Env.fds[o[i]]
      BY <2>4, <2>6, <3>1 DEF SocketOf
    <3>4. Distinct(sockets)
      BY <2>3, <2>4, <3>2, <3>3 DEF Distinct
    <3>5. ToSet(sockets) = ToSet(Env.fds)
      <4>1. ToSet(sockets) = {sockets[i] : i \in 1..n} /\ ToSet(Env.fds) = {Env.fds[i] : i \in DOMAIN Env.fds}
        BY <2>4 DEF ToSet
      <4> QED
        BY <3>2, <3>3, <4>1
    <3>6. \A i \in DOMAIN sockets : sockets[i][2] = Listeners[i].addr[2]
      BY <2>4, <3>2, <3>3
    <3>7. Len(sockets) = Len(Listeners)
      BY <2>2, <2>4
    <3> QED
      BY <3>4, <3>5, <3>6, <3>7 DEF SocketsMatch
  <2>7. PlanesAreServed
    <3>1. \E i \in DOMAIN Listeners : CarriesAdmin(Listeners, i)
      <4>1. CASE HasAdmin(Listeners)
        BY <4>1 DEF HasAdmin, CarriesAdmin
      <4>2. CASE ~HasAdmin(Listeners)
        <5>1. 1 \in DOMAIN Listeners
          BY <2>3
        <5> QED
          BY <4>2, <5>1 DEF CarriesAdmin
      <4> QED
        BY <4>1, <4>2
    <3>2. HasAdmin(Listeners) => \A i \in DOMAIN Listeners :
            ~(CarriesAdmin(Listeners, i) /\ CarriesData(Listeners, i))
      BY DEF CarriesAdmin, CarriesData
    <3>3. ASSUME NEW i \in DOMAIN Listeners, LoopOf(Listeners[i]) = "tls"
          PROVE  fallback # 0 \/ Cfg.ingress.enabled
      <4>1. UsesTls(Listeners[i])
        <5>1. CASE ~UsesTls(Listeners[i])
          <6>1. LoopOf(Listeners[i]) \in {"transparent", "plain"}
            BY <5>1, Zenon DEF LoopOf
          <6> QED
            BY <3>3, <6>1
        <5> QED
          BY <5>1
      <4>2. HasStatic(Listeners[i]) \/ Cfg.ingress.enabled
        BY <2>1, <2>2, <2>3, <4>1, ValidatedListeners
      <4>3. HasStatic(Listeners[i]) => fallback # 0
        BY <2>3, <2>4, <4>1 DEF ReadsStatic
      <4> QED
        BY <4>2, <4>3
    <3> QED
      BY <3>1, <3>2, <3>3 DEF PlanesAreServed
  <2> QED
    BY <2>5, <2>6, <2>7
<1> QED
  BY <1>1, <1>2, <1>3 DEF BootIsAllOrNothing

\* What serves is the whole configuration, each listener on a socket of its
\* port, what exited or panicked holds no socket, and openrusty -t agrees with
\* the boot up to what it does not open, whatever descriptors are inherited
\* (main.rs main, listeners.rs spawn, sd_listen.rs match_ports, check.rs run).
THEOREM BootStaysAllOrNothing == BootSpec => []BootIsAllOrNothing
  BY BootInvHolds, BootInvSuffices, PTL

-----------------------------------------------------------------------------
(***************************************************************************)
(* Sidecar.  The rules of a chain: exemptions, the redirect last.          *)
(***************************************************************************)
Kinds == {"none", "all", "lo", "proxy", "port"}
RuleSet == [match : Kinds, port : Nat, to : Nat]
Packets == [dir : Dirs, lo : BOOLEAN, proxy : BOOLEAN, port : Nat]

RulesOf(m, d) == IF d = "in" THEN RulesIn(m) ELSE RulesOut
TargetOf(d) == IF d = "in" THEN InboundPort ELSE OutboundPort

Exempted(m, k) ==
  \/ k.lo
  \/ k.dir = "out" /\ (k.proxy \/ k.port = 443)
  \/ k.dir = "in" /\ k.port \in IgnoreInbound(m)

\* The rules r of direction d exempt what is to be exempted, and nothing else.
Exempting(m, d, r) ==
  /\ r \in Seq(RuleSet) /\ Len(r) \in Nat \ {0}
  /\ \A i \in 1..Len(r) - 1 : r[i].to = 0
  /\ r[Len(r)] = Redirect(TargetOf(d))
  /\ \A k \in Packets : k.dir = d =>
       (Exempted(m, k) <=> \E i \in 1..Len(r) - 1 : Matches(r[i], k))

LEMMA ReturnFields ==
  ASSUME NEW m \in Kinds, NEW p \in Nat
  PROVE  Return(m, p) \in RuleSet /\ Return(m, p).match = m /\ Return(m, p).port = p /\ Return(m, p).to = 0
<1>1. Return(m, p) = [match |-> m, port |-> p, to |-> 0]
  BY DEF Return
<1>2. [match |-> m, port |-> p, to |-> 0] \in RuleSet
  BY DEF RuleSet, Kinds
<1> QED
  BY <1>1, <1>2

LEMMA RedirectFields ==
  ASSUME NEW p \in Nat
  PROVE  Redirect(p) \in RuleSet /\ Redirect(p).match = "all" /\ Redirect(p).port = 0 /\ Redirect(p).to = p
<1>1. Redirect(p) = [match |-> "all", port |-> 0, to |-> p]
  BY DEF Redirect
<1>2. [match |-> "all", port |-> 0, to |-> p] \in RuleSet
  BY DEF RuleSet, Kinds
<1> QED
  BY <1>1, <1>2

LEMMA ConcatAt ==
  ASSUME NEW T, NEW s \in Seq(T), NEW t \in Seq(T), NEW u, u = s \o t
  PROVE  /\ u \in Seq(T) /\ Len(u) = Len(s) + Len(t)
         /\ \A i \in 1..Len(s) : u[i] = s[i]
         /\ \A i \in 1..Len(t) : u[i + Len(s)] = t[i]
<1>1. Len(s) \in Nat /\ Len(t) \in Nat
  OBVIOUS
<1>2. \A i \in 1..Len(s) + Len(t) : u[i] = IF i <= Len(s) THEN s[i] ELSE t[i - Len(s)]
  BY ConcatProperties
<1>3. ASSUME NEW i \in 1..Len(t) PROVE u[i + Len(s)] = t[i]
  <2>1. PICK j : j = i + Len(s)
    OBVIOUS
  <2>2. j \in 1..Len(s) + Len(t) /\ ~(j <= Len(s)) /\ j - Len(s) = i
    BY <1>1, <2>1
  <2> QED
    BY <1>2, <2>1, <2>2
<1>4. ASSUME NEW i \in 1..Len(s) PROVE u[i] = s[i]
  BY <1>1, <1>2
<1> QED
  BY <1>3, <1>4, ConcatProperties

LEMMA FunctionIsSeq ==
  ASSUME NEW T, NEW n \in Nat, NEW f \in [1..n -> T]
  PROVE  f \in Seq(T) /\ Len(f) = n
  BY IsASeq

LEMMA SetToSeqCovers ==
  ASSUME NEW S, S \subseteq Nat, IsFiniteSet(S)
  PROVE  /\ SetToSeq(S) \in Seq(Nat)
         /\ \A p : p \in S <=> \E i \in 1..Len(SetToSeq(S)) : SetToSeq(S)[i] = p
<1>1. PICK n : n = Cardinality(S)
  OBVIOUS
<1>2. n \in Nat /\ ExistsBijection(1..n, S)
  BY <1>1, FS_CardinalityType
<1>3. \E f \in [1..n -> S] : IsInjective(f)
  BY <1>2, Zenon DEF ExistsBijection, Bijection, Injection
<1>4. PICK f : f = SetToSeq(S)
  OBVIOUS
<1>5. f \in [1..n -> S] /\ IsInjective(f)
  BY <1>1, <1>3, <1>4, Zenon DEF SetToSeq
<1>6. f \in Injection(1..n, S)
  BY <1>5, Zenon DEF Injection
<1>7. Cardinality(1..n) = n
  BY <1>2, FS_Interval
<1>8. f \in Surjection(1..n, S)
  BY <1>1, <1>6, <1>7, FS_Injection
<1>9. \A p \in S : \E i \in 1..n : f[i] = p
  BY <1>8, Zenon DEF Surjection
<1>10. f \in Seq(Nat) /\ Len(f) = n
  <2>1. f \in [1..n -> Nat]
    BY <1>2, <1>5
  <2> QED
    BY <1>2, <2>1, FunctionIsSeq
<1> QED
  BY <1>4, <1>5, <1>9, <1>10

LEMMA RulesInExempt ==
  ASSUME NEW m, m.skip \subseteq Nat, IsFiniteSet(m.skip)
  PROVE  Exempting(m, "in", RulesIn(m))
<1>1. PICK S, q : S = IgnoreInbound(m) /\ q = SetToSeq(S)
  OBVIOUS
<1>2. S \subseteq Nat /\ IsFiniteSet(S)
  BY <1>1, FS_AddElement DEF IgnoreInbound, AdminPort
<1>3. q \in Seq(Nat) /\ Len(q) \in Nat /\ \A p : p \in S <=> \E i \in 1..Len(q) : q[i] = p
  <2>1. q \in Seq(Nat) /\ \A p : p \in S <=> \E i \in 1..Len(q) : q[i] = p
    BY <1>1, <1>2, SetToSeqCovers, Zenon
  <2> QED
    BY <2>1
<1>4. PICK n : n = Len(q)
  OBVIOUS
<1>5. PICK a, b, c : a = <<Return("lo", 0)>> /\ b = ReturnPorts(q) /\ c = <<Redirect(InboundPort)>>
  OBVIOUS
<1>6. /\ a \in Seq(RuleSet) /\ Len(a) = 1 /\ a[1] = Return("lo", 0)
      /\ c \in Seq(RuleSet) /\ Len(c) = 1 /\ c[1] = Redirect(InboundPort)
  <2>1. Return("lo", 0) \in RuleSet /\ Redirect(InboundPort) \in RuleSet
    BY ReturnFields, RedirectFields DEF Kinds, InboundPort
  <2> QED
    BY <1>5, <2>1
<1>7. b \in Seq(RuleSet) /\ Len(b) = n /\ \A i \in 1..n : b[i] = Return("port", q[i])
  <2>1. \A i \in 1..n : Return("port", q[i]) \in RuleSet
    <3> SUFFICES ASSUME NEW i \in 1..n PROVE Return("port", q[i]) \in RuleSet
      OBVIOUS
    <3>1. q[i] \in Nat
      BY <1>3, <1>4
    <3> QED
      BY <3>1, ReturnFields, RedirectFields DEF Kinds
  <2>2. b = [i \in 1..n |-> Return("port", q[i])]
    BY <1>4, <1>5 DEF ReturnPorts
  <2>3. b \in [1..n -> RuleSet]
    BY <2>1, <2>2
  <2> QED
    BY <1>3, <1>4, <2>2, <2>3, FunctionIsSeq
<1>8. PICK ab, r : ab = a \o b /\ r = ab \o c
  OBVIOUS
<1>9. /\ ab \in Seq(RuleSet) /\ Len(ab) = n + 1 /\ ab[1] = a[1]
      /\ \A i \in 1..n : ab[i + 1] = b[i]
  <2> a \in Seq(RuleSet) /\ b \in Seq(RuleSet)
    BY <1>6, <1>7
  <2>1. /\ ab \in Seq(RuleSet) /\ Len(ab) = Len(a) + Len(b) /\ \A i \in 1..Len(a) : ab[i] = a[i]
        /\ \A i \in 1..Len(b) : ab[i + Len(a)] = b[i]
    BY <1>8, ConcatAt
  <2> QED
    BY <1>3, <1>4, <1>6, <1>7, <2>1
<1>10. /\ r \in Seq(RuleSet) /\ Len(r) = n + 2 /\ r[n + 2] = c[1]
       /\ \A i \in 1..n + 1 : r[i] = ab[i]
  <2> ab \in Seq(RuleSet) /\ c \in Seq(RuleSet)
    BY <1>6, <1>9
  <2>1. /\ r \in Seq(RuleSet) /\ Len(r) = Len(ab) + Len(c) /\ \A i \in 1..Len(ab) : r[i] = ab[i]
        /\ \A i \in 1..Len(c) : r[i + Len(ab)] = c[i]
    BY <1>8, ConcatAt
  <2>2. r[1 + Len(ab)] = c[1]
    BY <1>6, <2>1
  <2> QED
    BY <1>3, <1>4, <1>6, <1>9, <2>1, <2>2
<1>11. /\ r[1] = Return("lo", 0) /\ r[n + 2] = Redirect(InboundPort)
       /\ \A i \in 1..n : r[i + 1] = Return("port", q[i])
  BY <1>3, <1>4, <1>6, <1>7, <1>9, <1>10
<1>12. \A i \in 1..n + 1 : i = 1 \/ (i - 1 \in 1..n /\ r[i] = Return("port", q[i - 1]))
  <2> SUFFICES ASSUME NEW i \in 1..n + 1, i # 1 PROVE i - 1 \in 1..n /\ r[i] = Return("port", q[i - 1])
    OBVIOUS
  <2>1. i - 1 \in 1..n /\ (i - 1) + 1 = i
    BY <1>3, <1>4
  <2> QED
    BY <1>11, <2>1
<1>13. \A i \in 1..n + 1 : r[i].to = 0
  <2> SUFFICES ASSUME NEW i \in 1..n + 1 PROVE r[i].to = 0
    OBVIOUS
  <2>1. CASE i = 1
    BY <1>11, <2>1, ReturnFields, RedirectFields DEF Kinds
  <2>2. CASE i # 1
    <3>1. q[i - 1] \in Nat /\ r[i] = Return("port", q[i - 1])
      BY <1>3, <1>4, <1>12, <2>2
    <3> QED
      BY <3>1, ReturnFields, RedirectFields DEF Kinds
  <2> QED
    BY <2>1, <2>2
<1>14. ASSUME NEW k \in Packets, k.dir = "in"
       PROVE  Exempted(m, k) <=> \E i \in 1..n + 1 : Matches(r[i], k)
  <2>1. Exempted(m, k) <=> k.lo \/ k.port \in S
    BY <1>1, <1>14 DEF Exempted
  <2>2. Matches(r[1], k) <=> k.lo
    <3>1. r[1].match = "lo"
      BY <1>11, ReturnFields, RedirectFields DEF Kinds
    <3> QED
      BY <3>1 DEF Matches
  <2>3. ASSUME NEW i \in 1..n PROVE Matches(r[i + 1], k) <=> q[i] = k.port
    <3>1. q[i] \in Nat
      BY <1>3, <1>4
    <3>2. r[i + 1].match = "port" /\ r[i + 1].port = q[i]
      BY <1>11, <3>1, ReturnFields, RedirectFields DEF Kinds
    <3> QED
      BY <3>2 DEF Matches
  <2>4. k.port \in S <=> \E i \in 1..n : Matches(r[i + 1], k)
    BY <1>3, <1>4, <2>3
  <2>5. (\E i \in 1..n : Matches(r[i + 1], k)) => \E i \in 1..n + 1 : Matches(r[i], k)
    BY <1>3, <1>4
  <2>6. ASSUME NEW i \in 1..n + 1, Matches(r[i], k) PROVE k.lo \/ \E j \in 1..n : Matches(r[j + 1], k)
    <3>1. CASE i = 1
      BY <2>2, <2>6, <3>1
    <3>2. CASE i # 1
      <4>1. i - 1 \in 1..n /\ (i - 1) + 1 = i
        BY <1>3, <1>4, <3>2
      <4> QED
        BY <2>6, <4>1
    <3> QED
      BY <3>1, <3>2
  <2>7. 1 \in 1..n + 1
    BY <1>3, <1>4
  <2> QED
    BY <2>1, <2>2, <2>4, <2>5, <2>6, <2>7
<1>15. RulesIn(m) = r
  BY <1>1, <1>5, <1>8 DEF RulesIn
<1>16. Len(r) \in Nat \ {0} /\ Len(r) - 1 = n + 1 /\ r[Len(r)] = Redirect(InboundPort)
  BY <1>3, <1>4, <1>10, <1>11
<1> QED
  BY <1>10, <1>13, <1>14, <1>15, <1>16 DEF Exempting, TargetOf

LEMMA RulesOutExempt ==
  ASSUME NEW m
  PROVE  Exempting(m, "out", RulesOut)
<1>1. PICK r : r = RulesOut
  OBVIOUS
<1>2. /\ r[1] = Return("lo", 0) /\ r[2] = Return("proxy", 0) /\ r[3] = Return("port", 443)
      /\ r[4] = Redirect(OutboundPort) /\ Len(r) = 4
  BY <1>1 DEF RulesOut
<1>3. r \in Seq(RuleSet)
  <2>1. /\ Return("lo", 0) \in RuleSet /\ Return("proxy", 0) \in RuleSet /\ Return("port", 443) \in RuleSet
        /\ Redirect(OutboundPort) \in RuleSet
    BY ReturnFields, RedirectFields DEF Kinds, OutboundPort
  <2> QED
    BY <1>1, <2>1 DEF RulesOut
<1>4. \A i \in 1..3 : r[i].to = 0
  BY <1>2, ReturnFields, RedirectFields DEF Kinds
<1>5. ASSUME NEW k \in Packets, k.dir = "out"
      PROVE  Exempted(m, k) <=> \E i \in 1..3 : Matches(r[i], k)
  <2>1. (Matches(r[1], k) <=> k.lo) /\ (Matches(r[2], k) <=> k.proxy) /\ (Matches(r[3], k) <=> k.port = 443)
    <3>1. /\ r[1].match = "lo" /\ r[2].match = "proxy" /\ r[3].match = "port" /\ r[3].port = 443
      BY <1>2, ReturnFields, RedirectFields DEF Kinds
    <3> QED
      BY <3>1 DEF Matches
  <2>2. Exempted(m, k) <=> k.lo \/ k.proxy \/ k.port = 443
    BY <1>5 DEF Exempted
  <2>3. (\E i \in 1..3 : Matches(r[i], k)) <=> Matches(r[1], k) \/ Matches(r[2], k) \/ Matches(r[3], k)
    OBVIOUS
  <2> QED
    BY <2>1, <2>2, <2>3
<1> QED
  BY <1>1, <1>2, <1>3, <1>4, <1>5 DEF Exempting, TargetOf

\* The plan, command by command.
Commands == [op : {"N", "F", "C", "I", "A"}, dir : Dirs, rule : RuleSet]

IsCommand(c, d, r, j) ==
  /\ j \in 1..4 + Len(r) /\ c.dir = d
  /\ (j = 1 => c.op = "N") /\ (j = 2 => c.op = "F") /\ (j = 3 => c.op = "C") /\ (j = 4 => c.op = "I")
  /\ j > 4 => c.op = "A" /\ c.rule = r[j - 4]

Base(m, d) == IF d = "in" THEN 0 ELSE 4 + Len(RulesIn(m))

LEMMA SectionShape ==
  ASSUME NEW d \in Dirs, NEW r \in Seq(RuleSet)
  PROVE  /\ Section(d, r) \in Seq(Commands) /\ Len(Section(d, r)) = 4 + Len(r)
         /\ \A j \in 1..4 + Len(r) : IsCommand(Section(d, r)[j], d, r, j)
<1>1. PICK s, t, u : s = Setup(d) /\ t = Appends(d, r) /\ u = s \o t
  OBVIOUS
<1>2. PICK n : n = Len(r)
  OBVIOUS
<1>3. n \in Nat
  BY <1>2
<1>4. ASSUME NEW op \in {"N", "F", "C", "I"}
      PROVE  Do(op, d) \in Commands /\ Do(op, d).op = op /\ Do(op, d).dir = d
  <2>1. Return("none", 0) \in RuleSet
    BY ReturnFields DEF Kinds
  <2>2. Do(op, d) = [op |-> op, dir |-> d, rule |-> Return("none", 0)]
    BY DEF Do
  <2>3. PICK x : x = Return("none", 0)
    OBVIOUS
  <2>4. [op |-> op, dir |-> d, rule |-> x] \in Commands
    BY <2>1, <2>3 DEF Commands
  <2> QED
    BY <2>2, <2>3, <2>4
<1>5. /\ s \in Seq(Commands) /\ Len(s) = 4
      /\ s[1] = Do("N", d) /\ s[2] = Do("F", d) /\ s[3] = Do("C", d) /\ s[4] = Do("I", d)
  <2>1. PICK w, x, y, z : w = Do("N", d) /\ x = Do("F", d) /\ y = Do("C", d) /\ z = Do("I", d)
    OBVIOUS
  <2>2. w \in Commands /\ x \in Commands /\ y \in Commands /\ z \in Commands
    BY <1>4, <2>1
  <2>3. s = <<w, x, y, z>>
    BY <1>1, <2>1 DEF Setup
  <2> QED
    BY <2>1, <2>2, <2>3
<1>6. /\ t \in Seq(Commands) /\ Len(t) = n
      /\ \A j \in 1..n : t[j].op = "A" /\ t[j].dir = d /\ t[j].rule = r[j]
  <2>1. t = [i \in 1..n |-> [op |-> "A", dir |-> d, rule |-> r[i]]]
    BY <1>1, <1>2 DEF Appends
  <2>2. \A i \in 1..n : [op |-> "A", dir |-> d, rule |-> r[i]] \in Commands
    BY <1>2 DEF Commands
  <2>3. t \in [1..n -> Commands]
    BY <2>1, <2>2
  <2>4. t \in Seq(Commands) /\ Len(t) = n
    BY <1>3, <2>3, FunctionIsSeq
  <2> QED
    BY <2>1, <2>4
<1>7. /\ u \in Seq(Commands) /\ Len(u) = Len(s) + Len(t) /\ \A i \in 1..Len(s) : u[i] = s[i]
      /\ \A i \in 1..Len(t) : u[i + Len(s)] = t[i]
  <2> s \in Seq(Commands) /\ t \in Seq(Commands)
    BY <1>5, <1>6
  <2> QED
    BY <1>1, ConcatAt
<1>8. ASSUME NEW j \in 1..4 + n PROVE IsCommand(u[j], d, r, j)
  <2>1. CASE j \in 1..4
    <3>1. u[j] = s[j]
      BY <1>5, <1>7, <2>1
    <3>2. u[j].dir = d
      BY <1>4, <1>5, <2>1, <3>1
    <3>3. (j = 1 => u[j].op = "N") /\ (j = 2 => u[j].op = "F") /\ (j = 3 => u[j].op = "C") /\ (j = 4 => u[j].op = "I")
      BY <1>4, <1>5, <2>1, <3>1
    <3> QED
      BY <1>2, <2>1, <3>2, <3>3 DEF IsCommand
  <2>2. CASE j > 4
    <3>1. j - 4 \in 1..n /\ (j - 4) + 4 = j
      BY <1>3, <2>2
    <3>2. u[j] = t[j - 4]
      BY <1>5, <1>6, <1>7, <3>1
    <3> QED
      BY <1>2, <1>6, <2>2, <3>1, <3>2 DEF IsCommand
  <2> QED
    BY <1>3, <2>1, <2>2
<1>9. Section(d, r) = u
  BY <1>1 DEF Section
<1> QED
  BY <1>2, <1>3, <1>5, <1>6, <1>7, <1>8, <1>9

LEMMA PlanShape ==
  ASSUME NEW m, m.skip \subseteq Nat, IsFiniteSet(m.skip)
  PROVE  /\ Len(RulesIn(m)) \in Nat /\ Len(BuildRules(m)) = 12 + Len(RulesIn(m)) /\ Len(RulesOut) = 4
         /\ \A i \in 1..Len(BuildRules(m)) : \E d \in Dirs :
              /\ IsCommand(BuildRules(m)[i], d, RulesOf(m, d), i - Base(m, d))
              /\ \A x \in Dirs : \/ x = d \/ i - Base(m, x) <= 0
                                 \/ i - Base(m, x) >= 5 + Len(RulesOf(m, x))
<1>1. PICK r, q, n : r = RulesIn(m) /\ q = RulesOut /\ n = Len(r)
  OBVIOUS
<1>2. r \in Seq(RuleSet) /\ q \in Seq(RuleSet) /\ n \in Nat
  BY <1>1, RulesInExempt, RulesOutExempt DEF Exempting
<1>3. Len(q) = 4
  BY <1>1 DEF RulesOut
<1>4. PICK s, t, u : s = Section("in", r) /\ t = Section("out", q) /\ u = s \o t
  OBVIOUS
<1>5. /\ s \in Seq(Commands) /\ Len(s) = 4 + n
      /\ \A j \in 1..4 + n : IsCommand(s[j], "in", r, j)
  BY <1>1, <1>2, <1>4, SectionShape DEF Dirs
<1>6. /\ t \in Seq(Commands) /\ Len(t) = 8
      /\ \A j \in 1..8 : IsCommand(t[j], "out", q, j)
  <2>1. /\ t \in Seq(Commands) /\ Len(t) = 4 + Len(q)
        /\ \A j \in 1..4 + Len(q) : IsCommand(t[j], "out", q, j)
    BY <1>2, <1>4, SectionShape DEF Dirs
  <2>2. 4 + Len(q) = 8
    BY <1>3
  <2> QED
    BY <2>1, <2>2
<1>7. /\ u \in Seq(Commands) /\ Len(u) = Len(s) + Len(t) /\ \A i \in 1..Len(s) : u[i] = s[i]
      /\ \A i \in 1..Len(t) : u[i + Len(s)] = t[i]
  <2> s \in Seq(Commands) /\ t \in Seq(Commands)
    BY <1>5, <1>6
  <2> QED
    BY <1>4, ConcatAt
<1>8. Len(u) = 12 + n
  BY <1>2, <1>5, <1>6, <1>7
<1>9. BuildRules(m) = u
  BY <1>1, <1>4 DEF BuildRules
<1>10. /\ RulesOf(m, "in") = r /\ RulesOf(m, "out") = q /\ Base(m, "in") = 0 /\ Base(m, "out") = 4 + n
  BY <1>1 DEF RulesOf, Base
<1>11. ASSUME NEW i \in 1..12 + n
       PROVE  \E d \in Dirs :
                /\ IsCommand(u[i], d, RulesOf(m, d), i - Base(m, d))
                /\ \A x \in Dirs : \/ x = d \/ i - Base(m, x) <= 0
                                   \/ i - Base(m, x) >= 5 + Len(RulesOf(m, x))
  <2>1. CASE i <= 4 + n
    <3>1. i \in 1..4 + n /\ i - 0 = i /\ i - (4 + n) <= 0
      BY <1>2, <2>1
    <3>2. IsCommand(u[i], "in", r, i)
      BY <1>5, <1>7, <3>1
    <3>3. \A x \in Dirs : x = "in" \/ i - Base(m, x) <= 0
      BY <1>10, <3>1 DEF Dirs
    <3>4. IsCommand(u[i], "in", RulesOf(m, "in"), i - Base(m, "in"))
      BY <1>10, <3>1, <3>2
    <3> QED
      BY <3>3, <3>4 DEF Dirs
  <2>2. CASE ~(i <= 4 + n)
    <3>1. PICK j : j = i - (4 + n)
      OBVIOUS
    <3>2. j \in 1..8 /\ i = j + (4 + n) /\ i - 0 >= 5 + n
      BY <1>2, <2>2, <3>1
    <3>3. u[i] = t[j]
      BY <1>5, <1>6, <1>7, <3>2
    <3>4. IsCommand(u[i], "out", q, j)
      BY <1>6, <3>2, <3>3
    <3>5. \A x \in Dirs : x = "out" \/ i - Base(m, x) >= 5 + Len(RulesOf(m, x))
      BY <1>1, <1>10, <3>2 DEF Dirs
    <3>6. IsCommand(u[i], "out", RulesOf(m, "out"), i - Base(m, "out"))
      BY <1>10, <3>1, <3>4
    <3> QED
      BY <3>5, <3>6 DEF Dirs
  <2> QED
    BY <2>1, <2>2
<1> QED
  BY <1>1, <1>2, <1>3, <1>8, <1>9, <1>11

(***************************************************************************)
(* The inductive invariant.  While the plan runs, its position tells how   *)
(* far each direction's chain and hook have come.                          *)
(***************************************************************************)
ManifestSet ==
  [enabled : STRING, skip : SUBSET Nat, uid : STRING, level : STRING, mode : STRING,
   gateway : STRING, app : STRING, parts : SUBSET {"init", "proxy"}]

Begins(s, r) == s \in Seq(RuleSet) /\ Len(s) <= Len(r) /\ \A i \in 1..Len(s) : s[i] = r[i]

\* A chain that is there (e) with l of its n rules and h hooks, at the j-th
\* command of its section of the plan.
Progress(n, e, l, h, b, j, sk) ==
  /\ j >= 3 => e
  /\ j \in 3..5 => l = 0
  /\ j \in 5..5 + n => l = j - 5
  /\ j > 5 + n => l = n
  /\ j >= 5 => h > 0
  /\ j = 4 => (sk => h > 0) /\ (~sk /\ ~b => h = 0)

At(m, c, h, b, d, i, sk) ==
  Progress(Len(RulesOf(m, d)), d \in DOMAIN c, Len(c[d]), h[d], b, i - Base(m, d), sk)

TableOK(m, c, h, b, d) ==
  /\ d \in DOMAIN c => Begins(c[d], RulesOf(m, d))
  /\ h[d] > 0 => d \in DOMAIN c
  /\ ~b => h[d] <= 1

RunSet == [pc : {"down", "plan", "failed", "done"}, at : Nat, skip : BOOLEAN]

HijackTypeOK ==
  /\ manifest = NoManifest \/ manifest \in ManifestSet
  /\ verdict \in {"none", "injected", "untouched", "refused"}
  /\ DOMAIN chains \subseteq Dirs
  /\ hooks \in [Dirs -> Nat]
  /\ run \in RunSet
  /\ blind \in BOOLEAN

HijackBefore ==
  verdict # "injected" => run.pc = "down" /\ DOMAIN chains = {} /\ \A d \in Dirs : hooks[d] = 0

HijackTable ==
  verdict = "injected" =>
    /\ manifest \in ManifestSet /\ manifest.parts # {} /\ manifest.skip \subseteq 0..LastPort
    /\ \A d \in Dirs : TableOK(manifest, chains, hooks, blind, d)

HijackRun ==
  /\ run.pc = "plan" =>
       /\ run.at \in 1..Len(Plan)
       /\ \A d \in Dirs : At(manifest, chains, hooks, blind, d, run.at, run.skip)
  /\ run.pc = "done" =>
       \A d \in Dirs : At(manifest, chains, hooks, blind, d, Len(Plan) + 1, run.skip)

HijackInv == HijackTypeOK /\ HijackBefore /\ HijackTable /\ HijackRun

LEMMA HijackInvInit == HijackInit => HijackInv
<1> SUFFICES ASSUME HijackInit PROVE HijackInv
  OBVIOUS
<1>1. DOMAIN chains = {} /\ hooks \in [Dirs -> Nat] /\ \A d \in Dirs : hooks[d] = 0
  BY DEF HijackInit
<1>2. run.pc = "down" /\ run \in RunSet
  BY DEF HijackInit, Down, RunSet
<1>3. manifest = NoManifest /\ verdict = "none" /\ blind \in BOOLEAN
  BY DEF HijackInit
<1> QED
  BY <1>1, <1>2, <1>3 DEF HijackInv, HijackTypeOK, HijackBefore, HijackTable, HijackRun

\* The manifest's ports, and the plan they give.
LEMMA PlanOf ==
  ASSUME HijackInv, verdict = "injected"
  PROVE  /\ manifest.skip \subseteq Nat /\ IsFiniteSet(manifest.skip)
         /\ Len(RulesIn(manifest)) \in Nat /\ Len(Plan) = 12 + Len(RulesIn(manifest)) /\ Len(RulesOut) = 4
<1>1. manifest.skip \subseteq 0..LastPort
  BY DEF HijackInv, HijackTable
<1>2. LastPort \in Nat
  BY DEF LastPort
<1>3. IsFiniteSet(manifest.skip)
  <2>1. IsFiniteSet(0..LastPort)
    BY <1>2, FS_Interval
  <2> QED
    BY <1>1, <2>1, FS_Subset
<1>4. manifest.skip \subseteq Nat
  BY <1>1, <1>2
<1> QED
  BY <1>3, <1>4, PlanShape DEF Plan

LEMMA InjectedTable ==
  ASSUME HijackInv, verdict = "injected"
  PROVE  /\ \A d \in Dirs : TableOK(manifest, chains, hooks, blind, d)
         /\ \A d \in Dirs : RulesOf(manifest, d) \in Seq(RuleSet) /\ Len(RulesOf(manifest, d)) \in Nat
         /\ \A d \in Dirs : Base(manifest, d) \in Nat
<1>1. RulesIn(manifest) \in Seq(RuleSet) /\ RulesOut \in Seq(RuleSet)
  BY PlanOf, RulesInExempt, RulesOutExempt DEF Exempting
<1>2. \A d \in Dirs : RulesOf(manifest, d) \in Seq(RuleSet)
  BY <1>1 DEF RulesOf
<1>3. \A d \in Dirs : Base(manifest, d) \in Nat
  BY PlanOf DEF Base
<1> QED
  BY <1>2, <1>3 DEF HijackInv, HijackTable

LEMMA RunStops ==
  ASSUME NEW r \in RunSet, NEW v \in {"down", "plan", "failed", "done"}, NEW w, w = [r EXCEPT !.pc = v]
  PROVE  w \in RunSet /\ w.pc = v /\ w.at = r.at /\ w.skip = r.skip
  BY DEF RunSet

LEMMA PlanStep ==
  ASSUME HijackInv, run.pc = "plan"
  PROVE  /\ verdict = "injected" /\ run.at \in 1..Len(Plan) /\ run.at \in Nat
         /\ \E d \in Dirs :
              /\ IsCommand(Command, d, RulesOf(manifest, d), run.at - Base(manifest, d))
              /\ \A x \in Dirs : \/ x = d \/ run.at - Base(manifest, x) <= 0
                                 \/ run.at - Base(manifest, x) >= 5 + Len(RulesOf(manifest, x))
<1>1. verdict = "injected" /\ run.at \in 1..Len(Plan)
  BY DEF HijackInv, HijackBefore, HijackRun
<1>2. manifest.skip \subseteq Nat /\ IsFiniteSet(manifest.skip)
  BY <1>1, PlanOf
<1>3. run.at \in Nat
  BY DEF HijackInv, HijackTypeOK, RunSet
<1> QED
  BY <1>1, <1>2, <1>3, PlanShape DEF Plan, Command

\* A step of the plan keeps the invariant when it does for its direction.
LEMMA AdvanceStep ==
  ASSUME HijackInv, run.pc = "plan", NEW d \in Dirs, NEW sk \in BOOLEAN,
         \A x \in Dirs : \/ x = d \/ run.at - Base(manifest, x) <= 0
                         \/ run.at - Base(manifest, x) >= 5 + Len(RulesOf(manifest, x)),
         manifest' = manifest, verdict' = verdict, run' = Advanced(sk),
         blind => blind', blind' \in BOOLEAN, DOMAIN chains' \subseteq Dirs, hooks' \in [Dirs -> Nat],
         \A x \in Dirs : x = d \/ /\ (x \in DOMAIN chains' <=> x \in DOMAIN chains)
                                  /\ x \in DOMAIN chains => chains'[x] = chains[x]
                                  /\ hooks'[x] = hooks[x],
         TableOK(manifest, chains', hooks', blind', d),
         At(manifest, chains', hooks', blind', d, run.at + 1, sk)
  PROVE  HijackInv'
<1>1. verdict = "injected" /\ run.at \in 1..Len(Plan) /\ run.at \in Nat
  BY PlanStep
<1>2. /\ \A x \in Dirs : TableOK(manifest, chains, hooks, blind, x)
      /\ \A x \in Dirs : Len(RulesOf(manifest, x)) \in Nat /\ Base(manifest, x) \in Nat
  BY <1>1, InjectedTable
<1>3. \A x \in Dirs : At(manifest, chains, hooks, blind, x, run.at, run.skip)
  BY DEF HijackInv, HijackRun
<1>4. PICK m, c, h, b, i, s, c2, h2, b2 :
        /\ m = manifest /\ c = chains /\ h = hooks /\ b = blind /\ i = run.at /\ s = run.skip
        /\ c2 = chains' /\ h2 = hooks' /\ b2 = blind'
  OBVIOUS
<1>5. \A x \in Dirs : TableOK(m, c2, h2, b2, x) /\ At(m, c2, h2, b2, x, i + 1, sk)
  <2>1. i \in Nat
    BY <1>1, <1>4
  <2>2. TableOK(m, c2, h2, b2, d) /\ At(m, c2, h2, b2, d, i + 1, sk)
    BY <1>4
  <2>3. ASSUME NEW x \in Dirs, x # d
        PROVE  TableOK(m, c2, h2, b2, x) /\ At(m, c2, h2, b2, x, i + 1, sk)
    <3>1. TableOK(m, c, h, b, x) /\ (b => b2) /\ (x \in DOMAIN c2 <=> x \in DOMAIN c) /\ h2[x] = h[x]
          /\ (x \in DOMAIN c => c2[x] = c[x])
      BY <1>2, <1>4, <2>3
    <3>2. TableOK(m, c2, h2, b2, x)
      BY <3>1 DEF TableOK
    <3>3. PICK k, j : k = Len(RulesOf(m, x)) /\ j = i - Base(m, x)
      OBVIOUS
    <3>4. k \in Nat /\ j \in Int /\ (j <= 0 \/ j >= 5 + k) /\ (i + 1) - Base(m, x) = j + 1
      <4>1. PICK z : z = Base(m, x)
        OBVIOUS
      <4>2. k \in Nat /\ z \in Nat /\ (i - z <= 0 \/ i - z >= 5 + k)
        BY <1>2, <1>4, <2>3, <3>3, <4>1
      <4> QED
        BY <2>1, <3>3, <4>1, <4>2
    <3>5. Progress(k, x \in DOMAIN c, Len(c[x]), h[x], b, j, s)
      BY <1>3, <1>4, <3>3 DEF At
    <3>6. Progress(k, x \in DOMAIN c2, Len(c2[x]), h2[x], b2, j + 1, sk)
      BY <3>1, <3>4, <3>5 DEF Progress
    <3>7. At(m, c2, h2, b2, x, i + 1, sk)
      BY <3>3, <3>4, <3>6 DEF At
    <3> QED
      BY <3>2, <3>7
  <2> QED
    BY <2>2, <2>3
<1>6. PICK n : n = Len(Plan) /\ Plan' = Plan
  BY DEF Plan
<1>7. n = 12 + Len(RulesIn(manifest)) /\ n \in Nat /\ Len(RulesIn(manifest)) \in Nat
  BY <1>1, <1>6, PlanOf
<1>8. run \in RunSet
  BY DEF HijackInv, HijackTypeOK
<1>9. HijackRun' /\ run' \in RunSet
  <2>1. CASE run.at = n
    <3>1. run' = [run EXCEPT !.pc = "done"]
      BY <1>6, <2>1, Zenon DEF Advanced
    <3>2. run'.pc = "done" /\ run'.skip = run.skip /\ run' \in RunSet
      <4>1. PICK u : u = run
        OBVIOUS
      <4>2. run' = [u EXCEPT !.pc = "done"] /\ u \in RunSet
        BY <1>8, <3>1, <4>1
      <4>3. run'.pc = "done" /\ run'.skip = u.skip /\ run' \in RunSet
        BY <4>2 DEF RunSet
      <4> QED
        BY <4>1, <4>3
    <3>3. ASSUME NEW x \in Dirs PROVE At(m, c2, h2, b2, x, n + 1, s)
      <4>1. At(m, c2, h2, b2, x, n + 1, sk)
        BY <1>4, <1>5, <2>1
      <4>2. PICK j : j = (n + 1) - Base(m, x)
        OBVIOUS
      <4>3. j # 4 /\ j \in Int
        BY <1>4, <1>7, <4>2 DEF Base
      <4> QED
        BY <4>1, <4>2, <4>3 DEF At, Progress
    <3>4. \A x \in Dirs : At(manifest', chains', hooks', blind', x, Len(Plan') + 1, run'.skip)
      BY <1>4, <1>6, <3>2, <3>3
    <3> QED
      BY <3>2, <3>4 DEF HijackRun
  <2>2. CASE run.at # n
    <3>1. PICK k : k = run.at + 1
      OBVIOUS
    <3>2. k \in Nat /\ run \in RunSet
      BY <1>1, <1>8, <3>1
    <3>3. run' = [run EXCEPT !.at = k, !.skip = sk]
      BY <1>6, <2>2, <3>1, Zenon DEF Advanced
    <3>4. run' \in RunSet /\ run'.pc = run.pc /\ run'.at = k /\ run'.skip = sk
      <4>1. PICK u, w : u = [run EXCEPT !.at = k] /\ w = run
        OBVIOUS
      <4>2. u = [w EXCEPT !.at = k] /\ w \in RunSet
        BY <3>2, <4>1
      <4>3. u \in RunSet /\ u.pc = w.pc /\ u.at = k
        BY <3>2, <4>2 DEF RunSet
      <4>4. run' = [u EXCEPT !.skip = sk]
        BY <3>3, <4>1
      <4>5. run' \in RunSet /\ run'.pc = u.pc /\ run'.at = u.at /\ run'.skip = sk
        BY <4>3, <4>4 DEF RunSet
      <4> QED
        BY <4>1, <4>3, <4>5
    <3>5. run'.pc = "plan" /\ run'.at = run.at + 1 /\ run'.skip = sk /\ run' \in RunSet
      BY <3>1, <3>4
    <3>6. run'.at \in 1..Len(Plan')
      BY <1>1, <1>6, <1>7, <2>2, <3>5
    <3>7. \A x \in Dirs : At(manifest', chains', hooks', blind', x, run'.at, run'.skip)
      BY <1>4, <1>5, <3>5
    <3> QED
      BY <3>5, <3>6, <3>7 DEF HijackRun
  <2> QED
    BY <2>1, <2>2
<1>10. HijackTypeOK'
  BY <1>9 DEF HijackInv, HijackTypeOK
<1>11. HijackBefore'
  BY <1>1 DEF HijackBefore
<1>12. HijackTable'
  <2>1. \A x \in Dirs : TableOK(manifest', chains', hooks', blind', x)
    BY <1>4, <1>5
  <2> QED
    BY <2>1, <1>1 DEF HijackInv, HijackTable
<1> QED
  BY <1>9, <1>10, <1>11, <1>12 DEF HijackInv

LEMMA AbortStep ==
  ASSUME HijackInv, verdict = "injected", manifest' = manifest, verdict' = verdict, chains' = chains,
         hooks' = hooks, blind' = blind, NEW r, run' = r, r.pc = "failed",
         r \in RunSet
  PROVE  HijackInv'
  BY DEF HijackInv, HijackTypeOK, HijackBefore, HijackTable, HijackRun

LEMMA HijackChoose == HijackInv /\ ChooseManifest => HijackInv'
<1> SUFFICES ASSUME HijackInv, ChooseManifest PROVE HijackInv'
  OBVIOUS
<1>1. /\ manifest = NoManifest /\ manifest' \in Manifests /\ verdict' = verdict /\ chains' = chains
      /\ hooks' = hooks /\ run' = run /\ blind' = blind
  BY DEF ChooseManifest
<1>2. manifest' \in ManifestSet /\ NoManifest.parts = {}
  BY <1>1, SidecarAssumption DEF ManifestSet
<1>3. verdict # "injected" /\ run.pc = "down"
  BY <1>1, <1>2 DEF HijackInv, HijackTable, HijackBefore
<1> QED
  BY <1>1, <1>2, <1>3 DEF HijackInv, HijackTypeOK, HijackBefore, HijackTable, HijackRun

LEMMA HijackInject == HijackInv /\ Inject => HijackInv'
<1> SUFFICES ASSUME HijackInv, Inject PROVE HijackInv'
  OBVIOUS
<1>1. /\ chains' = chains /\ hooks' = hooks /\ run' = run /\ blind' = blind
      /\ manifest # NoManifest /\ verdict = "none"
  BY DEF Inject
<1>2. /\ manifest \in ManifestSet /\ run.pc = "down" /\ DOMAIN chains = {}
      /\ \A d \in Dirs : hooks[d] = 0
  BY <1>1 DEF HijackInv, HijackTypeOK, HijackBefore
<1>3. CASE verdict' \in {"refused", "untouched"} /\ manifest' = manifest
  BY <1>1, <1>2, <1>3 DEF HijackInv, HijackTypeOK, HijackBefore, HijackTable, HijackRun
<1>4. CASE /\ verdict' = "injected" /\ ParseAnnotations(manifest)
           /\ manifest' = [manifest EXCEPT !.parts = {"init", "proxy"}]
  <2>1. manifest.skip \subseteq 0..LastPort
    BY <1>4 DEF ParseAnnotations
  <2>2. PICK m, p : m = manifest /\ p = {"init", "proxy"}
    OBVIOUS
  <2>3. p \in SUBSET {"init", "proxy"} /\ p # {}
    BY <2>2, Zenon
  <2>4. manifest' = [m EXCEPT !.parts = p] /\ m \in ManifestSet
    BY <1>2, <1>4, <2>2
  <2>5. manifest' \in ManifestSet /\ manifest'.parts = p /\ manifest'.skip = m.skip
    BY <2>3, <2>4 DEF ManifestSet
  <2>6. \A d \in Dirs : TableOK(manifest', chains', hooks', blind', d)
    BY <1>1, <1>2 DEF TableOK
  <2>7. manifest'.skip \subseteq 0..LastPort /\ manifest'.parts # {}
    BY <2>1, <2>2, <2>3, <2>5
  <2> QED
    BY <1>1, <1>2, <1>4, <2>5, <2>6, <2>7 DEF HijackInv, HijackTypeOK, HijackBefore, HijackTable, HijackRun
<1> QED
  BY <1>3, <1>4, Zenon DEF Inject

LEMMA HijackStart == HijackInv /\ StartInit => HijackInv'
<1> SUFFICES ASSUME HijackInv, StartInit PROVE HijackInv'
  OBVIOUS
<1>1. /\ verdict = "injected" /\ manifest' = manifest /\ verdict' = verdict /\ chains' = chains
      /\ hooks' = hooks /\ blind' = blind
  BY DEF StartInit
<1>2. PICK f, p : f = [Down EXCEPT !.pc = "failed"] /\ p = [Down EXCEPT !.pc = "plan"]
  OBVIOUS
<1>3. f \in RunSet /\ f.pc = "failed"
  BY <1>2 DEF Down, RunSet
<1>4. p \in RunSet /\ p.pc = "plan" /\ p.at = 1 /\ p.skip = FALSE
  BY <1>2 DEF Down, RunSet
<1>5. CASE run' = f
  BY <1>1, <1>3, <1>5, AbortStep
<1>6. CASE run' = p
  <2>1. Len(RulesIn(manifest)) \in Nat /\ Len(Plan) = 12 + Len(RulesIn(manifest)) /\ Plan' = Plan
    BY <1>1, PlanOf DEF Plan
  <2>2. run'.at \in 1..Len(Plan')
    BY <1>4, <1>6, <2>1
  <2>3. ASSUME NEW d \in Dirs PROVE At(manifest', chains', hooks', blind', d, run'.at, run'.skip)
    <3>1. PICK j : j = 1 - Base(manifest, d)
      OBVIOUS
    <3>2. j \in Int /\ j <= 1
      BY <1>1, <3>1, InjectedTable
    <3>3. Len(RulesOf(manifest, d)) \in Nat
      BY <1>1, InjectedTable
    <3> QED
      BY <1>1, <1>4, <1>6, <3>1, <3>2, <3>3 DEF At, Progress
  <2> QED
    BY <1>1, <1>4, <1>6, <2>2, <2>3 DEF HijackInv, HijackTypeOK, HijackBefore, HijackTable, HijackRun
<1> QED
  BY <1>2, <1>5, <1>6, Zenon DEF StartInit

LEMMA WithFacts ==
  ASSUME NEW d \in Dirs, NEW r, DOMAIN chains \subseteq Dirs, NEW c, c = With(d, r)
  PROVE  /\ DOMAIN c \subseteq Dirs /\ d \in DOMAIN c /\ c[d] = r
         /\ \A x \in Dirs : x = d \/ ((x \in DOMAIN c <=> x \in DOMAIN chains) /\ (x \in DOMAIN chains => c[x] = chains[x]))
  BY DEF With

LEMMA BeginsAppend ==
  ASSUME NEW r \in Seq(RuleSet), NEW s, Begins(s, r), Len(s) < Len(r), NEW u, u = Append(s, r[Len(s) + 1])
  PROVE  Begins(u, r) /\ Len(u) = Len(s) + 1
<1>1. s \in Seq(RuleSet) /\ Len(s) \in Nat /\ Len(r) \in Nat
  BY DEF Begins
<1>2. r[Len(s) + 1] \in RuleSet
  BY <1>1
<1>3. u \in Seq(RuleSet) /\ Len(u) = Len(s) + 1 /\ u[Len(s) + 1] = r[Len(s) + 1]
      /\ \A i \in 1..Len(s) : u[i] = s[i]
  BY <1>1, <1>2
<1>4. ASSUME NEW i \in 1..Len(u) PROVE u[i] = r[i]
  <2>1. i \in 1..Len(s) \/ i = Len(s) + 1
    BY <1>1, <1>3
  <2> QED
    BY <1>3, <2>1 DEF Begins
<1> QED
  BY <1>1, <1>3, <1>4 DEF Begins

LEMMA Position ==
  ASSUME HijackInv, run.pc = "plan"
  PROVE  \E d \in Dirs, n \in Nat, j \in Int :
           /\ n = Len(RulesOf(manifest, d)) /\ j = run.at - Base(manifest, d)
           /\ (run.at + 1) - Base(manifest, d) = j + 1
           /\ IsCommand(Command, d, RulesOf(manifest, d), j)
           /\ \A x \in Dirs : \/ x = d \/ run.at - Base(manifest, x) <= 0
                              \/ run.at - Base(manifest, x) >= 5 + Len(RulesOf(manifest, x))
           /\ Progress(n, d \in DOMAIN chains, Len(chains[d]), hooks[d], blind, j, run.skip)
           /\ TableOK(manifest, chains, hooks, blind, d) /\ hooks[d] \in Nat
<1>1. PICK d \in Dirs :
        /\ IsCommand(Command, d, RulesOf(manifest, d), run.at - Base(manifest, d))
        /\ \A x \in Dirs : \/ x = d \/ run.at - Base(manifest, x) <= 0
                           \/ run.at - Base(manifest, x) >= 5 + Len(RulesOf(manifest, x))
  BY PlanStep
<1>2. PICK n, j : n = Len(RulesOf(manifest, d)) /\ j = run.at - Base(manifest, d)
  OBVIOUS
<1>3. /\ n \in Nat /\ j \in Int /\ (run.at + 1) - Base(manifest, d) = j + 1
      /\ TableOK(manifest, chains, hooks, blind, d)
  BY <1>2, PlanStep, InjectedTable
<1>4. Progress(n, d \in DOMAIN chains, Len(chains[d]), hooks[d], blind, j, run.skip)
  BY <1>2 DEF HijackInv, HijackRun, At
<1>5. hooks[d] \in Nat
  BY DEF HijackInv, HijackTypeOK
<1> QED
  BY <1>1, <1>2, <1>3, <1>4, <1>5

LEMMA HijackSkip == HijackInv /\ SkipInsert => HijackInv'
<1> SUFFICES ASSUME HijackInv, SkipInsert PROVE HijackInv'
  OBVIOUS
<1>1. /\ run.pc = "plan" /\ run.skip /\ Command.op = "I" /\ run' = Advanced(FALSE) /\ manifest' = manifest
      /\ verdict' = verdict /\ chains' = chains /\ hooks' = hooks /\ blind' = blind
  BY DEF SkipInsert
<1>2. PICK d \in Dirs, n \in Nat, j \in Int :
        /\ n = Len(RulesOf(manifest, d)) /\ (run.at + 1) - Base(manifest, d) = j + 1
        /\ IsCommand(Command, d, RulesOf(manifest, d), j)
        /\ \A x \in Dirs : \/ x = d \/ run.at - Base(manifest, x) <= 0
                           \/ run.at - Base(manifest, x) >= 5 + Len(RulesOf(manifest, x))
        /\ Progress(n, d \in DOMAIN chains, Len(chains[d]), hooks[d], blind, j, run.skip)
        /\ TableOK(manifest, chains, hooks, blind, d) /\ hooks[d] \in Nat
  BY <1>1, Position
<1>3. j = 4
  BY <1>1, <1>2 DEF IsCommand
<1>4. Progress(n, d \in DOMAIN chains, Len(chains[d]), hooks[d], blind, j + 1, FALSE)
  BY <1>1, <1>2, <1>3 DEF Progress
<1>5. At(manifest, chains', hooks', blind', d, run.at + 1, FALSE)
  BY <1>1, <1>2, <1>4 DEF At
<1>6. blind' \in BOOLEAN /\ DOMAIN chains' \subseteq Dirs /\ hooks' \in [Dirs -> Nat]
  BY <1>1 DEF HijackInv, HijackTypeOK
<1>7. /\ TableOK(manifest, chains', hooks', blind', d) /\ FALSE \in BOOLEAN
      /\ \A x \in Dirs : x = d \/ /\ (x \in DOMAIN chains' <=> x \in DOMAIN chains)
                                  /\ x \in DOMAIN chains => chains'[x] = chains[x]
                                  /\ hooks'[x] = hooks[x]
  BY <1>1, <1>2
<1> QED
  BY <1>1, <1>2, <1>5, <1>6, <1>7, AdvanceStep

LEMMA HijackExec == HijackInv /\ Exec => HijackInv'
<1> SUFFICES ASSUME HijackInv, Exec PROVE HijackInv'
  OBVIOUS
<1>1. /\ run.pc = "plan" /\ ~(run.skip /\ Command.op = "I") /\ CanDo(Command) /\ TableAfter(Command)
      /\ manifest' = manifest /\ verdict' = verdict /\ blind' = blind
  BY DEF Exec
<1>2. PICK d \in Dirs, n \in Nat, j \in Int :
        /\ n = Len(RulesOf(manifest, d)) /\ (run.at + 1) - Base(manifest, d) = j + 1
        /\ IsCommand(Command, d, RulesOf(manifest, d), j)
        /\ \A x \in Dirs : \/ x = d \/ run.at - Base(manifest, x) <= 0
                           \/ run.at - Base(manifest, x) >= 5 + Len(RulesOf(manifest, x))
        /\ Progress(n, d \in DOMAIN chains, Len(chains[d]), hooks[d], blind, j, run.skip)
        /\ TableOK(manifest, chains, hooks, blind, d) /\ hooks[d] \in Nat
  BY <1>1, Position
<1>3. PICK c : c = Command
  OBVIOUS
<1>4. /\ c.dir = d /\ j \in 1..4 + n /\ (j = 1 => c.op = "N") /\ (j = 2 => c.op = "F") /\ (j = 3 => c.op = "C")
      /\ (j = 4 => c.op = "I") /\ (j > 4 => c.op = "A" /\ c.rule = RulesOf(manifest, d)[j - 4])
  BY <1>2, <1>3 DEF IsCommand
<1>5. verdict = "injected" /\ RulesOf(manifest, d) \in Seq(RuleSet)
  BY <1>1, PlanStep, InjectedTable
<1>6. DOMAIN chains \subseteq Dirs /\ hooks \in [Dirs -> Nat] /\ blind' \in BOOLEAN
  BY <1>1 DEF HijackInv, HijackTypeOK
<1>7. PICK sk \in BOOLEAN : (sk <=> c.op = "C") /\ run' = Advanced(sk)
  <2>1. PICK sk \in BOOLEAN : sk = (c.op = "C")
    BY Zenon
  <2>2. run' = Advanced(c.op = "C")
    BY <1>3, Zenon DEF Exec
  <2>3. run' = Advanced(sk)
    BY <2>1, <2>2, Zenon
  <2> QED
    BY <2>1, <2>3, Zenon
<1> DEFINE Others == \A x \in Dirs : x = d \/ /\ (x \in DOMAIN chains' <=> x \in DOMAIN chains)
                                              /\ x \in DOMAIN chains => chains'[x] = chains[x]
                                              /\ hooks'[x] = hooks[x]
           Own == /\ DOMAIN chains' \subseteq Dirs /\ hooks' \in [Dirs -> Nat]
                  /\ TableOK(manifest, chains', hooks', blind', d)
                  /\ Progress(n, d \in DOMAIN chains', Len(chains'[d]), hooks'[d], blind', j + 1, sk)
<1>8. ASSUME j \in {1, 2} PROVE Own /\ Others
  <2>1. chains' = With(d, <<>>) /\ hooks' = hooks
    BY <1>1, <1>3, <1>4, <1>8 DEF TableAfter
  <2>2. /\ DOMAIN chains' \subseteq Dirs /\ d \in DOMAIN chains' /\ chains'[d] = <<>>
        /\ \A x \in Dirs : x = d \/ /\ (x \in DOMAIN chains' <=> x \in DOMAIN chains)
                                    /\ x \in DOMAIN chains => chains'[x] = chains[x]
    BY <1>6, <2>1, WithFacts
  <2>3. Begins(chains'[d], RulesOf(manifest, d)) /\ Len(chains'[d]) = 0
    BY <1>5, <2>2 DEF Begins
  <2>4. TableOK(manifest, chains', hooks', blind', d)
    BY <1>1, <1>2, <2>1, <2>2, <2>3 DEF TableOK
  <2>5. Progress(n, d \in DOMAIN chains', Len(chains'[d]), hooks'[d], blind', j + 1, sk)
    BY <1>8, <2>2, <2>3 DEF Progress
  <2> QED
    BY <1>6, <2>1, <2>2, <2>4, <2>5
<1>9. ASSUME j = 3 PROVE Own /\ Others
  <2>1. chains' = chains /\ hooks' = hooks /\ hooks[d] > 0 /\ sk
    BY <1>1, <1>3, <1>4, <1>7, <1>9 DEF TableAfter, CanDo
  <2>2. Progress(n, d \in DOMAIN chains', Len(chains'[d]), hooks'[d], blind', j + 1, sk)
    BY <1>2, <1>9, <2>1 DEF Progress
  <2> QED
    BY <1>1, <1>2, <1>6, <2>1, <2>2
<1>10. ASSUME j = 4 PROVE Own /\ Others
  <2>1. chains' = chains /\ hooks' = [hooks EXCEPT ![d] = @ + 1] /\ ~run.skip /\ d \in DOMAIN chains
    BY <1>1, <1>3, <1>4, <1>10 DEF TableAfter, CanDo, Exists
  <2>2. hooks' \in [Dirs -> Nat] /\ hooks'[d] = hooks[d] + 1 /\ \A x \in Dirs : x = d \/ hooks'[x] = hooks[x]
    BY <1>6, <2>1
  <2>3. Len(chains[d]) = 0 /\ (~blind => hooks[d] = 0)
    BY <1>2, <1>10, <2>1 DEF Progress
  <2>4. TableOK(manifest, chains', hooks', blind', d)
    BY <1>1, <1>2, <2>1, <2>2, <2>3 DEF TableOK
  <2>5. Progress(n, d \in DOMAIN chains', Len(chains'[d]), hooks'[d], blind', j + 1, sk)
    BY <1>2, <1>10, <2>1, <2>2, <2>3 DEF Progress
  <2> QED
    BY <1>6, <2>1, <2>2, <2>4, <2>5
<1>11. ASSUME j > 4 PROVE Own /\ Others
  <2>1. chains' = With(d, Append(chains[d], c.rule)) /\ hooks' = hooks /\ d \in DOMAIN chains
    BY <1>1, <1>3, <1>4, <1>11 DEF TableAfter, CanDo, Exists
  <2>2. PICK u : u = Append(chains[d], c.rule)
    OBVIOUS
  <2>3. /\ DOMAIN chains' \subseteq Dirs /\ d \in DOMAIN chains' /\ chains'[d] = u
        /\ \A x \in Dirs : x = d \/ /\ (x \in DOMAIN chains' <=> x \in DOMAIN chains)
                                    /\ x \in DOMAIN chains => chains'[x] = chains[x]
    <3>1. chains' = With(d, u)
      BY <2>1, <2>2
    <3> QED
      BY <1>6, <3>1, WithFacts
  <2>4. Len(chains[d]) = j - 5 /\ hooks[d] > 0
    BY <1>2, <1>4, <1>11 DEF Progress
  <2>5. Begins(chains[d], RulesOf(manifest, d)) /\ c.rule = RulesOf(manifest, d)[Len(chains[d]) + 1] /\ Len(chains[d]) < n
    BY <1>2, <1>4, <1>11, <2>1, <2>4 DEF TableOK
  <2>6. Begins(u, RulesOf(manifest, d)) /\ Len(u) = j - 4
    <3>1. PICK r, v : r = RulesOf(manifest, d) /\ v = chains[d]
      OBVIOUS
    <3>2. r \in Seq(RuleSet) /\ Begins(v, r) /\ Len(v) < Len(r) /\ u = Append(v, r[Len(v) + 1])
      BY <1>2, <1>5, <2>2, <2>5, <3>1
    <3>3. Begins(u, r) /\ Len(u) = Len(v) + 1
      BY <3>2, BeginsAppend
    <3> QED
      BY <1>4, <2>4, <3>1, <3>3
  <2>7. TableOK(manifest, chains', hooks', blind', d)
    BY <1>1, <1>2, <2>1, <2>3, <2>6 DEF TableOK
  <2>8. Progress(n, d \in DOMAIN chains', Len(chains'[d]), hooks'[d], blind', j + 1, sk)
    BY <1>2, <1>4, <1>11, <2>1, <2>3, <2>4, <2>6 DEF Progress
  <2> QED
    BY <1>6, <2>1, <2>3, <2>7, <2>8
<1>12. Own /\ Others
  <2>1. j \in {1, 2} \/ j = 3 \/ j = 4 \/ j > 4
    BY <1>4
  <2> QED
    BY <1>8, <1>9, <1>10, <1>11, <2>1
<1>13. At(manifest, chains', hooks', blind', d, run.at + 1, sk)
  BY <1>2, <1>12 DEF At
<1>14. blind => blind'
  BY <1>1
<1> QED
  BY <1>1, <1>2, <1>6, <1>7, <1>12, <1>13, <1>14, AdvanceStep

LEMMA HijackFail == ASSUME NEW sp \in BOOLEAN, HijackInv, Fail(sp) PROVE HijackInv'
<1>1. /\ run.pc = "plan" /\ ~(run.skip /\ Command.op = "I") /\ (sp \/ ~CanDo(Command))
      /\ manifest' = manifest /\ verdict' = verdict /\ chains' = chains /\ hooks' = hooks
  BY DEF Fail
<1>2. PICK d \in Dirs, n \in Nat, j \in Int :
        /\ n = Len(RulesOf(manifest, d)) /\ (run.at + 1) - Base(manifest, d) = j + 1
        /\ IsCommand(Command, d, RulesOf(manifest, d), j)
        /\ \A x \in Dirs : \/ x = d \/ run.at - Base(manifest, x) <= 0
                           \/ run.at - Base(manifest, x) >= 5 + Len(RulesOf(manifest, x))
        /\ Progress(n, d \in DOMAIN chains, Len(chains[d]), hooks[d], blind, j, run.skip)
        /\ TableOK(manifest, chains, hooks, blind, d) /\ hooks[d] \in Nat
  BY <1>1, Position
<1>3. PICK c : c = Command
  OBVIOUS
<1>4. /\ c.dir = d /\ j \in 1..4 + n /\ (j = 1 => c.op = "N") /\ (j = 2 => c.op = "F") /\ (j = 3 => c.op = "C")
      /\ (j = 4 => c.op = "I") /\ (j > 4 => c.op = "A")
  BY <1>2, <1>3 DEF IsCommand
<1>5. verdict = "injected" /\ run \in RunSet /\ blind \in BOOLEAN /\ DOMAIN chains \subseteq Dirs /\ hooks \in [Dirs -> Nat]
  BY <1>1, PlanStep DEF HijackInv, HijackTypeOK
<1>6. blind' \in BOOLEAN /\ (blind' <=> blind \/ (sp /\ c.op = "C"))
  <2>1. blind' = (blind \/ (sp /\ c.op = "C"))
    BY <1>3, Zenon DEF Fail
  <2> QED
    BY <1>5, <2>1, Zenon
<1>7. CASE j \in {1, 3}
  <2>1. run' = Advanced(FALSE)
    <3>1. c.op \in {"N", "C"}
      BY <1>4, <1>7
    <3> QED
      BY <1>3, <3>1, Zenon DEF Fail
  <2>2. j = 3 => (blind' \/ hooks[d] = 0)
    <3>1. CASE sp
      BY <1>4, <1>6, <3>1
    <3>2. CASE ~sp
      <4>1. j = 3 => ~(hooks[d] > 0)
        BY <1>1, <1>3, <1>4, <3>2 DEF CanDo
      <4> QED
        BY <1>2, <4>1
    <3> QED
      BY <3>1, <3>2
  <2>3. Progress(n, d \in DOMAIN chains, Len(chains[d]), hooks[d], blind', j + 1, FALSE)
    <3>1. CASE j = 1
      BY <3>1 DEF Progress
    <3>2. CASE j = 3
      BY <1>2, <2>2, <3>2 DEF Progress
    <3> QED
      BY <1>7, <3>1, <3>2
  <2>4. At(manifest, chains', hooks', blind', d, run.at + 1, FALSE)
    BY <1>1, <1>2, <2>3 DEF At
  <2>5. TableOK(manifest, chains', hooks', blind', d) /\ (blind => blind') /\ FALSE \in BOOLEAN
    BY <1>1, <1>2, <1>6 DEF TableOK
  <2>6. /\ DOMAIN chains' \subseteq Dirs /\ hooks' \in [Dirs -> Nat]
        /\ \A x \in Dirs : x = d \/ /\ (x \in DOMAIN chains' <=> x \in DOMAIN chains)
                                    /\ x \in DOMAIN chains => chains'[x] = chains[x]
                                    /\ hooks'[x] = hooks[x]
    BY <1>1, <1>5
  <2> QED
    BY <1>1, <1>2, <1>6, <2>1, <2>4, <2>5, <2>6, AdvanceStep
<1>8. CASE j \notin {1, 3}
  <2>1. c.op \notin {"N", "C"}
    BY <1>4, <1>8
  <2>2. run' = [run EXCEPT !.pc = "failed"]
    BY <1>3, <2>1, Zenon DEF Fail
  <2>3. PICK r : r = run'
    OBVIOUS
  <2>4. r \in RunSet /\ r.pc = "failed"
    BY <1>5, <2>2, <2>3, RunStops, Zenon
  <2>5. blind' = blind
    <3>1. blind' <=> blind
      BY <1>6, <2>1
    <3> QED
      BY <1>5, <1>6, <3>1, Zenon
  <2> QED
    BY <1>1, <1>5, <2>3, <2>4, <2>5, AbortStep
<1> QED
  BY <1>7, <1>8

LEMMA HijackInvNext == HijackInv /\ [HijackNext]_hijackVars => HijackInv'
<1>1. CASE UNCHANGED hijackVars
  <2> SUFFICES ASSUME HijackInv PROVE HijackInv'
    BY <1>1
  <2>1. /\ manifest' = manifest /\ verdict' = verdict /\ chains' = chains /\ hooks' = hooks
        /\ run' = run /\ blind' = blind
    BY <1>1 DEF hijackVars
  <2>2. Plan' = Plan
    BY <2>1 DEF Plan
  <2> QED
    BY <2>1, <2>2 DEF HijackInv, HijackTypeOK, HijackBefore, HijackTable, HijackRun
<1>2. CASE HijackNext
  BY <1>2, HijackChoose, HijackInject, HijackStart, HijackSkip, HijackExec, HijackFail DEF HijackNext
<1> QED
  BY <1>1, <1>2

(***************************************************************************)
(* What the table does with a connection, from the rules it holds.         *)
(***************************************************************************)
LEMMA VerdictOf ==
  ASSUME NEW m, NEW k \in Packets, NEW r, Exempting(m, k.dir, r),
         hooks[k.dir] > 0 => Begins(chains[k.dir], r)
  PROVE  /\ Verdict(k) \in {0, TargetOf(k.dir)}
         /\ Exempted(m, k) => Verdict(k) = 0
         /\ (hooks[k.dir] > 0 /\ Len(chains[k.dir]) = Len(r) /\ ~Exempted(m, k)) => Verdict(k) = TargetOf(k.dir)
<1> DEFINE s == IF hooks[k.dir] > 0 THEN chains[k.dir] ELSE <<>>
           q == {i \in DOMAIN s : Matches(s[i], k)}
           f == CHOOSE i \in q : \A j \in q : i <= j
<1>1. Verdict(k) = IF q = {} THEN 0 ELSE s[f].to
  BY DEF Verdict
<1>2. f = CHOOSE i \in q : \A j \in q : i <= j
  OBVIOUS
<1> HIDE DEF f
<1>3. q = {i \in DOMAIN s : Matches(s[i], k)}
  OBVIOUS
<1> HIDE DEF q
<1>4. s = IF hooks[k.dir] > 0 THEN chains[k.dir] ELSE <<>>
  OBVIOUS
<1> HIDE DEF s
<1>5. /\ r \in Seq(RuleSet) /\ Len(r) \in Nat \ {0}
      /\ \A i \in 1..Len(r) - 1 : r[i].to = 0
      /\ r[Len(r)] = Redirect(TargetOf(k.dir))
      /\ (Exempted(m, k) <=> \E i \in 1..Len(r) - 1 : Matches(r[i], k))
  BY DEF Exempting
<1>6. TargetOf(k.dir) \in Nat
  BY DEF TargetOf, InboundPort, OutboundPort
<1>7. r[Len(r)].to = TargetOf(k.dir) /\ Matches(r[Len(r)], k)
  <2>1. r[Len(r)].to = TargetOf(k.dir) /\ r[Len(r)].match = "all"
    BY <1>5, <1>6, RedirectFields
  <2> QED
    BY <2>1 DEF Matches
<1>8. s \in Seq(RuleSet) /\ Len(s) <= Len(r) /\ \A i \in 1..Len(s) : s[i] = r[i]
  <2>1. CASE hooks[k.dir] > 0
    BY <1>4, <2>1 DEF Begins
  <2>2. CASE ~(hooks[k.dir] > 0)
    <3>1. s = <<>>
      BY <1>4, <2>2
    <3> QED
      BY <1>5, <3>1
  <2> QED
    BY <2>1, <2>2
<1>9. DOMAIN s = 1..Len(s) /\ Len(s) \in Nat
  BY <1>8
<1>10. \A i : i \in q <=> i \in 1..Len(s) /\ Matches(r[i], k)
  BY <1>3, <1>8, <1>9
<1>11. ASSUME q # {}
       PROVE  f \in q /\ \A j \in q : f <= j
  <2>1. q \subseteq Nat
    BY <1>9, <1>10
  <2>2. \E i \in q : \A j \in q : i <= j
    BY <1>11, <2>1, SmallestElement
  <2> QED
    BY <1>2, <2>2, Zenon
<1>12. ASSUME q # {}, f # Len(r)
       PROVE  Verdict(k) = 0 /\ Exempted(m, k)
  <2>1. f \in 1..Len(s) /\ Matches(r[f], k) /\ f \in 1..Len(r) - 1
    BY <1>5, <1>8, <1>9, <1>10, <1>11, <1>12
  <2>2. s[f].to = 0
    BY <1>5, <1>8, <2>1
  <2> QED
    BY <1>1, <1>5, <1>12, <2>1, <2>2
<1>13. ASSUME q # {}, f = Len(r)
       PROVE  Verdict(k) = TargetOf(k.dir) /\ ~Exempted(m, k)
  <2>1. f \in 1..Len(s) /\ Len(s) = Len(r)
    BY <1>5, <1>8, <1>9, <1>10, <1>11, <1>13
  <2>2. \A i \in 1..Len(r) - 1 : ~Matches(r[i], k)
    <3> SUFFICES ASSUME NEW i \in 1..Len(r) - 1, Matches(r[i], k) PROVE FALSE
      OBVIOUS
    <3>1. i \in 1..Len(s) /\ ~(f <= i)
      BY <1>5, <1>13, <2>1
    <3> QED
      BY <1>10, <1>11, <1>13, <3>1
  <2>3. s[f].to = TargetOf(k.dir)
    BY <1>7, <1>8, <1>13, <2>1
  <2> QED
    BY <1>1, <1>5, <1>13, <2>2, <2>3
<1>14. ASSUME hooks[k.dir] > 0, Len(chains[k.dir]) = Len(r)
       PROVE  q # {}
  <2>1. Len(s) = Len(r)
    BY <1>4, <1>14
  <2>2. Len(r) \in q
    BY <1>5, <1>7, <1>10, <2>1
  <2> QED
    BY <2>2
<1>15. q = {} => Verdict(k) = 0
  BY <1>1
<1> QED
  BY <1>12, <1>13, <1>14, <1>15

LEMMA ListenerFields ==
  ASSUME NEW role \in {"inbound", "outbound"}, NEW port
  PROVE  LET l == Listener(role, port)
         IN  l.addr[2] = port /\ l.role = role /\ UsesTransparent(l)
<1>1. PICK b \in BOOLEAN : b = (role # "admin")
  BY Zenon
<1>2. b
  BY <1>1, Zenon
<1>3. PICK a, l : a = <<"any", port>> /\ l = Listener(role, port)
  OBVIOUS
<1>4. l = [role |-> role, addr |-> a, transparent |-> b, detect |-> 3000, tls |-> FALSE, cert |-> "none", key |-> "none"]
  BY <1>1, <1>3, Zenon DEF Listener
<1>5. l.role = role /\ l.addr = a /\ l.transparent = b
  BY <1>4
<1>6. a[2] = port
  BY <1>3
<1>7. UsesTransparent(l)
  BY <1>2, <1>5 DEF UsesTransparent
<1> QED
  BY <1>3, <1>5, <1>6, <1>7, Zenon

LEMMA HijackInvSuffices == HijackInv => HijackIsSafe
<1> SUFFICES ASSUME HijackInv, verdict = "injected"
             PROVE  /\ \A k \in Connections : Exempt(k) => Verdict(k) = 0
                    /\ \A k \in Connections : Verdict(k) # 0 =>
                         \E i \in DOMAIN RenderConfig(manifest).listeners :
                           LET l == RenderConfig(manifest).listeners[i]
                           IN  l.addr[2] = Verdict(k) /\ l.role = Target(k) /\ UsesTransparent(l)
                    /\ run.pc = "done" =>
                         /\ \A k \in Connections : ~Exempt(k) => Verdict(k) # 0
                         /\ ~blind => \A d \in Dirs : hooks[d] = 1
  BY Zenon DEF HijackIsSafe
<1>1. PICK m : m = manifest
  OBVIOUS
<1>2. m.skip \subseteq Nat /\ IsFiniteSet(m.skip) /\ Len(RulesIn(m)) \in Nat /\ Len(Plan) = 12 + Len(RulesIn(m)) /\ Len(RulesOut) = 4
  BY <1>1, PlanOf
<1>3. \A d \in Dirs : Exempting(m, d, RulesOf(m, d))
  BY <1>2, RulesInExempt, RulesOutExempt DEF Dirs, RulesOf
<1>4. \A d \in Dirs : TableOK(m, chains, hooks, blind, d)
  BY <1>1, InjectedTable
<1>5. ASSUME run.pc = "done", NEW d \in Dirs
      PROVE  hooks[d] > 0 /\ Len(chains[d]) = Len(RulesOf(m, d))
  <2>1. At(m, chains, hooks, blind, d, Len(Plan) + 1, run.skip)
    BY <1>1, <1>5 DEF HijackInv, HijackRun
  <2>2. PICK n, j : n = Len(RulesOf(m, d)) /\ j = (Len(Plan) + 1) - Base(m, d)
    OBVIOUS
  <2>3. n \in Nat /\ j \in Int /\ j >= 5 + n
    <3>1. CASE d = "in"
      <4>1. n = Len(RulesIn(m)) /\ j = (Len(Plan) + 1) - 0
        BY <2>2, <3>1 DEF RulesOf, Base
      <4> QED
        BY <1>2, <4>1
    <3>2. CASE d # "in"
      <4>1. n = Len(RulesOut) /\ j = (Len(Plan) + 1) - (4 + Len(RulesIn(m)))
        BY <2>2, <3>2 DEF RulesOf, Base
      <4> QED
        BY <1>2, <4>1
    <3> QED
      BY <3>1, <3>2
  <2> QED
    BY <2>1, <2>2, <2>3 DEF At, Progress
<1>6. ASSUME NEW k \in Connections
      PROVE  /\ Verdict(k) \in {0, TargetOf(k.dir)} /\ (Exempt(k) => Verdict(k) = 0)
             /\ (run.pc = "done" /\ ~Exempt(k) => Verdict(k) = TargetOf(k.dir)) /\ k.dir \in Dirs
  <2>1. k \in Packets /\ k.dir \in Dirs
    BY SidecarAssumption DEF Connections, Packets
  <2>2. Exempt(k) <=> Exempted(m, k)
    BY <1>1 DEF Exempt, Exempted
  <2>3. PICK r : r = RulesOf(m, k.dir)
    OBVIOUS
  <2>4. Exempting(m, k.dir, r)
    BY <1>3, <2>1, <2>3
  <2>5. hooks[k.dir] > 0 => Begins(chains[k.dir], r)
    BY <1>4, <2>1, <2>3 DEF TableOK
  <2>6. /\ Verdict(k) \in {0, TargetOf(k.dir)}
        /\ Exempted(m, k) => Verdict(k) = 0
        /\ (hooks[k.dir] > 0 /\ Len(chains[k.dir]) = Len(r) /\ ~Exempted(m, k)) => Verdict(k) = TargetOf(k.dir)
    BY <2>1, <2>4, <2>5, VerdictOf
  <2> QED
    BY <1>5, <2>1, <2>2, <2>3, <2>6
<1>7. ASSUME NEW k \in Connections, Verdict(k) # 0
      PROVE  \E i \in DOMAIN RenderConfig(manifest).listeners :
               LET l == RenderConfig(manifest).listeners[i]
               IN  l.addr[2] = Verdict(k) /\ l.role = Target(k) /\ UsesTransparent(l)
  <2>1. PICK ls : ls = RenderConfig(manifest).listeners
    OBVIOUS
  <2>2. ls = <<Listener("inbound", InboundPort), Listener("outbound", OutboundPort), Listener("admin", AdminPort)>>
    BY <2>1 DEF RenderConfig
  <2>3. PICK i : i = IF k.dir = "in" THEN 1 ELSE 2
    OBVIOUS
  <2>4. i \in DOMAIN ls
    BY <2>2, <2>3
  <2>5. ls[i].addr[2] = TargetOf(k.dir) /\ ls[i].role = Target(k) /\ UsesTransparent(ls[i])
    <3>1. CASE k.dir = "in"
      <4>1. ls[i] = Listener("inbound", InboundPort)
        BY <2>2, <2>3, <3>1
      <4> QED
        BY <3>1, <4>1, ListenerFields DEF TargetOf, Target
    <3>2. CASE k.dir # "in"
      <4>1. ls[i] = Listener("outbound", OutboundPort)
        BY <2>2, <2>3, <3>2
      <4> QED
        BY <3>2, <4>1, ListenerFields DEF TargetOf, Target
    <3> QED
      BY <3>1, <3>2
  <2>6. Verdict(k) = TargetOf(k.dir)
    BY <1>6, <1>7
  <2> QED
    BY <2>1, <2>4, <2>5, <2>6, Zenon
<1>8. \A d \in Dirs : TargetOf(d) # 0
  BY DEF TargetOf, InboundPort, OutboundPort
<1>9. ASSUME run.pc = "done", ~blind, NEW d \in Dirs PROVE hooks[d] = 1
  <2>1. hooks[d] > 0 /\ hooks[d] <= 1 /\ hooks[d] \in Nat
    BY <1>4, <1>5, <1>9 DEF TableOK, HijackInv, HijackTypeOK
  <2> QED
    BY <2>1
<1>10. \A k \in Connections : Exempt(k) => Verdict(k) = 0
  BY <1>6
<1>11. ASSUME run.pc = "done", NEW k \in Connections, ~Exempt(k) PROVE Verdict(k) # 0
  BY <1>6, <1>8, <1>11
<1> QED
  BY <1>7, <1>9, <1>10, <1>11, Zenon

\* While the init container runs its plan, its position tells which rules and
\* hooks are in place, the remains of failed runs included (init/exec.rs
\* exec_plan); before a manifest is injected nothing is.
THEOREM HijackInvHolds == HijackSpec => []HijackInv
  BY HijackInvInit, HijackInvNext, PTL DEF HijackSpec

\* Exempt connections are never redirected, half-installed tables included, what
\* is redirected reaches the listener of its direction, and a finished run
\* redirects all the rest through one hook (init/exec.rs exec_plan, build_rules).
THEOREM HijackStaysSafe == HijackSpec => []HijackIsSafe
  BY HijackInvHolds, HijackInvSuffices, PTL

-----------------------------------------------------------------------------
(***************************************************************************)
(* AdminPlane.                                                             *)
(***************************************************************************)
InForce == Tokens \cup {"none"}
AdminRequest ==
  [pc : {"idle", "guard", "handle", "reload", "store"}, at : DOMAIN listeners \cup {0},
   path : Paths, loopback : BOOLEAN, creds : Credentials \cup {NoRequest.creds},
   force : SUBSET InForce, by : Paths \cup {"none", "404", "fallback"}]

AdminTypeOK ==
  /\ areq \in [Clients -> AdminRequest]
  /\ token \in InForce /\ gate \in Clients \cup {Nobody, Hup}

Showed(c) == "none" \in areq[c].force \/ PresentedToken(areq[c].creds) \in areq[c].force

\* A request is where the routers sent it, the guard is before it with the token
\* of now among those it may show, or it has shown one.
RequestsAreRouted ==
  \A c \in Clients : areq[c].pc # "idle" =>
    /\ areq[c].at \in DOMAIN listeners
    /\ areq[c].by = Route(areq[c].at, areq[c].path)

GuardIsBeforeHandler ==
  \A c \in Clients :
    /\ areq[c].pc = "guard" => areq[c].by \in AdminRoutes /\ token \in areq[c].force
    /\ areq[c].pc \in {"handle", "store"} /\ areq[c].by \in AdminRoutes /\ ~IsAlwaysOpen(areq[c].path)
         => Showed(c)
    /\ areq[c].pc = "store" => areq[c].by = "register"

\* Whoever holds the gate is in its reload.
GateIsHeld == \A c \in Clients : gate = c => areq[c].pc = "reload"

AdminInv == AdminTypeOK /\ RequestsAreRouted /\ GuardIsBeforeHandler /\ GateIsHeld

LEMMA EffectiveTokenType == \A t \in Tokens : EffectiveToken(t) \in InForce
  BY DEF EffectiveToken, InForce

LEMMA RouteType ==
  ASSUME NEW i, NEW path \in Paths
  PROVE  /\ Route(i, path) \in Paths \cup {"404", "fallback"}
         /\ Route(i, path) \in {"shutdown", "reload", "register"} =>
              Route(i, path) = path /\ CarriesAdmin(listeners, i) /\ path \in AdminRoutes
  BY DEF Route, Paths, Reading

LEMMA AdminInvInit == AdminInit => AdminInv
  BY EffectiveTokenType, AdminAssumption
     DEF AdminInit, AdminInv, AdminTypeOK, RequestsAreRouted, GuardIsBeforeHandler, GateIsHeld,
     AdminRequest, NoRequest, Paths, Nobody

\* A step that changes one request, token and routers apart.
LEMMA OneRequestMoves ==
  ASSUME AdminInv, NEW c \in Clients, NEW q,
         areq' = [areq EXCEPT ![c] = q], UNCHANGED <<listeners, mounted, token>>,
         \/ q = NoRequest
         \/ /\ q \in AdminRequest
            /\ q.at \in DOMAIN listeners /\ q.by = Route(q.at, q.path)
            /\ q.pc = "guard" => q.by \in AdminRoutes /\ token \in q.force
            /\ q.pc \in {"handle", "store"} /\ q.by \in AdminRoutes /\ ~IsAlwaysOpen(q.path)
                 => "none" \in q.force \/ PresentedToken(q.creds) \in q.force
            /\ q.pc = "store" => q.by = "register",
         gate' \in Clients \cup {Nobody, Hup},
         \/ gate' = gate /\ areq[c].pc # "reload"
         \/ gate' = gate /\ q.pc = "reload"
         \/ gate' = Nobody
         \/ gate' = c /\ q.pc = "reload"
  PROVE  AdminInv'
<1>1. NoRequest \in AdminRequest /\ NoRequest.pc = "idle"
  BY DEF NoRequest, AdminRequest, Paths
<1>2. AdminRequest' = AdminRequest
  BY DEF AdminRequest
<1>3. AdminTypeOK'
  BY <1>1, <1>2 DEF AdminInv, AdminTypeOK
<1>4. \A i, p : Route(i, p)' = Route(i, p)
  BY DEF Route, AdminRoutes
<1>5. AdminRoutes' = AdminRoutes
  BY DEF AdminRoutes
<1>6. RequestsAreRouted'
  BY <1>1, <1>4 DEF AdminInv, AdminTypeOK, RequestsAreRouted
<1>7. GuardIsBeforeHandler'
  BY <1>1, <1>5 DEF AdminInv, AdminTypeOK, GuardIsBeforeHandler, Showed
<1>8. GateIsHeld'
  BY AdminAssumption DEF AdminInv, AdminTypeOK, GateIsHeld
<1> QED
  BY <1>3, <1>6, <1>7, <1>8 DEF AdminInv

LEMMA AdminInvNext == AdminInv /\ [AdminNext]_adminVars => AdminInv'
<1> SUFFICES ASSUME AdminInv, [AdminNext]_adminVars PROVE AdminInv'
  OBVIOUS
<1>t. /\ areq \in [Clients -> AdminRequest] /\ gate \in Clients \cup {Nobody, Hup}
      /\ token \in InForce
  BY DEF AdminInv, AdminTypeOK
<1>1. ASSUME NEW c \in Clients, ArriveAdmin(c) PROVE AdminInv'
  <2>1. PICK i \in DOMAIN listeners, path \in Paths, lo \in BOOLEAN, creds \in Credentials :
          areq' = [areq EXCEPT ![c] =
            [pc |-> IF Route(i, path) \in AdminRoutes THEN "guard" ELSE "handle", at |-> i,
             path |-> path, loopback |-> lo, creds |-> creds, force |-> {token},
             by |-> Route(i, path)]]
    BY <1>1 DEF ArriveAdmin
  <2>2. PICK q : q = [pc |-> IF Route(i, path) \in AdminRoutes THEN "guard" ELSE "handle", at |-> i,
             path |-> path, loopback |-> lo, creds |-> creds, force |-> {token},
             by |-> Route(i, path)]
    OBVIOUS
  <2>3. q \in AdminRequest
    BY <1>t, <2>2, RouteType DEF AdminRequest
  <2>4. /\ areq[c].pc = "idle" /\ gate' = gate
        /\ UNCHANGED <<listeners, mounted, token>>
    BY <1>1 DEF ArriveAdmin, Static
  <2> QED
    BY <1>t, <2>1, <2>2, <2>3, <2>4, OneRequestMoves
<1>2. ASSUME NEW c \in Clients, AdminAuth(c) PROVE AdminInv'
  <2>1. /\ areq[c].pc = "guard" /\ gate' = gate /\ UNCHANGED <<listeners, mounted, token>>
    BY <1>2 DEF AdminAuth, Static
  <2>2. CASE areq' = [areq EXCEPT ![c] = NoRequest]
    BY <1>t, <2>1, <2>2, OneRequestMoves
  <2>3. CASE /\ IsAlwaysOpen(areq[c].path) \/ token = "none" \/ PresentedToken(areq[c].creds) = token
             /\ areq' = [areq EXCEPT ![c].pc = "handle"]
    <3>1. PICK q : q = [areq[c] EXCEPT !.pc = "handle"]
      OBVIOUS
    <3>2. /\ q \in AdminRequest /\ q.pc = "handle" /\ q.at = areq[c].at /\ q.by = areq[c].by
          /\ q.path = areq[c].path /\ q.force = areq[c].force /\ q.creds = areq[c].creds
      BY <1>t, <3>1 DEF AdminRequest
    <3>3. areq' = [areq EXCEPT ![c] = q]
      BY <2>3, <3>1
    <3>4. token \in q.force /\ q.at \in DOMAIN listeners /\ q.by = Route(q.at, q.path)
      BY <2>1, <3>2 DEF AdminInv, RequestsAreRouted, GuardIsBeforeHandler
    <3>5. ~IsAlwaysOpen(q.path) => "none" \in q.force \/ PresentedToken(q.creds) \in q.force
      BY <2>3, <3>2, <3>4
    <3> QED
      BY <1>t, <2>1, <3>2, <3>3, <3>4, <3>5, OneRequestMoves
  <2> QED
    BY <1>2, <2>2, <2>3 DEF AdminAuth, Done
<1>3. ASSUME NEW c \in Clients, NEW paths, Answer(c, paths) PROVE AdminInv'
  BY <1>t, <1>3, OneRequestMoves DEF Answer, Handles, Done, Static
<1>4. ASSUME NEW c \in Clients, Shutdown(c) PROVE AdminInv'
  BY <1>t, <1>4, OneRequestMoves DEF Shutdown, Handles, Done, Static
<1>5. ASSUME NEW c \in Clients, Reload(c) PROVE AdminInv'
  <2>1. areq[c].pc = "handle" /\ UNCHANGED <<listeners, mounted, token>>
    BY <1>5 DEF Reload, Handles, Static
  <2>2. CASE areq' = [areq EXCEPT ![c] = NoRequest] /\ gate' = gate
    BY <1>t, <2>1, <2>2, OneRequestMoves
  <2>3. CASE gate' = c /\ areq' = [areq EXCEPT ![c].pc = "reload"]
    <3>1. PICK q : q = [areq[c] EXCEPT !.pc = "reload"]
      OBVIOUS
    <3>2. /\ q \in AdminRequest /\ q.pc = "reload" /\ q.at = areq[c].at /\ q.by = areq[c].by
          /\ q.path = areq[c].path
      BY <1>t, <3>1 DEF AdminRequest
    <3>3. areq' = [areq EXCEPT ![c] = q]
      BY <2>3, <3>1
    <3>4. q.at \in DOMAIN listeners /\ q.by = Route(q.at, q.path)
      BY <2>1, <3>2 DEF AdminInv, RequestsAreRouted
    <3> QED
      BY <2>1, <2>3, <3>2, <3>3, <3>4, OneRequestMoves
  <2> QED
    BY <1>5, <2>2, <2>3 DEF Reload, Done
<1>6. ASSUME NEW c \in Clients, Register(c) PROVE AdminInv'
  <2>1. /\ areq[c].pc = "handle" /\ areq[c].by = "register" /\ gate' = gate
        /\ UNCHANGED <<listeners, mounted, token>>
    BY <1>6 DEF Register, Handles, Static
  <2>2. CASE areq' = [areq EXCEPT ![c] = NoRequest]
    BY <1>t, <2>1, <2>2, OneRequestMoves
  <2>3. CASE areq' = [areq EXCEPT ![c].pc = "store"]
    <3>1. PICK q : q = [areq[c] EXCEPT !.pc = "store"]
      OBVIOUS
    <3>2. /\ q \in AdminRequest /\ q.pc = "store" /\ q.at = areq[c].at /\ q.by = areq[c].by
          /\ q.path = areq[c].path /\ q.force = areq[c].force /\ q.creds = areq[c].creds
      BY <1>t, <3>1 DEF AdminRequest
    <3>3. areq' = [areq EXCEPT ![c] = q]
      BY <2>3, <3>1
    <3>4. q.at \in DOMAIN listeners /\ q.by = Route(q.at, q.path)
      BY <2>1, <3>2 DEF AdminInv, RequestsAreRouted
    <3>5. q.by \in AdminRoutes /\ ~IsAlwaysOpen(q.path)
            => "none" \in q.force \/ PresentedToken(q.creds) \in q.force
      BY <2>1, <3>2 DEF AdminInv, GuardIsBeforeHandler, Showed
    <3>6. gate' = gate /\ areq[c].pc # "reload" /\ gate' \in Clients \cup {Nobody, Hup}
      BY <1>t, <2>1
    <3>7. q.by = "register" /\ UNCHANGED <<listeners, mounted, token>>
      BY <2>1, <3>2
    <3> QED
      BY <3>2, <3>3, <3>4, <3>5, <3>6, <3>7, OneRequestMoves
  <2> QED
    BY <1>6, <2>2, <2>3 DEF Register, Done
<1>7. ASSUME NEW c \in Clients, Stored(c) \/ Refused(c) PROVE AdminInv'
  BY <1>t, <1>7, OneRequestMoves DEF Stored, Refused, Done, Static
<1>8. ASSUME NEW c \in Clients, Fallback(c) PROVE AdminInv'
  BY <1>t, <1>8, OneRequestMoves DEF Fallback, Handles, Done, Static
<1>9. CASE Sighup
  <2>1. /\ gate' = Hup /\ UNCHANGED <<listeners, mounted, token, areq>>
    BY <1>9 DEF Sighup, Static
  <2> QED
    BY <1>t, <2>1, AdminAssumption
       DEF AdminInv, AdminTypeOK, RequestsAreRouted, GuardIsBeforeHandler, GateIsHeld, AdminRequest,
       Route, AdminRoutes, Showed
<1>10. CASE ReloadOk
  <2>1. PICK t \in InForce :
          /\ token' = t
          /\ areq' = IF gate = Hup THEN Rotated(t) ELSE [Rotated(t) EXCEPT ![gate] = NoRequest]
    BY <1>10, EffectiveTokenType DEF ReloadOk
  <2>2. gate' = Nobody /\ UNCHANGED <<listeners, mounted>>
    BY <1>10 DEF ReloadOk, Static
  <2>3. /\ areq' \in [Clients -> AdminRequest]
        /\ \A c \in Clients :
             \/ areq'[c] = NoRequest
             \/ areq[c].pc = "guard" /\ areq'[c] = [areq[c] EXCEPT !.force = @ \cup {t}]
             \/ areq[c].pc # "guard" /\ areq'[c] = areq[c]
    <3>1. NoRequest \in AdminRequest
      BY DEF NoRequest, AdminRequest, Paths
    <3>2. /\ Rotated(t) \in [Clients -> AdminRequest]
          /\ \A c \in Clients :
             \/ areq[c].pc = "guard" /\ Rotated(t)[c] = [areq[c] EXCEPT !.force = @ \cup {t}]
             \/ areq[c].pc # "guard" /\ Rotated(t)[c] = areq[c]
      BY <1>t DEF Rotated, AdminRequest
    <3> QED
      BY <2>1, <3>1, <3>2
  <2>4. AdminRequest' = AdminRequest /\ AdminRoutes' = AdminRoutes
        /\ \A i, p : Route(i, p)' = Route(i, p)
    BY <2>2 DEF AdminRequest, Route, AdminRoutes
  <2>5. AdminTypeOK'
    BY <2>1, <2>2, <2>3, <2>4 DEF AdminTypeOK
  <2>6. \A c \in Clients : areq'[c].pc # "idle" =>
          /\ areq'[c].pc = areq[c].pc /\ areq'[c].at = areq[c].at /\ areq'[c].by = areq[c].by
          /\ areq'[c].path = areq[c].path /\ areq'[c].creds = areq[c].creds
          /\ areq[c].pc = "guard" => t \in areq'[c].force
          /\ areq[c].pc # "guard" => areq'[c].force = areq[c].force
    BY <1>t, <2>3 DEF AdminRequest, NoRequest
  <2>7. RequestsAreRouted'
    BY <2>2, <2>4, <2>6 DEF AdminInv, RequestsAreRouted
  <2>8. GuardIsBeforeHandler'
    BY <2>1, <2>4, <2>6 DEF AdminInv, GuardIsBeforeHandler, Showed
  <2>9. GateIsHeld'
    BY <2>2, AdminAssumption DEF GateIsHeld
  <2> QED
    BY <2>5, <2>7, <2>8, <2>9 DEF AdminInv
<1>11. CASE ReloadFails
  <2>1. gate' = Nobody /\ UNCHANGED <<listeners, mounted, token>>
    BY <1>11 DEF ReloadFails, Static
  <2>2. CASE gate \in Clients
    BY <1>11, <2>1, <2>2, OneRequestMoves, AdminAssumption DEF ReloadFails
  <2>3. CASE gate \notin Clients
    <3>1. UNCHANGED areq
      BY <1>11, <1>t, <2>3 DEF ReloadFails
    <3> QED
      BY <1>t, <2>1, <3>1, AdminAssumption
         DEF AdminInv, AdminTypeOK, RequestsAreRouted, GuardIsBeforeHandler, GateIsHeld, AdminRequest,
         Route, AdminRoutes, Showed
  <2> QED
    BY <2>2, <2>3
<1>12. CASE UNCHANGED adminVars
  BY <1>12
     DEF adminVars, AdminInv, AdminTypeOK, RequestsAreRouted, GuardIsBeforeHandler, GateIsHeld,
     AdminRequest, Route, AdminRoutes, Showed
<1> QED
  BY <1>1, <1>2, <1>3, <1>4, <1>5, <1>6, <1>7, <1>8, <1>9, <1>10, <1>11, <1>12
     DEF AdminNext, Read, Probe, List

\* A request of the admin plane stands where the routers sent it, and behind the
\* guard only with a token that was in force since it arrived (admin.rs, reload).
THEOREM AdminInvHolds == AdminSpec => []AdminInv
  BY AdminInvInit, AdminInvNext, PTL DEF AdminSpec

\* Whatever changes the process came in on the admin listener, if there is one,
\* with a token in force between its arrival and its guard, and reloads only from
\* loopback, whichever reloads rotate the token meanwhile (admin_routes,
\* admin_auth, reload_endpoint).
THEOREM AdminStaysFenced == AdminSpec => AdminIsFenced
<1> DEFINE Fenced(c) ==
       /\ (\E i \in DOMAIN listeners : listeners[i].role = "admin") => listeners[areq[c].at].role = "admin"
       /\ "none" \in areq[c].force \/ PresentedToken(areq[c].creds) \in areq[c].force
       /\ areq[c].path = "reload" => areq[c].loopback
<1>1. ASSUME AdminInv, NEW c \in Clients, Acts(c) PROVE Fenced(c)
  <2>1. /\ areq[c].pc \in {"handle", "store"} /\ areq[c].by \in {"shutdown", "reload", "register"}
        /\ areq[c].by = "reload" => gate' = c /\ Reload(c)
    BY <1>1 DEF Acts, Shutdown, Reload, Stored, Handles, AdminInv, GuardIsBeforeHandler
  <2>2. /\ areq[c].path \in Paths /\ areq[c].at \in DOMAIN listeners
        /\ areq[c].by = Route(areq[c].at, areq[c].path)
    BY <1>1, <2>1 DEF AdminInv, AdminTypeOK, AdminRequest, RequestsAreRouted
  <2>3. /\ areq[c].by = areq[c].path /\ CarriesAdmin(listeners, areq[c].at)
        /\ areq[c].path \in AdminRoutes
    BY <2>1, <2>2, RouteType
  <2>4. Showed(c)
    BY <1>1, <2>1, <2>3 DEF AdminInv, GuardIsBeforeHandler, IsAlwaysOpen
  <2>5. areq[c].path = "reload" => areq[c].loopback
    BY <1>1, <2>1, <2>3 DEF Reload, Handles, AdminInv, GateIsHeld
  <2> QED
    BY <2>3, <2>4, <2>5 DEF CarriesAdmin, HasAdmin, Showed
<1>2. AdminInv => [\A c \in Clients : Acts(c) => Fenced(c)]_adminVars
  BY <1>1
<1> QED
  BY <1>2, AdminInvHolds, PTL DEF AdminIsFenced

-----------------------------------------------------------------------------
(***************************************************************************)
(* Intercept.                                                              *)
(***************************************************************************)
LEMMA PrefixByElement ==
  ASSUME NEW s \in Seq(Chars), NEW t \in Seq(Chars)
  PROVE  IsPrefix(s, t) <=> Len(s) <= Len(t) /\ \A i \in 1..Len(s) : s[i] = t[i]
<1>0. Len(s) \in Nat /\ Len(t) \in Nat
  OBVIOUS
<1>1. SubSeq(s, 1, Len(s)) = s
  BY SubSeqFull
<1>2. CASE Len(s) <= Len(t)
  <2>1. /\ SubSeq(t, 1, Len(s)) \in Seq(Chars) /\ Len(SubSeq(t, 1, Len(s))) = Len(s)
        /\ \A i \in 1..Len(s) : SubSeq(t, 1, Len(s))[i] = t[i]
    BY <1>0, <1>2
  <2>2. SubSeq(t, 1, Len(s)) = s <=> \A i \in 1..Len(s) : s[i] = t[i]
    BY <2>1, SeqEqual
  <2> QED
    BY <1>1, <1>2, <2>2 DEF IsPrefix
<1> QED
  BY <1>0, <1>2 DEF IsPrefix

\* More bytes do not change a verdict.
LEMMA VerdictIsStable ==
  ASSUME NEW s \in Seq(Chars), NEW m \in 0..Len(s), NEW n \in m..Len(s),
         Classify(SubSeq(s, 1, m)) # "none"
  PROVE  Classify(SubSeq(s, 1, n)) = Classify(SubSeq(s, 1, m))
<1>1. PICK a : a = SubSeq(s, 1, m)
  OBVIOUS
<1>2. PICK b : b = SubSeq(s, 1, n)
  OBVIOUS
<1>3. a \in Seq(Chars) /\ Len(a) = m /\ \A i \in 1..m : a[i] = s[i]
  BY <1>1
<1>4. b \in Seq(Chars) /\ Len(b) = n /\ \A i \in 1..n : b[i] = s[i]
  BY <1>2
<1>5. Len(a) <= Len(b) /\ \A i \in 1..Len(a) : a[i] = b[i]
  BY <1>3, <1>4
<1>6. \A t \in Seq(Chars) : IsPrefix(t, a) => IsPrefix(t, b)
  <2> SUFFICES ASSUME NEW t \in Seq(Chars), IsPrefix(t, a) PROVE IsPrefix(t, b)
    OBVIOUS
  <2>1. Len(t) <= Len(a) /\ \A i \in 1..Len(t) : t[i] = a[i]
    BY <1>3, PrefixByElement
  <2>2. Len(t) <= Len(b) /\ \A i \in 1..Len(t) : t[i] = b[i]
    BY <1>3, <1>4, <1>5, <2>1
  <2> QED
    BY <1>4, <2>2, PrefixByElement
<1>7. \A t \in Seq(Chars) : IsPrefix(t, b) => IsPrefix(t, a) \/ IsPrefix(a, t)
  <2> SUFFICES ASSUME NEW t \in Seq(Chars), IsPrefix(t, b) PROVE IsPrefix(t, a) \/ IsPrefix(a, t)
    OBVIOUS
  <2>1. Len(t) <= Len(b) /\ \A i \in 1..Len(t) : t[i] = b[i]
    BY <1>4, PrefixByElement
  <2>2. CASE Len(t) <= Len(a)
    <3>1. \A i \in 1..Len(t) : t[i] = a[i]
      BY <1>3, <1>4, <1>5, <2>1, <2>2
    <3> QED
      BY <1>3, <2>2, <3>1, PrefixByElement
  <2>3. CASE Len(a) <= Len(t)
    <3>1. \A i \in 1..Len(a) : a[i] = t[i]
      BY <1>3, <1>4, <1>5, <2>1, <2>3
    <3> QED
      BY <1>3, <2>3, <3>1, PrefixByElement
  <2> QED
    BY <1>3, <2>2, <2>3
<1>8. \A t \in Seq(Chars) : IsPrefix(b, t) => IsPrefix(a, t)
  <2> SUFFICES ASSUME NEW t \in Seq(Chars), IsPrefix(b, t) PROVE IsPrefix(a, t)
    OBVIOUS
  <2>1. Len(b) <= Len(t) /\ \A i \in 1..Len(b) : b[i] = t[i]
    BY <1>4, PrefixByElement
  <2>2. Len(a) <= Len(t) /\ \A i \in 1..Len(a) : a[i] = t[i]
    BY <1>3, <1>4, <1>5, <2>1
  <2> QED
    BY <1>3, <2>2, PrefixByElement
<1>9. H2Prefix \in Seq(Chars) /\ \A t \in Methods : t \in Seq(Chars)
  BY InterceptAssumption
<1>10. ~IsPrefix(H2Prefix, a) => ~IsPrefix(a, H2Prefix) /\ \A t \in Methods : ~IsPrefix(a, t)
  BY <1>1 DEF Classify
<1>11. CASE IsPrefix(H2Prefix, a)
  BY <1>1, <1>2, <1>6, <1>9, <1>11 DEF Classify
<1>12. CASE ~IsPrefix(H2Prefix, a)
  <2>1. /\ ~IsPrefix(H2Prefix, b) /\ ~IsPrefix(b, H2Prefix)
        /\ \A t \in Methods : ~IsPrefix(b, t)
    BY <1>7, <1>8, <1>9, <1>10, <1>12
  <2>2. \A t \in Methods : IsPrefix(t, b) <=> IsPrefix(t, a)
    BY <1>6, <1>7, <1>9, <1>10, <1>12
  <2>3. \A t \in Methods : IsPrefix(t, a) => Len(t) + 1 \in 1..Len(a)
    <3> SUFFICES ASSUME NEW t \in Methods, IsPrefix(t, a) PROVE Len(t) + 1 \in 1..Len(a)
      OBVIOUS
    <3>1. t \in Seq(Chars) /\ ~IsPrefix(a, t)
      BY <1>9, <1>10, <1>12
    <3>2. Len(t) <= Len(a) /\ \A i \in 1..Len(t) : t[i] = a[i]
      BY <1>3, <3>1, PrefixByElement
    <3>3. Len(t) # Len(a)
      BY <1>3, <3>1, <3>2, PrefixByElement
    <3> QED
      BY <1>3, <3>1, <3>2, <3>3
  <2>4. \A t \in Methods : IsPrefix(t, a) => b[Len(t) + 1] = a[Len(t) + 1]
    BY <1>5, <2>3
  <2>5. (\E t \in Methods : IsPrefix(t, b) /\ b[Len(t) + 1] = " ")
          <=> (\E t \in Methods : IsPrefix(t, a) /\ a[Len(t) + 1] = " ")
    BY <2>2, <2>4
  <2>6. Classify(a) = Classify(b)
    BY <1>10, <1>12, <2>1, <2>5 DEF Classify
  <2> QED
    BY <1>1, <1>2, <2>6
<1> QED
  BY <1>11, <1>12

TapTypeOK ==
  /\ stream \in Seq(Chars) /\ buf \in Seq(Chars) /\ out \in Seq(Chars)
  /\ sent \in 0..Len(stream) /\ taken \in 0..sent
  /\ proto \in {"none", "h1", "h2", "opaque"} /\ eof \in BOOLEAN /\ late \in BOOLEAN
  /\ pc \in {"none", "closed", "http", "egress", "sniff", "dial", "gateway", "tunnel", "finished"}

\* Nothing was given away before somebody serves, and what finished stays so.
TapStages ==
  /\ pc = "none" => sent = 0 /\ taken = 0 /\ buf = <<>> /\ dialled = {}
  /\ pc \in {"none", "egress", "sniff"} => out = <<>> /\ proto = "none"
  /\ pc = "finished" => eof = TRUE /\ taken = sent /\ buf = <<>>

\* What the route admits is all that can be dialled from where the task stands.
TapRoutes ==
  /\ pc \in {"egress", "sniff", "dial"} => dst.port \notin ListenPorts
  /\ pc = "egress" => case.role = "outbound"
  /\ pc = "dial" /\ case.role = "outbound" => case.mode = "direct"
  /\ pc = "sniff" /\ case.role = "outbound" => case.mode \notin {"direct", "deny"}
  /\ pc = "gateway" => case.mode \notin {"direct", "deny"}

TapBytes == out \o buf = SubSeq(stream, 1, taken)

TapInv ==
  /\ TapTypeOK /\ TapStages /\ TapRoutes
  /\ TapBytes /\ VerdictIgnoresChunks /\ EgressIsClosed

LEMMA TapInvInit == TapInit => TapInv
<1> SUFFICES ASSUME TapInit PROVE TapInv
  OBVIOUS
<1>0. \A n \in Nat : n = 0 => n \in 0..Len(stream) /\ n \in 0..n
  BY EmptySeq DEF TapInit
<1>4. stream \in Seq(Chars) /\ buf \in Seq(Chars) /\ out \in Seq(Chars)
  BY EmptySeq DEF TapInit
<1>5. sent \in 0..Len(stream) /\ taken \in 0..sent
  BY <1>0 DEF TapInit
<1>6. TapTypeOK
  BY <1>4, <1>5 DEF TapInit, TapTypeOK
<1>1. TapStages /\ TapRoutes /\ VerdictIgnoresChunks /\ EgressIsClosed
  BY DEF TapInit, TapStages, TapRoutes, VerdictIgnoresChunks, EgressIsClosed
<1>2. out \o buf = <<>>
  BY ConcatEmptySeq, EmptySeq DEF TapInit
<1>3. SubSeq(stream, 1, taken) = <<>>
  BY SubSeqEmpty DEF TapInit
<1> QED
  BY <1>1, <1>2, <1>3, <1>6 DEF TapInv, TapBytes

LEMMA ClassifyType == \A b : Classify(b) \in {"none", "h1", "h2", "opaque"}
  BY DEF Classify

LEMMA TapInvNext == TapInv /\ [TapNext]_tapVars => TapInv'
<1> SUFFICES ASSUME TapInv, [TapNext]_tapVars PROVE TapInv'
  OBVIOUS
<1> USE DEF TapInv
<1>t. /\ stream \in Seq(Chars) /\ buf \in Seq(Chars) /\ out \in Seq(Chars)
      /\ Len(stream) \in Nat /\ sent \in Nat /\ taken \in Nat
      /\ sent <= Len(stream) /\ taken <= sent
  BY DEF TapTypeOK
<1>1. CASE AcceptTap
  <2>1. PICK c \in Cases, d \in Dests \cup {NoDst}, s \in Streams :
          case' = c /\ dst' = d /\ stream' = s /\ pc' = RoutePre(c, d)
    BY <1>1 DEF AcceptTap
  <2>2. pc = "none" /\ UNCHANGED <<sent, taken, buf, out, eof, proto, late, dialled>>
    BY <1>1 DEF AcceptTap
  <2>3. sent = 0 /\ taken = 0 /\ buf = <<>> /\ dialled = {} /\ out = <<>> /\ proto = "none"
    BY <2>2 DEF TapStages
  <2>4. s \in Seq(Chars)
    BY InterceptAssumption
  <2>5. pc' \in {"closed", "http", "egress", "sniff"}
    BY <2>1 DEF RoutePre
  <2>6. TapTypeOK'
    BY <2>1, <2>2, <2>3, <2>4, <2>5 DEF TapTypeOK
  <2>7. TapStages' /\ VerdictIgnoresChunks' /\ EgressIsClosed'
    BY <2>2, <2>3, <2>5 DEF TapStages, VerdictIgnoresChunks, EgressIsClosed
  <2>8. TapRoutes'
    BY <2>1 DEF TapRoutes, RoutePre
  <2>9. TapBytes'
    <3>1. out' \o buf' = <<>>
      BY <2>2, <2>3, ConcatEmptySeq, EmptySeq
    <3>2. SubSeq(stream', 1, taken') = <<>>
      BY <2>2, <2>3, SubSeqEmpty
    <3> QED
      BY <3>1, <3>2 DEF TapBytes
  <2> QED
    BY <2>6, <2>7, <2>8, <2>9
<1>2. CASE Arrive
  <2>1. /\ pc # "none" /\ ~eof /\ sent' \in sent + 1 .. Len(stream)
        /\ UNCHANGED <<case, pc, dst, stream, taken, buf, out, eof, proto, late, dialled>>
    BY <1>2 DEF Arrive
  <2>2. TapTypeOK' /\ TapStages' /\ TapRoutes' /\ TapBytes' /\ EgressIsClosed'
    BY <1>t, <2>1 DEF TapTypeOK, TapStages, TapRoutes, TapBytes, EgressIsClosed
  <2>3. ASSUME proto # "none", ~late PROVE proto = Classify(SubSeq(stream, 1, sent'))
    <3>1. proto = Classify(SubSeq(stream, 1, sent))
      BY <2>3 DEF VerdictIgnoresChunks
    <3>2. Classify(SubSeq(stream, 1, sent')) = Classify(SubSeq(stream, 1, sent))
      BY <1>t, <2>1, <2>3, <3>1, VerdictIsStable
    <3> QED
      BY <3>1, <3>2
  <2>4. VerdictIgnoresChunks'
    BY <2>1, <2>3 DEF VerdictIgnoresChunks
  <2> QED
    BY <2>2, <2>4
<1>3. CASE Close
  BY <1>3 DEF Close, TapTypeOK, TapStages, TapRoutes, TapBytes, VerdictIgnoresChunks, EgressIsClosed
<1>4. CASE RouteEgress
  <2>1. /\ pc = "egress"
        /\ UNCHANGED <<case, dst, stream, sent, taken, buf, out, eof, proto, late, dialled>>
    BY <1>4 DEF RouteEgress
  <2>2. \/ pc' = "dial" /\ case.mode = "direct"
        \/ pc' = "closed"
        \/ pc' = "sniff" /\ case.mode \notin {"direct", "deny"}
    BY <1>4 DEF RouteEgress
  <2> QED
    BY <2>1, <2>2 DEF TapTypeOK, TapStages, TapRoutes, TapBytes, VerdictIgnoresChunks, EgressIsClosed
<1>5. CASE Detect
  <2>1. PICK n \in taken + 1 .. sent :
          /\ taken' = n
          /\ buf' = buf \o SubSeq(stream, taken + 1, n)
          /\ proto' = Classify(buf')
          /\ pc' = IF Classify(buf') = "none" THEN pc ELSE AfterSniff(Classify(buf'))
    BY <1>5 DEF Detect
  <2>2. pc = "sniff" /\ UNCHANGED <<case, dst, stream, sent, out, eof, late, dialled>>
    BY <1>5 DEF Detect
  <2>3. out = <<>> /\ proto = "none"
    BY <2>2 DEF TapStages
  <2>4. buf = SubSeq(stream, 1, taken)
    BY <1>t, <2>3, ConcatEmptySeq DEF TapBytes
  <2>5. buf' = SubSeq(stream, 1, n)
    <3>1. 1 \in 1..Len(stream) + 1 /\ taken \in 1 - 1 .. Len(stream) /\ n \in taken .. Len(stream)
      BY <1>t
    <3>2. SubSeq(stream, 1, taken) \o SubSeq(stream, taken + 1, n) = SubSeq(stream, 1, n)
      BY <1>t, <3>1, ConcatAdjacentSubSeq
    <3> QED
      BY <2>1, <2>4, <3>2
  <2>6. buf' \in Seq(Chars)
    BY <1>t, <2>5
  <2>7. TapBytes'
    BY <2>1, <2>2, <2>3, <2>5, <2>6, ConcatEmptySeq DEF TapBytes
  <2>8. proto' # "none" => proto' = Classify(SubSeq(stream, 1, sent))
    <3>1. proto' = Classify(SubSeq(stream, 1, n))
      BY <2>1, <2>5
    <3>2. n \in 0..Len(stream) /\ sent \in n..Len(stream)
      BY <1>t
    <3>3. Classify(SubSeq(stream, 1, n)) # "none"
            => Classify(SubSeq(stream, 1, sent)) = Classify(SubSeq(stream, 1, n))
      BY <1>t, <3>2, VerdictIsStable
    <3> QED
      BY <3>1, <3>3
  <2>9. VerdictIgnoresChunks'
    BY <2>2, <2>8 DEF VerdictIgnoresChunks
  <2>10. /\ proto' = "none" => pc' = "sniff"
         /\ proto' # "none" => pc' = AfterSniff(proto')
    BY <2>1, <2>2
  <2>11. pc' \in {"sniff", "dial", "http", "closed", "gateway"} /\ (pc' = "sniff" => proto' = "none")
    BY <2>10 DEF AfterSniff
  <2>15. proto' \in {"none", "h1", "h2", "opaque"}
    BY <2>1, ClassifyType
  <2>16. taken' \in 0..sent
    BY <1>t, <2>1
  <2>12. TapTypeOK'
    BY <2>2, <2>6, <2>11, <2>15, <2>16 DEF TapTypeOK
  <2>13. TapStages'
    BY <2>2, <2>3, <2>11 DEF TapStages
  <2>14. TapRoutes' /\ EgressIsClosed'
    BY <2>2, <2>10 DEF TapRoutes, EgressIsClosed, AfterSniff
  <2> QED
    BY <2>7, <2>9, <2>12, <2>13, <2>14
<1>6. CASE Deadline
  <2>1. /\ pc = "sniff" /\ proto' = "opaque" /\ late' = TRUE /\ pc' = AfterSniff("opaque")
        /\ UNCHANGED <<case, dst, stream, sent, taken, buf, out, eof, dialled>>
    BY <1>6 DEF Deadline
  <2>2. pc' \in {"dial", "closed"} /\ (pc' = "dial" => case.role # "outbound")
    BY <2>1 DEF AfterSniff
  <2> QED
    BY <2>1, <2>2 DEF TapTypeOK, TapStages, TapRoutes, TapBytes, VerdictIgnoresChunks, EgressIsClosed
<1>7. CASE SniffEof
  BY <1>7 DEF SniffEof, TapTypeOK, TapStages, TapRoutes, TapBytes, VerdictIgnoresChunks, EgressIsClosed
<1>8. CASE DialOrig
  <2>1. /\ pc = "dial" /\ dialled' = dialled \cup {dst} /\ pc' \in {"tunnel", "closed"}
        /\ UNCHANGED <<case, dst, stream, sent, taken, buf, out, eof, proto, late>>
    BY <1>8 DEF DialOrig
  <2>2. TapTypeOK' /\ TapStages' /\ TapRoutes' /\ TapBytes' /\ VerdictIgnoresChunks'
    BY <2>1 DEF TapTypeOK, TapStages, TapRoutes, TapBytes, VerdictIgnoresChunks
  <2>3. EgressIsClosed'
    BY <2>1 DEF TapRoutes, EgressIsClosed
  <2> QED
    BY <2>2, <2>3
<1>9. CASE DialGateway
  <2>1. /\ pc = "gateway" /\ dialled' = dialled \cup {Gateway} /\ pc' \in {"tunnel", "closed"}
        /\ UNCHANGED <<case, dst, stream, sent, taken, buf, out, eof, proto, late>>
    BY <1>9 DEF DialGateway
  <2>2. TapTypeOK' /\ TapStages' /\ TapRoutes' /\ TapBytes' /\ VerdictIgnoresChunks'
    BY <2>1 DEF TapTypeOK, TapStages, TapRoutes, TapBytes, VerdictIgnoresChunks
  <2>3. EgressIsClosed'
    BY <2>1 DEF TapRoutes, EgressIsClosed
  <2> QED
    BY <2>2, <2>3
<1>10. CASE Relay
  <2>1. /\ pc \in {"tunnel", "http"}
        /\ UNCHANGED <<case, pc, dst, stream, sent, eof, proto, late, dialled>>
    BY <1>10 DEF Relay
  <2>2. TapRoutes' /\ VerdictIgnoresChunks' /\ EgressIsClosed'
    BY <2>1 DEF TapRoutes, VerdictIgnoresChunks, EgressIsClosed
  <2>3. CASE \E n \in 1..Len(buf) :
               out' = out \o SubSeq(buf, 1, n) /\ buf' = SubSeq(buf, n + 1, Len(buf)) /\ taken' = taken
    <3>1. PICK n \in 1..Len(buf) :
             out' = out \o SubSeq(buf, 1, n) /\ buf' = SubSeq(buf, n + 1, Len(buf)) /\ taken' = taken
      BY <2>3
    <3>2. PICK a, b : a = SubSeq(buf, 1, n) /\ b = SubSeq(buf, n + 1, Len(buf))
      OBVIOUS
    <3>3. a \in Seq(Chars) /\ b \in Seq(Chars)
      BY <1>t, <3>2
    <3>4. a \o b = buf
      <4>1. SubSeq(buf, 1, n) \o SubSeq(buf, n + 1, Len(buf)) = SubSeq(buf, 1, Len(buf))
        BY <1>t, ConcatAdjacentSubSeq
      <4> QED
        BY <1>t, <3>2, <4>1, SubSeqFull
    <3>9. out \in Seq(Chars)
      BY <1>t
    <3>10. (out \o a) \o b = out \o (a \o b)
      BY <3>3, <3>9, ConcatAssociative, SMTT(30)
    <3>5. (out \o a) \o b = out \o buf
      BY <3>4, <3>10
    <3>6. TapBytes'
      BY <2>1, <3>1, <3>2, <3>5 DEF TapBytes
    <3>8. buf' \in Seq(Chars) /\ out' \in Seq(Chars)
      BY <1>t, <3>1, <3>2, <3>3, ConcatProperties
    <3>7. TapTypeOK' /\ TapStages'
      BY <2>1, <3>1, <3>8 DEF TapTypeOK, TapStages
    <3> QED
      BY <2>2, <3>6, <3>7
  <2>4. CASE /\ buf = <<>> /\ buf' = buf
             /\ \E n \in taken + 1 .. sent : out' = out \o SubSeq(stream, taken + 1, n) /\ taken' = n
    <3>1. PICK n \in taken + 1 .. sent : out' = out \o SubSeq(stream, taken + 1, n) /\ taken' = n
      BY <2>4
    <3>2. out = SubSeq(stream, 1, taken)
      BY <1>t, <2>4, ConcatEmptySeq DEF TapBytes
    <3>3. out' = SubSeq(stream, 1, n)
      <4>1. 1 \in 1..Len(stream) + 1 /\ taken \in 1 - 1 .. Len(stream) /\ n \in taken .. Len(stream)
        BY <1>t
      <4>2. SubSeq(stream, 1, taken) \o SubSeq(stream, taken + 1, n) = SubSeq(stream, 1, n)
        BY <1>t, <4>1, ConcatAdjacentSubSeq
      <4> QED
        BY <3>1, <3>2, <4>2
    <3>4. out' \in Seq(Chars)
      BY <1>t, <3>3
    <3>5. TapBytes'
      BY <2>1, <2>4, <3>1, <3>3, <3>4, ConcatEmptySeq DEF TapBytes
    <3>6. TapTypeOK' /\ TapStages'
      BY <1>t, <2>1, <2>4, <3>1, <3>4 DEF TapTypeOK, TapStages
    <3> QED
      BY <2>2, <3>5, <3>6
  <2> QED
    BY <1>10, <2>3, <2>4 DEF Relay
<1>11. CASE FinishTap
  BY <1>11 DEF FinishTap, TapTypeOK, TapStages, TapRoutes, TapBytes, VerdictIgnoresChunks, EgressIsClosed
<1>12. CASE UNCHANGED tapVars
  BY <1>12 DEF tapVars, TapTypeOK, TapStages, TapRoutes, TapBytes, VerdictIgnoresChunks, EgressIsClosed
<1> QED
  BY <1>1, <1>2, <1>3, <1>4, <1>5, <1>6, <1>7, <1>8, <1>9, <1>10, <1>11, <1>12 DEF TapNext

\* Between the bytes read, kept and handed on none is lost, and a task stands
\* where its verdict and its route allow (detect.rs, egress.rs).
THEOREM TapInvHolds == TapSpec => []TapInv
  BY TapInvInit, TapInvNext, PTL DEF TapSpec

\* A hijacked connection is judged by its own bytes wherever reads cut them, loses
\* none of them, and dials no port of the proxy's own, nothing under deny and only
\* the gateway under gateway (transparent.rs handle_conn, detect.rs, egress.rs).
THEOREM InterceptStaysFaithful == TapSpec => []InterceptIsFaithful
<1>1. TapInv => InterceptIsFaithful
  <2> SUFFICES ASSUME TapInv PROVE InterceptIsFaithful
    OBVIOUS
  <2>1. pc = "finished" => out = SubSeq(stream, 1, sent)
    BY ConcatEmptySeq DEF TapInv, TapTypeOK, TapStages, TapBytes
  <2> QED
    BY <2>1 DEF TapInv, TapBytes, InterceptIsFaithful, BytesAreFaithful
<1> QED
  BY <1>1, TapInvHolds, PTL
=============================================================================
