----------------------------- MODULE MCServing -----------------------------
(***************************************************************************)
(* What requests are served from and through, for TLC: the health of the   *)
(* peers over time (MCHealthTimeline), the choice among them by the        *)
(* default balancers and by the affinity plugin, the clients that reach    *)
(* them, the snapshots of runtime and plugins that reloads replace         *)
(* (MCRuntimeSwap), the phases of a request (MCRequestPhases) and what     *)
(* plugins edit of its messages. The parts share no state, so a behaviour  *)
(* is one of the part it starts with and the other parts stay as they      *)
(* began.                                                                  *)
(*                                                                         *)
(* Two components are two parts each, to keep down the states. Health:     *)
(* outcomes and reloads over time without probes, of lists that repeat no  *)
(* address; and outcomes, probes and reloads at one time, of lists that do *)
(* not only swap addresses.  Snapshots: two gated callers with the ingress *)
(* task, and a gated with a direct caller.                                 *)
(***************************************************************************)
EXTENDS MCHealthTimeline, ClientPool, AffinityScheduler, MCRuntimeSwap, MCRequestPhases

CONSTANTS s1, s2

VARIABLES
  part,
  policy, current, flights, waited,
  stage, ctx, resp, edits, content, wire, reply, client, imports

balanceVars == <<policy, current, flights, waited>>
editVars == <<stage, ctx, resp, edits, content, wire, reply, client, imports>>
allVars == <<part, vars, balanceVars, poolVars, affVars, swapVars, phaseVars, editVars>>

\* Three peers of different weights.
Balance == INSTANCE Balancer WITH
  kind <- policy, Weight <- <<3, 1, 2>>, Hashes <- 0..5, MaxFlight <- 2

\* Two plaintext upstreams, one of which resolves a name, and one with TLS;
\* the reload path and the ingress plane apply them while a request runs.
MCPoolConfigs ==
  {[peers |-> {1, 2}, endpoints |-> {}, tls |-> "plain", timeout |-> 1],
   [peers |-> {1}, endpoints |-> {}, tls |-> "t1", timeout |-> 1],
   [peers |-> {1}, endpoints |-> {"h"}, tls |-> "plain", timeout |-> 2]}

MCPoolBoot == CHOOSE c \in MCPoolConfigs : c.peers = {1, 2}

\* Two requests at a time of three tasks (and one of none), whose keys are in
\* the query, in the path and in the body; a peer takes one task.
Rule(from) == [from |-> from, name |-> "k", n |-> 2]
MCInputs ==
  {[extract |-> Rule("query"), query |-> <<<<"x", "t2">>, <<"k", "t1">>, <<"k", "t3">>>>],
   [extract |-> Rule("path"), path |-> <<"", "t1", "", "t2">>],
   [extract |-> Rule("body"), body |-> <<<<"k", "not a string">>, <<"k", "t3">>>>],
   [extract |-> Rule("body"), body |-> <<<<"k", "">>, <<"k", "t1">>>>]}

MCRequests == {s1, s2}

\* Clients with and without the headers that matter, peers that answer with
\* duplicates, names and values that HTTP does not have, three calls of the
\* imports.
MCClientHeaders ==
  {<<>>, <<<<"host", "h">>, <<"content-length", "n">>, <<"x-forwarded-for", "a">>>>,
   <<<<"connection", "upgrade">>, <<"x-a", "c">>>>}
MCServerHeaders == {<<<<"connection", "close">>, <<"x-a", "s">>, <<"x-a", "t">>>>, <<>>}

Edits == INSTANCE PluginEdits WITH
  body <- content, answer <- reply, calls <- imports,
  ClientHeaders <- MCClientHeaders, ServerHeaders <- MCServerHeaders,
  RequestNames <- {"host", "x-forwarded-for", "connection", "content-length", "bad"},
  ResponseNames <- {"content-type", "x-a", "bad"}, Values <- {"p", "bad"}, Parts <- {"p", "bad"},
  InvalidUri <- {"bad"}, InvalidQuery <- {"bad"}, InvalidName <- "bad", InvalidValue <- "bad",
  Peers <- 1, MaxCalls <- 3

PartsInit ==
  /\ part \in {"health", "probing", "balance", "affinity", "pool", "gated", "direct", "phases", "edits"}
  /\ Init /\ Balance!Init /\ PoolInit /\ AffinityInit /\ SwapInit /\ PhasesInit
  /\ Edits!Init
  /\ part = "health" => Doubled(slots) = {}
  /\ part = "probing" => config.peers # <<a2, a1>>
  /\ part \notin {"health", "probing"} => config = [peers |-> <<a1, a2>>, active |-> TRUE]
  /\ part # "balance" => policy = "swrr"
  /\ part # "phases" => kind = "http"
  /\ runtime.cfg = k1
  /\ part \notin {"gated", "direct"} => plugins.gen = 0

\* The bounds on the runs of the plugin, on the generations and on the imports
\* end the behaviours of these parts.
Ended ==
  \/ part = "affinity" /\ \A r \in MCRequests : sreq[r].pc = "idle"
  \/ part \in {"gated", "direct", "edits"}

PartsNext ==
  /\ UNCHANGED part
  /\ \/ part = "health" /\ (Traffic \/ Publishers \/ Tick) /\ ~rearm' /\ Doubled(slots') = {}
        /\ UNCHANGED <<balanceVars, poolVars, affVars, swapVars, phaseVars, editVars>>
     \/ part = "probing" /\ (Traffic \/ Prober \/ Publishers) /\ config'.peers # <<a2, a1>>
        /\ UNCHANGED <<balanceVars, poolVars, affVars, swapVars, phaseVars, editVars>>
     \/ part = "balance" /\ Balance!Next /\ UNCHANGED <<vars, poolVars, affVars, swapVars, phaseVars, editVars>>
     \/ part = "affinity" /\ AffinityNext /\ UNCHANGED <<vars, balanceVars, poolVars, swapVars, phaseVars, editVars>>
     \/ part = "pool" /\ PoolNext /\ UNCHANGED <<vars, balanceVars, affVars, swapVars, phaseVars, editVars>>
     \/ part = "gated" /\ SwapNext /\ \A r \in MCDirect : job'[r].pc = "idle"
        /\ UNCHANGED <<vars, balanceVars, poolVars, affVars, phaseVars, editVars>>
     \/ part = "direct" /\ SwapNext /\ job'[g2].pc = "idle" /\ UNCHANGED ingress
        /\ UNCHANGED <<vars, balanceVars, poolVars, affVars, phaseVars, editVars>>
     \/ part = "phases" /\ PhasesNext /\ UNCHANGED <<vars, balanceVars, poolVars, affVars, swapVars, editVars>>
     \/ part = "edits" /\ Edits!Next /\ UNCHANGED <<vars, balanceVars, poolVars, affVars, swapVars, phaseVars>>
     \/ Ended /\ UNCHANGED <<vars, balanceVars, poolVars, affVars, swapVars, phaseVars, editVars>>

PartsSpec == PartsInit /\ [][PartsNext]_allVars

\* Over candidates that change from pick to pick the effective weights stay
\* bounded and no candidate is passed over for ever (swrr_pick, swrr_next).
SwrrIsFair == Balance!SwrrIsFair

\* Whatever plugins did to the request, what is sent to a peer is well formed
\* and the client's (build_outgoing, req_set_header); and the response of a
\* dynamic module has under every name what its last call left (final_headers).
EditsAreFaithful == Edits!WireIsSafe /\ Edits!ReplayIsIdempotent
=============================================================================
