----------------------------- MODULE MCRequests -----------------------------
(***************************************************************************)
(* What requests do to each other, for TLC: their attempts at the peers of *)
(* one upstream (MCProxyAttempts), and what plugins share, that is the     *)
(* binding table (MCDynamicBindings), the key-value store (MCPluginStore)  *)
(* and the module cache, where three requests race two uploads and a       *)
(* removal. The parts share no state, so a behaviour is one of the part it *)
(* starts with and the other parts stay as they began.                     *)
(*                                                                         *)
(* Attempts are two parts, to keep down the states: two requests with one  *)
(* publisher of lists that repeat no address, where no attempt is          *)
(* abandoned; and one request at a time with two publishers of any list,   *)
(* up to the replacement of a list that repeats an address.  In the        *)
(* bindings one of the two modules has an artifact at first.               *)
(***************************************************************************)
EXTENDS MCProxyAttempts, MCDynamicBindings, ModuleCache, MCPluginStore

VARIABLES
  part

allVars == <<part, attemptVars, vars, storeVars, cacheVars>>

Symmetry == Permutations(MCReq) \cup BindingsSymmetry

PartsInit ==
  /\ part \in {"requests", "publishers", "bindings", "store", "cache"}
  /\ AttemptsInit /\ Init /\ StoreInit /\ CacheInit
  /\ part = "requests" => Doubled(slots) = {}
  /\ part \notin {"requests", "publishers"} => runtime = <<h1, h2>>
  /\ files = {m1}
  /\ part # "bindings" => applied.routes = <<>>

Running == {r \in MCReq : request[r].pc # "idle"}

\* The bounds on calls, operations and uploads end the behaviours of these
\* parts, and the replacement of a repeated address those of the publishers.
Ended == part \in {"publishers", "bindings", "store", "cache"}

PartsNext ==
  /\ UNCHANGED part
  /\ \/ part = "requests" /\ AttemptsNext /\ pending'[u2] = {} /\ abandoned' = abandoned
        /\ Doubled(slots') = {} /\ UNCHANGED <<vars, storeVars, cacheVars>>
     \/ part = "publishers" /\ doubled = {} /\ AttemptsNext /\ Cardinality(Running') <= 1
        /\ UNCHANGED <<vars, storeVars, cacheVars>>
     \/ part = "bindings" /\ Next /\ UNCHANGED <<attemptVars, storeVars, cacheVars>>
     \/ part = "store" /\ StoreNext /\ UNCHANGED <<attemptVars, vars, cacheVars>>
     \/ part = "cache" /\ CacheNext /\ UNCHANGED <<attemptVars, vars, storeVars>>
     \/ Ended /\ UNCHANGED <<attemptVars, vars, storeVars, cacheVars>>

PartsSpec == PartsInit /\ [][PartsNext]_allVars
=============================================================================
