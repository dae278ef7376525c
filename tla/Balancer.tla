------------------------------ MODULE Balancer ------------------------------
(***************************************************************************)
(* The default balancers of one upstream: smooth weighted round robin,     *)
(* ip_hash and least_conn, each restricted to the peers that are healthy   *)
(* and that the request has not tried.  Which peers those are is up to     *)
(* PeerHealth and ProxyAttempts, which leave the choice among them open;   *)
(* here the candidates of every pick are arbitrary and the choice is the   *)
(* subject.  An upstream keeps its effective weights for as long as its    *)
(* runtime snapshot lives, while the candidates change under it.           *)
(***************************************************************************)
EXTENDS Integers, FiniteSets, SequencesExt

CONSTANTS
  Weight,    \* <<w1, w2, ...>>: the configured weights, none of them zero
  Hashes,    \* values of the hash of a client address
  MaxFlight  \* bound on the gauge of one peer

VARIABLES
  kind,     \* the configured BalancerKind
  current,  \* UpstreamRt.swrr: the effective weights
  flights,  \* the in-flight gauges, by peer
  waited    \* history: per peer, the swrr picks it was a candidate of since
            \* it was last picked or was last not a candidate

vars == <<kind, current, flights, waited>>

Members == DOMAIN Weight
Kinds == {"swrr", "ip_hash", "least_conn"}
Zero == [i \in Members |-> 0]
WeightOf(is) == FoldSet(LAMBDA i, t : Weight[i] + t, 0, is)

Init ==
  /\ kind \in Kinds
  /\ current = Zero /\ flights = Zero /\ waited = Zero

(***************************************************************************)
(* swrr_next on the subset: add the weights, take the first of the         *)
(* largest, subtract the subset's total from it.  The rest keep what they  *)
(* have.                                                                   *)
(***************************************************************************)
Raised(cands) == [i \in Members |-> IF i \in cands THEN current[i] + Weight[i] ELSE current[i]]

Largest(eff, cands) ==
  CHOOSE b \in cands : \A i \in cands : eff[i] < eff[b] \/ (eff[i] = eff[b] /\ b <= i)

\* Mutation: the winner pays the weight of all peers, not of the candidates.
SwrrNextWholeTotal(cands, b) == [Raised(cands) EXCEPT ![b] = @ - WeightOf(Members)]

SwrrNext(cands, b) == [Raised(cands) EXCEPT ![b] = @ - WeightOf(cands)]

SwrrPick(cands) ==
  LET b == Largest(Raised(cands), cands)
  IN  /\ current' = SwrrNext(cands, b)
      /\ waited' = [i \in Members |-> IF i \in cands \ {b} THEN waited[i] + 1 ELSE 0]
      /\ flights' = [flights EXCEPT ![b] = @ + 1]

IpHashPick(cands) ==
  \E h \in Hashes :
    LET healthy == SetToSortSeq(cands, <)
        b == healthy[(h % Len(healthy)) + 1]
    IN  /\ flights' = [flights EXCEPT ![b] = @ + 1]
        /\ UNCHANGED <<current, waited>>

(***************************************************************************)
(* The loop over the candidates in order, with the cross products.         *)
(***************************************************************************)
LeastConn(cands) ==
  LET healthy == SetToSortSeq(cands, <)
  IN  FoldLeft(LAMBDA b, i : IF flights[i] * Weight[b] < flights[b] * Weight[i] THEN i ELSE b,
               healthy[1], healthy)

LeastConnPick(cands) ==
  /\ flights' = [flights EXCEPT ![LeastConn(cands)] = @ + 1]
  /\ UNCHANGED <<current, waited>>

PickPeer(cands) ==
  /\ \A i \in cands : flights[i] < MaxFlight
  /\ \/ kind = "swrr" /\ SwrrPick(cands)
     \/ kind = "ip_hash" /\ IpHashPick(cands)
     \/ kind = "least_conn" /\ LeastConnPick(cands)
  /\ UNCHANGED kind

(***************************************************************************)
(* An attempt that ended gives its slot back; a reload that keeps the      *)
(* peers builds the upstream anew, with all effective weights zero, while  *)
(* the gauges live on in the registry.                                     *)
(***************************************************************************)
ReleasePeer(i) ==
  /\ flights[i] > 0
  /\ flights' = [flights EXCEPT ![i] = @ - 1]
  /\ UNCHANGED <<kind, current, waited>>

ApplyRuntime ==
  /\ kind' \in Kinds
  /\ current' = Zero /\ waited' = Zero
  /\ UNCHANGED flights

Next ==
  \/ \E cands \in SUBSET Members \ {{}} : PickPeer(cands)
  \/ \E i \in Members : ReleasePeer(i)
  \/ ApplyRuntime

-----------------------------------------------------------------------------
(***************************************************************************)
(* However the candidates change from pick to pick, the effective weights  *)
(* kept across picks stay balanced and inside the total weight: no peer    *)
(* that comes back has saved up enough to take every pick, and none has    *)
(* run up a debt it can never work off.                                    *)
(***************************************************************************)
WeightsStayBounded ==
  /\ FoldSet(LAMBDA i, t : current[i] + t, 0, Members) = 0
  /\ \A i \in Members : -WeightOf(Members) < current[i] /\ current[i] < WeightOf(Members)

(***************************************************************************)
(* A peer that stays a candidate is picked before it has waited for two    *)
(* full rounds of its share, whatever the others do.                       *)
(***************************************************************************)
NobodyStarves == \A i \in Members : waited[i] * Weight[i] < 2 * WeightOf(Members)

(***************************************************************************)
(* The default balancers are fair (pipeline_peer.rs swrr_pick, balancer.rs *)
(* swrr_next): picks over changing subsets keep the effective weights      *)
(* bounded, and no candidate is passed over for ever.                      *)
(***************************************************************************)
SwrrIsFair == WeightsStayBounded /\ NobodyStarves
=============================================================================
