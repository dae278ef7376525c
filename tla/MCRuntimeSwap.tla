--------------------------- MODULE MCRuntimeSwap ---------------------------
(***************************************************************************)
(* Two gated callers, one direct caller, the ingress task, one request and *)
(* two configurations.                                                     *)
(***************************************************************************)
EXTENDS RuntimeSwap, TLC

CONSTANTS g1, g2, d1, i1, q1, k1, k2, p1

MCGated == {g1, g2}
MCDirect == {d1}
MCIngress == {i1}
MCRequest == {q1}
MCConfig == {k1, k2}
MCPlugin == {p1}

SwapSymmetry == Permutations(MCGated) \cup Permutations(MCConfig)
=============================================================================
