-------------------------- MODULE MCProxyAttempts --------------------------
(***************************************************************************)
(* Two requests of any kind and two publishers; the lists drop an address, *)
(* bring it back and name one twice.                                       *)
(***************************************************************************)
EXTENDS ProxyAttempts, TLC

CONSTANTS h1, h2, r1, r2, u1, u2

MCHosts == {h1, h2}
MCLists == {<<h1, h2>>, <<h2>>, <<h2, h2>>}
MCPublisher == {u1, u2}
MCReq == {r1, r2}

AttemptsSymmetry == Permutations(MCReq) \cup Permutations(MCPublisher)
=============================================================================
