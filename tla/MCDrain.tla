------------------------------ MODULE MCDrain ------------------------------
(***************************************************************************)
(* Two listeners and two connections for TLC.                              *)
(***************************************************************************)
EXTENDS Drain

CONSTANTS l1, l2, c1, c2

MCLoop == {l1, l2}
MCConn == {c1, c2}
=============================================================================
