-------------------------- MODULE MCRequestPhases --------------------------
(***************************************************************************)
(* Three plugins, of which the middle one fails open; three peers, so that *)
(* the WebSocket walk goes beyond the one retry of a request.              *)
(***************************************************************************)
EXTENDS RequestPhases

MCFailClosed == {1, 3}
MCLogOnNoRoute == BOOLEAN
=============================================================================
