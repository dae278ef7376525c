------------------------- MODULE MCHealthTimeline -------------------------
(* Two addresses that are reordered, removed, re-added and repeated by reloads. *)
EXTENDS HealthTimeline

CONSTANTS a1, a2

MCAddr == {a1, a2}

MCConfigs ==
  {[peers |-> p, active |-> TRUE] : p \in {<<a1, a2>>, <<a2, a1>>, <<a2>>, <<a2, a2>>}}

MCConfigsActiveOff == MCConfigs \cup {[peers |-> <<a1, a2>>, active |-> FALSE]}
=============================================================================
