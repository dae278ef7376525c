------------------------- MODULE MCDynamicBindings -------------------------
(***************************************************************************)
(* Three paths below each other and one beside them, room for two          *)
(* bindings, two modules, two admin calls at a time; a section with routes *)
(* of both shapes, one without routes, and none.                           *)
(***************************************************************************)
EXTENDS DynamicBindings

CONSTANTS a1, a2, m1, m2

MCAdmin == {a1, a2}
MCModule == {m1, m2}
MCPath == {<<"api">>, <<"api", "x">>, <<"b">>}
MCAsked == {<<"api">>, <<"api", "x">>, <<"api", "x", "y">>, <<"b">>}

MCConfig ==
  {[on |-> TRUE, routes |-> <<[path |-> <<"api">>, prefix |-> TRUE, module |-> m1]>>],
   [on |-> TRUE, routes |-> <<>>],
   [on |-> FALSE, routes |-> <<>>]}

BindingsSymmetry == Permutations(MCAdmin)
=============================================================================
