------------------------------ MODULE KvLedger ------------------------------
(***************************************************************************)
(* What the key-value store of a plugin promises: a map from keys to       *)
(* entries and a ledger of the bytes it holds, which change together, and  *)
(* a footprint that writers who decide at the same time can push past the  *)
(* quota by a bounded amount only.                                         *)
(***************************************************************************)
EXTENDS Naturals, FiniteSets, Functions

CONSTANTS
  Keys,   \* the keys that are considered
  Limit   \* the most bytes that are ever held

VARIABLES
  held,   \* the entries, a function on some of the keys
  ledger  \* the number of bytes the store believes it holds

\* key.len() of every key of the model.
KeyBytes == 1

\* The bytes of a map of entries.
Footprint(f) == FoldFunctionOnSet(LAMBDA e, sum : sum + KeyBytes + e.size, 0, f, DOMAIN f)

Init == Footprint(held) <= Limit /\ ledger = Footprint(held)

\* The entry under one key is written, replaced or removed.
Move ==
  /\ \E k \in Keys :
       /\ held' # held
       /\ DOMAIN held' \in {DOMAIN held \cup {k}, DOMAIN held \ {k}}
       /\ \A j \in DOMAIN held \ {k} : held'[j] = held[j]
  /\ Footprint(held') <= Limit
  /\ ledger' = Footprint(held')

Spec == Init /\ [][Move]_<<held, ledger>>

=============================================================================
