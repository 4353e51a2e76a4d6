----------------------------- MODULE MCCheckpoint -----------------------------
(* Model values for module Checkpoint. *)
EXTENDS Checkpoint, TLC

CONSTANTS a, b

\* Every member is on the roster of every round.
FixedRoster == [r \in Round |-> Member]

\* b joins after round 1.
GrowingRoster == [r \in Round |-> IF r = 1 THEN {a} ELSE {a, b}]

Symmetry == Permutations(Payload)
==============================================================================
