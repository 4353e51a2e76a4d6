------------------------- MODULE MCCheckpointAgreement -------------------------
(* Model values for module CheckpointAgreement. *)
EXTENDS CheckpointAgreement, TLC

CONSTANTS a, b, c, d

\* One roster of four, of which d is faulty.
FixedRoster == [r \in Round |-> Member]

Symmetry == Permutations(Payload) \cup Permutations({a, b, c})
==============================================================================
