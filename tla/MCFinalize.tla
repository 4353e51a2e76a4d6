----------------------------- MODULE MCFinalize -----------------------------
(* Instances of Finalize for TLC. *)
EXTENDS Finalize

W(k, v) == [key |-> k, when |-> "any", value |-> v]
Rebind(k, old, new) == [key |-> k, when |-> old, value |-> new]

\* A round of two keys, one of none, and one that overwrites its own write.
MCOps == <<<<W("a", "x"), W("b", "x")>>, <<>>, <<W("a", "x"), W("a", "y")>>>>

\* Two rebinds of one key that reached the order the wrong way round: the one
\* from "x" to "y" is refused, then the one from nothing to "x" is taken.
RebindOps == <<<<Rebind("a", "x", "y")>>, <<Rebind("a", "absent", "x")>>, <<W("b", "x")>>>>

NoAnchors == {}

\* The write of round 1 that round 2 overwrites.
OneAnchor == {<<1, 1>>}
=============================================================================
