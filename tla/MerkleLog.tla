------------------------------ MODULE MerkleLog ------------------------------
(***************************************************************************)
(* The append-only Merkle log of executor/state/src/merkle_log.rs, and the *)
(* two proofs by which a sub-actor mint shows that its leaf extends it.    *)
(* Actors takes both proofs for the log they were made against; this       *)
(* module checks that they are no more and no less than that.              *)
(*                                                                         *)
(* A hash is the term it was computed from: <<>> is EMPTY_ROOT, <<x>> a    *)
(* leaf hash and <<l, r>> a node hash.                                     *)
(***************************************************************************)
EXTENDS Integers, Sequences

CONSTANTS
    Data,        \* what leaves hold
    MaxLeaves    \* bound: leaves of a log

ASSUME LeavesAssumption == MaxLeaves \in Nat

VARIABLES
    log,     \* the leaves that the root actor commits to
    view     \* the leaves that a wallet makes its proofs from

logVars == <<log, view>>

EMPTY_ROOT == <<>>
leaf_hash(x) == <<x>>
node_hash(l, r) == <<l, r>>

\* split_first: the proof nodes are consumed from the front.
NoFold == [found |-> FALSE]
Fold(hash, rest) == [found |-> TRUE, hash |-> hash, rest |-> rest]

RECURSIVE Pow2AtLeast(_, _)
Pow2AtLeast(k, n) == IF 2 * k >= n THEN k ELSE Pow2AtLeast(2 * k, n)

\* The largest power of two strictly below n.
largest_pow2_below(n) == Pow2AtLeast(1, n)

Left(s) == SubSeq(s, 1, largest_pow2_below(Len(s)))
Right(s) == SubSeq(s, largest_pow2_below(Len(s)) + 1, Len(s))

RECURSIVE mth(_)
mth(leaves) ==
    CASE Len(leaves) = 0 -> EMPTY_ROOT
      [] Len(leaves) = 1 -> leaves[1]
      [] OTHER -> node_hash(mth(Left(leaves)), mth(Right(leaves)))

------------------------------------------------------------------------------
RECURSIVE inclusion_path(_, _)
inclusion_path(m, leaves) ==
    IF Len(leaves) <= 1 THEN <<>>
    ELSE LET k == largest_pow2_below(Len(leaves))
         IN IF m < k THEN Append(inclusion_path(m, Left(leaves)), mth(Right(leaves)))
            ELSE Append(inclusion_path(m - k, Right(leaves)), mth(Left(leaves)))

prove_inclusion(leaves, index) ==
    [leaf_index |-> index, leaf_count |-> Len(leaves), nodes |-> inclusion_path(index, leaves)]

RECURSIVE inclusion_rec(_, _, _, _)
inclusion_rec(m, n, leaf, proof) ==
    IF n = 1 THEN IF m = 0 THEN Fold(leaf, proof) ELSE NoFold
    ELSE LET k == largest_pow2_below(n)
             below == IF m < k THEN inclusion_rec(m, k, leaf, proof)
                      ELSE inclusion_rec(m - k, n - k, leaf, proof)
         IN IF m >= n \/ ~below.found THEN NoFold
            ELSE IF below.rest = <<>> THEN NoFold
            ELSE Fold(IF m < k THEN node_hash(below.hash, Head(below.rest))
                      ELSE node_hash(Head(below.rest), below.hash), Tail(below.rest))

verify_inclusion(leaf, proof, root) ==
    /\ proof.leaf_count # 0 /\ proof.leaf_index < proof.leaf_count
    /\ LET r == inclusion_rec(proof.leaf_index, proof.leaf_count, leaf, proof.nodes)
       IN r.found /\ r.rest = <<>> /\ r.hash = root

------------------------------------------------------------------------------
\* b: the old root is known to the verifier and needs no node of the proof.
RECURSIVE consistency_subproof(_, _, _)
consistency_subproof(m, leaves, b) ==
    IF m = Len(leaves) THEN IF b THEN <<>> ELSE <<mth(leaves)>>
    ELSE LET k == largest_pow2_below(Len(leaves))
         IN IF m <= k THEN Append(consistency_subproof(m, Left(leaves), b), mth(Right(leaves)))
            ELSE Append(consistency_subproof(m - k, Right(leaves), FALSE), mth(Left(leaves)))

prove_consistency(leaves, old) ==
    [old_leaf_count |-> old, new_leaf_count |-> Len(leaves),
     nodes |-> IF old > 0 /\ old < Len(leaves) THEN consistency_subproof(old, leaves, TRUE)
               ELSE <<>>]

\* A fold here carries the hashes of the old and of the new side.
RECURSIVE consistency_rec(_, _, _, _, _)
consistency_rec(m, n, b, proof, known_old) ==
    IF m = n THEN IF b THEN Fold([old |-> known_old, new |-> known_old], proof)
                  ELSE IF proof = <<>> THEN NoFold
                  ELSE Fold([old |-> Head(proof), new |-> Head(proof)], Tail(proof))
    ELSE LET k == largest_pow2_below(n)
             below == IF m <= k THEN consistency_rec(m, k, b, proof, known_old)
                      ELSE consistency_rec(m - k, n - k, FALSE, proof, known_old)
         IN IF m > n \/ ~below.found THEN NoFold
            ELSE IF below.rest = <<>> THEN NoFold
            ELSE LET sibling == Head(below.rest)
                 IN Fold(IF m <= k
                         THEN [old |-> below.hash.old, new |-> node_hash(below.hash.new, sibling)]
                         ELSE [old |-> node_hash(sibling, below.hash.old),
                               new |-> node_hash(sibling, below.hash.new)], Tail(below.rest))

\* A variant that does not compare the old root that the proof leads to.
verify_consistency_new(old_root, proof, new_root) ==
    LET m == proof.old_leaf_count
        n == proof.new_leaf_count
        r == consistency_rec(m, n, TRUE, proof.nodes, old_root)
    IN CASE m > n -> FALSE
         [] m = 0 -> proof.nodes = <<>> /\ old_root = EMPTY_ROOT
         [] m = n -> proof.nodes = <<>> /\ old_root = new_root
         [] OTHER -> r.found /\ r.rest = <<>> /\ r.hash.new = new_root

verify_consistency(old_root, proof, new_root) ==
    LET m == proof.old_leaf_count
        n == proof.new_leaf_count
        r == consistency_rec(m, n, TRUE, proof.nodes, old_root)
    IN CASE m > n -> FALSE
         [] m = 0 -> proof.nodes = <<>> /\ old_root = EMPTY_ROOT
         [] m = n -> proof.nodes = <<>> /\ old_root = new_root
         [] OTHER -> r.found /\ r.rest = <<>> /\ r.hash = [old |-> old_root, new |-> new_root]

------------------------------------------------------------------------------
\* A variant with the inclusion proof alone.
MintChecksInclusion(x, new_root, inclusion, consistency) ==
    /\ inclusion.leaf_index = Len(log) /\ inclusion.leaf_count = Len(log) + 1
    /\ verify_inclusion(leaf_hash(x), inclusion, new_root)

\* What apply_sub_actor_op asks of a mint with leaf x.
MintChecks(x, new_root, inclusion, consistency) ==
    /\ inclusion.leaf_index = Len(log) /\ inclusion.leaf_count = Len(log) + 1
    /\ verify_inclusion(leaf_hash(x), inclusion, new_root)
    /\ consistency.old_leaf_count = Len(log) /\ consistency.new_leaf_count = Len(log) + 1
    /\ verify_consistency(mth(log), consistency, new_root)

LogInit == log = <<>> /\ view = <<>>

\* A mint is executed.
Extend(x) ==
    /\ Len(log) < MaxLeaves
    /\ log' = Append(log, leaf_hash(x))
    /\ UNCHANGED view

\* A wallet makes ready a mint, maybe on others that are not executed yet.
Prepare(x) ==
    /\ Len(view) < MaxLeaves
    /\ view' = Append(view, leaf_hash(x))
    /\ UNCHANGED log

Refresh == view' = log /\ UNCHANGED log

LogNext == Refresh \/ \E x \in Data : Extend(x) \/ Prepare(x)

------------------------------------------------------------------------------
\* verify_inclusion accepts a proof made from the view, for any leaf and against
\* the root of any log, exactly if the log is the view with that leaf in place;
\* verify_consistency accepts one exactly if the log is the part of the view that
\* the proof claims as the old tree.
ProofsExact ==
    /\ \A i \in 1..Len(view), x \in Data :
          verify_inclusion(leaf_hash(x), prove_inclusion(view, i - 1), mth(log))
            <=> log = [view EXCEPT ![i] = leaf_hash(x)]
    /\ \A m \in 0..Len(view) :
          verify_consistency(mth(log), prove_consistency(view, m), mth(view))
            <=> log = SubSeq(view, 1, m)

\* apply_sub_actor_op takes a mint made from a view exactly if the log is that
\* view now: a mint made before another one was executed, or ahead of one that
\* was not, is refused.
MintExact ==
    \A x \in Data :
      LET new == Append(view, leaf_hash(x))
      IN MintChecks(x, mth(new), prove_inclusion(new, Len(view)),
                    prove_consistency(new, Len(view)))
           <=> log = view
=============================================================================
