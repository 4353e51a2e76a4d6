----------------------------- MODULE RecordsTree -----------------------------
(***************************************************************************)
(* The tree over the records of a round (protocol/consensus/src/           *)
(* checkpoint.rs), whose root every checkpoint signs, and the inclusion    *)
(* proofs that the node writes beside a record file and a mirror checks.   *)
(* A hash is the term it was computed from.                                *)
(***************************************************************************)
EXTENDS Integers, Sequences

empty_hash == <<0>>
try_leaf_hash(item) == <<0, item>>
singleton_hash(c) == <<1, c>>
internal_hash(l, r) == <<2, l, r>>

combine_hash(l, r) ==
    CASE l = empty_hash /\ r = empty_hash -> empty_hash
      [] l = empty_hash /\ r # empty_hash -> singleton_hash(r)
      [] l # empty_hash /\ r = empty_hash -> singleton_hash(l)
      [] OTHER -> internal_hash(l, r)

next_power_of_two(n) == CHOOSE p \in {2^k : k \in 0..n} : p >= n /\ p < 2 * n

\* The leaves, padded with empty ones.
Padded(items) ==
    [i \in 1..next_power_of_two(Len(items)) |->
       IF i <= Len(items) THEN try_leaf_hash(items[i]) ELSE empty_hash]

RECURSIVE Levels(_)
Levels(level) ==
    IF Len(level) = 1 THEN <<level>>
    ELSE <<level>> \o Levels([i \in 1..(Len(level) \div 2) |-> combine_hash(level[2*i - 1], level[2*i])])

compute_records_root(items) ==
    IF items = <<>> THEN empty_hash
    ELSE LET levels == Levels(Padded(items)) IN levels[Len(levels)][1]

\* build_records_proofs: at each level the index, without its last bits, and the
\* node beside it.
build_records_proofs(items) ==
    IF items = <<>> THEN <<>>
    ELSE LET levels == Levels(Padded(items))
             At(idx, d) == idx \div 2^(d - 1)
         IN [i \in 1..Len(items) |->
              [item_index |-> i - 1,
               steps |-> [d \in 1..(Len(levels) - 1) |->
                 LET cur == At(i - 1, d)
                 IN [sibling_hash |-> levels[d][IF cur % 2 = 0 THEN cur + 2 ELSE cur],
                     sibling_is_right |-> cur % 2 = 0]]]]

verify_records_proof(root, item, proof) ==
    LET cur[d \in 0..Len(proof.steps)] ==
          IF d = 0 THEN try_leaf_hash(item)
          ELSE LET step == proof.steps[d]
               IN IF step.sibling_is_right THEN combine_hash(cur[d - 1], step.sibling_hash)
                  ELSE combine_hash(step.sibling_hash, cur[d - 1])
    IN cur[Len(proof.steps)] = root

\* A variant that checks as many proofs as there are.
VerifyRecordsProofFileShort(proofs, items, root) ==
    \A i \in DOMAIN items \cap DOMAIN proofs :
        proofs[i].item_index = i - 1 /\ verify_records_proof(root, items[i], proofs[i])

\* The sidecar at a mirror: one proof to an item, in order.
VerifyRecordsProofFile(proofs, items, root) ==
    /\ Len(proofs) = Len(items)
    /\ \A i \in DOMAIN items :
         proofs[i].item_index = i - 1 /\ verify_records_proof(root, items[i], proofs[i])

------------------------------------------------------------------------------
\* compute_records_root: one root stands for one sequence of items, although the
\* tree is padded and a node with one child does not tell on which side it is.
RootBinds(items, others) ==
    compute_records_root(items) = compute_records_root(others) <=> items = others

\* build_records_proofs and verify_records_proof: the proof that the node wrote
\* for item i of a round shows that item at that place, in that round and in any
\* other where it verifies.
ProofsBind(items, others) ==
    \A i \in DOMAIN items :
        /\ verify_records_proof(compute_records_root(items), items[i], build_records_proofs(items)[i])
        /\ \A item \in {others[j] : j \in DOMAIN others} \cup {items[i]} :
             verify_records_proof(compute_records_root(others), item, build_records_proofs(items)[i]) =>
               i <= Len(others) /\ others[i] = item

\* VerifyRecordsProofFile: with the root that was signed and the proofs that the
\* node wrote for it, a mirror takes no other items than those of the round.
SidecarBinds(items, others) ==
    VerifyRecordsProofFile(build_records_proofs(others), items, compute_records_root(others)) <=>
      items = others
=============================================================================
