---------------------------- MODULE SparseMerkle ----------------------------
(***************************************************************************)
(* The sparse Merkle tree over the state of the executor                   *)
(* (executor/state/src/merkle.rs).  It keeps the hashes of the leaves and  *)
(* of the branches that are not empty, and a write computes again only the *)
(* branches on its path.  The root is the state hash that checkpoints      *)
(* sign, so it must depend on the entries alone, not on how they came to   *)
(* be.  A hash is the term it was computed from.                           *)
(***************************************************************************)
EXTENDS Integers, Sequences, FiniteSets, Functions

CONSTANTS
    StateKey, StateValue,
    DEPTH,       \* bits of a path
    path_of      \* external: SHA-256 of the key, as bits

ASSUME PathAssumption ==
    /\ DEPTH \in Nat
    /\ path_of \in [StateKey -> [1..DEPTH -> {0, 1}]]
    /\ \A k, l \in StateKey : path_of[k] = path_of[l] => k = l

VARIABLES
    tree,       \* SparseMerkleTree
    entries,    \* what was put and not deleted: the table of the state
    held        \* a proof that was handed out, and the entry it is about

treeVars == <<tree, entries, held>>

empty == <<0>>
state_leaf_hash(k, v) == <<0, k, v>>
singleton(c) == <<1, c>>
internal(l, r) == <<2, l, r>>

combine(l, r) ==
    CASE l = empty /\ r = empty -> empty
      [] l = empty /\ r # empty -> singleton(r)
      [] l # empty /\ r = empty -> singleton(l)
      [] OTHER -> internal(l, r)

\* Bits are numbered from 0.
bit(path, b) == path[b + 1]
flip(path, b) == [path EXCEPT ![b + 1] = 1 - @]
mask(path, depth) == SubSeq(path, 1, depth)

Get(map, i) == IF i \in DOMAIN map THEN map[i] ELSE empty

subtree_hash(leaves, nodes, depth, path) ==
    IF depth = DEPTH THEN Get(leaves, path) ELSE Get(nodes, mask(path, depth))

\* A variant that keeps the hash of a branch that became empty.
set_branchStale(nodes, prefix, hash) ==
    IF hash = empty THEN nodes
    ELSE [p \in DOMAIN nodes \cup {prefix} |-> IF p = prefix THEN hash ELSE nodes[p]]

set_branch(nodes, prefix, hash) ==
    IF hash = empty THEN Restrict(nodes, DOMAIN nodes \ {prefix})
    ELSE [p \in DOMAIN nodes \cup {prefix} |-> IF p = prefix THEN hash ELSE nodes[p]]

Ordered(path, depth, current, sibling) ==
    IF bit(path, depth) = 0 THEN combine(current, sibling) ELSE combine(sibling, current)

\* The loop of insert and delete: from the leaf up, with the siblings as stored.
Climb(leaves, nodes, path, leaf) ==
    LET at[depth \in 0..DEPTH] ==
          IF depth = DEPTH THEN [current |-> leaf, nodes |-> nodes]
          ELSE LET below == at[depth + 1]
                   sibling == subtree_hash(leaves, below.nodes, depth + 1, flip(path, depth))
                   current == Ordered(path, depth, below.current, sibling)
               IN [current |-> current, nodes |-> set_branch(below.nodes, mask(path, depth), current)]
    IN [leaves |-> leaves, nodes |-> at[0].nodes, root |-> at[0].current]

insert(t, k, v) ==
    LET path == path_of[k]
        leaf == state_leaf_hash(k, v)
        leaves == [p \in DOMAIN t.leaves \cup {path} |-> IF p = path THEN leaf ELSE t.leaves[p]]
    IN Climb(leaves, t.nodes, path, leaf)

delete(t, k) ==
    LET path == path_of[k]
    IN IF path \notin DOMAIN t.leaves THEN t
       ELSE Climb(Restrict(t.leaves, DOMAIN t.leaves \ {path}), t.nodes, path, empty)

\* From the sibling of the leaf up; of a key that is there.
proof_siblings(t, k) ==
    [i \in 1..DEPTH |-> subtree_hash(t.leaves, t.nodes, DEPTH - i + 1, flip(path_of[k], DEPTH - i))]

\* A variant that puts every sibling on the right.
verifyUnsided(k, v, siblings, root) ==
    LET current[i \in 0..DEPTH] ==
          IF i = 0 THEN state_leaf_hash(k, v) ELSE combine(current[i - 1], siblings[i])
    IN Len(siblings) = DEPTH /\ current[DEPTH] = root

\* MerkleProof::verify.
verify(k, v, siblings, root) ==
    LET current[i \in 0..DEPTH] ==
          IF i = 0 THEN state_leaf_hash(k, v)
          ELSE Ordered(path_of[k], DEPTH - i, current[i - 1], siblings[i])
    IN Len(siblings) = DEPTH /\ current[DEPTH] = root

NoProof == <<>>

TreeInit ==
    /\ tree = [leaves |-> <<>>, nodes |-> <<>>, root |-> empty]
    /\ entries = <<>>
    /\ held = NoProof

PutEntry(k, v) ==
    /\ tree' = insert(tree, k, v)
    /\ entries' = [l \in DOMAIN entries \cup {k} |-> IF l = k THEN v ELSE entries[l]]
    /\ UNCHANGED held

DeleteEntry(k) ==
    /\ tree' = delete(tree, k)
    /\ entries' = Restrict(entries, DOMAIN entries \ {k})
    /\ UNCHANGED held

\* A client keeps the proof of an entry while the state moves on.
HandOut(k) ==
    /\ k \in DOMAIN entries
    /\ held' = <<[key |-> k, siblings |-> proof_siblings(tree, k)]>>
    /\ UNCHANGED <<tree, entries>>

TreeNext ==
    \E k \in StateKey : DeleteEntry(k) \/ HandOut(k) \/ \E v \in StateValue : PutEntry(k, v)

------------------------------------------------------------------------------
Bits(n) == [1..n -> {0, 1}]

\* The hash of a subtree, from the entries alone.
CanonicalHash(prefix) ==
    LET below[p \in UNION {Bits(n) : n \in 0..DEPTH}] ==
          IF Len(p) < DEPTH THEN combine(below[Append(p, 0)], below[Append(p, 1)])
          ELSE IF \E k \in DOMAIN entries : path_of[k] = p
               THEN LET k == CHOOSE k \in DOMAIN entries : path_of[k] = p
                    IN state_leaf_hash(k, entries[k])
               ELSE empty
    IN below[prefix]

\* insert and delete: after any history of writes the tree is the one over the
\* entries, every branch of it, and set_branch "never keeps stale entries": two
\* nodes that executed the same writes in batches of their own sign one hash.
Canonical ==
    /\ tree.root = CanonicalHash(<<>>)
    /\ \A n \in 1..(DEPTH - 1) : \A p \in Bits(n) : Get(tree.nodes, p) = CanonicalHash(p)
    /\ \A p \in DOMAIN tree.nodes : tree.nodes[p] # empty

\* MerkleProof::verify: a proof that was handed out, now or before other writes,
\* shows what the entry is now wherever it verifies against the root; and the
\* proof of an entry as it is does verify.
ProofsShowEntries ==
    /\ \A k \in DOMAIN entries : verify(k, entries[k], proof_siblings(tree, k), tree.root)
    /\ \A i \in DOMAIN held : \A v \in StateValue :
         LET k == held[i].key
         IN verify(k, v, held[i].siblings, tree.root) => k \in DOMAIN entries /\ entries[k] = v
=============================================================================
