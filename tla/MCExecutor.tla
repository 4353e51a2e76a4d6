----------------------------- MODULE MCExecutor -----------------------------
(* The executor for TLC: the identity operations, the Merkle log that their  *)
(* proofs are about, the tree over the state, and every encoding.  They share *)
(* no state, so a behaviour follows one of them.  The records tree is a pure *)
(* function; it is checked on the two sequences of the log, as the records   *)
(* of two rounds.                                                            *)
EXTENDS Actors, MerkleLog, RecordsTree, SparseMerkle, Encodings, TLC

VARIABLE part

SlotSymmetry == Permutations(Index)

\* Paths that part at the first, at the second and at the last bit.
MCpath_of ==
    [k \in {"a", "b", "c", "d"} |->
       CASE k = "a" -> <<0, 0, 0>> [] k = "b" -> <<0, 0, 1>>
         [] k = "c" -> <<0, 1, 1>> [] k = "d" -> <<1, 0, 0>>]

MCInit ==
    /\ Init /\ LogInit /\ TreeInit /\ EncodingInit
    /\ part \in {"actors", "log", "tree", "encodings"}
    /\ part # "encodings" => kind = "root" /\ message = CHOOSE m \in Messages("root") : TRUE

MCNext ==
    \/ part = "actors" /\ Next /\ UNCHANGED <<logVars, treeVars, encodingVars, part>>
    \/ part = "log" /\ LogNext /\ UNCHANGED <<vars, treeVars, encodingVars, part>>
    \/ part = "tree" /\ TreeNext /\ UNCHANGED <<vars, logVars, encodingVars, part>>
    \/ part = "encodings" /\ Change /\ UNCHANGED <<vars, logVars, treeVars, part>>

MCSpec == MCInit /\ [][MCNext]_<<vars, logVars, treeVars, encodingVars, part>>

\* RootBinds, ProofsBind and SidecarBinds, of the records of any two rounds: the
\* root, the proofs and the sidecar of one show nothing of the other.
RecordsBind == RootBinds(log, view) /\ ProofsBind(log, view) /\ SidecarBinds(log, view)

\* ProofsExact and MintExact: of the proofs of the append-only log exactly the true
\* ones verify, and a mint is taken exactly if it was made for the log as it is.
LogProofsExact == ProofsExact /\ MintExact

\* Canonical and ProofsShowEntries: whatever was written and deleted in which order,
\* the state tree is the one over the entries, and its proofs show what they are.
StateTreeBinds == Canonical /\ ProofsShowEntries
=============================================================================
