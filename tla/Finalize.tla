------------------------------ MODULE Finalize ------------------------------
(***************************************************************************)
(* process_finalized_rounds of protocol/gossip/src/node.rs on one node: it *)
(* collects what the hashgraph has ordered, executes it round by round     *)
(* (executor/state/src/executor.rs), and signs a checkpoint for every      *)
(* round decided by then.  The hashgraph is locked for each of these on    *)
(* its own, so handlers of inbound events decide further rounds meanwhile. *)
(*                                                                         *)
(* The state is a partition of the database and a tree over the same       *)
(* entries, which stands for its root; both are key-value maps here.  The  *)
(* events that a round orders are operations on it, in consensus order.    *)
(* What the quorum does with the signatures is in Checkpoint, and what the *)
(* identity operations check, in Actors.                                   *)
(***************************************************************************)
EXTENDS Integers, Sequences, FiniteSetsExt

CONSTANTS
    Key,
    Value,
    MaxRound,     \* bound: rounds
    Ops,          \* Ops[r]: the operations that round r orders
    Anchors,      \* ordered events that a prune keeps as parents of live ones
    MaxRestores,  \* bound: restarts and reconnects
    MaxFaults     \* bound: storage errors

ASSUME OpsAssumption ==
    /\ MaxRound \in Nat
    /\ Ops \in [1..MaxRound ->
                  Seq([key : Key, when : Value \cup {"any", "absent"}, value : Value])]

VARIABLES
    ordered,                 \* rounds the hashgraph has decided and ordered
    floor,                   \* the first round whose events it retains
    pc,                      \* where process_finalized_rounds is
    collected,               \* phase A: rounds ordered when it looked
    state,                   \* Executor::state, its partition (kv) and its tree
    executed,                \* Executor::executed
    processed_through_round,
    cumulative_state_hashes,
    snapshots,               \* phase B: the serialized states of this pass
    checkpoint_watermark,
    signed,                  \* what was signed for a round, and when
    restores, faults         \* how often each happened

graph == <<ordered, floor>>
activation == <<processed_through_round, checkpoint_watermark>>
executor == <<state, executed>>
vars == <<graph, pc, collected, executor, activation, cumulative_state_hashes,
          snapshots, signed, restores, faults>>

\* The events that round r orders, and what the graph retains of the collected
\* rounds (prune_before_round).
EventsOf(r) == {r} \X (1..Len(Ops[r]))

Retained == {e \in UNION {EventsOf(r) : r \in 1..collected} : e[1] >= floor \/ e \in Anchors}

Empty == [k \in Key |-> "absent"]

\* from_bytes: the partition and the tree over its entries.
FromBytes(entries) == [kv |-> entries, tree |-> entries]

\* An operation on the state: a put is unconditional ("any"); the identity
\* operations check what they replace, the creation of an identifier or of a
\* sub-actor that there is none, a rebind the key that it was signed against.
Apply(s, op) ==
    IF op.when \in {"any", s.kv[op.key]}
    THEN [kv |-> [s.kv EXCEPT ![op.key] = op.value], tree |-> [s.tree EXCEPT ![op.key] = op.value]]
    ELSE s

\* The state after the rounds up to r: what every node is to sign for r.
RoundApplied(s, r) ==
    LET after[i \in 0..Len(Ops[r])] == IF i = 0 THEN s ELSE Apply(after[i - 1], Ops[r][i])
    IN after[Len(Ops[r])]

StateAt[r \in 0..MaxRound] ==
    IF r = 0 THEN Empty ELSE RoundApplied(FromBytes(StateAt[r - 1]), r).tree

\* BTreeMap::range(..=r).next_back(), and insert.
AtOrBelow(m, r) == m[Max({i \in DOMAIN m : i <= r})]
Put(m, r, v) == [i \in DOMAIN m \cup {r} |-> IF i = r THEN v ELSE m[i]]

Init ==
    /\ ordered = 0 /\ floor = 1
    /\ pc = "idle" /\ collected = 0
    /\ state = FromBytes(Empty) /\ executed = {}
    /\ processed_through_round = 0 /\ checkpoint_watermark = 0
    /\ cumulative_state_hashes = [r \in {0} |-> Empty]
    /\ snapshots = [r \in {0} |-> Empty]
    /\ signed = [r \in {} |-> Empty]
    /\ restores = 0 /\ faults = 0

\* An inbound event completes the next round.
Decide ==
    /\ ordered < MaxRound
    /\ ordered' = ordered + 1
    /\ UNCHANGED <<floor, pc, collected, executor, activation, cumulative_state_hashes,
                   snapshots, signed, restores, faults>>

\* Phase A, finalized_events: every ordered event the graph retains.
Collect ==
    /\ pc = "idle"
    /\ collected' = ordered
    /\ pc' = "execute"
    /\ UNCHANGED <<graph, executor, activation, cumulative_state_hashes, snapshots, signed,
                   restores, faults>>

------------------------------------------------------------------------------
\* A variant that leaves out the event that fails and goes on in the round.
ExecuteEventSkips(x, e, fault) ==
    IF e \notin Retained \/ e \in x.executed THEN x
    ELSE IF e = fault THEN [x EXCEPT !.failed = TRUE]
    ELSE [x EXCEPT !.state = Apply(@, Ops[e[1]][e[2]]), !.executed = @ \cup {e}, !.any_new = TRUE]

\* One turn of bucket_finalized_with_diffs: an event that was executed before is
\* passed over, and a storage error ends the round.
ExecuteEvent(x, e, fault) ==
    IF x.failed \/ e \notin Retained \/ e \in x.executed THEN x
    ELSE IF e = fault THEN [x EXCEPT !.failed = TRUE]
    ELSE [x EXCEPT !.state = Apply(@, Ops[e[1]][e[2]]), !.executed = @ \cup {e}, !.any_new = TRUE]

\* bucket_finalized_with_diffs, for the events of round r.
BucketFinalized(x, r, fault) ==
    LET after[i \in 0..Len(Ops[r])] ==
          IF i = 0 THEN [state |-> x.state, executed |-> x.executed, any_new |-> FALSE, failed |-> FALSE]
          ELSE ExecuteEvent(after[i - 1], <<r, i>>, fault)
        done == after[Len(Ops[r])]
    IN [x EXCEPT !.state = done.state, !.executed = done.executed, !.failed = done.failed,
                 !.processed = IF done.any_new /\ ~done.failed /\ r > @ THEN r ELSE @]

\* A variant that records the state a round finds, not the one it leaves.
ExecuteRoundBefore(x, r, watermark, fault) ==
    LET y == BucketFinalized(x, r, fault)
    IN [y EXCEPT !.hashes = Put(@, IF r > watermark THEN r ELSE y.processed, x.state.tree),
                 !.snapshots = Put(@, IF r > watermark THEN r ELSE y.processed, x.state.kv)]

\* One round of phase B: the state it leaves is recorded for the round, or for
\* the last one processed when the round is an earlier one.
ExecuteRound(x, r, watermark, fault) ==
    LET y == BucketFinalized(x, r, fault)
        to == IF r > watermark THEN r ELSE y.processed
    IN IF y.failed \/ (r <= watermark /\ y.state.tree = x.state.tree) THEN y
       ELSE [y EXCEPT !.hashes = Put(@, to, y.state.tree), !.snapshots = Put(@, to, y.state.kv)]

\* Phase B, under the locks of the executor: the rounds up to `last' that have
\* events, one after the other.  With none there is only the sentinel.
ExecuteRounds(last, fault) ==
    LET before == [state |-> state, executed |-> executed, processed |-> processed_through_round,
                   failed |-> FALSE, hashes |-> [r \in {0} |-> state.tree],
                   snapshots |-> [r \in {0} |-> state.kv]]
        after[r \in 0..last] ==
          IF r = 0 THEN before
          ELSE IF \E e \in Retained : e[1] = r
               THEN ExecuteRound(after[r - 1], r, processed_through_round, fault)
               ELSE after[r - 1]
    IN after[last]

Execute(fault) ==
    LET after == ExecuteRounds(collected, fault)
    IN /\ pc = "execute"
       /\ state' = after.state /\ executed' = after.executed
       /\ processed_through_round' = after.processed
       /\ snapshots' = after.snapshots
       /\ cumulative_state_hashes' =
             [r \in DOMAIN cumulative_state_hashes \cup DOMAIN after.hashes |->
                IF r # 0 /\ r \in DOMAIN after.hashes THEN after.hashes[r]
                ELSE cumulative_state_hashes[r]]
       /\ pc' = "produce"
       /\ UNCHANGED <<graph, collected, checkpoint_watermark, signed, restores>>

ExecuteAll == Execute(<<0, 0>>) /\ UNCHANGED faults

\* A storage error: the rest of the round is left for the next pass, and the
\* rounds after it go on.
ExecuteFails ==
    /\ faults < MaxFaults /\ faults' = faults + 1
    /\ \E e \in Retained \ executed : Execute(e)

\* to_bytes fails for the state before the batch (last = 0) or after a round:
\* the pass ends, and the hashes of the rounds it executed go with it.
SerializeFails(last) ==
    LET after == ExecuteRounds(last, <<0, 0>>)
    IN /\ pc = "execute" /\ last <= collected
       /\ faults < MaxFaults /\ faults' = faults + 1
       /\ state' = after.state /\ executed' = after.executed
       /\ processed_through_round' = after.processed
       /\ pc' = "idle"
       /\ UNCHANGED <<graph, collected, checkpoint_watermark, cumulative_state_hashes,
                      snapshots, signed, restores>>

------------------------------------------------------------------------------
\* Phase D, one turn of produce_pending_checkpoints: the next round that is
\* decided by now is signed with the last recorded state at or before it.
ProduceCheckpoint ==
    LET round == checkpoint_watermark + 1
    IN /\ pc = "produce" /\ round <= ordered
       /\ checkpoint_watermark' = round
       /\ signed' = Put(signed, round, [hash |-> AtOrBelow(cumulative_state_hashes, round),
                                        snapshot |-> AtOrBelow(snapshots, round),
                                        collected |-> collected])
       /\ UNCHANGED <<graph, pc, collected, executor, processed_through_round,
                      cumulative_state_hashes, snapshots, restores, faults>>

Finish ==
    /\ pc = "produce" /\ checkpoint_watermark + 1 > ordered
    /\ pc' = "idle"
    /\ UNCHANGED <<graph, collected, executor, activation, cumulative_state_hashes,
                   snapshots, signed, restores, faults>>

\* apply_checkpoint: the state of an accepted checkpoint, nothing executed, and
\* a graph that retains the rounds from `from' on and has ordered `upTo'.
ApplyCheckpoint(cp, from, upTo) ==
    /\ restores < MaxRestores /\ restores' = restores + 1
    /\ floor' = from /\ ordered' = upTo
    /\ state' = FromBytes(StateAt[cp]) /\ executed' = {}
    /\ cumulative_state_hashes' = Put([r \in {0} |-> Empty], cp, StateAt[cp])
    /\ UNCHANGED <<collected, snapshots, signed, faults>>

\* A reconnect, by the driver between two passes: the watermarks never go back.
Reconnect(cp, from, upTo) ==
    /\ pc = "idle" /\ ApplyCheckpoint(cp, from, upTo)
    /\ processed_through_round' = Max({processed_through_round, cp})
    /\ checkpoint_watermark' = Max({checkpoint_watermark, cp})
    /\ UNCHANGED pc

\* A reconnect that a storage error ends: clear_state, each insert of from_bytes
\* and snapshot are writes of their own, and the executor keeps the tree it had.
\* The entries written by then are the ones of the lowest keys, any here.
ReconnectFails(cp) ==
    /\ pc = "idle"
    /\ restores < MaxRestores /\ restores' = restores + 1
    /\ faults < MaxFaults /\ faults' = faults + 1
    /\ \E written \in SUBSET Key :
          state' = [state EXCEPT !.kv = [k \in Key |-> IF k \in written THEN StateAt[cp][k] ELSE "absent"]]
    /\ UNCHANGED <<graph, pc, collected, executed, activation, cumulative_state_hashes,
                   snapshots, signed>>

\* A restart, from a checkpoint this node had signed and seen accepted; the
\* watermarks start at it.
Restart(cp, from, upTo) ==
    /\ cp \in DOMAIN signed /\ signed[cp].hash = StateAt[cp] /\ upTo <= ordered
    /\ ApplyCheckpoint(cp, from, upTo)
    /\ processed_through_round' = cp /\ checkpoint_watermark' = cp
    /\ pc' = "idle"

Next ==
    \/ Decide \/ Collect \/ ExecuteAll \/ ExecuteFails \/ ProduceCheckpoint \/ Finish
    \/ \E last \in 0..MaxRound : SerializeFails(last)
    \/ \E cp \in 1..MaxRound : ReconnectFails(cp)
    \/ \E cp \in 1..MaxRound, upTo \in 1..MaxRound : cp <= upTo /\
          \E from \in 1..cp + 1 : Reconnect(cp, from, upTo) \/ Restart(cp, from, upTo)

Spec == Init /\ [][Next]_vars

------------------------------------------------------------------------------
\* Nothing is executed or signed that was not ordered, no snapshot or hash is
\* kept for a later round, and the checkpoints signed reach the watermark.
TypeOK ==
    /\ state \in [kv : [Key -> Value \cup {"absent"}], tree : [Key -> Value \cup {"absent"}]]
    /\ pc = "idle" => collected <= MaxRound /\ 0 \in DOMAIN snapshots
    /\ 0 \in DOMAIN cumulative_state_hashes
    /\ Max(DOMAIN cumulative_state_hashes) <= Max({processed_through_round, collected})
    /\ \A e \in executed : e[1] <= ordered /\ (e[1] >= floor \/ e \in Anchors)

\* However the rounds were batched, and whatever a restored node executes again
\* or for the first time, a pass that no storage error has disturbed leaves the
\* state that the collected rounds lead to, in consensus order.
AppliedInOrder ==
    faults = 0 /\ pc = "produce" => state = FromBytes(StateAt[collected])

\* State: "a storage error aborts the round before signing or persisting - so
\* partition bytes and State::root never diverge": the pass that at last ends
\* with everything executed has it executed in consensus order.
RetriedInOrder ==
    pc = "produce" /\ Retained \subseteq executed => state.tree = StateAt[collected]

\* execute_event: "A storage error aborts the event and is propagated as fatal
\* for the round": no event of a round is executed before the ones that the
\* consensus order puts ahead of it in that round.
RoundPrefix ==
    \A e \in executed : \A i \in 1..e[2] : <<e[1], i>> \in Retained => <<e[1], i>> \in executed

\* A checkpoint for a round whose events this pass had collected carries the
\* state exactly after that round, whatever batch the round came in, as long as
\* no storage error has struck.
SignedAsCollected ==
    faults = 0 =>
        \A r \in DOMAIN signed : r <= signed[r].collected => signed[r].hash = StateAt[r]

\* The bytes kept for a round rebuild to the state hash that is signed for it,
\* as long as no storage error has struck.
SnapshotRebuilds ==
    faults = 0 => \A r \in DOMAIN signed : signed[r].snapshot = signed[r].hash

\* accept_checkpoint: that they do "holds by construction", errors or not.
SnapshotAlwaysRebuilds ==
    \A r \in DOMAIN signed : signed[r].snapshot = signed[r].hash

\* State::apply: "State::root stays in sync with the partition at all times", through
\* every storage error.
RootInSync == state.tree = state.kv

\* produce_checkpoint: the state hash is "the deterministic state exactly at
\* this checkpoint, identical on every node".
SignedExact ==
    \A r \in DOMAIN signed : signed[r].hash = StateAt[r]

\* AppliedInOrder and RoundPrefix: a pass that no storage error has disturbed leaves
\* the state its rounds lead to, and, errors or not, no event of a round is
\* executed ahead of an earlier one of that round.
ExecutedInOrder == AppliedInOrder /\ RoundPrefix

\* SignedAsCollected and SnapshotRebuilds: until a storage error, the checkpoint of a
\* round that was collected carries the state exactly after it, in whatever batch it
\* came, and the bytes kept for the round rebuild to it.
SignedWithSnapshot == SignedAsCollected /\ SnapshotRebuilds
=============================================================================
