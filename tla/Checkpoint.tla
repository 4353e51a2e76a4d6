------------------------------ MODULE Checkpoint ------------------------------
(***************************************************************************)
(* How a node collects a quorum of signatures for the checkpoint of each   *)
(* decided round (protocol/gossip/src/node.rs, CheckpointAccumulator in    *)
(* protocol/consensus/src/checkpoint.rs).                                  *)
(*                                                                         *)
(* Two kinds of task act on a node's state.  The driver loop decides       *)
(* rounds, produces and signs their checkpoints in order and adopts a      *)
(* peer's aggregate when it lags.  One inbound task per connection feeds   *)
(* signatures.  The tasks share state behind short locks, so a task that   *)
(* found no accumulator buffers its signature some time later (SubmitSig,  *)
(* BufferSig), a quorum is recorded (AcceptCheckpoint) some time after it  *)
(* was reached, and an adoption removes an accumulator (FinishAdopt) that  *)
(* an inbound task may have completed since it was compared.  A third task *)
(* writes the record files (protocol/stream/src/record.rs).                *)
(*                                                                         *)
(* Abstractions.  derived[n][r] stands for the signing bytes n derives for *)
(* round r; it never changes, which is the determinism rule of             *)
(* canonical_checkpoint_payload_chained.  A signature is its signer and    *)
(* the payload it is over, and verifies exactly when that payload is the   *)
(* one the accumulator holds.  Snapshot bytes and the pruning of the graph *)
(* that accept_checkpoint triggers are left out.                           *)
(***************************************************************************)
EXTENDS Integers, FiniteSets, FiniteSetsExt, Sequences

CONSTANTS
    Member,         \* every node that is ever on a roster
    Faulty,         \* members whose signatures may be over anything
    Payload,        \* signing bytes
    MaxRound,       \* bound: the last round the model decides
    Roster,         \* Roster[r]: registry_at_round(r)
    MaxPending,     \* MAX_PENDING_SIGS_PER_ROUND
    LagRounds,      \* CHECKPOINT_LAG_ROUNDS
    MaxInFlight,    \* bound: connections with signature frames in flight
    MaxRestarts,    \* bound: restarts in one behaviour
    MaxRefusals     \* bound: acceptances that a disk error stops

Round == 1..MaxRound
Correct == Member \ Faulty

ASSUME CheckpointAssumption ==
    /\ Faulty \subseteq Member
    /\ IsFiniteSet(Member)
    /\ MaxRound \in Nat /\ LagRounds \in Nat /\ MaxPending \in Nat
    /\ MaxInFlight \in Nat /\ MaxRestarts \in Nat /\ MaxRefusals \in Nat
    /\ Roster \in [Round -> SUBSET Member]
    /\ \A r \in Round : Cardinality(Faulty \cap Roster[r]) * 3 < Cardinality(Roster[r])

VARIABLES
    derived,        \* derived[n][r]: the payload n derives for round r
    decided,        \* highest_decided_round of n's graph
    produced,       \* activation.checkpoint_watermark
    signed,         \* history: the rounds n ever signed
    accumulators,   \* the rounds with an open CheckpointAccumulator
    sigs,           \* sigs[n][r]: the signers that accumulator holds
    pending,        \* pending_checkpoint_sigs[r]: buffered <<signer, payload>>
    outbound,       \* outbound_checkpoint_sigs: own signatures still gossiped
    diffs,          \* checkpoint_diffs: rounds whose state diffs are retained
    inbound,        \* signature frames on the wire or inside an inbound task
    quorate,        \* quorums on their way into accept_checkpoint
    accepted,       \* rounds of signed_checkpoints, and of the checkpoint files
    queue,          \* the record writer's channel
    files,          \* the record files on disk, in the order they were written
    needsSync,      \* needs_checkpoint_sync
    adopting,       \* the round adopt_signed_checkpoint has verified, or 0
    restarts,       \* restarts so far
    refusals        \* acceptances refused so far

driver == <<decided, produced, needsSync, adopting>>
records == <<queue, files>>
counters == <<restarts, refusals>>
vars == <<derived, driver, signed, accumulators, sigs, pending, outbound, diffs,
          inbound, quorate, accepted, records, counters>>

\* CheckpointAccumulator::add_sig: more than two thirds of the round's roster.
Quorum(r, S) == Cardinality(S) * 3 > Cardinality(Roster[r]) * 2

\* The round of the highest accepted checkpoint, 0 if there is none.
Latest(n) == Max(accepted[n] \cup {0})

\* A signature frame; absent: its task found no accumulator and is about to
\* buffer it.
Frame == [from : Member, round : Round, payload : Payload, absent : BOOLEAN]

\* A round on its way to a record file, with or without its state diffs.
Entry == [round : Round, diffs : BOOLEAN]

\* A quorum and the task that carries it into accept_checkpoint: on node n, n
\* stands for the driver and m # n for the inbound task of m's connection.
Completed == [entry : Entry, task : Member]

\* A task awaits the acceptance it started before it does anything else.
Free(n, task) == \A q \in quorate[n] : q.task # task
DriverFree(n) == adopting[n] = 0 /\ Free(n, n)

TypeOK ==
    /\ derived \in [Correct -> [Round -> Payload]]
    /\ decided \in [Correct -> 0..MaxRound]
    /\ produced \in [Correct -> 0..MaxRound]
    /\ signed \in [Correct -> SUBSET Round]
    /\ accumulators \in [Correct -> SUBSET Round]
    /\ sigs \in [Correct -> [Round -> SUBSET Member]]
    /\ pending \in [Correct -> [Round -> SUBSET (Member \X Payload)]]
    /\ outbound \in [Correct -> SUBSET Round]
    /\ diffs \in [Correct -> SUBSET Round]
    /\ inbound \in [Correct -> SUBSET Frame]
    /\ quorate \in [Correct -> SUBSET Completed]
    /\ accepted \in [Correct -> SUBSET Round]
    /\ queue \in [Correct -> Seq(Entry)]
    /\ files \in [Correct -> Seq(Entry)]
    /\ needsSync \in [Correct -> BOOLEAN]
    /\ adopting \in [Correct -> 0..MaxRound]
    /\ restarts \in 0..MaxRestarts
    /\ refusals \in 0..MaxRefusals

Init ==
    /\ derived \in [Correct -> [Round -> Payload]]
    /\ decided = [n \in Correct |-> 0]
    /\ produced = [n \in Correct |-> 0]
    /\ signed = [n \in Correct |-> {}]
    /\ accumulators = [n \in Correct |-> {}]
    /\ sigs = [n \in Correct |-> [r \in Round |-> {}]]
    /\ pending = [n \in Correct |-> [r \in Round |-> {}]]
    /\ outbound = [n \in Correct |-> {}]
    /\ diffs = [n \in Correct |-> {}]
    /\ inbound = [n \in Correct |-> {}]
    /\ quorate = [n \in Correct |-> {}]
    /\ accepted = [n \in Correct |-> {}]
    /\ queue = [n \in Correct |-> <<>>]
    /\ files = [n \in Correct |-> <<>>]
    /\ needsSync = [n \in Correct |-> FALSE]
    /\ adopting = [n \in Correct |-> 0]
    /\ restarts = 0
    /\ refusals = 0

------------------------------------------------------------------------------

\* The graph decides its next round (module Hashgraph).
Decide(n) ==
    /\ decided[n] < MaxRound
    /\ decided' = [decided EXCEPT ![n] = @ + 1]
    /\ UNCHANGED <<derived, produced, needsSync, adopting, signed, accumulators, sigs, pending,
                   outbound, diffs, inbound, quorate, accepted, records, counters>>

\* The signers produce_checkpoint starts a round with: its own signature and
\* the buffered ones that verify, members of the round's roster only.
InitialSigners(n, r) ==
    {m \in Roster[r] : m = n \/ <<m, derived[n][r]>> \in pending[n][r]}

\* add_sig reached more than two thirds: the accumulator is removed and the
\* caller goes on to accept_checkpoint; otherwise the signer set is kept.
Collect(n, r, S, withDiffs, task) ==
    IF Quorum(r, S)
    THEN /\ accumulators' = [accumulators EXCEPT ![n] = @ \ {r}]
         /\ sigs' = [sigs EXCEPT ![n][r] = {}]
         /\ quorate' = [quorate EXCEPT ![n] = @ \cup
                {[entry |-> [round |-> r, diffs |-> withDiffs], task |-> task]}]
    ELSE /\ accumulators' = [accumulators EXCEPT ![n] = @ \cup {r}]
         /\ sigs' = [sigs EXCEPT ![n][r] = S]
         /\ UNCHANGED quorate

\* produce_pending_checkpoints / produce_checkpoint for the next decided round.
Produce(n) ==
    LET r == produced[n] + 1 IN
    /\ DriverFree(n)
    /\ r <= decided[n]
    /\ produced' = [produced EXCEPT ![n] = r]
    /\ diffs' = [diffs EXCEPT ![n] = @ \cup {r}]
    /\ signed' = [signed EXCEPT ![n] = @ \cup {r}]
    /\ outbound' = [outbound EXCEPT ![n] = @ \cup {r}]
    /\ pending' = [pending EXCEPT ![n][r] = {}]
    /\ Collect(n, r, InitialSigners(n, r), TRUE, n)
    /\ UNCHANGED <<derived, decided, needsSync, adopting, inbound, accepted, records, counters>>

\* gossip_checkpoint_sigs: m sends n the signatures it still holds, lowest round
\* first; the connection may break after round k.  A faulty member sends a
\* signature over anything.  The next burst follows when n's inbound task for m
\* has handled this one.
GossipSigs(m, n, k, p) ==
    LET rounds == IF m \in Correct THEN {r \in outbound[m] : r <= k} ELSE {k} IN
    /\ m # n
    /\ rounds # {}
    /\ m \in Correct => DriverFree(m) /\ p = derived[m][k]
    /\ \A f \in inbound[n] : f.from # m
    /\ Cardinality({c \in Member \X Correct : \E f \in inbound[c[2]] : f.from = c[1]})
          < MaxInFlight
    /\ inbound' = [inbound EXCEPT ![n] = @ \cup
           {[from |-> m, round |-> r, absent |-> FALSE,
             payload |-> IF m \in Correct THEN derived[m][r] ELSE p] : r \in rounds}]
    /\ UNCHANGED <<derived, driver, signed, accumulators, sigs, pending, outbound,
                   diffs, quorate, accepted, records, counters>>

\* The frame n's inbound task for f.from is working on.
InHand(n, f) ==
    /\ f \in inbound[n] /\ Free(n, f.from)
    /\ \A g \in inbound[n] : g.from = f.from => f.round <= g.round

\* A variant that counts a signature without verifying it.
SubmitSigUnverified(n, f) ==
    /\ InHand(n, f) /\ ~f.absent
    /\ inbound' = [inbound EXCEPT ![n] = @ \ {f}]
    /\ IF f.round \in accumulators[n] /\ f.from \in Roster[f.round]
       THEN Collect(n, f.round, sigs[n][f.round] \cup {f.from}, FALSE, f.from)
       ELSE UNCHANGED <<accumulators, sigs, quorate>>
    /\ UNCHANGED <<derived, driver, signed, pending, outbound, diffs, accepted,
                   records, counters>>

\* submit_checkpoint_sig and feed_checkpoint_sig: a stale signature, or one from
\* outside the round's roster, is dropped.  With an accumulator for the round
\* the signature is counted if it verifies; this path accepts without the
\* round's state diffs.  With none the task goes on to buffer_pending_sig.
SubmitSig(n, f) ==
    LET r == f.round
        admissible == r > Latest(n) /\ f.from \in Roster[r]
        counted == admissible /\ r \in accumulators[n] /\ f.payload = derived[n][r]
        absent == admissible /\ r \notin accumulators[n]
    IN
    /\ InHand(n, f) /\ ~f.absent
    /\ inbound' = [inbound EXCEPT ![n] =
           (@ \ {f}) \cup (IF absent THEN {[f EXCEPT !.absent = TRUE]} ELSE {})]
    /\ IF counted THEN Collect(n, r, sigs[n][r] \cup {f.from}, FALSE, f.from)
                  ELSE UNCHANGED <<accumulators, sigs, quorate>>
    /\ UNCHANGED <<derived, driver, signed, pending, outbound, diffs, accepted,
                   records, counters>>

\* buffer_pending_sig, after the accumulator was found missing: the first
\* signature of a signer is kept, up to the cap.
BufferSig(n, f) ==
    /\ InHand(n, f) /\ f.absent
    /\ inbound' = [inbound EXCEPT ![n] = @ \ {f}]
    /\ pending' = IF \/ \E p \in Payload : <<f.from, p>> \in pending[n][f.round]
                     \/ Cardinality(pending[n][f.round]) >= MaxPending
                  THEN pending
                  ELSE [pending EXCEPT ![n][f.round] = @ \cup {<<f.from, f.payload>>}]
    /\ UNCHANGED <<derived, driver, signed, accumulators, sigs, outbound, diffs,
                   quorate, accepted, records, counters>>

\* The end of adopt_signed_checkpoint, if the driver is in one: the sync stays
\* armed unless the round was recorded.
EndAdopt(n, q, recorded) ==
    IF q.task = n /\ adopting[n] # 0
    THEN /\ adopting' = [adopting EXCEPT ![n] = 0]
         /\ needsSync' = [needsSync EXCEPT ![n] = @ /\ ~recorded]
    ELSE UNCHANGED <<adopting, needsSync>>

\* accept_checkpoint: persist, hand the round to the record sink, record it and
\* drop everything kept for it and for lower rounds.
AcceptCheckpoint(n, q) ==
    LET r == q.entry.round
        kept == {s \in Round : s > r}
    IN
    /\ q \in quorate[n]
    /\ quorate' = [quorate EXCEPT ![n] = @ \ {q}]
    /\ accepted' = [accepted EXCEPT ![n] = @ \cup {r}]
    /\ queue' = [queue EXCEPT ![n] = Append(@, q.entry)]
    /\ outbound' = [outbound EXCEPT ![n] = @ \cap kept]
    /\ pending' = [pending EXCEPT ![n] = [s \in Round |-> IF s \in kept THEN @[s] ELSE {}]]
    /\ diffs' = [diffs EXCEPT ![n] = @ \cap kept]
    /\ EndAdopt(n, q, TRUE)
    /\ UNCHANGED <<derived, decided, produced, signed, accumulators, sigs, inbound, files,
                   counters>>

\* accept_checkpoint when the timestamp watermark or the snapshot cannot be
\* stored: nothing is recorded, and the accumulator is gone.
RefuseCheckpoint(n, q) ==
    /\ q \in quorate[n] /\ refusals < MaxRefusals
    /\ refusals' = refusals + 1
    /\ quorate' = [quorate EXCEPT ![n] = @ \ {q}]
    /\ EndAdopt(n, q, Latest(n) >= q.entry.round)
    /\ UNCHANGED <<derived, decided, produced, signed, accumulators, sigs, pending, outbound,
                   diffs, inbound, accepted, records, restarts>>

\* run_writer: the round the next record file must at least have.
NextFile(n) == IF files[n] = <<>> THEN 1 ELSE files[n][Len(files[n])].round + 1

\* A variant that writes whatever it takes off its channel.
WriteRecordAlways(n) ==
    /\ queue[n] # <<>>
    /\ queue' = [queue EXCEPT ![n] = Tail(@)]
    /\ files' = [files EXCEPT ![n] = Append(@, Head(queue[n]))]
    /\ UNCHANGED <<derived, driver, signed, accumulators, sigs, pending, outbound,
                   diffs, inbound, quorate, accepted, counters>>

\* run_writer: take the next message; a duplicate or older round is a no-op.
WriteRecord(n) ==
    /\ queue[n] # <<>>
    /\ queue' = [queue EXCEPT ![n] = Tail(@)]
    /\ files' = IF Head(queue[n]).round >= NextFile(n)
                THEN [files EXCEPT ![n] = Append(@, Head(queue[n]))]
                ELSE files
    /\ UNCHANGED <<derived, driver, signed, accumulators, sigs, pending, outbound,
                   diffs, inbound, quorate, accepted, counters>>

\* A variant that is armed one round too late.
ArmLagLate(n) ==
    /\ DriverFree(n)
    /\ produced[n] >= decided[n]
    /\ decided[n] - Latest(n) > LagRounds + 1
    /\ needsSync' = [needsSync EXCEPT ![n] = TRUE]
    /\ UNCHANGED <<derived, decided, produced, adopting, signed, accumulators, sigs,
                   pending, outbound, diffs, inbound, quorate, accepted, records, counters>>

\* arm_checkpoint_lag_reconnect, once every decided round has been produced.
ArmLag(n) ==
    /\ DriverFree(n)
    /\ produced[n] >= decided[n]
    /\ decided[n] - Latest(n) > LagRounds
    /\ needsSync' = [needsSync EXCEPT ![n] = TRUE]
    /\ UNCHANGED <<derived, decided, produced, adopting, signed, accumulators, sigs,
                   pending, outbound, diffs, inbound, quorate, accepted, records, counters>>

\* SignedCheckpoint::verify: a quorum of the roster has signed p for round r.
Verifies(r, p) ==
    Quorum(r, {m \in Roster[r] : m \in Faulty \/ (r \in signed[m] /\ derived[m][r] = p)})

\* fetch_checkpoint_only from m and the checks of adopt_signed_checkpoint: a
\* correct m serves its highest accepted checkpoint, a faulty one anything; n
\* goes on only if it verifies and n produced the very same payload without
\* completing it.
AdoptCheckpoint(n, m, r) ==
    /\ needsSync[n] /\ DriverFree(n)
    /\ m \in Correct => r = Latest(m) /\ derived[m][r] = derived[n][r]
    /\ r > Latest(n) /\ r <= decided[n]
    /\ r \in accumulators[n]
    /\ Verifies(r, derived[n][r])
    /\ adopting' = [adopting EXCEPT ![n] = r]
    /\ UNCHANGED <<derived, decided, produced, needsSync, signed, accumulators, sigs,
                   pending, outbound, diffs, inbound, quorate, accepted, records, counters>>

\* The rest of adopt_signed_checkpoint: an inbound task may have completed the
\* round in the meantime, and the acceptance goes ahead all the same.
FinishAdopt(n) ==
    LET r == adopting[n] IN
    /\ r # 0 /\ Free(n, n)
    /\ accumulators' = [accumulators EXCEPT ![n] = @ \ {r}]
    /\ sigs' = [sigs EXCEPT ![n][r] = {}]
    /\ diffs' = [diffs EXCEPT ![n] = @ \ {r}]
    /\ quorate' = [quorate EXCEPT ![n] = @ \cup
           {[entry |-> [round |-> r, diffs |-> r \in diffs[n]], task |-> n]}]
    /\ UNCHANGED <<derived, driver, signed, pending, outbound, inbound, accepted, records,
                   counters>>

\* A variant that resumes production one round after the one that comes next.
RestartSkips(n) ==
    /\ restarts < MaxRestarts
    /\ restarts' = restarts + 1
    /\ \E d \in Latest(n)..decided[n] : decided' = [decided EXCEPT ![n] = d]
    /\ produced' = [produced EXCEPT ![n] = Latest(n) + 1]
    /\ accumulators' = [accumulators EXCEPT ![n] = {}]
    /\ sigs' = [sigs EXCEPT ![n] = [r \in Round |-> {}]]
    /\ pending' = [pending EXCEPT ![n] = [r \in Round |-> {}]]
    /\ outbound' = [outbound EXCEPT ![n] = {}]
    /\ diffs' = [diffs EXCEPT ![n] = {}]
    /\ inbound' = [inbound EXCEPT ![n] = {}]
    /\ quorate' = [quorate EXCEPT ![n] = {}]
    /\ queue' = [queue EXCEPT ![n] = <<>>]
    /\ needsSync' = [needsSync EXCEPT ![n] = FALSE]
    /\ adopting' = [adopting EXCEPT ![n] = 0]
    /\ UNCHANGED <<derived, signed, accepted, files, refusals>>

\* A crash and a restart from the newest checkpoint on disk: everything in
\* memory is lost; the replayed event log restores some of the decided rounds.
Restart(n) ==
    /\ restarts < MaxRestarts
    /\ restarts' = restarts + 1
    /\ \E d \in Latest(n)..decided[n] : decided' = [decided EXCEPT ![n] = d]
    /\ produced' = [produced EXCEPT ![n] = Latest(n)]
    /\ accumulators' = [accumulators EXCEPT ![n] = {}]
    /\ sigs' = [sigs EXCEPT ![n] = [r \in Round |-> {}]]
    /\ pending' = [pending EXCEPT ![n] = [r \in Round |-> {}]]
    /\ outbound' = [outbound EXCEPT ![n] = {}]
    /\ diffs' = [diffs EXCEPT ![n] = {}]
    /\ inbound' = [inbound EXCEPT ![n] = {}]
    /\ quorate' = [quorate EXCEPT ![n] = {}]
    /\ queue' = [queue EXCEPT ![n] = <<>>]
    /\ needsSync' = [needsSync EXCEPT ![n] = FALSE]
    /\ adopting' = [adopting EXCEPT ![n] = 0]
    /\ UNCHANGED <<derived, signed, accepted, files, refusals>>

Next ==
    \/ \E n \in Correct : Decide(n) \/ Produce(n) \/ ArmLag(n) \/ FinishAdopt(n)
                          \/ WriteRecord(n) \/ Restart(n)
    \/ \E m \in Member, n \in Correct, k \in Round, p \in Payload : GossipSigs(m, n, k, p)
    \/ \E n \in Correct : \E f \in inbound[n] : SubmitSig(n, f) \/ BufferSig(n, f)
    \/ \E n \in Correct : \E q \in quorate[n] : AcceptCheckpoint(n, q) \/ RefuseCheckpoint(n, q)
    \/ \E m \in Member, n \in Correct, r \in Round : AdoptCheckpoint(n, m, r)

Spec == Init /\ [][Next]_vars

\* The driver ticks for ever; a sync with each peer succeeds again and again
\* and re-sends every signature still held (hence strong fairness: a burst
\* waits for the one before); an inbound task finishes what it read.
FairSpec ==
    /\ Spec
    /\ \A n \in Correct :
          /\ WF_vars(Decide(n))
          /\ WF_vars(Produce(n) \/ ArmLag(n) \/ FinishAdopt(n))
          /\ WF_vars(\E q \in quorate[n] : AcceptCheckpoint(n, q))
          /\ \A m \in Correct \ {n} :
                /\ WF_vars(\E r \in Round : AdoptCheckpoint(n, m, r))
                /\ WF_vars(\E f \in inbound[n] : f.from = m /\ (SubmitSig(n, f) \/ BufferSig(n, f)))
                /\ SF_vars(GossipSigs(m, n, MaxRound, derived[m][MaxRound]))

------------------------------------------------------------------------------

\* The abstract specification: what n has signed and accepted, as pairs of a
\* round and the payload n derived for it.
Agreed == INSTANCE CheckpointAgreement
    WITH signed <- [n \in Correct |-> {<<r, derived[n][r]>> : r \in signed[n]}],
         accepted <- [n \in Correct |-> {<<r, derived[n][r]>> : r \in accepted[n]}]

\* Collecting, buffering, adopting and restarting implement the abstract
\* protocol: no step signs a second payload for a round, and none records a
\* checkpoint that a quorum of the round's roster did not sign.
RefinesAgreement == Agreed!Spec

\* Record files come out in ascending order and each round at most once, though
\* an adoption can race the quorum of an inbound task and accept a round twice,
\* rounds can be accepted out of order, and a restart forgets the queue.
RecordedOnce ==
    \A n \in Correct : \A i, j \in 1..Len(files[n]) :
        i < j => files[n][i].round < files[n][j].round

\* gossip_checkpoint_sigs: "Own signatures are re-sent on each successful sync
\* until the round's checkpoint is accepted" - a signed round that was not
\* accepted is still offered to the peers that may need the signature.
HeldUntilAccepted ==
    \A n \in Correct : \A r \in accumulators[n] : r \in outbound[n]

\* record.rs: "record files are byte-identical across the cluster for the
\* rounds a node has written" - here the state diffs that go into the file.
SameDiffs ==
    \A m, n \in Correct : \A i \in 1..Len(files[m]), j \in 1..Len(files[n]) :
        files[m][i].round = files[n][j].round => files[m][i] = files[n][j]

\* record.rs: "one file per decided round, written on checkpoint acceptance" -
\* once the writer has caught up, every accepted round has its file.
WrittenOnAcceptance ==
    \A n \in Correct : queue[n] = <<>> =>
        accepted[n] \subseteq {files[n][i].round : i \in 1..Len(files[n])}

\* When every node derives the same payloads, no node stays more than
\* CHECKPOINT_LAG_ROUNDS behind: a round missed because its signatures were
\* dropped everywhere is recovered by adopting a later checkpoint of a peer.
LagBounded ==
    (\A m, n \in Correct : derived[m] = derived[n])
        => <>[](\A n \in Correct : MaxRound - Latest(n) <= LagRounds)
==============================================================================
