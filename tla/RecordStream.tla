---------------------------- MODULE RecordStream ----------------------------
(***************************************************************************)
(* The record stream of one consensus node and a mirror that follows it:   *)
(* the writer of protocol/stream/src/record.rs puts every accepted round   *)
(* into a file, block-relay copies the files to a block node, and the      *)
(* ingester of mirror-node takes them into its store, from the directory   *)
(* or from the block node.  Disk and database errors, crashes of the node  *)
(* and restarts of the mirror are steps of the model.                      *)
(*                                                                         *)
(* A running hash is the sequence of items it was chained from, the root   *)
(* over the items of a round is the items (RecordsTree), and a checkpoint  *)
(* stands for its quorum (Checkpoint).  A round holds one transaction or   *)
(* none.  The sidecar with the inclusion proofs is left out: the writer    *)
(* goes on when it is lost, the mirror takes a round without one, and the  *)
(* proofs of a round's own items verify (RecordsTree).                     *)
(***************************************************************************)
EXTENDS Integers, Sequences, FiniteSetsExt, Functions, Filters

CONSTANTS
    MaxRound,      \* bound: rounds
    RosterAt,      \* the roster that signs a round
    MaxFaults,     \* bound: disk errors at the node
    MaxCrashes,    \* bound: crashes of the node
    MaxRestarts    \* bound: restarts of the mirror

ASSUME RosterAssumption == MaxRound \in Nat /\ DOMAIN RosterAt = 1..MaxRound

VARIABLES
    submitted,       \* rounds whose checkpoint was accepted
    queue,           \* the channel of the writer
    next_round,      \* run_writer: state.0
    running_hash,    \* run_writer: state.1
    rsf,             \* the record files of the streams directory
    blocks,          \* the record files that the block node holds
    settings,        \* how the mirror is set up
    records,         \* the store of the mirror
    ingester,        \* what the ingester holds in memory
    faults, crashes, restarts

writer == <<submitted, queue, next_round, running_hash>>
mirror == <<records, ingester>>
recordVars == <<writer, rsf, blocks, settings, mirror, faults, crashes, restarts>>

ChainSeed == <<>>
Zeros == <<0, FALSE>>

\* The commitment that the next checkpoint carries.  There is one payload to a
\* round, so it is told by the round, and by whether the two roots over the
\* history are among the bytes.
CheckpointSigningBytesHash(cp) == <<cp.round, cp.window_root>>

Checkpoint(r, items) ==
    [round |-> r, records_root |-> items, roster_hash |-> RosterAt[r], window_root |-> TRUE,
     prev_checkpoint_hash |-> IF r = 1 THEN Zeros ELSE <<r - 1, TRUE>>]

Fresh == [seenRecords |-> {}, lastRecordEnd |-> ChainSeed, expectedPrev |-> Zeros]

RecordInit ==
    /\ submitted = {} /\ queue = <<>>
    /\ next_round = 1 /\ running_hash = ChainSeed
    /\ rsf = <<>> /\ blocks = <<>>
    /\ settings \in [source : {"dir", "block"}, backend : {"mem", "pg"},
                     trusted : {"any"} \cup Range(RosterAt)]
    /\ records = <<>> /\ ingester = Fresh
    /\ faults = 0 /\ crashes = 0 /\ restarts = 0

Put(f, k, v) == [i \in DOMAIN f \cup {k} |-> IF i = k THEN v ELSE f[i]]

\* atomic_write: it syncs the directory after the rename, so it may report an
\* error although the file is there.
atomic_write(files, name, contents, outcome) ==
    IF outcome = "failed" THEN files ELSE Put(files, name, contents)

------------------------------------------------------------------------------
\* RecordSink::persist, for a checkpoint that was accepted.  Rounds that were
\* adopted from a teacher are never submitted, and late ones come in late.
Submit(r, items) ==
    /\ r \notin submitted
    /\ submitted' = submitted \cup {r}
    /\ queue' = Append(queue, [round |-> r, items |-> items])
    /\ UNCHANGED <<next_round, running_hash, rsf, blocks, settings, mirror,
                   faults, crashes, restarts>>

RecordFile(r, items) ==
    [round |-> r, start_running_hash |-> running_hash, items |-> items,
     end_running_hash |-> running_hash \o items, checkpoint |-> Checkpoint(r, items)]

write_record_file(r, items, outcome) ==
    /\ rsf' = atomic_write(rsf, r, RecordFile(r, items), outcome)
    /\ running_hash' = IF outcome = "ok" THEN running_hash \o items ELSE running_hash

\* One message of run_writer: a round below the next one is passed over.
WriteRecord(outcome) ==
    /\ queue # <<>>
    /\ LET m == Head(queue)
       IN IF m.round < next_round
          THEN outcome = "ok" /\ UNCHANGED <<next_round, running_hash, rsf, faults>>
          ELSE /\ write_record_file(m.round, m.items, outcome)
               /\ next_round' = IF outcome = "ok" THEN m.round + 1 ELSE next_round
               /\ outcome # "ok" => faults < MaxFaults
               /\ faults' = IF outcome = "ok" THEN faults ELSE faults + 1
    /\ queue' = Tail(queue)
    /\ UNCHANGED <<submitted, blocks, settings, mirror, crashes, restarts>>

\* resume_state: the round and the hash to go on from.  In the variant, the
\* round after the next.
resume_recordSkipping(files) ==
    IF files = <<>> THEN <<1, ChainSeed>>
    ELSE <<Max(DOMAIN files) + 2, files[Max(DOMAIN files)].end_running_hash>>

resume_record(files) ==
    IF files = <<>> THEN <<1, ChainSeed>>
    ELSE <<Max(DOMAIN files) + 1, files[Max(DOMAIN files)].end_running_hash>>

\* The node stops, and opens the stream again.  What was in the channel is gone.
Crash ==
    /\ crashes < MaxCrashes
    /\ crashes' = crashes + 1
    /\ queue' = <<>>
    /\ next_round' = resume_record(rsf)[1] /\ running_hash' = resume_record(rsf)[2]
    /\ UNCHANGED <<submitted, rsf, blocks, settings, mirror, faults, restarts>>

\* handlePut: a file that is there is not written again.
handlePut(files, name, body) == IF name \in DOMAIN files THEN files ELSE Put(files, name, body)

\* pushOnce, one file: it is sent if HEAD does not find it.  Sends fail, so the
\* files arrive in any order.
Push(r) ==
    /\ settings.source = "block"
    /\ r \in DOMAIN rsf \ DOMAIN blocks
    /\ blocks' = handlePut(blocks, r, rsf[r])
    /\ UNCHANGED <<writer, rsf, settings, mirror, faults, crashes, restarts>>

------------------------------------------------------------------------------
verifyRunningHashRecord(f) == f.end_running_hash = f.start_running_hash \o f.items

\* The quorum is that of the roster in the checkpoint, which must be the one that
\* the mirror was given to trust, if it was given one.
verifyCheckpointQuorum(cp) == settings.trusted \in {"any", cp.roster_hash}

verifyCheckpointBinding(f) ==
    f.checkpoint.records_root = f.items /\ verifyCheckpointQuorum(f.checkpoint)

VerifyRecordFile(f) ==
    /\ verifyRunningHashRecord(f)
    /\ f.checkpoint.round = f.round
    /\ verifyCheckpointBinding(f)

\* RunOnce calls take turns, so a round is claimed unless it was stored.
tryClaim(seen, index) == index \notin seen

checkPrev(m, cp) == cp.prev_checkpoint_hash = m.expectedPrev

\* A variant that takes the checkpoint to follow the last one.
AcceptsUnlinked(m, f) ==
    /\ tryClaim(m.seenRecords, f.round)
    /\ f.start_running_hash = m.lastRecordEnd
    /\ VerifyRecordFile(f)

\* What ingestRecord asks of a file before it is stored.
Accepts(m, f) ==
    /\ tryClaim(m.seenRecords, f.round)
    /\ f.start_running_hash = m.lastRecordEnd
    /\ VerifyRecordFile(f)
    /\ checkPrev(m, f.checkpoint)

\* The row of a file in PostgreSQL: it has no columns for the roots over the
\* history.
RecordRow(f) == [f EXCEPT !.checkpoint.window_root = FALSE]

\* PutRecord: a round is stored once.
PutRecord(stored, f) ==
    IF f.round \in DOMAIN stored THEN stored
    ELSE Put(stored, f.round, IF settings.backend = "mem" THEN f ELSE RecordRow(f))

\* A variant that keeps the claim of a file that could not be stored.
IngestRecordClaimed(x, f, outcome) ==
    IF ~Accepts(x.ingester, f) THEN x
    ELSE [records |-> IF outcome = "error" THEN x.records ELSE PutRecord(x.records, f),
          ingester |-> IF outcome # "ok"
                       THEN [x.ingester EXCEPT !.seenRecords = @ \cup {f.round}]
                       ELSE [seenRecords |-> x.ingester.seenRecords \cup {f.round},
                             lastRecordEnd |-> f.end_running_hash,
                             expectedPrev |-> CheckpointSigningBytesHash(f.checkpoint)]]

\* ingestRecord.  The outcome is of reading the file and of PutRecord: after an
\* error the file is left to the next poll, but the transaction may have been
\* committed before the answer was lost.
IngestRecord(x, f, outcome) ==
    IF ~Accepts(x.ingester, f) THEN x
    ELSE [records |-> IF outcome = "error" THEN x.records ELSE PutRecord(x.records, f),
          ingester |-> IF outcome # "ok" THEN x.ingester
                       ELSE [seenRecords |-> x.ingester.seenRecords \cup {f.round},
                             lastRecordEnd |-> f.end_running_hash,
                             expectedPrev |-> CheckpointSigningBytesHash(f.checkpoint)]]

\* ingestRecordRemote: the same, after the file was fetched.
IngestRecordRemote(x, f, outcome) ==
    IF outcome = "unfetched" THEN x ELSE IngestRecord(x, f, outcome)

\* The files in the order of their rounds, from state x on; an error hits at
\* most one of them.  What comes after a failed file is tried as well.
IngestAll(x, files, bad, outcome) ==
    LET Ingest(y, f, o) == IF settings.source = "block" THEN IngestRecordRemote(y, f, o)
                           ELSE IngestRecord(y, f, o)
        after[r \in 0..MaxRound] ==
          IF r = 0 THEN x
          ELSE IF r \notin DOMAIN files THEN after[r - 1]
          ELSE Ingest(after[r - 1], files[r], IF r = bad THEN outcome ELSE "ok")
    IN after[MaxRound]

Ingested(after) ==
    /\ records' = after.records /\ ingester' = after.ingester
    /\ UNCHANGED <<writer, rsf, blocks, settings, faults, crashes, restarts>>

\* One poll of the directory.
RunOnce(bad, outcome) ==
    /\ settings.source = "dir"
    /\ Ingested(IngestAll([records |-> records, ingester |-> ingester], rsf, bad, outcome))

\* One poll of the block node, over the names that it lists.
RunOnceRemote(bad, outcome) ==
    /\ settings.source = "block"
    /\ Ingested(IngestAll([records |-> records, ingester |-> ingester], blocks, bad, outcome))

\* seedFromStore: the anchors are those of the highest stored round, or there
\* are none when ListRecords fails.
seedFromStore(stored) ==
    IF stored = <<>> THEN Fresh
    ELSE LET highest == stored[Max(DOMAIN stored)]
         IN [seenRecords |-> DOMAIN stored, lastRecordEnd |-> highest.end_running_hash,
             expectedPrev |-> CheckpointSigningBytesHash(highest.checkpoint)]

\* The mirror starts again; the memory store starts empty.
Restart(listed) ==
    /\ restarts < MaxRestarts
    /\ restarts' = restarts + 1
    /\ records' = IF settings.backend = "mem" THEN <<>> ELSE records
    /\ ingester' = IF listed THEN seedFromStore(records') ELSE Fresh
    /\ UNCHANGED <<writer, rsf, blocks, settings, faults, crashes>>

PollOk == RunOnce(0, "ok") \/ RunOnceRemote(0, "ok")

RecordNext ==
    \/ \E r \in 1..MaxRound : Submit(r, <<>>) \/ Submit(r, <<r>>) \/ Push(r)
    \/ \E outcome \in {"ok", "unsynced", "failed"} : WriteRecord(outcome)
    \/ Crash
    \/ PollOk
    \/ \E r \in 1..MaxRound :
         \/ RunOnce(r, "error") \/ RunOnceRemote(r, "error") \/ RunOnceRemote(r, "unfetched")
         \/ settings.backend = "pg" /\ (RunOnce(r, "committed") \/ RunOnceRemote(r, "committed"))
    \/ \E listed \in BOOLEAN : (settings.backend = "mem" => listed) /\ Restart(listed)

------------------------------------------------------------------------------
\* The chain rule of a directory, at one of its files.
check_chain_link(dir, n) ==
    LET before == {m \in DOMAIN dir : m < n}
    IN dir[n].start_running_hash = IF before = {} THEN ChainSeed
                                   ELSE dir[Max(before)].end_running_hash

verify_item_chain(f) == f.end_running_hash = f.start_running_hash \o f.items

\* With every roster trusted.
verify_checkpoint_binding_set(f) == f.checkpoint.records_root = f.items

verify_record_stream_dir(dir) ==
    /\ DOMAIN dir # {}
    /\ \A r \in DOMAIN dir :
         /\ r # Min(DOMAIN dir) => r - 1 \in DOMAIN dir
         /\ check_chain_link(dir, r)
         /\ verify_item_chain(dir[r])
         /\ verify_checkpoint_binding_set(dir[r])

File == [round : 1..MaxRound, start_running_hash : Seq(1..MaxRound), items : Seq(1..MaxRound),
         end_running_hash : Seq(1..MaxRound),
         checkpoint : [round : 1..MaxRound, records_root : Seq(1..MaxRound),
                       roster_hash : Range(RosterAt), window_root : BOOLEAN,
                       prev_checkpoint_hash : (0..MaxRound) \X BOOLEAN]]

RecordTypeOK ==
    /\ submitted \in SUBSET (1..MaxRound)
    /\ queue \in Seq([round : submitted, items : Seq(1..MaxRound)])
    /\ next_round \in 1..MaxRound + 1 /\ running_hash \in Seq(1..MaxRound)
    /\ \A files \in {rsf, blocks, records} :
         /\ DOMAIN files \in SUBSET submitted
         /\ \A r \in DOMAIN files : files[r] \in File
    /\ ingester \in [seenRecords : SUBSET DOMAIN rsf, lastRecordEnd : Seq(1..MaxRound),
                     expectedPrev : (0..MaxRound) \X BOOLEAN]
    /\ faults \in 0..MaxFaults /\ crashes \in 0..MaxCrashes /\ restarts \in 0..MaxRestarts

\* Whatever the node lost and whenever either side stopped, the rounds that the
\* mirror stores are the first ones, with no gap, each as the node wrote it, and
\* the verifier that ships with the node accepts the files they came from.
MirrorsPrefix ==
    \E n \in 0..MaxRound :
        /\ DOMAIN records = 1..n
        /\ \A r \in 1..n : records[r].items = rsf[r].items
        /\ n > 0 => verify_record_stream_dir([r \in 1..n |-> rsf[r]])

\* The files up to round r are there and verify, under a roster that the mirror
\* trusts.
Intact(r) ==
    /\ 1..r \subseteq DOMAIN rsf
    /\ verify_record_stream_dir([s \in 1..r |-> rsf[s]])
    /\ \A s \in 1..r : settings.trusted \in {"any", RosterAt[s]}

\* The anchor that a restart read back from PostgreSQL.
StaleAnchor == ingester.expectedPrev[1] > 0 /\ ~ingester.expectedPrev[2]

\* RunOnce: "files that failed are retried on the next poll".  The mirror keeps
\* catching up with the rounds whose files are intact, through lost answers of
\* the database, restarts that find the store empty or cannot list it, and files
\* that arrive in any order, unless the ingester was seeded from PostgreSQL.
IntactIsMirrored ==
    []<>(StaleAnchor \/ \A r \in 1..MaxRound : Intact(r) => r \in DOMAIN records)

\* mirror-node/README.md: "re-ingesting a file is a no-op, so restarts replay
\* safely": the same, with no exception for restarts on PostgreSQL.
RestartsReplay ==
    []<>(\A r \in 1..MaxRound : Intact(r) => r \in DOMAIN records)

\* verify_record_stream_dir: "Verifies a whole record-stream directory exactly as
\* a mirror would": a directory that it accepts, a fresh mirror that trusts the
\* rosters stores in full.
VerifiesAsMirror ==
    verify_record_stream_dir(rsf) /\ settings.trusted = "any" =>
      IngestAll([records |-> <<>>, ingester |-> Fresh], rsf, 0, "ok").ingester.seenRecords
        = DOMAIN rsf
=============================================================================
