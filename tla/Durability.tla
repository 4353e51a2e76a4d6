------------------------------ MODULE Durability ------------------------------
(***************************************************************************)
(* What one node has on disk, and what a restart makes of it.              *)
(*                                                                         *)
(* Three stores that are written one after the other: the event log        *)
(* (protocol/storage/src/event_log.rs), the state database with snapshots  *)
(* and the timestamp watermark (executor/state/src/state_db.rs) and the    *)
(* checkpoint files (node/src/storage.rs).  accept_checkpoint and          *)
(* apply_checkpoint (protocol/gossip/src/node.rs) write them; a start      *)
(* (node/src/restart.rs, run_node in node/src/cli/run.rs) reads them.  A   *)
(* crash of the process may fall between any two writes and keeps what was *)
(* written; a cut of the power keeps what was flushed.                     *)
(*                                                                         *)
(* The graph is regular here: each member has one event for each birth     *)
(* round, received one round later, and a round is decided when each of    *)
(* its members has an event above it.  How rounds, fame and order come     *)
(* about is in Hashgraph; what is executed, in Finalize.                   *)
(***************************************************************************)
EXTENDS Integers, Sequences, FiniteSets, FiniteSetsExt

CONSTANTS
    Self, Others, New,        \* this node; the other genesis members; one that joins
    OpRound,                \* the round that receives the operation that adds New
    WindowRounds,           \* SIGNED_WINDOW_ROUNDS = RETENTION_ROUNDS = PRUNE_RETENTION_ROUNDS, 16
    SnapshotRounds,         \* SNAPSHOT_RETENTION_ROUNDS, 2
    Clock,                  \* readings of the wall clock, which may go back
    MaxBirth,               \* bound: birth rounds
    MaxUnlogged,            \* bound: events inserted and not logged yet
    MaxAccepting,           \* bound: checkpoints being accepted at a time
    MaxStops,               \* bound: crashes and power cuts
    Faults                  \* the mishaps that may happen: see mishaps

ASSUME StoreAssumption ==
    /\ New \notin Others \cup {Self} /\ IsFiniteSet(Others)
    /\ OpRound \in Nat \ {0} /\ WindowRounds \in Nat /\ SnapshotRounds \in Nat
    /\ Clock \subseteq Nat /\ MaxBirth \in Nat

VARIABLES
    up,          \* whether the process runs
    have,        \* have[m]: the last birth round of m's events in the graph
    unlogged,    \* events inserted that log_fresh_inserts has still to append
    processed,   \* the last round process_finalized_rounds has seen decided
    roster,      \* the members of the live registry
    bucketed,    \* whether the operation is bucketed and not activated
    last_timestamp,
    accepted,    \* the rounds of signed_checkpoints
    accepting,   \* accepting[r]: where the checkpoint of round r stands, produced ("signed") or
                 \* further in accept_checkpoint
    files,       \* rounds with a checkpoint file
    db,          \* the versions of the state database since its last flush
    eventLog,    \* the event log: events, their received round (0: none), rosters
    flushedLog,  \* the log as of its last flush
    stamp,       \* stamp[i]: the timestamp of the own event of birth round i
    emitted,     \* the last own event a peer has: its birth round and timestamp
    mishaps,     \* what went wrong so far
    stops

memory == <<have, unlogged, processed, roster, bucketed, last_timestamp, accepted, accepting>>
onDisk == <<files, db, eventLog, flushedLog>>
peersKnow == <<stamp, emitted>>
storeVars == <<up, memory, onDisk, peersKnow, mishaps, stops>>

Founders == Others \cup {Self}
Member == Founders \cup {New}
Round == 1..MaxBirth

\* The roster of a round, in the history of the cluster: activation is one
\* round after the operation was received, and holds from the next on.
RosterAt(r) == IF r >= OpRound + 2 THEN Member ELSE Founders

Largest(S) == Max({0} \cup S)

\* The version of the state database that is read.
Current(versions) == versions[Len(versions)]
Snapshots == Current(db).snapshots

Event(m, i) == <<m, i>>
ReceivedIn(e) == e[2] + 1

\* The last round all of whose members have gone past it.
Decided == Largest({r \in Round : \A s \in 1..r : \A m \in RosterAt(s) : have[m] > s})

\* StateDb::snapshot and prune_snapshots_before, set_watermark, and flush: a write
\* is one version more.
WriteSnapshots(versions, rounds) == Append(versions, [Current(versions) EXCEPT !.snapshots = rounds])
SetWatermark(versions, t) == Append(versions, [Current(versions) EXCEPT !.watermark = t])
Flush(versions) == <<Current(versions)>>

\* EventLog::set_roster_history and replay: the last event of m.
SetRosterHistory(log, members) == [log EXCEPT !.roster = members]
Replayed(m) == {e \in DOMAIN eventLog.events : e[1] = m}
LastReplayed(m) == Largest({e[2] : e \in Replayed(m)})

StoreInit ==
    /\ up = TRUE /\ have = [m \in Member |-> IF m = New THEN OpRound + 1 ELSE 0]
    /\ unlogged = {} /\ processed = 0 /\ roster = Founders /\ bucketed = FALSE
    /\ last_timestamp = 0 /\ accepted = {} /\ accepting = [r \in Round |-> "no"]
    /\ files = {} /\ db = <<[snapshots |-> {}, watermark |-> 0]>>
    /\ eventLog = [events |-> <<>>, roster |-> Founders] /\ flushedLog = eventLog
    /\ stamp = [i \in Round |-> 0]
    /\ emitted = [birth |-> 0, timestamp |-> 0] /\ mishaps = {} /\ stops = 0

------------------------------------------------------------------------------
\* An event gets birth round i when the members of the round before have one,
\* and is inserted after those, its ancestors.
MayBear(i) ==
    /\ i <= MaxBirth /\ Cardinality(unlogged) < MaxUnlogged
    /\ (i = 1 \/ \A m \in RosterAt(i - 1) : have[m] >= i - 1)

\* The driver is not inside apply_checkpoint.
Driving == \A r \in Round : accepting[r] # "reconnect"

\* The driver has logged what its own syncs inserted; of the events that others
\* push, the last of each may still be on its way to the log.
SyncsLogged == \A e \in unlogged : e[1] # Self /\ e[2] = have[e[1]]

\* insert_verified, for an event of another member, who has had this node's
\* event of the round before, or for an own one that a peer still has.
InsertEvent(m) ==
    LET i == have[m] + 1 IN
    /\ up /\ m \in roster /\ MayBear(i)
    /\ emitted.birth >= IF m = Self THEN i ELSE i - 1
    /\ have' = [have EXCEPT ![m] = i]
    /\ unlogged' = unlogged \cup {Event(m, i)}
    /\ UNCHANGED <<up, processed, roster, bucketed, last_timestamp, accepted, accepting, onDisk,
                   peersKnow, mishaps, stops>>

\* create_own_event with next_timestamp; a peer gets the event before it is
\* logged, or not at all.
CreateOwn(clock) ==
    LET i == have[Self] + 1 IN
    /\ up /\ MayBear(i) /\ Driving
    /\ have' = [have EXCEPT ![Self] = i]
    /\ last_timestamp' = Max({clock, last_timestamp + 1})
    /\ stamp' = [stamp EXCEPT ![i] = last_timestamp']
    /\ unlogged' = unlogged \cup {Event(Self, i)}
    /\ emitted' \in {emitted, [birth |-> i, timestamp |-> last_timestamp']}
    /\ UNCHANGED <<up, processed, roster, bucketed, accepted, accepting, onDisk, mishaps, stops>>

\* EventLog::append, of an event without its order.
Appended(events, e) == [f \in DOMAIN events \cup {e} |-> IF f \in DOMAIN events THEN events[f] ELSE 0]

LogFreshInsert(e) ==
    /\ up /\ e \in unlogged
    /\ eventLog' = [eventLog EXCEPT !.events = Appended(@, e)]
    /\ unlogged' = unlogged \ {e}
    /\ UNCHANGED <<up, have, processed, roster, bucketed, last_timestamp, accepted, accepting,
                   files, db, flushedLog, peersKnow, mishaps, stops>>

\* A round of gossip that times out after it inserted: its events are not logged.
SkipLog(e) ==
    /\ up /\ e \in unlogged /\ "unlogged" \in Faults
    /\ unlogged' = unlogged \ {e}
    /\ mishaps' = mishaps \cup {"unlogged"}
    /\ UNCHANGED <<up, have, processed, roster, bucketed, last_timestamp, accepted, accepting,
                   onDisk, peersKnow, stops>>

\* EventLog::set_ordering: nothing for an event that is not logged, or is ordered.
Ordered(events, r) ==
    [e \in DOMAIN events |-> IF events[e] = 0 /\ ReceivedIn(e) <= r THEN ReceivedIn(e) ELSE events[e]]

\* process_finalized_rounds: the order of what is decided goes to the log, an
\* operation of a round not seen before is bucketed, one whose activation round
\* is decided takes effect and extends the rosters in the log, and the
\* checkpoints of the new rounds are produced.
ProcessFinalizedRounds ==
    LET due == bucketed \/ OpRound \in processed + 1..Decided
        activates == due /\ OpRound + 1 <= Decided
        late == \E e \in unlogged : e[2] <= Decided + 1
    IN /\ up /\ Driving /\ Decided > processed /\ SyncsLogged
       /\ late => "late" \in Faults
       /\ mishaps' = mishaps \cup (IF late THEN {"late"} ELSE {})
       /\ processed' = Decided
       /\ accepting' = [r \in Round |-> IF r \in processed + 1..Decided THEN "signed"
                                                                    ELSE accepting[r]]
       /\ bucketed' = (due /\ ~activates)
       /\ roster' = IF activates THEN Member ELSE roster
       /\ eventLog' = [events |-> Ordered(eventLog.events, Decided),
                       roster |-> IF activates THEN Member ELSE eventLog.roster]
       /\ UNCHANGED <<up, have, unlogged, last_timestamp, accepted, files, db, flushedLog, peersKnow,
                      stops>>

------------------------------------------------------------------------------
(* accept_checkpoint, write by write.                                        *)

At(r, place) == accepting' = [accepting EXCEPT ![r] = place]

\* A variant that leaves the snapshot to a later flush.
AcceptSnapshotUnflushed(r) ==
    /\ up /\ accepting[r] = "signed" /\ r > Largest(accepted)
    /\ Cardinality({s \in Round : accepting[s] \in {"file", "prune", "log"}}) < MaxAccepting
    /\ db' = WriteSnapshots(SetWatermark(db, last_timestamp), Snapshots \cup {r})
    /\ At(r, "file")
    /\ UNCHANGED <<up, have, unlogged, processed, roster, bucketed, last_timestamp, accepted,
                   files, eventLog, flushedLog, peersKnow, mishaps, stops>>

\* set_watermark and snapshot_and_flush.  A checkpoint below the highest, whose
\* file would not be the latest, is left out.
AcceptSnapshot(r) ==
    /\ up /\ accepting[r] = "signed" /\ r > Largest(accepted)
    /\ Cardinality({s \in Round : accepting[s] \in {"file", "prune", "log"}}) < MaxAccepting
    /\ db' = Flush(WriteSnapshots(SetWatermark(db, last_timestamp), Snapshots \cup {r}))
    /\ At(r, "file")
    /\ UNCHANGED <<up, have, unlogged, processed, roster, bucketed, last_timestamp, accepted,
                   files, eventLog, flushedLog, peersKnow, mishaps, stops>>

\* Storage::persist (written whole or not at all), and prune_before.
PersistCheckpoint(r) == {f \in files \cup {r} : f >= r - WindowRounds}

\* notify_checkpoint_accepted; an error is swallowed.
AcceptFile(r) ==
    /\ up /\ accepting[r] = "file"
    /\ \/ files' = PersistCheckpoint(r) /\ UNCHANGED mishaps
       \/ "file" \in Faults /\ mishaps' = mishaps \cup {"file"} /\ UNCHANGED files
    /\ At(r, "prune")
    /\ UNCHANGED <<up, have, unlogged, processed, roster, bucketed, last_timestamp, accepted,
                   db, eventLog, flushedLog, peersKnow, stops>>

\* The checkpoint is recorded and old snapshots go (prune_snapshots_before).
AcceptPrune(r) ==
    /\ up /\ accepting[r] = "prune"
    /\ accepted' = accepted \cup {r}
    /\ db' = WriteSnapshots(db, {s \in Snapshots : s >= r - SnapshotRounds})
    /\ At(r, "log")
    /\ UNCHANGED <<up, have, unlogged, processed, roster, bucketed, last_timestamp, files, eventLog,
                   flushedLog, peersKnow, mishaps, stops>>

\* A variant that is one round short.
OutsideWindowEarly(e, r) == ReceivedIn(e) < r + 1 - WindowRounds

\* What prune_before_round drops: events received before the window whose
\* children are too.
OutsideWindow(e, r) == ReceivedIn(e) + 1 < r - WindowRounds

\* The log follows the graph and is flushed, and the state database is flushed.
AcceptLog(r) ==
    LET kept == {e \in DOMAIN eventLog.events : ~OutsideWindow(e, r)} IN
    /\ up /\ accepting[r] = "log"
    /\ eventLog' = [eventLog EXCEPT !.events = Restrict(@, kept)]
    /\ flushedLog' = eventLog'
    /\ db' = Flush(db)
    /\ At(r, "done")
    /\ UNCHANGED <<up, have, unlogged, processed, roster, bucketed, last_timestamp, accepted,
                   files, peersKnow, mishaps, stops>>

------------------------------------------------------------------------------
(* A stop, and the start after it.                                           *)

\* The events in the window of round r that are below one of the same member in
\* the log, and not in it.
Gaps(r) ==
    {e \in Member \X Round : /\ e[1] \in RosterAt(e[2]) /\ ~OutsideWindow(e, r)
                             /\ e \notin DOMAIN eventLog.events
                             /\ \E f \in DOMAIN eventLog.events : f[1] = e[1] /\ f[2] > e[2]}

Forgotten ==
    /\ up' = FALSE /\ stops' = stops + 1
    /\ have' = [m \in Member |-> IF m = New THEN OpRound + 1 ELSE 0]
    /\ unlogged' = {} /\ processed' = 0 /\ roster' = Founders /\ bucketed' = FALSE
    /\ last_timestamp' = 0 /\ accepted' = {} /\ accepting' = [r \in Round |-> "no"]

\* The mishaps that lie in when the process stops: an event that peers have is
\* not in the log, no checkpoint was accepted yet, the operation is below the
\* last checkpoint and its roster is not, the log has events of a member that
\* the roster of the last checkpoint does not know, or two syncs log at a time
\* and of one member the log has an event and not the one before.
StopsAmid ==
    LET r == Largest(files) IN
    {m \in {"lost", "young", "pending", "joined", "gap"} :
        \/ m = "lost" /\ emitted.birth > LastReplayed(Self)
        \/ m = "young" /\ files = {}
        \/ m = "pending" /\ r \in OpRound..OpRound + 1
        \/ m = "joined" /\ \E e \in DOMAIN eventLog.events : e[1] \notin RosterAt(r)
        \/ m = "gap" /\ Gaps(r) # {}}

Crash ==
    /\ up /\ stops < MaxStops
    /\ StopsAmid \subseteq Faults
    /\ Forgotten
    /\ mishaps' = mishaps \cup StopsAmid
    /\ UNCHANGED <<onDisk, peersKnow>>

\* The two extremes of what a cut of the power leaves of the log; of the state
\* database, any version since the last flush.
PowerCut ==
    /\ up /\ stops < MaxStops /\ "power" \in Faults
    /\ Forgotten
    /\ mishaps' = mishaps \cup {"power"} \cup StopsAmid
    /\ \E v \in Range(db) : db' = <<v>>
    /\ eventLog' \in {eventLog, flushedLog} /\ flushedLog' = eventLog'
    /\ UNCHANGED <<files, peersKnow>>

\* The events a checkpoint of round r commits to (compute_window_root).
Window(r) ==
    {e \in Member \X Round : e[1] \in RosterAt(e[2]) /\ ReceivedIn(e) \in r - WindowRounds..r}

\* verify_persisted: the file has its snapshot.
VerifyPersisted(r) == r \in Snapshots

\* replay_response: each event is signed by a member of its birth round, in the
\* rosters of the log; the decided round is the last that the log has ordered.
ReplayVerified == \A e \in DOMAIN eventLog.events : e[1] \in RosterAt(e[2]) \cap eventLog.roster
ReplayedThrough(r) == Max({r} \cup Range(eventLog.events))

\* apply_checkpoint, its checks: by the roster of the checkpoint ...
SignedByRoster(r) == \A e \in DOMAIN eventLog.events : e[1] \in RosterAt(r)

\* ... of the decided round against the transfer ...
DecidedBounded(r) ==
    LET decided == ReplayedThrough(r)
    IN /\ decided <= Max({e[2] : e \in DOMAIN eventLog.events})
       /\ decided - r <= Cardinality(DOMAIN eventLog.events)

\* ... and of the window against the root in the checkpoint.
WindowMatches(r) ==
    \A e \in Window(r) : e \in DOMAIN eventLog.events /\ eventLog.events[e] = ReceivedIn(e)

\* latest_for_restart_with_log, and the checks above on what it reads.  With no event
\* in the log there is no graph to check.
Restorable ==
    LET r == Largest(files)
    IN /\ VerifyPersisted(r) /\ ReplayVerified /\ SignedByRoster(r)
       /\ eventLog.events # <<>> => DecidedBounded(r) /\ WindowMatches(r)

\* StateDb::watermark.
Watermark == Current(db).watermark

\* A variant that forgets the events above the last checkpoint.
WatermarkTimestamp == Watermark

\* replay_response: the highest of the watermark and the own events of the log.
RestoredTimestamp ==
    Max({Watermark} \cup {stamp[e[2]] : e \in Replayed(Self)})

\* A variant that takes what the log has ordered as processed.
FromCheckpointAhead(r) ==
    /\ have' = [m \in Member |-> Max({have[m], LastReplayed(m)})]
    /\ processed' = ReplayedThrough(r) /\ roster' = RosterAt(r) /\ accepted' = {r}
    /\ last_timestamp' = RestoredTimestamp

\* from_checkpoint: the graph of the log, the roster of the checkpoint, and the
\* rounds above it to be processed again.
FromCheckpoint(r) ==
    /\ have' = [m \in Member |-> Max({have[m], LastReplayed(m)})]
    /\ processed' = r /\ roster' = RosterAt(r) /\ accepted' = {r}
    /\ last_timestamp' = RestoredTimestamp

\* A start on an accepted checkpoint.  No sink is set yet, so no file is written.
Restore ==
    LET r == Largest(files)
    IN /\ ~up /\ files # {} /\ Restorable
       /\ up' = TRUE /\ FromCheckpoint(r)
       /\ db' = SetWatermark(WriteSnapshots(db, Snapshots \cup {r}), last_timestamp')
       /\ eventLog' = SetRosterHistory(eventLog, RosterAt(r))
       /\ UNCHANGED <<unlogged, bucketed, accepting, files, flushedLog, peersKnow, mishaps, stops>>

\* A start without a checkpoint begins anew, whatever is in the log.
StartAnew ==
    /\ ~up /\ files = {}
    /\ up' = TRUE
    /\ eventLog' = SetRosterHistory(eventLog, Founders)
    /\ UNCHANGED <<memory, files, db, flushedLog, peersKnow, mishaps, stops>>

\* What the teacher of a checkpoint for round r retains, and its order.
Retained(r) ==
    {e \in RosterAt(r) \X Round : /\ e[1] \in RosterAt(e[2]) /\ ~OutsideWindow(e, r)
                                  /\ e[2] <= IF e[1] = Self THEN emitted.birth ELSE r + 1}
OrderBy(e, r) == IF ReceivedIn(e) <= r THEN ReceivedIn(e) ELSE 0

\* EventLog::append, of retained events: an order that the log lacks is merged in.
AppendedRetained(events, r) ==
    [e \in DOMAIN events \cup Retained(r) |->
        Max((IF e \in DOMAIN events THEN {events[e]} ELSE {})
            \cup (IF e \in Retained(r) THEN {OrderBy(e, r)} ELSE {}))]

\* apply_checkpoint, of a teacher's checkpoint for a round this node has not
\* come to, but which its own events have let the cluster decide: the snapshot
\* is written and not flushed, the graph is the teacher's, and what it retains
\* goes to the log.  With an event of a member that the roster of the checkpoint
\* does not know, the transfer would be refused; own events that no peer has are
\* gone from the graph, and not from the log ...
Reconnect(r) ==
    LET amid == {m \in {"pending", "lost"} : \/ m = "pending" /\ r \in OpRound..OpRound + 1
                                             \/ m = "lost" /\ have[Self] > emitted.birth}
    IN /\ up /\ Driving /\ SyncsLogged /\ r > processed /\ r < emitted.birth
       /\ amid \subseteq Faults /\ mishaps' = mishaps \cup amid
       /\ have' = [m \in Member |->
             Max({e[2] : e \in {f \in Retained(r) : f[1] = m}}
                 \cup {IF m = New THEN OpRound + 1 ELSE 0})]
       /\ processed' = r /\ roster' = RosterAt(r) /\ bucketed' = FALSE /\ unlogged' = {}
       /\ last_timestamp' = Max({last_timestamp, emitted.timestamp})
       /\ db' = SetWatermark(WriteSnapshots(db, Snapshots \cup {r}), last_timestamp')
       /\ eventLog' = [events |-> AppendedRetained(eventLog.events, r), roster |-> RosterAt(r)]
       /\ At(r, "reconnect")
       /\ UNCHANGED <<up, accepted, files, flushedLog, peersKnow, stops>>

\* ... and the checkpoint file is written last.
ReconnectFile(r) ==
    /\ up /\ accepting[r] = "reconnect"
    /\ accepted' = accepted \cup {r}
    /\ files' = PersistCheckpoint(r)
    /\ mishaps' = mishaps \cup {"reconnected"}
    /\ At(r, "done")
    /\ UNCHANGED <<up, have, unlogged, processed, roster, bucketed, last_timestamp, db, eventLog,
                   flushedLog, peersKnow, stops>>

StoreNext ==
    \/ \E m \in Member : InsertEvent(m)
    \/ \E clock \in Clock : CreateOwn(clock)
    \/ \E e \in unlogged : LogFreshInsert(e) \/ SkipLog(e)
    \/ ProcessFinalizedRounds
    \/ \E r \in Round : \/ AcceptSnapshot(r) \/ AcceptFile(r) \/ AcceptPrune(r) \/ AcceptLog(r)
                        \/ Reconnect(r) \/ ReconnectFile(r)
    \/ Crash \/ PowerCut \/ Restore \/ StartAnew

StoreSpec == StoreInit /\ [][StoreNext]_storeVars

------------------------------------------------------------------------------
\* accept_checkpoint: "a crash cannot leave a checkpoint file that references a
\* missing snapshot on restart".  Whenever the process or the power stops, the
\* last checkpoint file has its snapshot -- unless a file could not be written
\* while newer snapshots pushed the old ones out, or, when the power stops, the
\* file is one a reconnect has written.
SnapshotPresent ==
    files # {} /\ "file" \notin mishaps =>
        /\ Largest(files) \in Snapshots \/ {"reconnected", "power"} \subseteq mishaps
        /\ "reconnected" \in mishaps \/ \A v \in Range(db) : Largest(files) \in v.snapshots

\* run_node: "the node recovers independently -- no live peer needed".  At
\* whatever write the process is killed, what is on disk passes every check of
\* the next start; the named mishaps are the cases in which it need not.
RestartAccepted ==
    files # {} /\ mishaps \subseteq {"pending", "reconnected"} /\ "joined" \notin StopsAmid
        => Restorable

\* set_watermark: "a restart with a backward wall clock cannot emit a timestamp
\* lower than a pre-restart event from the same creator": an own event is later
\* than any that a peer has, and does not fork the chain, unless the last one
\* was sent and not logged when the process stopped or there was no checkpoint.
OwnChainGrows ==
    [][(\E clock \in Clock : CreateOwn(clock)) /\ mishaps \cap {"lost", "young", "power"} = {}
          => have'[Self] > emitted.birth /\ last_timestamp' > emitted.timestamp]_storeVars

\* An operation that was received takes effect on this node as on the others,
\* through any number of restarts and reconnects: those excepted that begin from
\* the checkpoint of the round that received it or of the next, after which it
\* is neither bucketed nor in the roster.
JoinSurvives ==
    up /\ processed > OpRound /\ "pending" \notin mishaps => New \in roster
=============================================================================
