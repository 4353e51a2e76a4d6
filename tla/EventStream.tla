---------------------------- MODULE EventStream ----------------------------
(***************************************************************************)
(* The event stream of a consensus node and the mirror that follows it:    *)
(* the writer of protocol/stream/src/event.rs collects the inserted events *)
(* into numbered files, each preceded by its signature file.  The mirror,  *)
(* its settings and the counters of faults are those of RecordStream.      *)
(*                                                                         *)
(* An event is its place in the order of insertion, a running hash the     *)
(* sequence it was chained from, and a signature the file that it signs.   *)
(***************************************************************************)
EXTENDS RecordStream

CONSTANTS
    EventsPerFile,    \* events_per_file
    MaxEvents,        \* bound: inserted events
    MaxFlushes        \* bound: accepted checkpoints, which flush the stream

ASSUME EventAssumption == EventsPerFile \in Nat \ {0} /\ MaxEvents \in Nat

VARIABLES
    appended,     \* events inserted so far
    flushes,
    channel,      \* messages of the writer
    pc,           \* where run_writer is: the next write of write_event_file
    state,        \* WriterState
    esf, esf_sig,                \* the files of the streams directory, by index
    block_esf, block_esf_sig,    \* those that the block node holds
    events,       \* the events in the store of the mirror
    eventIngester

eventWriter == <<appended, flushes, channel, pc, state>>
eventFiles == <<esf, esf_sig>>
eventBlocks == <<block_esf, block_esf_sig>>
eventMirror == <<events, eventIngester>>
eventVars == <<eventWriter, eventFiles, eventBlocks, eventMirror,
               settings, faults, crashes, restarts>>

FlushMsg == 0
FreshEvents == [seenEvents |-> {}, lastEventEnd |-> ChainSeed]
from_resume(index, hash) == [next_index |-> index, file_start_hash |-> hash, buffer |-> <<>>]

EventInit ==
    /\ appended = 0 /\ flushes = 0 /\ channel = <<>>
    /\ pc = "recv" /\ state = from_resume(0, ChainSeed)
    /\ esf = <<>> /\ esf_sig = <<>> /\ block_esf = <<>> /\ block_esf_sig = <<>>
    /\ events = <<>> /\ eventIngester = FreshEvents

------------------------------------------------------------------------------
\* log_fresh_inserts hands an inserted event to the stream.
AppendEvent ==
    /\ appended < MaxEvents
    /\ appended' = appended + 1
    /\ channel' = Append(channel, appended')
    /\ UNCHANGED <<flushes, pc, state, eventFiles, eventBlocks, eventMirror,
                   settings, faults, crashes, restarts>>

\* flush_event_stream_sink, at the end of accept_checkpoint.
FlushEvents ==
    /\ flushes < MaxFlushes
    /\ flushes' = flushes + 1
    /\ channel' = Append(channel, FlushMsg)
    /\ UNCHANGED <<appended, pc, state, eventFiles, eventBlocks, eventMirror,
                   settings, faults, crashes, restarts>>

\* run_writer takes a message, and closes the file when it is full or flushed.
Receive ==
    /\ pc = "recv" /\ channel # <<>>
    /\ LET m == Head(channel)
           buffer == IF m = FlushMsg THEN state.buffer ELSE Append(state.buffer, m)
       IN /\ state' = [state EXCEPT !.buffer = buffer]
          /\ pc' = IF \/ m = FlushMsg /\ buffer # <<>>
                      \/ m # FlushMsg /\ Len(buffer) >= EventsPerFile
                   THEN "signature" ELSE "recv"
    /\ channel' = Tail(channel)
    /\ UNCHANGED <<appended, flushes, eventFiles, eventBlocks, eventMirror,
                   settings, faults, crashes, restarts>>

EventFile ==
    [start_running_hash |-> state.file_start_hash, items |-> state.buffer,
     end_running_hash |-> state.file_start_hash \o state.buffer]

\* A signature file, over the bytes of the stream file.
build_signature_file(f) == [signed |-> f]

Fault(outcome) ==
    /\ outcome # "ok" => faults < MaxFaults
    /\ faults' = IF outcome = "ok" THEN faults ELSE faults + 1

\* The first half of write_event_file.  After an error the buffer is kept, and
\* the next message that closes the file writes it again.
WriteSignature(outcome) ==
    /\ pc = "signature"
    /\ esf_sig' = atomic_write(esf_sig, state.next_index, build_signature_file(EventFile), outcome)
    /\ pc' = IF outcome = "ok" THEN "file" ELSE "recv"
    /\ Fault(outcome)
    /\ UNCHANGED <<appended, flushes, channel, state, esf, eventBlocks, eventMirror,
                   settings, crashes, restarts>>

\* A variant that advances after an error.
WriteEventFileDropping(outcome) ==
    /\ pc = "file"
    /\ esf' = atomic_write(esf, state.next_index, EventFile, outcome)
    /\ pc' = "recv"
    /\ state' = from_resume(state.next_index + 1, EventFile.end_running_hash)
    /\ Fault(outcome)
    /\ UNCHANGED <<appended, flushes, channel, esf_sig, eventBlocks, eventMirror,
                   settings, crashes, restarts>>

\* The other half, and advance.
WriteEventFile(outcome) ==
    /\ pc = "file"
    /\ esf' = atomic_write(esf, state.next_index, EventFile, outcome)
    /\ pc' = "recv"
    /\ state' = IF outcome = "ok"
                THEN from_resume(state.next_index + 1, EventFile.end_running_hash)
                ELSE state
    /\ Fault(outcome)
    /\ UNCHANGED <<appended, flushes, channel, esf_sig, eventBlocks, eventMirror,
                   settings, crashes, restarts>>

\* A variant that writes the highest file again.
resume_stateReused(files) ==
    IF files = <<>> THEN from_resume(0, ChainSeed)
    ELSE from_resume(Max(DOMAIN files), files[Max(DOMAIN files)].end_running_hash)

\* resume_state: the writer goes on after the highest file.
resume_state(files) ==
    IF files = <<>> THEN from_resume(0, ChainSeed)
    ELSE from_resume(Max(DOMAIN files) + 1, files[Max(DOMAIN files)].end_running_hash)

\* The node stops anywhere, and opens the stream again.  The events in memory
\* are not appended again: the node has them in its log.
CrashEvents ==
    /\ crashes < MaxCrashes
    /\ crashes' = crashes + 1
    /\ channel' = <<>> /\ pc' = "recv"
    /\ state' = resume_state(esf)
    /\ UNCHANGED <<appended, flushes, eventFiles, eventBlocks, eventMirror,
                   settings, faults, restarts>>

\* pushOnce, of a stream file and of a signature file.
PushEvents(n) ==
    /\ settings.source = "block"
    /\ n \in DOMAIN esf \ DOMAIN block_esf
    /\ block_esf' = handlePut(block_esf, n, esf[n])
    /\ UNCHANGED <<eventWriter, eventFiles, block_esf_sig, eventMirror,
                   settings, faults, crashes, restarts>>

PushSignature(n) ==
    /\ settings.source = "block"
    /\ n \in DOMAIN esf_sig \ DOMAIN block_esf_sig
    /\ block_esf_sig' = handlePut(block_esf_sig, n, esf_sig[n])
    /\ UNCHANGED <<eventWriter, eventFiles, block_esf, eventMirror,
                   settings, faults, crashes, restarts>>

------------------------------------------------------------------------------
verifySignatureObjects(sig, f) == sig.signed = f

VerifyEventFile(f, sig) ==
    f.end_running_hash = f.start_running_hash \o f.items /\ verifySignatureObjects(sig, f)

\* A variant that does not ask where the file starts.
AcceptsEventsAnywhere(m, n, files, sigs) ==
    /\ n \in DOMAIN files /\ tryClaim(m.seenEvents, n)
    /\ n \in DOMAIN sigs
    /\ VerifyEventFile(files[n], sigs[n])

\* What ingestEvent asks: the signature file is there, and the file goes on from
\* the last one.
AcceptsEvents(m, n, files, sigs) ==
    /\ n \in DOMAIN files /\ tryClaim(m.seenEvents, n)
    /\ n \in DOMAIN sigs
    /\ files[n].start_running_hash = m.lastEventEnd
    /\ VerifyEventFile(files[n], sigs[n])

\* PutEvents: an event that is stored is passed over.
PutEvents(stored, f) ==
    stored \o Without(f.items, Range(stored))

\* A variant that keeps the anchor of the chain.
IngestEventUnmoved(x, n, files, sigs, outcome) ==
    IF ~AcceptsEvents(x.ingester, n, files, sigs) THEN x
    ELSE [events |-> IF outcome = "error" THEN x.events ELSE PutEvents(x.events, files[n]),
          ingester |-> IF outcome # "ok" THEN x.ingester
                       ELSE [x.ingester EXCEPT !.seenEvents = @ \cup {n}]]

\* ingestEvent; the outcome is as in IngestRecord.
IngestEvent(x, n, files, sigs, outcome) ==
    IF ~AcceptsEvents(x.ingester, n, files, sigs) THEN x
    ELSE [events |-> IF outcome = "error" THEN x.events ELSE PutEvents(x.events, files[n]),
          ingester |-> IF outcome # "ok" THEN x.ingester
                       ELSE [seenEvents |-> x.ingester.seenEvents \cup {n},
                             lastEventEnd |-> files[n].end_running_hash]]

\* ingestEventRemote: the same, after both files were fetched.
IngestEventRemote(x, n, files, sigs, outcome) ==
    IF outcome = "unfetched" THEN x ELSE IngestEvent(x, n, files, sigs, outcome)

\* The event files of one poll, in the order of their indices, from state x on.
EventsIngested(x, files, sigs, bad, outcome) ==
    LET Ingest(y, n, o) == IF settings.source = "block" THEN IngestEventRemote(y, n, files, sigs, o)
                           ELSE IngestEvent(y, n, files, sigs, o)
        after[n \in 0..MaxEvents] ==
          IF n = 0 THEN x
          ELSE Ingest(after[n - 1], n - 1, IF n - 1 = bad THEN outcome ELSE "ok")
    IN after[MaxEvents]

IngestAllEvents(files, sigs, bad, outcome) ==
    LET after == EventsIngested([events |-> events, ingester |-> eventIngester], files, sigs, bad, outcome)
    IN /\ events' = after.events
       /\ eventIngester' = after.ingester
       /\ UNCHANGED <<eventWriter, eventFiles, eventBlocks, settings, faults, crashes, restarts>>

PollEvents(bad, outcome) ==
    \/ settings.source = "dir" /\ IngestAllEvents(esf, esf_sig, bad, outcome)
    \/ settings.source = "block" /\ IngestAllEvents(block_esf, block_esf_sig, bad, outcome)

\* The mirror starts again: the event stream is not seeded from the store.
RestartEvents ==
    /\ restarts < MaxRestarts
    /\ restarts' = restarts + 1
    /\ events' = IF settings.backend = "mem" THEN <<>> ELSE events
    /\ eventIngester' = FreshEvents
    /\ UNCHANGED <<eventWriter, eventFiles, eventBlocks, settings, faults, crashes>>

Index == 0..MaxEvents - 1

EventNext ==
    \/ AppendEvent \/ FlushEvents \/ Receive
    \/ \E outcome \in {"ok", "unsynced", "failed"} : WriteSignature(outcome) \/ WriteEventFile(outcome)
    \/ CrashEvents
    \/ \E n \in Index : PushEvents(n) \/ PushSignature(n)
    \/ PollEvents(-1, "ok")
    \/ \E n \in Index :
         \/ PollEvents(n, "error")
         \/ settings.source = "block" /\ PollEvents(n, "unfetched")
         \/ settings.backend = "pg" /\ PollEvents(n, "committed")
    \/ RestartEvents

------------------------------------------------------------------------------
verify_signature_file_for(sigs, n, f) == n \in DOMAIN sigs /\ sigs[n].signed = f

verify_event_stream_dir(files, sigs) ==
    /\ DOMAIN files # {}
    /\ \A n \in DOMAIN files :
         /\ check_chain_link(files, n)
         /\ verify_item_chain(files[n])
         /\ verify_signature_file_for(sigs, n, files[n])

EventStreamFile ==
    [start_running_hash : Seq(1..appended), items : Seq(1..appended),
     end_running_hash : Seq(1..appended)]

EventTypeOK ==
    /\ appended \in 0..MaxEvents /\ flushes \in 0..MaxFlushes
    /\ channel \in Seq(0..appended) /\ pc \in {"recv", "signature", "file"}
    /\ state \in [next_index : 0..MaxEvents, file_start_hash : Seq(1..appended),
                  buffer : Seq(1..appended)]
    /\ \A files \in {esf, esf_sig, block_esf, block_esf_sig} : DOMAIN files \in SUBSET Index
    /\ \A files \in {esf, block_esf} : \A n \in DOMAIN files : files[n] \in EventStreamFile
    /\ \A files \in {esf_sig, block_esf_sig} :
         \A n \in DOMAIN files : files[n].signed \in EventStreamFile
    /\ events \in Seq(1..appended)
    /\ eventIngester \in [seenEvents : SUBSET DOMAIN esf, lastEventEnd : Seq(1..appended)]

\* The events of the files, in the order of the indices.
Streamed ==
    LET upTo[n \in 0..MaxEvents] ==
          IF n = 0 THEN <<>>
          ELSE upTo[n - 1] \o IF n - 1 \in DOMAIN esf THEN esf[n - 1].items ELSE <<>>
    IN upTo[MaxEvents]

\* log_fresh_inserts: "the mirror-facing event stream sees exactly the inserted
\* events in topological order": while the node runs, whatever writes fail and
\* are done again under the same index.
StreamsExactly == crashes = 0 => \A i \in DOMAIN Streamed : Streamed[i] = i

\* The mirror stores a prefix of what the files hold, in their order, each event
\* once: through crashes of the node and of the mirror, files and signatures
\* that arrive in any order, and an index that is written twice.
StoresPrefix ==
    /\ Len(events) <= Len(Streamed)
    /\ \A i \in DOMAIN events : events[i] = Streamed[i]

\* write_event_file: "a crash between the two writes can only leave an orphaned
\* signature, never a stream file without its signature"; and where no write
\* failed, the verifier that ships with the node accepts the directory at every
\* moment.
FilesSigned ==
    /\ DOMAIN esf \subseteq DOMAIN esf_sig
    /\ faults = 0 /\ DOMAIN esf # {} => verify_event_stream_dir(esf, esf_sig)

\* The mirror keeps catching up with the files of a node whose writes succeed,
\* through restarts of the mirror and lost answers of its database, and from the
\* directory through crashes of the node between the two writes.
FilesIngested ==
    []<>(faults = 0 /\ (settings.source = "dir" \/ crashes = 0) =>
           DOMAIN esf \subseteq eventIngester.seenEvents)

\* The same from the block node after a crash: the orphan that write_event_file
\* may leave is written over when the index is used again.
OrphansReplaced ==
    []<>(faults = 0 => DOMAIN esf \subseteq eventIngester.seenEvents)

\* log_fresh_inserts, as StreamsExactly, through crashes.
StreamsExactlyThroughCrashes == \A i \in DOMAIN Streamed : Streamed[i] = i
=============================================================================
