----------------------------- MODULE MCStreams -----------------------------
(* The two streams for TLC.  They share no state but the settings of the   *)
(* mirror and the counters of faults, so a behaviour follows one of them.  *)
EXTENDS EventStream

VARIABLE stream    \* which one

\* Round 3 is signed by another roster.
MCRosterAt == <<"A", "A", "B">>

vars == <<recordVars, eventVars, stream>>
onlyRecord == <<writer, rsf, blocks, mirror>>
onlyEvent == <<eventWriter, eventFiles, eventBlocks, eventMirror>>

Init ==
    /\ RecordInit /\ EventInit
    /\ stream \in {"record", "event"}
    /\ stream = "event" => settings.trusted = "any"

Next ==
    \/ stream = "record" /\ RecordNext /\ UNCHANGED <<onlyEvent, stream>>
    \/ stream = "event" /\ EventNext /\ UNCHANGED <<onlyRecord, stream>>

\* A poll of the mirror that meets no error, and an upload of the relay.
Poll ==
    \/ stream = "record" /\ PollOk /\ UNCHANGED <<onlyEvent, stream>>
    \/ stream = "event" /\ PollEvents(-1, "ok") /\ UNCHANGED <<onlyRecord, stream>>

Relay ==
    \/ stream = "record" /\ (\E r \in 1..MaxRound : Push(r)) /\ UNCHANGED <<onlyEvent, stream>>
    \/ stream = "event" /\ (\E n \in Index : PushEvents(n) \/ PushSignature(n))
                        /\ UNCHANGED <<onlyRecord, stream>>

\* Run and main poll for ever on a ticker, and errors of the network, the disk
\* and the database do not last.
Spec == Init /\ [][Next]_vars /\ WF_vars(Poll) /\ WF_vars(Relay)

TypeOK == RecordTypeOK /\ EventTypeOK

------------------------------------------------------------------------------
\* MirrorsPrefix and StoresPrefix: whatever was lost and whoever stopped when, what the
\* mirror stores of either stream is a prefix of what the node wrote, with no gap.
MirrorHoldsPrefixes == MirrorsPrefix /\ StoresPrefix

\* StreamsExactly and FilesSigned: until a crash the event files hold exactly the
\* events appended, and at every moment each of them has its signature.
EventFilesExact == StreamsExactly /\ FilesSigned

\* IntactIsMirrored and FilesIngested: again and again the mirror has caught up with
\* the intact files of either stream, through errors, restarts and any order of arrival.
MirrorCatchesUp == IntactIsMirrored /\ FilesIngested
=============================================================================
