-------------------------------- MODULE Wire --------------------------------
(***************************************************************************)
(* What nodes send each other and keep on disk, as it is written and as it *)
(* is read: the frames of a gossip connection (protocol/gossip/src/proto.rs *)
(* and transport.rs), the records of the event log, the checkpoint file and *)
(* the roster history (protocol/consensus/src/reconnect.rs).               *)
(***************************************************************************)
EXTENDS Codec

CONSTANTS MaxStateBytes,   \* MAX_STATE_BYTES: 32 MiB in the code
          MaxFrameSize     \* MAX_FRAME_SIZE: 64 MiB

Point(n) == Such(Raw(n), "point")

\* NodeId, Timestamp and every other u64.
Long == Raw(U64)

\* CanonicalEncode of Transaction and of Vec<Transaction>.
WritePayload == List(Blob(NoLimit))

\* CanonicalEncode of UnsignedEvent and of Event.
WriteEvent ==
    Struct(<<Long, Option(Raw(HashLen)), Option(Raw(HashLen)), Long, WritePayload, Raw(SigLen)>>)

\* decode_event: the count of transactions is checked against MIN_TX.
ReadEvent ==
    Struct(<<Long, Option(Raw(HashLen)), Option(Raw(HashLen)), Long,
             Fits(Blob(NoLimit), U32), Raw(SigLen)>>)

\* decode_event_bytes: the event of a log record, whose count is not checked.
ReadLoggedEvent ==
    Struct(<<Long, Option(Raw(HashLen)), Option(Raw(HashLen)), Long,
             List(Blob(NoLimit)), Raw(SigLen)>>)

\* MIN_EVENT: creator, two tags, timestamp, count, signature.
MinEvent == U64 + 1 + 1 + U64 + U32 + SigLen

WriteSyncRequest == Struct(<<Long, List(Struct(<<Long, Long>>))>>)

ReadSyncRequest == Struct(<<Long, Fits(Struct(<<Long, Long>>), U64 + U64)>>)

WriteSyncResponse == List(WriteEvent)

ReadSyncResponse == Fits(ReadEvent, MinEvent)

\* CheckpointSig: a fixed length, and a compressed point.
WriteCheckpointSig == Struct(<<Long, Long, Raw(BlsSigLen)>>)

ReadCheckpointSig == Struct(<<Long, Long, Point(BlsSigLen)>>)

\* MembershipRegistry::to_bytes: sorted by id.
WriteRegistry == Table(Rest(Struct(<<Long, Raw(KeyLen), Raw(BlsKeyLen)>>)), TRUE)

\* MembershipRegistry::from_bytes: whatever order they come in.
ReadRegistry == Table(Rest(Struct(<<Long, Point(KeyLen), Raw(BlsKeyLen)>>)), FALSE)

\* encode_signed_checkpoint.  The fourth field is the roster hash.
WriteSignedCheckpoint ==
    Struct(<<Long, Raw(HashLen), Raw(HashLen), Raw(HashLen), Raw(HashLen), Raw(HashLen), Raw(HashLen),
             Framed(WriteRegistry), List(Long), Raw(BlsSigLen)>>)

\* decode_signed_checkpoint: the roster must hash to the roster hash, and the
\* signers must leave room for the signature.
ReadSignedCheckpoint ==
    Anchored(
        Struct(<<Long, Raw(HashLen), Raw(HashLen), Raw(HashLen), Raw(HashLen), Raw(HashLen), Raw(HashLen),
                 Framed(ReadRegistry), Many(Long, U32, AnyCount, U64, BlsSigLen), Point(BlsSigLen)>>),
        4, 8, WriteRegistry)

\* encode_roster_history, of the rounds in ascending order.
WriteRosterHistory == Table(List(Struct(<<Long, Framed(WriteRegistry)>>)), TRUE)

\* decode_roster_history: at least one entry, in any order (from_snapshots).
ReadRosterHistory ==
    Table(Many(Struct(<<Long, Framed(ReadRegistry)>>), U32, Nat \ {0}, U64 + U32, 0), FALSE)

\* encode_retained_event.
WriteRetained ==
    Struct(<<Long, Long, Option(Long), List(Long), Framed(WriteEvent), Option(Long)>>)

\* decode_retained_event: a record may end before the consensus timestamp.
ReadRetained ==
    Struct(<<Long, Long, Option(Long), List(Long), Framed(ReadLoggedEvent), Trailing(Option(Long))>>)

\* encode_value and decode_value of the event log: the sequence number first.
WriteLogged == Struct(<<Long, WriteRetained>>)

ReadLogged == Struct(<<Long, ReadRetained>>)

------------------------------------------------------------------------------
\* MIN_RETAINED: seq, round, tag, count, length, event, tag.
MinRetained == U64 + U64 + 1 + U32 + U32 + MinEvent + 1

\* A retained event of a reconnect response, with and without the timestamp.
ReadServed ==
    Struct(<<Long, Long, Option(Long), Fits(Long, U64), Framed(ReadEvent), Option(Long)>>)

ReadServedLegacy ==
    Struct(<<Long, Long, Option(Long), Fits(Long, U64), Framed(ReadEvent), Absent>>)

\* The response: checkpoint, state, roster history, decided round, watermark and
\* the retained events.
WriteReconnectResponse ==
    Struct(<<Framed(WriteSignedCheckpoint), Blob(NoLimit), Blob(NoLimit), Long, Long,
             List(WriteRetained)>>)

\* The same as a teacher of the earlier format writes it.
WriteReconnectLegacy ==
    Struct(<<Framed(WriteSignedCheckpoint), Blob(NoLimit), Blob(NoLimit), Long, Long,
             List(Struct(<<Long, Long, Option(Long), List(Long), Framed(WriteEvent), Absent>>))>>)

\* A variant whose minimum counts the optional fields as present.
ReadReconnectFull ==
    Struct(<<Framed(ReadSignedCheckpoint), Blob(MaxStateBytes), Blob(MaxStateBytes), Long, Long,
             Else(Fits(ReadServed, MinRetained + U64), Fits(ReadServedLegacy, MinRetained + U64))>>)

\* from_bytes: the events with a timestamp if they take up all that is left, and
\* else without.  The count is checked once, for the first of the two.
ReadReconnectResponse ==
    Struct(<<Framed(ReadSignedCheckpoint), Blob(MaxStateBytes), Blob(MaxStateBytes), Long, Long,
             Else(Fits(ReadServed, MinRetained), Fits(ReadServedLegacy, MinRetained))>>)

\* MessageType, from tag 0 on, and the payload that to_bytes writes for each.
WritePayloads ==
    <<WriteSyncRequest, WriteSyncResponse, WriteEvent, WriteCheckpointSig, Long,
      WriteReconnectResponse, Absent, Absent, WriteSignedCheckpoint>>

\* from_tag, and the payload that from_bytes reads for each.
ReadPayloads ==
    <<ReadSyncRequest, ReadSyncResponse, ReadEvent, ReadCheckpointSig, Long,
      ReadReconnectResponse, Absent, Absent, ReadSignedCheckpoint>>

\* Frame::to_bytes.
WriteFrame == Choice([t \in 0..8 |-> Framed(WritePayloads[t + 1])])

WriteFrameLegacy == Choice([t \in 0..8 |->
    Framed(IF t = 5 THEN WriteReconnectLegacy ELSE WritePayloads[t + 1])])

\* Frame::from_bytes.
ReadFrame == Choice([t \in 0..8 |-> Framed(ReadPayloads[t + 1])])

\* recv_frame: the header, the bytes it announces, and the frame they are.  No
\* frame, and nothing more from this connection, if the stream ends before that.
RecvFrame(b) ==
    UNION {LET size == 1 + U32 + Number(h[1][2])
           IN IF Number(h[1][2]) > MaxFrameSize \/ Len(b) < size THEN {}
              ELSE {<<f, SubSeq(b, size + 1, Len(b))>> : f \in Whole(ReadFrame, SubSeq(b, 1, size))} :
             h \in Decode(Struct(<<Raw(1), Raw(U32)>>), b)}
=============================================================================
