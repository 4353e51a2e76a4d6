----------------------------- MODULE Encodings -----------------------------
(***************************************************************************)
(* Every encoding of Wire and TxCodec under test: a message is written,    *)
(* and then one byte of what was written may change, come in or go, as in  *)
(* a torn record or in what another version of the program wrote.          *)
(***************************************************************************)
EXTENDS Wire, TxCodec

CONSTANTS Kinds,     \* the kinds of message that are followed
          NewByte    \* the bytes that may come in

VARIABLES kind, message, buffer, changed

encodingVars == <<kind, message, buffer, changed>>

Writer(k) ==
    CASE k = "frame" -> WriteFrame
      [] k = "logged" -> WriteLogged
      [] k = "checkpoint" -> WriteSignedCheckpoint
      [] k = "roster" -> WriteRosterHistory
      [] k = "tx" -> WriteTx
      [] k = "root" -> WriteRootActor
      [] k = "sub" -> WriteSubActor
      [] k = "proof" -> WriteProof
      [] k = "merkle" -> WriteMerkleProof
      [] k = "state" -> WriteState

Reader(k) ==
    CASE k = "frame" -> ReadFrame
      [] k = "logged" -> ReadLogged
      [] k = "checkpoint" -> ReadSignedCheckpoint
      [] k = "roster" -> ReadRosterHistory
      [] k = "tx" -> ReadTx
      [] k = "root" -> ReadRootActor
      [] k = "sub" -> ReadSubActor
      [] k = "proof" -> ReadInclusionProof
      [] k = "merkle" -> ReadMerkleProof
      [] k = "state" -> ReadState

\* The frames that recv_frame returns one after the other from a stream.
RECURSIVE RecvAll(_)
RecvAll(b) ==
    LET f == RecvFrame(b)
    IN IF f = {} THEN <<>> ELSE LET x == CHOOSE x \in f : TRUE IN <<x[1]>> \o RecvAll(x[2])

Written(k, m) ==
    IF k = "stream" THEN FlattenSeq([i \in DOMAIN m |-> Encode(WriteFrame, m[i])]) ELSE Encode(Writer(k), m)

Read(k, b) == IF k = "stream" THEN {RecvAll(b)} ELSE Whole(Reader(k), b)

\* Values of a layout: short ones, and of a tuple those that differ in one field
\* from the first, and one that differs in all.
One(S) == CHOOSE x \in S : TRUE
Other(S) == IF Cardinality(S) = 1 THEN One(S) ELSE CHOOSE x \in S : x # One(S)

RECURSIVE Samples(_)
Samples(L) ==
    CASE L.as = "raw" -> {[i \in 1..L.size |-> 0], [i \in 1..L.size |-> i]}
      [] L.as = "blob" -> {<<>>, <<0, 2>>}
      [] L.as = "flag" -> {<<0>>, <<1>>}
      [] L.as = "absent" -> {<<>>}
      [] L.as = "option" -> {<<>>, <<Other(Samples(L.of))>>}
      [] L.as = "struct" ->
           LET of == [i \in DOMAIN L.of |-> Samples(L.of[i])]
               first == [i \in DOMAIN of |-> One(of[i])]
           IN {[i \in DOMAIN of |-> Other(of[i])]}
                \cup UNION {{[first EXCEPT ![i] = x] : x \in of[i]} : i \in DOMAIN of}
      [] L.as = "choice" -> UNION {{<<t, x>> : x \in Samples(L.of[t])} : t \in DOMAIN L.of}
      [] L.as \in {"many", "rest"} ->
           LET of == Samples(L.of)
               counts == IF L.as = "rest" THEN Nat ELSE L.range
           IN {s \in {<<>>, <<One(of), Other(of)>>} \cup {<<x>> : x \in of} : Len(s) \in counts}
      [] L.as = "table" -> {Collect(s) : s \in Samples(L.of)}
      [] L.as \in {"framed", "trailing", "else"} -> Samples(L.of)
      [] L.as = "such" -> {x \in Samples(L.of) : Holds(L.test, x)}
      [] L.as = "anchored" ->
           {[x EXCEPT ![L.hash] = Digest(Encode(L.by, x[L.at]))] : x \in Samples(L.of)}

Messages(k) ==
    IF k # "stream" THEN Samples(Reader(k))
    ELSE LET f == {One(Samples(Choice(t :> Framed(ReadPayloads[t + 1])))) : t \in {0, 3, 6}}
         IN f \X f

EncodingInit ==
    /\ kind \in Kinds
    /\ message \in Messages(kind)
    /\ buffer = Written(kind, message)
    /\ changed = FALSE

\* One byte is replaced, inserted or removed.
Change ==
    /\ ~changed /\ kind # "stream"
    /\ \/ \E i \in DOMAIN buffer, b \in NewByte : buffer' = [buffer EXCEPT ![i] = b]
       \/ \E i \in 1..Len(buffer) + 1, b \in NewByte : buffer' = InsertAt(buffer, i, b)
       \/ \E i \in DOMAIN buffer : buffer' = RemoveAt(buffer, i)
    /\ changed' = TRUE
    /\ UNCHANGED <<kind, message>>

EncodingSpec == EncodingInit /\ [][Change]_encodingVars

------------------------------------------------------------------------------
\* What a transaction signs, commits to or stores under, and the bytes it does
\* that with.
Bindings(tx) ==
    LET op == tx[2]
        root(id) == << <<5, id>>, ActorStateKey(<<0, id>>)>>
        sub(id) == << <<6, id>>, ActorStateKey(id)>>
    IN CASE tx[1] = 3 -> {<< <<1, op[1], op[2]>>, DidPayload(op)>>, << <<4, op[1]>>, DidStateKey(op[1])>>, root(op[1])}
         [] tx[1] = 4 -> {<< <<2, ActorIdOf(op), op[4], op[5]>>, SubActorPayload(op)>>, sub(ActorIdOf(op)),
                          << <<7, ActorIdOf(op), op[4]>>, LeafData(ActorIdOf(op), op[4])>>}
         [] tx[1] = 5 -> {<< <<3, op[1], old, op[2]>>, RebindPayload(op, old)>> : old \in Samples(Keyed)}
         [] OTHER -> {}

\* Every message the program can hold is read back as it was written: no check of
\* a count, a length or a field refuses one.  Of a stream of frames that ends
\* anywhere, recv_frame returns the frames that came whole, and no more.
ReadsBack ==
    ~changed =>
        /\ Read(kind, buffer) = {message}
        /\ kind = "stream" =>
             \A n \in 0..Len(buffer) :
                RecvAll(SubSeq(buffer, 1, n)) =
                    SubSeq(message, 1, Cardinality({i \in DOMAIN message :
                        Len(Written(kind, SubSeq(message, 1, i))) <= n}))

Count(b, x) == Cardinality({i \in DOMAIN b : b[i] = x})

\* Where a reader takes what no writer writes: a flag of a DID operation that is
\* neither 0 nor 1, members and rosters in another order or more than once, and
\* retained events of the format without a timestamp.
Lenient(m) ==
    LET written == Written(kind, m) IN
    CASE kind = "tx" /\ m[1] = 3 ->
           Len(written) = Len(buffer)
             /\ \A i \in DOMAIN buffer : buffer[i] = written[i] \/ (written[i] = 1 /\ buffer[i] > 1)
      [] kind = "logged" -> written = Append(buffer, 0)
      [] kind = "frame" /\ m[1] = 5 -> Encode(WriteFrameLegacy, m) = buffer
      [] kind \in {"roster", "checkpoint"} -> \A x \in ToSet(written) : Count(written, x) <= Count(buffer, x)
      [] OTHER -> FALSE

\* What a reader accepts is what its writer writes for the value it returns, byte
\* for byte, but for Lenient; and what is cut short is not accepted, but for a
\* state, which ends where its bytes do, and for a log record, which loses its
\* timestamp and nothing else.
OneEncoding ==
    kind # "stream" =>
        \A m \in Read(kind, buffer) :
            /\ Written(kind, m) = buffer \/ Lenient(m)
            /\ kind # "state" =>
                 \A n \in 0..Len(buffer) - 1 : \A c \in Read(kind, SubSeq(buffer, 1, n)) :
                    kind = "logged" /\ c = [m EXCEPT ![2][6] = <<>>]

\* The same bytes are signed, hashed into a leaf or used as a state key for one
\* thing only: two operations that share them are of one kind and agree on the
\* DID and its document, or on the actor and its keys.
PayloadsBind ==
    ~changed /\ kind = "tx" =>
        \A p \in Bindings(message) : \A q \in UNION {Bindings(tx) : tx \in Messages("tx")} :
            p[2] = q[2] => p[1] = q[1]
=============================================================================
