---------------------------- MODULE StreamProofs ----------------------------
(***************************************************************************)
(* The two streams with any number of rounds, events and files, whatever   *)
(* is lost and whoever stops when: what the mirror stores of either is a   *)
(* prefix of what the node wrote.                                          *)
(***************************************************************************)
EXTENDS MCStreams, BasicLemmas

Round == 1..MaxRound

\* A record file, and the files that the writer writes for a round.
RFile == [round : Round, start_running_hash : Seq(Nat), items : Seq(Nat), end_running_hash : Seq(Nat),
          checkpoint : [round : Round, records_root : Seq(Nat), roster_hash : Range(RosterAt),
                        window_root : BOOLEAN, prev_checkpoint_hash : Int \X BOOLEAN]]

Written(r, f) ==
    /\ f \in RFile /\ f.round = r
    /\ f.end_running_hash = f.start_running_hash \o f.items
    /\ f.checkpoint = Checkpoint(r, f.items)

\* The writer: a round is queued once, and then written once.
WriterInv ==
    /\ submitted \subseteq Round
    /\ queue \in Seq([round : Round, items : Seq(Nat)])
    /\ \A i \in DOMAIN queue : queue[i].round \in submitted /\ queue[i].round \notin DOMAIN rsf
    /\ \A i, j \in DOMAIN queue : queue[i].round = queue[j].round => i = j
    /\ running_hash \in Seq(Nat)
    /\ DOMAIN rsf \subseteq submitted /\ rsf \in [DOMAIN rsf -> RFile]
    /\ \A r \in DOMAIN rsf : Written(r, rsf[r])
    /\ DOMAIN blocks \subseteq DOMAIN rsf
    /\ \A r \in DOMAIN blocks : blocks[r] = rsf[r]

\* A round's file goes on where the one of the round before ended.
Linked(r) == rsf[r].start_running_hash = IF r = 1 THEN ChainSeed ELSE rsf[r-1].end_running_hash

\* A stored round is that of its file.
StoredAs(f, r) ==
    /\ r \in DOMAIN rsf /\ Linked(r)
    /\ f.items = rsf[r].items /\ f.end_running_hash = rsf[r].end_running_hash
    /\ f.checkpoint.round = r

Ingester == [seenRecords : SUBSET Round, lastRecordEnd : Seq(Nat), expectedPrev : Int \X BOOLEAN]

\* The anchor of the ingester is the seed, the end of a stored round, or one that
\* nothing follows.
Anchored(m, n) ==
    \/ m.expectedPrev = Zeros /\ m.lastRecordEnd = ChainSeed
    \/ \E k \in 1..n : m.expectedPrev = <<k, TRUE>> /\ m.lastRecordEnd = rsf[k].end_running_hash
    \/ \E k \in 1..n : m.expectedPrev = <<k, FALSE>>

\* The mirror stores the first n rounds.
Mirrors(x, n) ==
    /\ x.records \in [1..n -> RFile]
    /\ \A r \in 1..n : StoredAs(x.records[r], r)
    /\ Anchored(x.ingester, n)

MirrorState == [records : UNION {[1..n -> RFile] : n \in 0..MaxRound}, ingester : Ingester]

GoodMirrors == {x \in MirrorState : \E n \in 0..MaxRound : Mirrors(x, n)}

\* The inductive invariant for the record stream.
RecordInv ==
    /\ WriterInv
    /\ [records |-> records, ingester |-> ingester] \in GoodMirrors

------------------------------------------------------------------------------
LEMMA CheckpointType ==
    ASSUME NEW r \in Round, NEW items \in Seq(Nat)
    PROVE  Checkpoint(r, items) \in [round : Round, records_root : Seq(Nat), roster_hash : Range(RosterAt),
                                     window_root : BOOLEAN, prev_checkpoint_hash : Int \X BOOLEAN]
<1>1. RosterAt[r] \in Range(RosterAt)
  BY RosterAssumption, Zenon DEF Range, Round
<1>2. (IF r = 1 THEN Zeros ELSE <<r - 1, TRUE>>) \in Int \X BOOLEAN
  <2>1. 0 \in Int /\ r - 1 \in Int /\ TRUE \in BOOLEAN /\ FALSE \in BOOLEAN
    BY DEF Round
  <2>2. <<0, FALSE>> \in Int \X BOOLEAN /\ <<r - 1, TRUE>> \in Int \X BOOLEAN
    BY <2>1, Zenon
  <2>3. QED BY <2>2, Zenon DEF Zeros
<1>3. QED BY <1>1, <1>2, Zenon DEF Checkpoint

\* The store takes the next round, or has it.
LEMMA StoreNext ==
    ASSUME WriterInv, NEW x \in GoodMirrors, NEW r \in DOMAIN rsf, Accepts(x.ingester, rsf[r])
    PROVE  \E n \in 0..MaxRound :
              /\ Mirrors([records |-> PutRecord(x.records, rsf[r]), ingester |-> x.ingester], n)
              /\ r \in 1..n
<1> DEFINE f == rsf[r]
<1>0. Written(r, f) /\ r \in Round /\ f \in RFile
  BY Zenon DEF WriterInv
<1>1. PICK n \in 0..MaxRound : Mirrors(x, n)
  BY Zenon DEF GoodMirrors
<1>2. /\ f.start_running_hash = x.ingester.lastRecordEnd
      /\ f.round = r /\ f.checkpoint = Checkpoint(r, f.items)
      /\ Checkpoint(r, f.items).prev_checkpoint_hash = x.ingester.expectedPrev
  BY <1>0, Zenon DEF Accepts, checkPrev, Written
<1>3. x.ingester.expectedPrev = IF r = 1 THEN Zeros ELSE <<r - 1, TRUE>>
  BY <1>2, Zenon DEF Checkpoint
<1> HIDE DEF f
<1>4. r \in Nat \ {0} /\ MaxRound \in Nat /\ n \in Nat
  BY <1>0, RosterAssumption DEF Round
<1>5. r \in 1..n+1 /\ f.start_running_hash = IF r = 1 THEN ChainSeed ELSE rsf[r-1].end_running_hash
  <2>1. CASE r = 1
    <3>1. x.ingester.expectedPrev = <<0, FALSE>>
      BY <1>3, <2>1, Zenon DEF Zeros
    <3>2. x.ingester.lastRecordEnd = ChainSeed
      <4>1. \A k \in 1..n, b \in BOOLEAN : <<k, b>>[1] # <<0, FALSE>>[1]
        BY <1>4
      <4>2. \A k \in 1..n : <<k, TRUE>> # <<0, FALSE>> /\ <<k, FALSE>> # <<0, FALSE>>
        BY <4>1, Zenon
      <4>3. QED BY <3>1, <4>2, <1>1, Zenon DEF Mirrors, Anchored
    <3>3. QED BY <1>2, <1>4, <2>1, <3>2
  <2>2. CASE r # 1
    <3>1. x.ingester.expectedPrev = <<r - 1, TRUE>>
      BY <1>3, <2>2, Zenon
    <3>2. PICK k \in 1..n : k = r - 1 /\ x.ingester.lastRecordEnd = rsf[k].end_running_hash
      BY <3>1, <1>1 DEF Mirrors, Anchored, Zeros
    <3>3. QED BY <1>2, <1>4, <2>2, <3>2
  <2>3. QED BY <2>1, <2>2, Zenon
<1>6. CASE r \in 1..n
  <2>1. PutRecord(x.records, f) = x.records
    BY <1>1, <1>2, <1>6, Zenon DEF PutRecord, Mirrors
  <2>2. Mirrors([records |-> x.records, ingester |-> x.ingester], n)
    BY <1>1, Zenon DEF Mirrors
  <2>3. QED BY <1>6, <2>1, <2>2, Zenon DEF f
<1>7. CASE r = n + 1
  <2>0. r \notin 1..n /\ DOMAIN x.records = 1..n
    BY <1>1, <1>4, <1>7 DEF Mirrors
  <2>1. PICK g \in RFile : /\ PutRecord(x.records, f) = Put(x.records, r, g)
                           /\ g.items = f.items /\ g.end_running_hash = f.end_running_hash
                           /\ g.checkpoint.round = r
    <3>0. f.checkpoint.round = r
      BY <1>2 DEF Checkpoint
    <3>1. CASE settings.backend = "mem"
      BY <3>0, <3>1, <1>0, <1>2, <2>0, Zenon DEF PutRecord
    <3>2. CASE settings.backend # "mem"
      <4>1. PutRecord(x.records, f) = Put(x.records, r, RecordRow(f))
        BY <3>2, <1>2, <2>0, Zenon DEF PutRecord
      <4>2. RecordRow(f) = [f EXCEPT !.checkpoint = [f.checkpoint EXCEPT !.window_root = FALSE]]
        BY Zenon DEF RecordRow
      <4>3. RecordRow(f) \in RFile /\ RecordRow(f).items = f.items
            /\ RecordRow(f).end_running_hash = f.end_running_hash /\ RecordRow(f).checkpoint.round = r
        <5>1. PICK c : c = [f.checkpoint EXCEPT !.window_root = FALSE]
          BY Zenon
        <5>2. RecordRow(f) = [f EXCEPT !.checkpoint = c] /\ f \in RFile
          BY <4>2, <5>1, <1>0, Zenon
        <5>3. c.round = r /\ c \in [round : Round, records_root : Seq(Nat), roster_hash : Range(RosterAt),
                                    window_root : BOOLEAN, prev_checkpoint_hash : Int \X BOOLEAN]
          <6>1. f.checkpoint \in [round : Round, records_root : Seq(Nat), roster_hash : Range(RosterAt),
                                  window_root : BOOLEAN, prev_checkpoint_hash : Int \X BOOLEAN]
            BY <5>2, Zenon DEF RFile
          <6>2. QED BY <5>1, <6>1, <3>0, Zenon
        <5>4. QED BY <5>2, <5>3, Zenon DEF RFile
      <4>4. QED BY <4>1, <4>3, Zenon
    <3>3. QED BY <3>1, <3>2, Zenon
  <2>2. PICK y : y = Put(x.records, r, g)
    BY Zenon
  <2>3. /\ y \in [1..r -> RFile] /\ y[r] = g /\ \A s \in 1..n : y[s] = x.records[s]
    <3>1. 1..r = (1..n) \cup {r}
      BY <1>4, <1>7
    <3>2. QED BY <2>0, <2>2, <3>1, <1>1, Zenon DEF Put, Mirrors
  <2>4. StoredAs(y[r], r)
    BY <2>1, <2>3, <1>5, <1>4, Zenon DEF StoredAs, Linked, f
  <2>5. \A s \in 1..r : s \in 1..n \/ s = r
    BY <1>4, <1>7
  <2>6. \A s \in 1..r : StoredAs(y[s], s)
    BY <2>3, <2>4, <2>5, <1>1, Zenon DEF Mirrors
  <2>7. Anchored(x.ingester, r)
    <3>1. 1..n \subseteq 1..r
      BY <1>4, <1>7
    <3>2. QED BY <3>1, <1>1, Zenon DEF Mirrors, Anchored
  <2>8. Mirrors([records |-> y, ingester |-> x.ingester], r)
    BY <2>3, <2>6, <2>7, Zenon DEF Mirrors
  <2>9. r \in 0..MaxRound /\ r \in 1..r
    BY <1>0, <1>4 DEF Round
  <2>10. QED BY <2>1, <2>2, <2>8, <2>9, Zenon DEF f
<1>8. QED BY <1>4, <1>5, <1>6, <1>7

\* A file of the stream goes through ingestRecord.
LEMMA IngestGood ==
    ASSUME WriterInv, NEW x \in GoodMirrors, NEW r \in DOMAIN rsf, NEW outcome
    PROVE  IngestRecord(x, rsf[r], outcome) \in GoodMirrors
<1>1. CASE ~Accepts(x.ingester, rsf[r])
  BY <1>1, Zenon DEF IngestRecord
<1>2. CASE Accepts(x.ingester, rsf[r])
  <2> DEFINE f == rsf[r]
             stored == PutRecord(x.records, f)
             moved == [seenRecords |-> x.ingester.seenRecords \cup {f.round},
                       lastRecordEnd |-> f.end_running_hash,
                       expectedPrev |-> CheckpointSigningBytesHash(f.checkpoint)]
  <2>1. PICK n \in 0..MaxRound : Mirrors([records |-> stored, ingester |-> x.ingester], n) /\ r \in 1..n
    BY <1>2, StoreNext, Zenon
  <2>2. x.ingester \in Ingester /\ x.records \in UNION {[1..k -> RFile] : k \in 0..MaxRound}
    BY Zenon DEF GoodMirrors, MirrorState
  <2>3. /\ f \in RFile /\ f.round = r /\ r \in Round
        /\ CheckpointSigningBytesHash(f.checkpoint) = <<r, TRUE>>
    <3>1. Written(r, f) /\ r \in Round
      BY Zenon DEF WriterInv
    <3>2. f.checkpoint.round = r /\ f.checkpoint.window_root = TRUE
      BY <3>1 DEF Written, Checkpoint
    <3>3. CheckpointSigningBytesHash(f.checkpoint) = <<r, TRUE>>
      BY <3>2, Zenon DEF CheckpointSigningBytesHash
    <3>4. QED BY <3>1, <3>3, Zenon DEF Written
  <2> HIDE DEF stored
  <2>4. moved \in Ingester /\ moved.expectedPrev = <<r, TRUE>> /\ moved.lastRecordEnd = rsf[r].end_running_hash
    <3>1. <<r, TRUE>> \in Int \X BOOLEAN
      <4>1. r \in Int /\ TRUE \in BOOLEAN
        BY <2>3 DEF Round
      <4>2. QED BY <4>1, Zenon
    <3>2. QED BY <2>2, <2>3, <3>1, Zenon DEF Ingester, RFile
  <2> HIDE DEF moved
  <2>5. stored \in [1..n -> RFile] /\ (\A s \in 1..n : StoredAs(stored[s], s)) /\ Anchored(x.ingester, n)
    BY <2>1, Zenon DEF Mirrors
  <2>6. stored \in UNION {[1..k -> RFile] : k \in 0..MaxRound}
    BY <2>5, Zenon
  <2>7. Anchored(moved, n)
    BY <2>1, <2>4, Zenon DEF Anchored
  <2>8. [records |-> stored, ingester |-> x.ingester] \in GoodMirrors
    <3>1. PICK y : y = [records |-> stored, ingester |-> x.ingester]
      BY Zenon
    <3>2. y \in MirrorState /\ Mirrors(y, n)
      BY <3>1, <2>1, <2>2, <2>6, Zenon DEF MirrorState
    <3>3. QED BY <3>1, <3>2, Zenon DEF GoodMirrors
  <2>9. [records |-> stored, ingester |-> moved] \in GoodMirrors
    <3>1. PICK y : y = [records |-> stored, ingester |-> moved]
      BY Zenon
    <3>2. y \in MirrorState /\ Mirrors(y, n)
      BY <3>1, <2>4, <2>5, <2>6, <2>7, Zenon DEF MirrorState, Mirrors
    <3>3. QED BY <3>1, <3>2, Zenon DEF GoodMirrors
  <2>10. CASE outcome = "error"
    <3>1. IngestRecord(x, rsf[r], outcome) = [records |-> x.records, ingester |-> x.ingester]
      BY <1>2, <2>10, Zenon DEF IngestRecord
    <3>2. x = [records |-> x.records, ingester |-> x.ingester]
      BY Zenon DEF GoodMirrors, MirrorState
    <3>3. QED BY <3>1, <3>2, Zenon
  <2>11. CASE outcome = "ok"
    <3>1. IngestRecord(x, rsf[r], outcome) = [records |-> stored, ingester |-> moved]
      BY <1>2, <2>11, Zenon DEF IngestRecord, stored, moved
    <3>2. QED BY <3>1, <2>9, Zenon
  <2>12. CASE outcome # "ok" /\ outcome # "error"
    <3>1. IngestRecord(x, rsf[r], outcome) = [records |-> stored, ingester |-> x.ingester]
      BY <1>2, <2>12, Zenon DEF IngestRecord, stored
    <3>2. QED BY <3>1, <2>8, Zenon
  <2>13. QED BY <2>10, <2>11, <2>12, Zenon
<1>3. QED BY <1>1, <1>2, Zenon

\* A poll of the mirror.
LEMMA PollGood ==
    ASSUME WriterInv, NEW x \in GoodMirrors, NEW files, NEW bad, NEW outcome,
           DOMAIN files \subseteq DOMAIN rsf, \A r \in DOMAIN files : files[r] = rsf[r]
    PROVE  IngestAll(x, files, bad, outcome) \in GoodMirrors
<1> DEFINE n == MaxRound
           X == GoodMirrors
           Step(i, y) == IF i \notin DOMAIN files THEN y
                         ELSE IF settings.source = "block"
                              THEN IngestRecordRemote(y, files[i], IF i = bad THEN outcome ELSE "ok")
                              ELSE IngestRecord(y, files[i], IF i = bad THEN outcome ELSE "ok")
<1>0. n \in Nat /\ x \in X
  BY RosterAssumption, Zenon
<1>1. \A i \in 1..n, y \in X : Step(i, y) \in X
  <2> TAKE i \in 1..n, y \in X
  <2>1. CASE i \notin DOMAIN files
    BY <2>1, Zenon
  <2>2. CASE i \in DOMAIN files
    <3>1. PICK o : o = IF i = bad THEN outcome ELSE "ok"
      BY Zenon
    <3>2. i \in DOMAIN rsf /\ files[i] = rsf[i]
      BY <2>2, Zenon
    <3>3. IngestRecord(y, files[i], o) \in X
      BY <3>2, IngestGood, Zenon
    <3>4. IngestRecordRemote(y, files[i], o) \in X
      BY <3>3, Zenon DEF IngestRecordRemote
    <3>5. QED BY <2>2, <3>1, <3>3, <3>4, Zenon
  <2>3. QED BY <2>1, <2>2, Zenon
<1> DEFINE Solves(g) == g = [i \in 0..n |-> IF i = 0 THEN x ELSE Step(i, g[i-1])]
           f == CHOOSE g : Solves(g)
<1>2. IngestAll(x, files, bad, outcome) = f[n]
  BY Zenon DEF IngestAll
<1> HIDE DEF n, X, Step
<1> DEFINE step == [i \in 1..n |-> [y \in X |-> Step(i, y)]]
<1>3. step \in StepsOf(X, n)
  BY <1>1, Zenon DEF StepsOf
<1>4. PICK g : g \in RunsOf(X, n, x, step)
  <2> HIDE DEF step
  <2>1. QED BY <1>0, <1>3, RunExists, Zenon
<1>5. g \in [0..n -> X] /\ g[0] = x /\ \A i \in 1..n : g[i] = Step(i, g[i-1])
  <2>1. g \in [0..n -> X] /\ g[0] = x /\ \A i \in 1..n : g[i] = step[i][g[i-1]]
    BY <1>4, Zenon DEF RunsOf
  <2>2. ASSUME NEW i \in 1..n PROVE g[i] = Step(i, g[i-1])
    <3>1. g[i-1] \in X
      BY <2>1, <1>0
    <3>2. step[i][g[i-1]] = Step(i, g[i-1])
      BY <3>1, Zenon
    <3>3. QED BY <2>1, <3>2, Zenon
  <2>3. QED BY <2>1, <2>2, Zenon
<1>6. Solves(g)
  <2>1. \A i \in 0..n : g[i] = IF i = 0 THEN x ELSE Step(i, g[i-1])
    BY <1>0, <1>5
  <2>2. QED BY <1>5, <2>1, Zenon
<1>7. Solves(f)
  BY <1>6, Zenon
<1> HIDE DEF f
<1>8. \A i \in 0..n : f[i] = IF i = 0 THEN x ELSE Step(i, f[i-1])
  BY <1>7, Zenon
<1>9. 0..n \subseteq {i \in 0..n : f[i] \in X}
  <2> DEFINE T == {i \in 0..n : f[i] \in X}
  <2>1. 0 \in T
    BY <1>0, <1>8
  <2>2. \A i \in 0..n-1 : i \in T => i + 1 \in T
    <3>1. ASSUME NEW i \in 0..n-1, i \in T PROVE i + 1 \in T
      <4>1. i + 1 \in 1..n /\ i + 1 \in 0..n /\ i + 1 # 0 /\ (i + 1) - 1 = i
        BY <1>0
      <4>2. f[i + 1] = Step(i + 1, f[i])
        BY <1>8, <4>1, Zenon
      <4>3. QED BY <1>1, <3>1, <4>1, <4>2, Zenon
    <3>2. QED BY <3>1, Zenon
  <2> HIDE DEF T
  <2>3. QED BY <1>0, <2>1, <2>2, UpTo, Zenon DEF T
<1>10. f[n] \in X
  BY <1>0, <1>9
<1>11. QED BY <1>2, <1>10, Zenon DEF X

------------------------------------------------------------------------------
\* A new file, and the mirror keeps what it stores.
LEMMA FileAdded ==
    ASSUME NEW x \in GoodMirrors, NEW k, NEW f, k \notin DOMAIN rsf, rsf' = Put(rsf, k, f)
    PROVE  x \in GoodMirrors'
<1>1. DOMAIN rsf' = DOMAIN rsf \cup {k} /\ \A r \in DOMAIN rsf : rsf'[r] = rsf[r]
  BY Zenon DEF Put
<1>2. PICK n \in 0..MaxRound : Mirrors(x, n)
  BY Zenon DEF GoodMirrors
<1>3. \A r \in 1..n : r \in DOMAIN rsf /\ rsf'[r] = rsf[r] /\ r \in DOMAIN rsf'
  BY <1>1, <1>2, Zenon DEF Mirrors, StoredAs
<1>4. ASSUME NEW r \in 1..n PROVE StoredAs(x.records[r], r)'
  <2>1. StoredAs(x.records[r], r)
    BY <1>2, Zenon DEF Mirrors
  <2>2. r # 1 => r - 1 \in 1..n
    OBVIOUS
  <2>3. Linked(r)'
    BY <1>3, <2>1, <2>2, Zenon DEF StoredAs, Linked
  <2>4. QED BY <1>3, <2>1, <2>3, Zenon DEF StoredAs
<1>5. Anchored(x.ingester, n)'
  BY <1>2, <1>3, Zenon DEF Mirrors, Anchored
<1>6. Mirrors(x, n)'
  BY <1>2, <1>4, <1>5, Zenon DEF Mirrors
<1>7. QED BY <1>6, Zenon DEF GoodMirrors, MirrorState

\* The files stay as they are.
LEMMA FilesSame ==
    ASSUME rsf' = rsf PROVE GoodMirrors' = GoodMirrors
BY DEF GoodMirrors, MirrorState, Mirrors, StoredAs, Linked, Anchored

\* A mirror that begins at the seed.
LEMMA FreshGood ==
    ASSUME NEW recs, NEW n \in 0..MaxRound, recs \in [1..n -> RFile],
           \A r \in 1..n : StoredAs(recs[r], r)
    PROVE  [records |-> recs, ingester |-> Fresh] \in GoodMirrors
<1>1. Fresh \in Ingester /\ Fresh.expectedPrev = Zeros /\ Fresh.lastRecordEnd = ChainSeed
  <2>1. <<0, FALSE>> \in Int \X BOOLEAN
    <3>1. 0 \in Int /\ FALSE \in BOOLEAN
      OBVIOUS
    <3>2. QED BY <3>1, Zenon
  <2>2. ChainSeed \in Seq(Nat)
    BY DEF ChainSeed
  <2>3. QED BY <2>1, <2>2, Zenon DEF Fresh, Ingester, Zeros
<1>2. PICK y : y = [records |-> recs, ingester |-> Fresh]
  BY Zenon
<1>3. y \in MirrorState
  BY <1>1, <1>2, Zenon DEF MirrorState
<1>4. Mirrors(y, n)
  BY <1>1, <1>2, Zenon DEF Mirrors, Anchored
<1>5. QED BY <1>2, <1>3, <1>4, Zenon DEF GoodMirrors

\* Nothing is stored.
LEMMA EmptyGood == [records |-> <<>>, ingester |-> Fresh] \in GoodMirrors
<1>1. 0 \in 0..MaxRound /\ 1..0 = {}
  BY RosterAssumption
<1>2. <<>> \in [1..0 -> RFile]
  BY <1>1
<1>3. PICK recs : recs = <<>>
  BY Zenon
<1>4. [records |-> recs, ingester |-> Fresh] \in GoodMirrors
  BY <1>1, <1>2, <1>3, FreshGood, Zenon
<1>5. QED BY <1>3, <1>4, Zenon

LEMMA RecordInvInit == RecordInit => RecordInv
<1> SUFFICES ASSUME RecordInit PROVE RecordInv
  BY Zenon
<1>1. [records |-> records, ingester |-> ingester] \in GoodMirrors
  BY EmptyGood, Zenon DEF RecordInit
<1>2. WriterInv
  <2>1. rsf = <<>> /\ blocks = <<>> /\ queue = <<>> /\ submitted = {} /\ running_hash = <<>>
    BY Zenon DEF RecordInit, ChainSeed
  <2>2. DOMAIN rsf = {} /\ DOMAIN blocks = {} /\ DOMAIN queue = {}
    BY <2>1
  <2>3. rsf \in [DOMAIN rsf -> RFile]
    BY <2>1, <2>2
  <2>4. queue \in Seq([round : Round, items : Seq(Nat)]) /\ running_hash \in Seq(Nat)
    BY <2>1
  <2>5. QED BY <2>1, <2>2, <2>3, <2>4, Zenon DEF WriterInv
<1>3. QED BY <1>1, <1>2, Zenon DEF RecordInv

\* The file of highest round.
LEMMA HighestFile ==
    ASSUME NEW files, NEW S, files \in [DOMAIN files -> S], DOMAIN files \subseteq Nat,
           NEW b \in Nat, DOMAIN files \subseteq 0..b, files # <<>>
    PROVE  Max(DOMAIN files) \in DOMAIN files /\ files[Max(DOMAIN files)] \in S
<1>1. DOMAIN files # {}
  <2>1. SUFFICES ASSUME DOMAIN files = {} PROVE files = <<>>
    BY Zenon
  <2>2. QED BY <2>1
<1>2. Max(DOMAIN files) \in DOMAIN files
  BY <1>1, MaxOf, Zenon
<1>3. QED BY <1>2, Zenon

\* A message leaves the channel of the writer.
LEMMA Taken ==
    ASSUME NEW S, NEW q \in Seq(S), q # <<>>
    PROVE  /\ Tail(q) \in Seq(S) /\ Head(q) \in S /\ Head(q) = q[1] /\ 1 \in DOMAIN q
           /\ \A i \in DOMAIN Tail(q) : i + 1 \in DOMAIN q /\ i + 1 # 1 /\ Tail(q)[i] = q[i + 1]
<1>1. Len(q) \in Nat \ {0} /\ DOMAIN q = 1..Len(q)
  OBVIOUS
<1>2. Tail(q) \in Seq(S) /\ Len(Tail(q)) = Len(q) - 1 /\ \A i \in 1..Len(q) - 1 : Tail(q)[i] = q[i + 1]
  BY <1>1
<1>3. QED BY <1>1, <1>2

\* The writer, with a round that is queued, written, or lost.
LEMMA SubmitGood ==
    ASSUME WriterInv, NEW r \in Round, NEW items \in Seq(Nat), Submit(r, items)
    PROVE  WriterInv'
<1> DEFINE m == [round |-> r, items |-> items]
<1>1. /\ submitted' = submitted \cup {r} /\ queue' = Append(queue, m) /\ r \notin submitted
      /\ UNCHANGED <<running_hash, rsf, blocks>>
  BY Zenon DEF Submit
<1>2. m \in [round : Round, items : Seq(Nat)] /\ m.round = r
  BY Zenon
<1> HIDE DEF m
<1>3. queue \in Seq([round : Round, items : Seq(Nat)])
  BY Zenon DEF WriterInv
<1>4. /\ queue' \in Seq([round : Round, items : Seq(Nat)])
      /\ DOMAIN queue' = 1..Len(queue) + 1 /\ Len(queue) \in Nat /\ DOMAIN queue = 1..Len(queue)
      /\ queue'[Len(queue) + 1] = m /\ \A i \in 1..Len(queue) : queue'[i] = queue[i]
  BY <1>1, <1>2, <1>3
<1>5. \A i \in DOMAIN queue' :
        \/ i \in DOMAIN queue /\ queue'[i] = queue[i]
        \/ i = Len(queue) + 1 /\ queue'[i] = m
  <2>1. \A i \in DOMAIN queue' : i \in 1..Len(queue) \/ i = Len(queue) + 1
    BY <1>4
  <2>2. ASSUME NEW i \in DOMAIN queue', i \in 1..Len(queue) PROVE i \in DOMAIN queue /\ queue'[i] = queue[i]
    BY <1>4, <2>2, Zenon
  <2>3. QED BY <1>4, <2>1, <2>2, Zenon
<1>6. r \notin DOMAIN rsf
  BY <1>1, Zenon DEF WriterInv
<1>7. \A i \in DOMAIN queue' : queue'[i].round \in submitted' /\ queue'[i].round \notin DOMAIN rsf
  BY <1>1, <1>2, <1>5, <1>6, Zenon DEF WriterInv
<1>8. \A i \in DOMAIN queue : queue[i].round # r
  BY <1>1, Zenon DEF WriterInv
<1>9. \A i, j \in DOMAIN queue' : queue'[i].round = queue'[j].round => i = j
  BY <1>2, <1>5, <1>8, Zenon DEF WriterInv
<1>10. QED BY <1>1, <1>4, <1>7, <1>9, Zenon DEF WriterInv

LEMMA WriteGood ==
    ASSUME RecordInv, NEW outcome, WriteRecord(outcome)
    PROVE  RecordInv'
<1> DEFINE m == Head(queue)
           x == [records |-> records, ingester |-> ingester]
<1>0. /\ WriterInv /\ x \in GoodMirrors /\ queue # <<>>
      /\ queue' = Tail(queue) /\ UNCHANGED <<submitted, blocks, records, ingester>>
      /\ queue \in Seq([round : Round, items : Seq(Nat)])
  BY Zenon DEF RecordInv, WriterInv, WriteRecord, mirror
<1>1. /\ queue' \in Seq([round : Round, items : Seq(Nat)])
      /\ m \in [round : Round, items : Seq(Nat)] /\ m = queue[1] /\ 1 \in DOMAIN queue
      /\ \A i \in DOMAIN queue' : i + 1 \in DOMAIN queue /\ i + 1 # 1 /\ queue'[i] = queue[i + 1]
  BY <1>0, Taken, Zenon
<1>2. \A i, j \in DOMAIN queue' : queue'[i].round = queue'[j].round => i = j
  <2>1. \A i, j \in DOMAIN queue' : queue'[i].round = queue'[j].round => i + 1 = j + 1
    BY <1>0, <1>1 DEF WriterInv
  <2>2. \A i \in DOMAIN queue' : i \in Int
    BY <1>1
  <2>3. \A i, j \in Int : i + 1 = j + 1 => i = j
    OBVIOUS
  <2>4. QED BY <2>1, <2>2, <2>3, Zenon
<1>3. \A i \in DOMAIN queue' : queue'[i].round \in submitted /\ queue'[i].round \notin DOMAIN rsf
                               /\ queue'[i].round # m.round
  BY <1>0, <1>1 DEF WriterInv
<1>4. m.round \in submitted /\ m.round \notin DOMAIN rsf /\ m.round \in Round /\ m.items \in Seq(Nat)
  BY <1>0, <1>1, Zenon DEF WriterInv
<1>5. ASSUME UNCHANGED <<rsf, running_hash>> PROVE RecordInv'
  <2>1. WriterInv'
    BY <1>0, <1>1, <1>2, <1>3, <1>5, Zenon DEF WriterInv, Written
  <2>2. x' = x /\ GoodMirrors' = GoodMirrors
    BY <1>0, <1>5, FilesSame, Zenon
  <2>3. QED BY <1>0, <2>1, <2>2, Zenon DEF RecordInv
<1>6. CASE m.round < next_round
  BY <1>5, <1>6, Zenon DEF WriteRecord
<1>7. CASE ~(m.round < next_round)
  <2>1. write_record_file(m.round, m.items, outcome)
    BY <1>7, Zenon DEF WriteRecord
  <2>2. CASE outcome = "failed"
    BY <1>5, <2>1, <2>2, Zenon DEF write_record_file, atomic_write
  <2>3. CASE outcome # "failed"
    <3> DEFINE f == RecordFile(m.round, m.items)
    <3>1. rsf' = Put(rsf, m.round, f) /\ running_hash' \in {running_hash, running_hash \o m.items}
      BY <2>1, <2>3, Zenon DEF write_record_file, atomic_write
    <3>2. running_hash \in Seq(Nat)
      BY <1>0, Zenon DEF WriterInv
    <3>3. running_hash \o m.items \in Seq(Nat) /\ running_hash' \in Seq(Nat)
      <4>1. \A a, b \in Seq(Nat) : a \o b \in Seq(Nat)
        OBVIOUS
      <4>2. running_hash \o m.items \in Seq(Nat)
        BY <1>4, <3>2, <4>1, Zenon
      <4>3. QED BY <3>1, <3>2, <4>2, Zenon
    <3>4. Written(m.round, f)
      <4>1. Checkpoint(m.round, m.items)
              \in [round : Round, records_root : Seq(Nat), roster_hash : Range(RosterAt),
                   window_root : BOOLEAN, prev_checkpoint_hash : Int \X BOOLEAN]
        BY <1>4, CheckpointType, Zenon
      <4>2. QED BY <4>1, <1>4, <3>2, <3>3, Zenon DEF Written, RecordFile, RFile
    <3> HIDE DEF f, m
    <3>5. /\ DOMAIN rsf' = DOMAIN rsf \cup {m.round} /\ rsf'[m.round] = f
          /\ \A r \in DOMAIN rsf : rsf'[r] = rsf[r]
      BY <1>4, <3>1, Zenon DEF Put
    <3>6. rsf' \in [DOMAIN rsf' -> RFile]
      <4>1. rsf \in [DOMAIN rsf -> RFile] /\ f \in RFile
        BY <1>0, <3>4, Zenon DEF WriterInv, Written
      <4>2. QED BY <3>1, <4>1, Zenon DEF Put
    <3>7. \A r \in DOMAIN rsf' : Written(r, rsf'[r])
      BY <1>0, <3>4, <3>5, Zenon DEF WriterInv
    <3>8. WriterInv'
      <4>1. \A r \in DOMAIN rsf' : Written(r, rsf[r])'
        BY <3>7, Zenon DEF Written
      <4>2. \A i \in DOMAIN queue' : queue'[i].round \in submitted' /\ queue'[i].round \notin DOMAIN rsf'
        BY <1>0, <1>3, <3>5, Zenon
      <4>3. submitted' \subseteq Round /\ DOMAIN rsf' \subseteq submitted'
        BY <1>0, <1>4, <3>5, Zenon DEF WriterInv
      <4>4. DOMAIN blocks' \subseteq DOMAIN rsf' /\ \A r \in DOMAIN blocks' : blocks'[r] = rsf'[r]
        BY <1>0, <3>5, Zenon DEF WriterInv
      <4>5. QED BY <1>1, <1>2, <3>3, <3>6, <4>1, <4>2, <4>3, <4>4, Zenon DEF WriterInv
    <3>9. x \in GoodMirrors'
      BY <1>0, <1>4, <3>1, FileAdded, Zenon
    <3>10. x' = x
      BY <1>0, Zenon
    <3>11. QED BY <3>8, <3>9, <3>10, Zenon DEF RecordInv
  <2>4. QED BY <2>2, <2>3, Zenon
<1>8. QED BY <1>6, <1>7, Zenon

\* The seed of the anchors is the highest stored round.
LEMMA SeededGood ==
    ASSUME NEW x \in GoodMirrors
    PROVE  /\ [records |-> x.records, ingester |-> seedFromStore(x.records)] \in GoodMirrors
           /\ [records |-> x.records, ingester |-> Fresh] \in GoodMirrors
<1>1. PICK n \in 0..MaxRound : Mirrors(x, n)
  BY Zenon DEF GoodMirrors
<1> DEFINE recs == x.records
<1>2. recs \in [1..n -> RFile] /\ \A r \in 1..n : StoredAs(recs[r], r)
  BY <1>1, Zenon DEF Mirrors
<1> HIDE DEF recs
<1>3. [records |-> recs, ingester |-> Fresh] \in GoodMirrors
  BY <1>2, FreshGood, Zenon
<1>4. CASE recs = <<>>
  BY <1>3, <1>4, Zenon DEF seedFromStore, recs
<1>5. CASE recs # <<>>
  <2>1. n \in Nat /\ MaxRound \in Nat /\ DOMAIN recs = 1..n /\ 1..n \subseteq Nat /\ 1..n \subseteq 0..n
    BY <1>2, RosterAssumption
  <2>2. Max(DOMAIN recs) \in DOMAIN recs /\ recs[Max(DOMAIN recs)] \in RFile
    BY <1>2, <1>5, <2>1, HighestFile, Zenon
  <2>3. PICK k \in 1..n : k = Max(DOMAIN recs)
    BY <2>1, <2>2, Zenon
  <2>4. PICK b \in BOOLEAN : b = recs[k].checkpoint.window_root
    BY <1>2, Zenon DEF RFile
  <2>5. /\ recs[k].checkpoint.round = k /\ recs[k].end_running_hash = rsf[k].end_running_hash
        /\ recs[k].end_running_hash \in Seq(Nat)
    BY <1>2, Zenon DEF StoredAs, RFile
  <2>6. PICK s : s = [seenRecords |-> 1..n, lastRecordEnd |-> recs[k].end_running_hash, expectedPrev |-> <<k, b>>]
    BY Zenon
  <2>7. seedFromStore(recs) = s
    <3>1. CheckpointSigningBytesHash(recs[k].checkpoint) = <<k, b>>
      BY <2>4, <2>5, Zenon DEF CheckpointSigningBytesHash
    <3>2. QED BY <1>5, <2>1, <2>3, <2>6, <3>1, Zenon DEF seedFromStore
  <2>8. s \in Ingester
    <3>1. <<k, b>> \in Int \X BOOLEAN
      <4>1. k \in Int
        BY <2>1
      <4>2. QED BY <4>1, Zenon
    <3>2. 1..n \subseteq Round
      BY <2>1 DEF Round
    <3>3. QED BY <2>5, <2>6, <3>1, <3>2, Zenon DEF Ingester
  <2>9. Anchored(s, n)
    <3>1. s.expectedPrev = <<k, b>> /\ s.lastRecordEnd = rsf[k].end_running_hash
      BY <2>5, <2>6, Zenon
    <3>2. b = TRUE \/ b = FALSE
      BY Zenon
    <3>3. QED BY <3>1, <3>2, Zenon DEF Anchored
  <2>10. PICK y : y = [records |-> recs, ingester |-> s]
    BY Zenon
  <2>11. y \in MirrorState /\ Mirrors(y, n)
    BY <1>2, <2>8, <2>9, <2>10, Zenon DEF MirrorState, Mirrors
  <2>12. y \in GoodMirrors
    BY <2>11, Zenon DEF GoodMirrors
  <2>13. QED BY <1>3, <2>7, <2>10, <2>12, Zenon DEF recs
<1>6. QED BY <1>4, <1>5, Zenon

\* What the mirror stores moves, and the node stays.
LEMMA MirrorMoves ==
    ASSUME WriterInv, UNCHANGED <<writer, rsf, blocks>>, NEW y, y \in GoodMirrors,
           records' = y.records, ingester' = y.ingester
    PROVE  RecordInv'
<1>1. WriterInv'
  BY Zenon DEF WriterInv, Written, writer
<1>2. y = [records |-> y.records, ingester |-> y.ingester]
  BY Zenon DEF GoodMirrors, MirrorState
<1>3. GoodMirrors' = GoodMirrors
  BY FilesSame, Zenon
<1>4. QED BY <1>1, <1>2, <1>3, Zenon DEF RecordInv

\* The inductive step for the record stream.
LEMMA RecordInvStep ==
    ASSUME RecordInv, RecordNext \/ UNCHANGED recordVars
    PROVE  RecordInv'
<1> DEFINE x == [records |-> records, ingester |-> ingester]
<1>0. WriterInv /\ x \in GoodMirrors /\ x.records = records /\ x.ingester = ingester
  BY Zenon DEF RecordInv
<1>1. CASE UNCHANGED recordVars
  BY <1>0, <1>1, MirrorMoves, Zenon DEF recordVars, mirror
<1>2. ASSUME NEW r \in 1..MaxRound, Submit(r, <<>>) \/ Submit(r, <<r>>) PROVE RecordInv'
  <2>1. <<>> \in Seq(Nat) /\ <<r>> \in Seq(Nat) /\ r \in Round
    BY DEF Round
  <2>2. WriterInv'
    BY <1>0, <1>2, <2>1, SubmitGood, Zenon
  <2>3. x' = x /\ rsf' = rsf
    BY <1>2, Zenon DEF Submit, mirror
  <2>4. QED BY <1>0, <2>2, <2>3, FilesSame, Zenon DEF RecordInv
<1>3. ASSUME NEW r \in 1..MaxRound, Push(r) PROVE RecordInv'
  <2>1. blocks' = Put(blocks, r, rsf[r]) /\ r \in DOMAIN rsf /\ UNCHANGED <<writer, rsf, mirror>>
    BY <1>3, Zenon DEF Push, handlePut
  <2>2. DOMAIN blocks' \subseteq DOMAIN rsf /\ \A s \in DOMAIN blocks' : blocks'[s] = rsf[s]
    BY <1>0, <2>1, Zenon DEF Put, WriterInv
  <2>3. WriterInv'
    BY <1>0, <2>1, <2>2, Zenon DEF WriterInv, Written, writer
  <2>4. x' = x
    BY <2>1, Zenon DEF mirror
  <2>5. QED BY <1>0, <2>1, <2>3, <2>4, FilesSame, Zenon DEF RecordInv
<1>4. ASSUME NEW outcome, WriteRecord(outcome) PROVE RecordInv'
  BY <1>4, WriteGood, Zenon
<1>5. CASE Crash
  <2>1. queue' = <<>> /\ running_hash' = resume_record(rsf)[2] /\ UNCHANGED <<submitted, rsf, blocks, mirror>>
    BY <1>5, Zenon DEF Crash
  <2>2. running_hash' \in Seq(Nat)
    <3>1. CASE rsf = <<>>
      BY <2>1, <3>1 DEF resume_record, ChainSeed
    <3>2. CASE rsf # <<>>
      <4>1. /\ MaxRound \in Nat /\ DOMAIN rsf \subseteq Nat /\ DOMAIN rsf \subseteq 0..MaxRound
            /\ rsf \in [DOMAIN rsf -> RFile]
        BY <1>0, RosterAssumption DEF WriterInv, Round
      <4>2. rsf[Max(DOMAIN rsf)] \in RFile
        BY <3>2, <4>1, HighestFile, Zenon
      <4>3. running_hash' = rsf[Max(DOMAIN rsf)].end_running_hash
        BY <2>1, <3>2, Zenon DEF resume_record
      <4>4. QED BY <4>2, <4>3, Zenon DEF RFile
    <3>3. QED BY <3>1, <3>2, Zenon
  <2>3. DOMAIN queue' = {} /\ queue' \in Seq([round : Round, items : Seq(Nat)])
    BY <2>1
  <2>4. WriterInv'
    BY <1>0, <2>1, <2>2, <2>3, Zenon DEF WriterInv, Written
  <2>5. x' = x
    BY <2>1, Zenon DEF mirror
  <2>6. QED BY <1>0, <2>1, <2>4, <2>5, FilesSame, Zenon DEF RecordInv
<1>6. ASSUME NEW bad, NEW outcome, RunOnce(bad, outcome) \/ RunOnceRemote(bad, outcome) PROVE RecordInv'
  <2>1. PICK files \in {rsf, blocks} : Ingested(IngestAll(x, files, bad, outcome))
    BY <1>6, Zenon DEF RunOnce, RunOnceRemote
  <2>2. DOMAIN files \subseteq DOMAIN rsf /\ \A r \in DOMAIN files : files[r] = rsf[r]
    BY <1>0, <2>1, Zenon DEF WriterInv
  <2> HIDE DEF x
  <2>3. PICK y : y = IngestAll(x, files, bad, outcome)
    BY Zenon
  <2>4. y \in GoodMirrors
    BY <1>0, <2>2, <2>3, PollGood, Zenon
  <2>5. records' = y.records /\ ingester' = y.ingester /\ UNCHANGED <<writer, rsf, blocks>>
    BY <2>1, <2>3, Zenon DEF Ingested
  <2>6. QED BY <1>0, <2>4, <2>5, MirrorMoves, Zenon
<1>7. ASSUME NEW listed \in BOOLEAN, settings.backend = "mem" => listed, Restart(listed) PROVE RecordInv'
  <2>1. UNCHANGED <<writer, rsf, blocks>>
    BY <1>7, Zenon DEF Restart
  <2>2. CASE settings.backend = "mem"
    <3>1. records' = <<>> /\ ingester' = Fresh
      BY <1>7, <2>2, Zenon DEF Restart, seedFromStore
    <3>2. PICK y : y = [records |-> <<>>, ingester |-> Fresh]
      BY Zenon
    <3>3. QED BY <1>0, <2>1, <3>1, <3>2, EmptyGood, MirrorMoves
  <2>3. CASE settings.backend # "mem"
    <3>1. records' = records /\ ingester' \in {seedFromStore(records), Fresh}
      BY <1>7, <2>3, Zenon DEF Restart
    <3>2. PICK y : y = [records |-> records, ingester |-> ingester']
      BY Zenon
    <3>3. y \in GoodMirrors
      <4> HIDE DEF x
      <4>1. /\ [records |-> x.records, ingester |-> seedFromStore(x.records)] \in GoodMirrors
            /\ [records |-> x.records, ingester |-> Fresh] \in GoodMirrors
        BY <1>0, SeededGood, Zenon
      <4>2. QED BY <1>0, <3>1, <3>2, <4>1, Zenon
    <3>4. QED BY <1>0, <2>1, <3>1, <3>2, <3>3, MirrorMoves
  <2>4. QED BY <2>2, <2>3, Zenon
<1>8. QED BY <1>1, <1>2, <1>3, <1>4, <1>5, <1>6, <1>7, Zenon DEF RecordNext, PollOk

\* The least and the greatest of the first n numbers.
LEMMA FirstNumbers ==
    ASSUME NEW n \in Nat \ {0}
    PROVE  Min(1..n) = 1 /\ Max(1..n) = n
<1>1. \E x \in 1..n : \A y \in 1..n : x <= y
  OBVIOUS
<1>2. \E x \in 1..n : \A y \in 1..n : x >= y
  OBVIOUS
<1>3. Min(1..n) \in 1..n /\ \A y \in 1..n : Min(1..n) <= y
  BY <1>1, Zenon DEF Min
<1>4. Max(1..n) \in 1..n /\ \A y \in 1..n : Max(1..n) >= y
  BY <1>2, Zenon DEF Max
<1>5. QED BY <1>3, <1>4

LEMMA RecordsArePrefix == RecordInv => MirrorsPrefix
<1> SUFFICES ASSUME RecordInv PROVE MirrorsPrefix
  BY Zenon
<1>1. PICK n \in 0..MaxRound : Mirrors([records |-> records, ingester |-> ingester], n)
  BY Zenon DEF RecordInv, GoodMirrors
<1>2. n \in Nat /\ records \in [1..n -> RFile] /\ \A r \in 1..n : StoredAs(records[r], r)
  BY <1>1, RosterAssumption DEF Mirrors
<1>3. DOMAIN records = 1..n
  BY <1>2, Zenon
<1>4. \A r \in 1..n : /\ r \in DOMAIN rsf /\ Linked(r) /\ Written(r, rsf[r])
                     /\ records[r].items = rsf[r].items
  BY <1>2, Zenon DEF StoredAs, RecordInv, WriterInv
<1>5. ASSUME n > 0 PROVE verify_record_stream_dir([r \in 1..n |-> rsf[r]])
  <2> DEFINE dir == [r \in 1..n |-> rsf[r]]
  <2>1. DOMAIN dir = 1..n /\ \A r \in 1..n : dir[r] = rsf[r]
    BY Zenon
  <2> HIDE DEF dir
  <2>2. 1 \in 1..n /\ Min(1..n) = 1
    BY <1>2, <1>5, FirstNumbers
  <2>3. ASSUME NEW r \in 1..n PROVE check_chain_link(dir, r)
    <3> DEFINE before == {m \in DOMAIN dir : m < r}
    <3>1. before = 1..r-1
      BY <1>2, <2>1
    <3>2. CASE r = 1
      <4>1. before = {}
        BY <3>1, <3>2
      <4>2. rsf[r].start_running_hash = ChainSeed
        BY <1>4, <3>2, Zenon DEF Linked
      <4>3. QED BY <2>1, <4>1, <4>2, Zenon DEF check_chain_link
    <3>3. CASE r # 1
      <4>1. r - 1 \in Nat \ {0} /\ r - 1 \in 1..n
        BY <1>2, <3>3
      <4>2. before # {} /\ Max(before) = r - 1
        <5>1. Max(1..r-1) = r - 1
          BY <4>1, FirstNumbers, Zenon
        <5>2. 1 \in before
          BY <3>1, <4>1
        <5>3. QED BY <3>1, <5>1, <5>2, Zenon
      <4>3. rsf[r].start_running_hash = rsf[r-1].end_running_hash
        BY <1>4, <3>3, Zenon DEF Linked
      <4>4. QED BY <2>1, <4>1, <4>2, <4>3, Zenon DEF check_chain_link
    <3>4. QED BY <3>2, <3>3, Zenon
  <2>4. ASSUME NEW r \in 1..n PROVE verify_item_chain(dir[r]) /\ verify_checkpoint_binding_set(dir[r])
    <3>1. Written(r, rsf[r])
      BY <1>4, Zenon
    <3>2. /\ rsf[r].end_running_hash = rsf[r].start_running_hash \o rsf[r].items
          /\ rsf[r].checkpoint.records_root = rsf[r].items
      BY <3>1 DEF Written, Checkpoint
    <3>3. dir[r] = rsf[r]
      BY <2>1, Zenon
    <3>4. QED BY <3>2, <3>3, Zenon DEF verify_item_chain, verify_checkpoint_binding_set
  <2>5. \A r \in 1..n : r # 1 => r - 1 \in 1..n
    BY <1>2
  <2>6. verify_record_stream_dir(dir)
    BY <2>1, <2>2, <2>3, <2>4, <2>5, Zenon DEF verify_record_stream_dir
  <2>7. QED BY <2>6, Zenon DEF dir
<1>6. QED BY <1>3, <1>4, <1>5, Zenon DEF MirrorsPrefix

------------------------------------------------------------------------------
(* The event stream.                                                        *)

\* a is a prefix of b.
Begins(a, b) == Len(a) <= Len(b) /\ \A i \in 1..Len(a) : a[i] = b[i]

\* An event file.
EFile == [start_running_hash : Seq(Nat), items : Seq(Nat), end_running_hash : Seq(Nat)]

\* The running hash after the first n files.
EndOf(n) == IF n = 0 THEN <<>> ELSE esf[n-1].end_running_hash

\* There are k files, each with events, and each goes on from the one before.
FilesInv(k) ==
    /\ esf \in [0..k-1 -> EFile]
    /\ \A n \in 0..k-1 : /\ esf[n].start_running_hash = EndOf(n)
                         /\ esf[n].end_running_hash = esf[n].start_running_hash \o esf[n].items
                         /\ esf[n].items # <<>>

\* The writer is about to write the next file, or, after a write that reported
\* an error though the file is there, to write the last one again.
WriterAt(k) ==
    /\ state \in [next_index : Nat, file_start_hash : Seq(Nat), buffer : Seq(Nat)]
    /\ pc \in {"recv", "signature", "file"} /\ faults \in Nat
    /\ pc # "recv" => state.buffer # <<>>
    /\ \/ state.next_index = k /\ state.file_start_hash = EndOf(k)
       \/ /\ faults # 0 /\ k > 0 /\ state.next_index = k - 1
          /\ state.file_start_hash = esf[k-1].start_running_hash
          /\ Begins(esf[k-1].items, state.buffer)

\* What the writer has taken.
Line == state.file_start_hash \o state.buffer

\* The events come in the order they were inserted; and until a crash, all: of
\* the a events inserted so far, those in the line and those in the channel q.
InOrder(line, q, a, n) ==
    /\ line \in Seq(Nat) /\ q \in Seq(Nat) /\ a \in Nat /\ a <= MaxEvents /\ n \in Nat
    /\ \A i \in DOMAIN line : line[i] \in 1..a
    /\ \A i, j \in DOMAIN line : i < j => line[i] < line[j]
    /\ \A i \in DOMAIN q : q[i] <= a
    /\ \A i, j \in DOMAIN q : i < j /\ q[i] # 0 /\ q[j] # 0 => q[i] < q[j]
    /\ \A i \in DOMAIN q, j \in DOMAIN line : q[i] # 0 => line[j] < q[i]
    /\ n = 0 => /\ \A i \in DOMAIN line : line[i] = i
                /\ \A v \in Len(line)+1..a : \E i \in DOMAIN q : q[i] = v

LineInv == InOrder(Line, channel, appended, crashes)

\* The signatures: there before their files; and the right ones, if no write failed.
SignaturesInv(k) ==
    /\ 0..k-1 \subseteq DOMAIN esf_sig
    /\ pc = "file" => state.next_index \in DOMAIN esf_sig
    /\ faults = 0 => /\ \A n \in 0..k-1 : esf_sig[n].signed = esf[n]
                     /\ pc = "file" => esf_sig[state.next_index].signed = EventFile

\* What is or was file n.
CopyOf(g, n) ==
    /\ g \in EFile /\ g.end_running_hash = g.start_running_hash \o g.items
    /\ g.start_running_hash = esf[n].start_running_hash /\ Begins(g.items, esf[n].items)

BlocksInv ==
    /\ DOMAIN block_esf \subseteq DOMAIN esf
    /\ \A n \in DOMAIN block_esf : CopyOf(block_esf[n], n)

\* The mirror stores the first events, at least those before its anchor.
GoodStores(k) ==
    {x \in [events : Seq(Nat), ingester : [seenEvents : SUBSET Nat, lastEventEnd : Seq(Nat)]] :
        Begins(x.ingester.lastEventEnd, x.events) /\ Begins(x.events, EndOf(k))}

EventsInv(k) ==
    /\ FilesInv(k) /\ WriterAt(k) /\ LineInv /\ SignaturesInv(k) /\ BlocksInv
    /\ [events |-> events, ingester |-> eventIngester] \in GoodStores(k)

\* The inductive invariant for the event stream.
EventInv == \E k \in Nat : EventsInv(k)

\* Prefixes.
LEMMA Concat ==
    ASSUME NEW a \in Seq(Nat), NEW b \in Seq(Nat)
    PROVE  /\ a \o b \in Seq(Nat) /\ Len(a \o b) = Len(a) + Len(b)
           /\ \A i \in 1..Len(a) : (a \o b)[i] = a[i]
           /\ \A i \in 1..Len(b) : (a \o b)[Len(a) + i] = b[i]
OBVIOUS

LEMMA SameSeq ==
    ASSUME NEW a \in Seq(Nat), NEW b \in Seq(Nat), Len(a) = Len(b), \A i \in 1..Len(a) : a[i] = b[i]
    PROVE  a = b
BY SMTT(20)

LEMMA EmptySeq == <<>> \in Seq(Nat) /\ Len(<<>>) = 0 /\ \A a \in Seq(Nat) : a \o <<>> = a
<1>1. <<>> \in Seq(Nat) /\ Len(<<>>) = 0
  OBVIOUS
<1>2. ASSUME NEW a \in Seq(Nat) PROVE a \o <<>> = a
  OBVIOUS
<1>3. QED BY <1>1, <1>2, Zenon

LEMMA BeginsFacts ==
    ASSUME NEW a \in Seq(Nat), NEW b \in Seq(Nat), NEW c \in Seq(Nat)
    PROVE  /\ Begins(a, a) /\ Begins(<<>>, a) /\ Begins(a, a \o b)
           /\ Begins(a, b) /\ Begins(b, c) => Begins(a, c)
           /\ Begins(b, c) => Begins(a \o b, a \o c)
           /\ Begins(a, b) /\ Len(a) = Len(b) => a = b
<1>0. Len(a) \in Nat /\ Len(b) \in Nat /\ Len(c) \in Nat
  OBVIOUS
<1>1. Begins(a, a) /\ Begins(<<>>, a)
  BY <1>0 DEF Begins
<1>2. Begins(a, a \o b)
  BY <1>0, Concat DEF Begins
<1>3. ASSUME Begins(a, b), Begins(b, c) PROVE Begins(a, c)
  BY <1>0, <1>3 DEF Begins
<1>4. ASSUME Begins(b, c) PROVE Begins(a \o b, a \o c)
  <2>0. \A p, q \in Seq(Nat) : \E u \in Seq(Nat) :
           /\ u = p \o q /\ Len(u) = Len(p) + Len(q)
           /\ \A i \in 1..Len(p) : u[i] = p[i]
           /\ \A i \in 1..Len(q) : u[Len(p) + i] = q[i]
    <3> TAKE p, q \in Seq(Nat)
    <3>1. /\ p \o q \in Seq(Nat) /\ Len(p \o q) = Len(p) + Len(q)
          /\ \A i \in 1..Len(p) : (p \o q)[i] = p[i]
          /\ \A i \in 1..Len(q) : (p \o q)[Len(p) + i] = q[i]
      BY Concat, Zenon
    <3>2. QED BY <3>1, Zenon
  <2>1. PICK u \in Seq(Nat) : /\ u = a \o b /\ Len(u) = Len(a) + Len(b)
                              /\ \A i \in 1..Len(a) : u[i] = a[i]
                              /\ \A i \in 1..Len(b) : u[Len(a) + i] = b[i]
    BY <2>0, Zenon
  <2>2. PICK v \in Seq(Nat) : /\ v = a \o c /\ Len(v) = Len(a) + Len(c)
                              /\ \A i \in 1..Len(a) : v[i] = a[i]
                              /\ \A i \in 1..Len(c) : v[Len(a) + i] = c[i]
    BY <2>0, Zenon
  <2>3. Len(b) <= Len(c) /\ \A i \in 1..Len(b) : b[i] = c[i] /\ i \in 1..Len(c)
    BY <1>0, <1>4 DEF Begins
  <2>4. ASSUME NEW i \in 1..Len(u) PROVE u[i] = v[i]
    <3>1. CASE i \in 1..Len(a)
      BY <2>1, <2>2, <3>1, Zenon
    <3>2. CASE i \notin 1..Len(a)
      <4>1. i - Len(a) \in 1..Len(b) /\ Len(a) + (i - Len(a)) = i
        BY <1>0, <2>1, <3>2
      <4>2. PICK j \in 1..Len(b) : Len(a) + j = i
        BY <4>1, Zenon
      <4>3. QED BY <2>1, <2>2, <2>3, <4>2, Zenon
    <3>3. QED BY <3>1, <3>2, Zenon
  <2>5. Len(u) <= Len(v)
    BY <1>0, <2>1, <2>2, <2>3
  <2>6. QED BY <2>1, <2>2, <2>4, <2>5, Zenon DEF Begins
<1>5. ASSUME Begins(a, b), Len(a) = Len(b) PROVE a = b
  BY <1>5, SameSeq, Zenon DEF Begins
<1>6. QED BY <1>1, <1>2, <1>3, <1>4, <1>5, Zenon

LEMMA BeginsOn ==
    ASSUME NEW a \in Seq(Nat), NEW b \in Seq(Nat), NEW c \in Seq(Nat), Begins(a, b), Begins(b, c)
    PROVE  Begins(a, c)
BY BeginsFacts, Zenon

\* The running hashes of the files, one longer than the other.
LEMMA Ends ==
    ASSUME NEW k \in Nat, FilesInv(k)
    PROVE  /\ \A n \in 0..k : EndOf(n) \in Seq(Nat) /\ Len(EndOf(n)) >= n
           /\ \A n \in 0..k-1 : /\ EndOf(n + 1) = EndOf(n) \o esf[n].items
                                /\ esf[n].items \in Seq(Nat) /\ esf[n].items # <<>>
           /\ \A n \in 0..k : Begins(EndOf(n), EndOf(k))
<1>1. ASSUME NEW n \in 0..k-1
      PROVE  /\ EndOf(n + 1) = EndOf(n) \o esf[n].items /\ EndOf(n + 1) \in Seq(Nat)
             /\ esf[n].items \in Seq(Nat) /\ esf[n].items # <<>>
  <2>1. n + 1 # 0 /\ (n + 1) - 1 = n
    OBVIOUS
  <2>2. EndOf(n + 1) = esf[n].end_running_hash
    BY <2>1, Zenon DEF EndOf
  <2>3. esf[n] \in EFile
    BY Zenon DEF FilesInv
  <2>4. QED BY <2>2, <2>3, Zenon DEF FilesInv, EFile
<1>2. \A n \in 0..k : EndOf(n) \in Seq(Nat) /\ Len(EndOf(n)) >= n
  <2> DEFINE T == {n \in 0..k : EndOf(n) \in Seq(Nat) /\ Len(EndOf(n)) >= n}
  <2>1. 0 \in T
    BY EmptySeq DEF EndOf
  <2>2. ASSUME NEW n \in 0..k-1, n \in T PROVE n + 1 \in T
    <3>1. n + 1 \in 0..k
      OBVIOUS
    <3>2. PICK a \in Seq(Nat), b \in Seq(Nat) : a = EndOf(n) /\ b = esf[n].items /\ Len(a) >= n
      BY <1>1, <2>2, Zenon
    <3>3. Len(a \o b) = Len(a) + Len(b) /\ Len(a) \in Nat /\ Len(b) \in Nat /\ Len(b) # 0
      BY <1>1, <3>2
    <3>4. EndOf(n + 1) \in Seq(Nat) /\ EndOf(n + 1) = a \o b
      BY <1>1, <3>2, Zenon
    <3>5. Len(EndOf(n + 1)) >= n + 1
      BY <3>2, <3>3, <3>4
    <3>6. QED BY <3>1, <3>4, <3>5, Zenon
  <2> HIDE DEF T
  <2>3. 0..k \subseteq T
    BY <2>1, <2>2, UpTo, Zenon
  <2>4. QED BY <2>3, Zenon DEF T
<1>3. ASSUME NEW n \in 0..k PROVE Begins(EndOf(n), EndOf(k))
  <2> DEFINE T == {j \in 0..k : j < n \/ Begins(EndOf(n), EndOf(j))}
  <2>1. 0 \in T
    <3>1. CASE n = 0
      BY <1>2, <3>1, BeginsFacts, Zenon
    <3>2. CASE n # 0
      BY <3>2
    <3>3. QED BY <3>1, <3>2, Zenon
  <2>2. ASSUME NEW j \in 0..k-1, j \in T PROVE j + 1 \in T
    <3>0. j + 1 \in 0..k
      OBVIOUS
    <3>1. CASE j + 1 < n
      BY <3>0, <3>1, Zenon
    <3>2. CASE j + 1 = n
      <4>1. Begins(EndOf(n), EndOf(n))
        BY <1>2, BeginsFacts, Zenon
      <4>2. QED BY <3>0, <3>2, <4>1, Zenon
    <3>3. CASE j + 1 > n
      <4>1. Begins(EndOf(n), EndOf(j))
        BY <2>2, <3>3
      <4>2. PICK a \in Seq(Nat), b \in Seq(Nat), c \in Seq(Nat) : a = EndOf(n) /\ b = EndOf(j) /\ c = esf[j].items
        <5>1. EndOf(n) \in Seq(Nat) /\ EndOf(j) \in Seq(Nat)
          BY <1>2
        <5>2. esf[j].items \in Seq(Nat)
          BY <1>1, Zenon
        <5>3. QED BY <5>1, <5>2, Zenon
      <4>3. Begins(b, b \o c) /\ b \o c \in Seq(Nat)
        BY BeginsFacts, Concat, Zenon
      <4>4. Begins(a, b \o c)
        <5>1. PICK d \in Seq(Nat) : d = b \o c
          BY <4>3, Zenon
        <5>2. Begins(a, b) /\ Begins(b, d)
          BY <4>1, <4>2, <4>3, <5>1, Zenon
        <5>3. Begins(a, d)
          BY <5>2, BeginsOn, Zenon
        <5>4. QED BY <5>1, <5>3, Zenon
      <4>5. Begins(EndOf(n), EndOf(j + 1))
        BY <1>1, <4>2, <4>4, Zenon
      <4>6. QED BY <3>0, <4>5, Zenon
    <3>4. QED BY <3>1, <3>2, <3>3
  <2> HIDE DEF T
  <2>3. 0..k \subseteq T
    BY <2>1, <2>2, UpTo, Zenon
  <2>4. k \in T /\ ~(k < n)
    BY <2>3
  <2>5. QED BY <2>4, Zenon DEF T
<1>4. QED BY <1>1, <1>2, <1>3, Zenon

LEMMA EndTyped ==
    ASSUME NEW k \in Nat, FilesInv(k)
    PROVE  EndOf(k) \in Seq(Nat)
BY Ends

\* Numbers that rise from 1 to at most b are at most b in number.
LEMMA RisingBound ==
    ASSUME NEW s \in Seq(Nat), NEW b \in Nat, \A i \in DOMAIN s : s[i] \in 1..b,
           \A i, j \in DOMAIN s : i < j => s[i] < s[j]
    PROVE  Len(s) <= b
<1> DEFINE T == {i \in 0..Len(s) : i = 0 \/ s[i] >= i}
<1>0. Len(s) \in Nat /\ DOMAIN s = 1..Len(s)
  OBVIOUS
<1>1. 0 \in T
  BY <1>0
<1>2. ASSUME NEW i \in 0..Len(s)-1, i \in T PROVE i + 1 \in T
  <2>1. i + 1 \in DOMAIN s /\ s[i + 1] \in 1..b
    BY <1>0
  <2>2. CASE i = 0
    BY <1>0, <2>1, <2>2
  <2>3. CASE i # 0
    <3>0. i \in DOMAIN s /\ i < i + 1
      BY <1>0, <2>3
    <3>1. i \in DOMAIN s /\ s[i] < s[i + 1] /\ s[i] >= i
      BY <1>2, <2>1, <2>3, <3>0, Zenon
    <3>2. s[i] \in Nat /\ s[i + 1] \in Nat
      BY <2>1, <3>1
    <3>3. QED BY <1>0, <3>1, <3>2
  <2>4. QED BY <2>2, <2>3, Zenon
<1> HIDE DEF T
<1>3. Len(s) \in T
  <2>1. 0..Len(s) \subseteq T
    BY <1>0, <1>1, <1>2, UpTo, Zenon
  <2>2. QED BY <1>0, <2>1
<1>4. CASE Len(s) = 0
  BY <1>4
<1>5. CASE Len(s) # 0
  <2>1. Len(s) \in DOMAIN s /\ s[Len(s)] >= Len(s)
    BY <1>0, <1>3, <1>5 DEF T
  <2>2. s[Len(s)] \in 1..b
    BY <2>1, Zenon
  <2>3. QED BY <1>0, <2>1, <2>2
<1>6. QED BY <1>4, <1>5, Zenon

\* The events of the files are those in the last running hash.
LEMMA StreamedIs ==
    ASSUME NEW k \in Nat, FilesInv(k), MaxEvents \in Nat, k <= MaxEvents
    PROVE  Streamed = EndOf(k)
<1> DEFINE n == MaxEvents
           Items(i) == IF i - 1 \in DOMAIN esf THEN esf[i - 1].items ELSE <<>>
           Solves(g) == g = [i \in 0..n |-> IF i = 0 THEN <<>> ELSE g[i - 1] \o Items(i)]
           f == CHOOSE g : Solves(g)
<1>0. n \in Nat /\ DOMAIN esf = 0..k-1 /\ <<>> \in Seq(Nat)
  BY DEF FilesInv
<1>1. Streamed = f[n]
  BY Zenon DEF Streamed
<1>2. \A i \in 1..n : Items(i) \in Seq(Nat)
  <2> TAKE i \in 1..n
  <2>1. CASE i - 1 \in DOMAIN esf
    <3>1. esf[i - 1] \in EFile
      BY <1>0, <2>1, Zenon DEF FilesInv
    <3>2. QED BY <2>1, <3>1, Zenon DEF EFile
  <2>2. CASE i - 1 \notin DOMAIN esf
    BY <1>0, <2>2, Zenon
  <2>3. QED BY <2>1, <2>2, Zenon
<1> HIDE DEF n, Items
<1> DEFINE step == [i \in 1..n |-> [y \in Seq(Nat) |-> y \o Items(i)]]
<1>3. step \in StepsOf(Seq(Nat), n)
  <2>1. \A i \in 1..n, y \in Seq(Nat) : y \o Items(i) \in Seq(Nat)
    BY <1>2, Concat, Zenon
  <2>2. QED BY <2>1, Zenon DEF StepsOf
<1>4. PICK g : g \in RunsOf(Seq(Nat), n, <<>>, step)
  <2>1. PICK x \in Seq(Nat) : x = <<>>
    BY <1>0, Zenon
  <2> HIDE DEF step
  <2>2. \E g : g \in RunsOf(Seq(Nat), n, x, step)
    BY <1>0, <1>3, RunExists, Zenon
  <2>3. QED BY <2>1, <2>2, Zenon
<1>5. g \in [0..n -> Seq(Nat)] /\ g[0] = <<>> /\ \A i \in 1..n : g[i] = g[i-1] \o Items(i)
  <2>1. g \in [0..n -> Seq(Nat)] /\ g[0] = <<>> /\ \A i \in 1..n : g[i] = step[i][g[i-1]]
    BY <1>4, Zenon DEF RunsOf
  <2>2. ASSUME NEW i \in 1..n PROVE g[i] = g[i-1] \o Items(i)
    <3>1. g[i-1] \in Seq(Nat)
      BY <2>1, <1>0
    <3>2. step[i][g[i-1]] = g[i-1] \o Items(i)
      BY <3>1, Zenon
    <3>3. QED BY <2>1, <3>2, Zenon
  <2>3. QED BY <2>1, <2>2, Zenon
<1>6. Solves(g)
  <2>1. \A i \in 0..n : g[i] = IF i = 0 THEN <<>> ELSE g[i-1] \o Items(i)
    <3>1. \A i \in 0..n : i = 0 \/ i \in 1..n
      BY <1>0
    <3>2. \A i \in 1..n : i # 0
      OBVIOUS
    <3>3. QED BY <1>5, <3>1, <3>2, Zenon
  <2>2. QED BY <1>5, <2>1, Zenon
<1>7. Solves(f)
  BY <1>6, Zenon
<1> HIDE DEF f
<1>8. \A i \in 0..n : f[i] = IF i = 0 THEN <<>> ELSE f[i-1] \o Items(i)
  BY <1>7, Zenon
<1> DEFINE T == {i \in 0..n : f[i] = IF i <= k THEN EndOf(i) ELSE EndOf(k)}
<1>9. 0 \in T
  BY <1>0, <1>8 DEF EndOf
<1>10. ASSUME NEW i \in 0..n-1, i \in T PROVE i + 1 \in T
  <2>1. i + 1 \in 0..n /\ i + 1 # 0 /\ (i + 1) - 1 = i
    BY <1>0
  <2>2. f[i + 1] = f[i] \o Items(i + 1)
    BY <1>8, <2>1, Zenon
  <2>3. CASE i + 1 <= k
    <3>1. i \in 0..k-1 /\ i <= k
      BY <1>0, <2>3
    <3>2. Items(i + 1) = esf[i].items /\ f[i] = EndOf(i)
      BY <1>0, <1>10, <2>1, <3>1, Zenon DEF Items
    <3>3. EndOf(i + 1) = EndOf(i) \o esf[i].items
      BY <3>1, Ends, Zenon
    <3>4. QED BY <2>1, <2>2, <2>3, <3>2, <3>3, Zenon
  <2>4. CASE ~(i + 1 <= k)
    <3>1. Items(i + 1) = <<>>
      BY <1>0, <2>1, <2>4 DEF Items
    <3>2. f[i] = EndOf(k)
      BY <1>0, <1>10, <2>4
    <3>3. EndOf(k) \in Seq(Nat)
      BY Ends
    <3>4. f[i + 1] = EndOf(k)
      BY <2>2, <3>1, <3>2, <3>3, EmptySeq, Zenon
    <3>5. QED BY <2>1, <2>4, <3>4, Zenon
  <2>5. QED BY <2>3, <2>4, Zenon
<1> HIDE DEF T
<1>11. n \in T
  <2>1. 0..n \subseteq T
    BY <1>0, <1>9, <1>10, UpTo, Zenon
  <2>2. QED BY <1>0, <2>1
<1>12. f[n] = EndOf(k)
  <2>1. f[n] = IF n <= k THEN EndOf(n) ELSE EndOf(k)
    BY <1>11, Zenon DEF T
  <2>2. n <= k => n = k
    BY <1>0 DEF n
  <2>3. QED BY <2>1, <2>2, Zenon
<1>13. QED BY <1>1, <1>12, Zenon

\* Of s the first c elements are in T; and w is s without them.
FirstIn(s, T, c) == (\A i \in 1..c : s[i] \in T) /\ (\A i \in c+1..Len(s) : s[i] \notin T)

RestOf(w, s, c) ==
    /\ w \in Seq(Nat) /\ Len(w) = Len(s) - c
    /\ \A i \in 1..Len(s) - c : w[i] = s[c + i]

LEMMA WithoutFirst ==
    ASSUME NEW s \in Seq(Nat), NEW T, NEW c \in 0..Len(s), FirstIn(s, T, c)
    PROVE  RestOf(Without(s, T), s, c)
<1> USE DEF FirstIn
<1>1. PICK f : KeepsUp(f, Nat, s, T) /\ Without(s, T) = f[Len(s)]
  BY WithoutUnfolds, Zenon
<1>2. /\ f \in [0..Len(s) -> Seq(Nat)] /\ f[0] = <<>>
      /\ \A i \in 1..Len(s) : f[i] = IF s[i] \in T THEN f[i-1] ELSE Append(f[i-1], s[i])
  BY <1>1, Zenon DEF KeepsUp
<1>3. Len(s) \in Nat /\ c \in Nat /\ c <= Len(s)
  OBVIOUS
<1> DEFINE m(i) == IF i <= c THEN 0 ELSE i - c
           S == {i \in 0..Len(s) : Len(f[i]) = m(i) /\ \A j \in 1..m(i) : f[i][j] = s[c + j]}
<1>4. 0 \in S
  BY <1>2, <1>3
<1>5. ASSUME NEW i \in 0..Len(s)-1, i \in S PROVE i + 1 \in S
  <2>1. i + 1 \in 1..Len(s) /\ i + 1 \in 0..Len(s) /\ (i + 1) - 1 = i /\ i \in Nat
    BY <1>3
  <2>2. f[i + 1] = IF s[i + 1] \in T THEN f[i] ELSE Append(f[i], s[i + 1])
    BY <1>2, <2>1, Zenon
  <2>3. PICK t \in Seq(Nat) : t = f[i]
    BY <1>2, <2>1
  <2>4. Len(t) = m(i) /\ \A j \in 1..m(i) : t[j] = s[c + j]
    BY <1>5, <2>3, Zenon
  <2>5. CASE i + 1 <= c
    <3>1. f[i + 1] = t /\ m(i + 1) = m(i)
      BY <1>3, <2>1, <2>2, <2>3, <2>5
    <3>2. QED BY <2>1, <2>4, <3>1, Zenon
  <2>6. CASE ~(i + 1 <= c)
    <3>1. f[i + 1] = Append(t, s[i + 1]) /\ m(i + 1) = m(i) + 1 /\ m(i) \in Nat /\ c + m(i + 1) = i + 1
      BY <1>3, <2>1, <2>2, <2>3, <2>6, SMTT(20)
    <3>2. PICK v \in Nat : v = s[i + 1]
      BY <2>1
    <3>3. Len(Append(t, v)) = Len(t) + 1 /\ Append(t, v)[Len(t) + 1] = v /\ \A j \in 1..Len(t) : Append(t, v)[j] = t[j]
      OBVIOUS
    <3>4. \A j \in 1..m(i + 1) : j \in 1..m(i) \/ j = m(i + 1)
      BY <3>1
    <3>5. \A j \in 1..m(i + 1) : Append(t, v)[j] = s[c + j]
      <4> HIDE DEF m
      <4> TAKE j \in 1..m(i + 1)
      <4>1. CASE j \in 1..m(i)
        BY <2>4, <3>3, <4>1, Zenon
      <4>2. CASE j = m(i + 1)
        BY <2>4, <3>1, <3>2, <3>3, <4>2, Zenon
      <4>3. QED BY <3>4, <4>1, <4>2, Zenon
    <3>6. f[i + 1] = Append(t, v) /\ Len(Append(t, v)) = m(i + 1)
      BY <2>4, <3>1, <3>2, <3>3, Zenon
    <3>7. QED BY <2>1, <3>5, <3>6, Zenon
  <2>7. QED BY <2>5, <2>6, Zenon
<1> HIDE DEF S
<1>6. Len(s) \in S
  <2>1. 0..Len(s) \subseteq S
    BY <1>3, <1>4, <1>5, UpTo, Zenon
  <2>2. QED BY <1>3, <2>1
<1>7. m(Len(s)) = Len(s) - c
  BY <1>3
<1>8. Len(f[Len(s)]) = m(Len(s)) /\ \A j \in 1..m(Len(s)) : f[Len(s)][j] = s[c + j]
  BY <1>6, Zenon DEF S
<1>9. f[Len(s)] \in Seq(Nat)
  BY <1>2, <1>3
<1>10. QED BY <1>1, <1>7, <1>8, <1>9, Zenon DEF RestOf

\* The store goes on with the events that come next.
LEMMA StoreGoesOn ==
    ASSUME NEW z \in Seq(Nat), NEW stored \in Seq(Nat), NEW start \in Seq(Nat), NEW items \in Seq(Nat),
           \A i, j \in DOMAIN z : i < j => z[i] < z[j],
           Begins(start, stored), Begins(stored, z), Begins(start \o items, z)
    PROVE  LET after == stored \o Without(items, Range(stored))
           IN after \in Seq(Nat) /\ Begins(start \o items, after) /\ Begins(after, z) /\ Begins(stored, after)
<1>a. PICK a \in Nat, m \in Nat, l \in Nat, b \in Nat :
         a = Len(start) /\ m = Len(stored) /\ l = Len(items) /\ b = Len(z)
  OBVIOUS
<1>b. PICK c \in 0..l : c = m - a \/ (c = l /\ a + l <= m)
  <2>1. a <= m
    BY <1>a, Zenon DEF Begins
  <2>2. CASE m - a <= l
    <3>1. m - a \in 0..l
      BY <2>1, <2>2
    <3>2. QED BY <3>1, Zenon
  <2>3. CASE ~(m - a <= l)
    <3>1. l \in 0..l /\ a + l <= m
      BY <2>1, <2>3
    <3>2. QED BY <3>1, Zenon
  <2>4. QED BY <2>2, <2>3, Zenon
<1>0. DOMAIN z = 1..b /\ DOMAIN stored = 1..m /\ a <= m /\ m <= b /\ c \in Nat /\ c <= l
  BY <1>a DEF Begins
<1>1. PICK u \in Seq(Nat) : u = start \o items
  BY Concat, Zenon
<1>2. /\ Len(u) = a + l /\ (\A i \in 1..a : u[i] = start[i]) /\ (\A i \in 1..l : u[a + i] = items[i])
      /\ Begins(u, z)
  BY <1>a, <1>1, Concat
<1>3. a + l <= b /\ \A i \in 1..a+l : u[i] = z[i]
  BY <1>a, <1>2, Zenon DEF Begins
<1>4. \A i \in 1..l : items[i] = z[a + i] /\ a + i \in 1..b
  <2> TAKE i \in 1..l
  <2>1. a + i \in 1..a+l /\ a + i \in 1..b
    BY <1>3
  <2>2. QED BY <1>2, <1>3, <2>1, Zenon
<1>5. \A i \in 1..m : stored[i] = z[i] /\ i \in 1..b
  BY <1>a, <1>0 DEF Begins
<1>7. \A i \in 1..c : items[i] \in Range(stored)
  <2> TAKE i \in 1..c
  <2>1. i \in 1..l /\ a + i \in 1..m
    BY <1>b, <1>0
  <2>2. items[i] = z[a + i] /\ stored[a + i] = z[a + i]
    BY <1>4, <1>5, <2>1, Zenon
  <2>3. QED BY <1>0, <2>1, <2>2, Zenon DEF Range
<1>8. \A i \in c+1..l : items[i] \notin Range(stored)
  <2> TAKE i \in c+1..l
  <2>1. i \in 1..l /\ a + i > m
    BY <1>b, <1>0
  <2>2. PICK k \in 1..b : k = a + i /\ k > m
    BY <1>4, <2>1, Zenon
  <2>3. ASSUME NEW j \in 1..m PROVE stored[j] # items[i]
    <3>1. j \in 1..b /\ j < k
      BY <1>0, <2>2
    <3>2. z[j] < z[k]
      BY <1>0, <3>1, Zenon
    <3>3. z[j] \in Nat /\ z[k] \in Nat
      BY <1>0, <3>1
    <3>4. stored[j] = z[j] /\ items[i] = z[k]
      BY <1>4, <1>5, <2>1, <2>2, Zenon
    <3>5. QED BY <3>2, <3>3, <3>4
  <2>4. QED BY <1>0, <2>3, Zenon DEF Range
<1> DEFINE w == Without(items, Range(stored))
<1>9. w \in Seq(Nat) /\ Len(w) = l - c /\ \A i \in 1..l - c : w[i] = items[c + i]
  <2>1. PICK R : R = Range(stored)
    BY Zenon
  <2>2. c \in 0..Len(items)
    BY <1>a, Zenon
  <2>3. (\A i \in 1..c : items[i] \in R) /\ (\A i \in c+1..Len(items) : items[i] \notin R)
    BY <1>a, <1>7, <1>8, <2>1, Zenon
  <2>4. FirstIn(items, R, c)
    BY <2>3, Zenon DEF FirstIn
  <2>5. RestOf(Without(items, R), items, c)
    BY <2>2, <2>4, WithoutFirst, Zenon
  <2>6. QED BY <1>a, <2>1, <2>5, Zenon DEF RestOf
<1> HIDE DEF w
<1>10. PICK v \in Seq(Nat) : v = stored \o w
  BY <1>9, Concat, Zenon
<1>11. Len(v) = m + (l - c) /\ (\A i \in 1..m : v[i] = stored[i]) /\ (\A i \in 1..l - c : v[m + i] = w[i])
  <2>1. /\ Len(stored \o w) = Len(stored) + Len(w)
        /\ \A i \in 1..Len(stored) : (stored \o w)[i] = stored[i]
        /\ \A i \in 1..Len(w) : (stored \o w)[Len(stored) + i] = w[i]
    BY <1>9, Concat, Zenon
  <2>2. QED BY <1>a, <1>9, <1>10, <2>1, Zenon
<1>13. \A i \in 1..Len(v) : v[i] = z[i]
  <2> TAKE i \in 1..Len(v)
  <2>1. CASE i \in 1..m
    BY <1>5, <1>11, <2>1, Zenon
  <2>2. CASE i \notin 1..m
    <3>1. PICK j \in 1..l - c : i = m + j
      <4>1. i - m \in 1..l - c /\ i = m + (i - m)
        BY <1>0, <1>11, <2>2
      <4>2. QED BY <4>1, Zenon
    <3>2. c = m - a /\ c + j \in 1..l /\ a + (c + j) = m + j
      BY <1>b, <1>0, <3>1
    <3>3. v[i] = items[c + j]
      BY <1>9, <1>11, <3>1, Zenon
    <3>4. items[c + j] = z[a + (c + j)]
      BY <1>4, <3>2, Zenon
    <3>5. QED BY <3>1, <3>2, <3>3, <3>4, Zenon
  <2>3. QED BY <2>1, <2>2, Zenon
<1>14. Len(v) <= b /\ a + l <= Len(v)
  BY <1>b, <1>0, <1>3, <1>11
<1>15. Begins(v, z)
  BY <1>a, <1>13, <1>14, Zenon DEF Begins
<1>16. Begins(u, v)
  <2>1. \A i \in 1..Len(u) : i \in 1..Len(v)
    BY <1>2, <1>14
  <2>2. QED BY <1>2, <1>3, <1>13, <1>14, <2>1, Zenon DEF Begins
<1>17. Begins(stored, v)
  BY <1>9, <1>10, BeginsFacts, Zenon
<1>18. QED BY <1>1, <1>10, <1>15, <1>16, <1>17, Zenon DEF w

------------------------------------------------------------------------------
\* A sequence with one element more.
LEMMA OneMore ==
    ASSUME NEW s \in Seq(Nat), NEW v \in Nat
    PROVE  /\ Append(s, v) \in Seq(Nat) /\ Len(Append(s, v)) = Len(s) + 1
           /\ DOMAIN s = 1..Len(s) /\ DOMAIN Append(s, v) = 1..Len(s) + 1 /\ Len(s) \in Nat
           /\ Append(s, v)[Len(s) + 1] = v
           /\ \A i \in 1..Len(s) : Append(s, v)[i] = s[i]
OBVIOUS

\* An event is inserted, or the stream flushed.
LEMMA LineLonger ==
    ASSUME NEW l, NEW q, NEW a, NEW n, InOrder(l, q, a, n), NEW v \in {0, a + 1}, NEW b \in Nat,
           b = (IF v = 0 THEN a ELSE a + 1), b <= MaxEvents
    PROVE  InOrder(l, Append(q, v), b, n)
<1>0. /\ l \in Seq(Nat) /\ q \in Seq(Nat) /\ a \in Nat /\ n \in Nat
      /\ DOMAIN l = 1..Len(l) /\ Len(l) \in Nat /\ DOMAIN q = 1..Len(q) /\ Len(q) \in Nat /\ v \in Nat /\ a <= b
  BY DEF InOrder
<1>a. PICK k \in Nat : k = Len(q) + 1
  BY <1>0
<1>b. PICK p \in Seq(Nat) : p = Append(q, v)
  BY <1>0, OneMore, Zenon
<1>1. DOMAIN p = 1..k /\ p[k] = v /\ \A i \in 1..Len(q) : p[i] = q[i]
  BY <1>0, <1>a, <1>b, OneMore
<1>2. \A i \in DOMAIN p : (i \in DOMAIN q /\ p[i] = q[i] /\ i < k) \/ (i = k /\ p[i] = v)
  <2> TAKE i \in DOMAIN p
  <2>1. CASE i = k
    BY <1>1, <2>1, Zenon
  <2>2. CASE i # k
    <3>1. i \in 1..Len(q) /\ i < k
      BY <1>0, <1>1, <1>a, <2>2
    <3>2. QED BY <1>0, <1>1, <3>1, Zenon
  <2>3. QED BY <2>1, <2>2, Zenon
<1>3. \A i \in DOMAIN l : l[i] \in 1..a /\ l[i] \in 1..b /\ (v # 0 => l[i] < v)
  BY <1>0 DEF InOrder
<1>4. \A i \in DOMAIN q : q[i] \in Nat /\ q[i] <= a /\ q[i] <= b /\ (v # 0 => q[i] < v)
  BY <1>0 DEF InOrder
<1>5. v <= b
  BY <1>0
<1>6. \A i \in DOMAIN p : p[i] <= b
  BY <1>2, <1>4, <1>5, Zenon
<1>7. \A i, j \in DOMAIN p : i < j /\ p[i] # 0 /\ p[j] # 0 => p[i] < p[j]
  <2> SUFFICES ASSUME NEW i \in DOMAIN p, NEW j \in DOMAIN p, i < j, p[i] # 0, p[j] # 0 PROVE p[i] < p[j]
    BY Zenon
  <2>1. i \in DOMAIN q /\ p[i] = q[i]
    BY <1>1, <1>2
  <2>2. CASE j = k
    BY <1>1, <1>4, <2>1, <2>2, Zenon
  <2>3. CASE j # k
    <3>1. j \in DOMAIN q /\ p[j] = q[j]
      BY <1>2, <2>3, Zenon
    <3>2. QED BY <2>1, <3>1, Zenon DEF InOrder
  <2>4. QED BY <2>2, <2>3, Zenon
<1>8. \A i \in DOMAIN p, j \in DOMAIN l : p[i] # 0 => l[j] < p[i]
  <2> SUFFICES ASSUME NEW i \in DOMAIN p, NEW j \in DOMAIN l, p[i] # 0 PROVE l[j] < p[i]
    BY Zenon
  <2>1. CASE i = k
    BY <1>1, <1>3, <2>1, Zenon
  <2>2. CASE i # k
    <3>1. i \in DOMAIN q /\ p[i] = q[i]
      BY <1>2, <2>2, Zenon
    <3>2. QED BY <3>1, Zenon DEF InOrder
  <2>3. QED BY <2>1, <2>2, Zenon
<1>9. ASSUME n = 0, NEW w \in Len(l)+1..b PROVE \E i \in DOMAIN p : p[i] = w
  <2>1. CASE w <= a
    <3>1. w \in Len(l)+1..a
      BY <1>0, <2>1
    <3>2. PICK i \in DOMAIN q : q[i] = w
      BY <1>9, <3>1, Zenon DEF InOrder
    <3>3. i \in DOMAIN p /\ p[i] = w
      BY <1>0, <1>1, <1>a, <3>2
    <3>4. QED BY <3>3, Zenon
  <2>2. CASE ~(w <= a)
    <3>1. w = v /\ k \in DOMAIN p
      BY <1>0, <1>1, <1>a, <2>2
    <3>2. QED BY <1>1, <3>1, Zenon
  <2>3. QED BY <2>1, <2>2, Zenon
<1>10. \A i, j \in DOMAIN l : i < j => l[i] < l[j]
  BY Zenon DEF InOrder
<1>11. n = 0 => \A i \in DOMAIN l : l[i] = i
  BY Zenon DEF InOrder
<1>12. InOrder(l, p, b, n)
  BY <1>0, <1>3, <1>6, <1>7, <1>8, <1>9, <1>10, <1>11, Zenon DEF InOrder
<1>13. QED BY <1>b, <1>12, Zenon

\* A message leaves the channel, and joins the line unless it is a flush.
LEMMA LineTakes ==
    ASSUME NEW l, NEW q, NEW a, NEW n, InOrder(l, q, a, n), q # <<>>, NEW h,
           h = (IF Head(q) = 0 THEN l ELSE Append(l, Head(q)))
    PROVE  InOrder(h, Tail(q), a, n)
<1>0. /\ l \in Seq(Nat) /\ q \in Seq(Nat) /\ a \in Nat /\ a <= MaxEvents /\ n \in Nat
      /\ DOMAIN l = 1..Len(l) /\ Len(l) \in Nat
  BY DEF InOrder
<1>1. PICK v \in Nat, t \in Seq(Nat) : v = Head(q) /\ t = Tail(q)
  BY <1>0, Taken, Zenon
<1>2. /\ v = q[1] /\ 1 \in DOMAIN q
      /\ \A i \in DOMAIN t : i + 1 \in DOMAIN q /\ i + 1 # 1 /\ t[i] = q[i + 1] /\ i \in Nat \ {0}
  <2>1. DOMAIN t \subseteq Nat \ {0}
    OBVIOUS
  <2>2. QED BY <1>0, <1>1, <2>1, Taken, Zenon
<1>3. \A i \in DOMAIN t : t[i] <= a
  BY <1>2, Zenon DEF InOrder
<1>4. \A i, j \in DOMAIN t : i < j /\ t[i] # 0 /\ t[j] # 0 => t[i] < t[j]
  <2> SUFFICES ASSUME NEW i \in DOMAIN t, NEW j \in DOMAIN t, i < j, t[i] # 0, t[j] # 0 PROVE t[i] < t[j]
    BY Zenon
  <2>1. i + 1 < j + 1
    BY <1>2
  <2>2. QED BY <1>2, <2>1, Zenon DEF InOrder
<1>5. \A i \in DOMAIN t, j \in DOMAIN l : t[i] # 0 => l[j] < t[i]
  BY <1>2, Zenon DEF InOrder
<1>6. ASSUME n = 0, NEW w \in Len(l)+1..a, w # v PROVE \E i \in DOMAIN t : t[i] = w
  <2>1. PICK i \in DOMAIN q : q[i] = w
    BY <1>6, Zenon DEF InOrder
  <2>2. i - 1 \in DOMAIN t /\ (i - 1) + 1 = i
    <3>1. i # 1 /\ i \in 1..Len(q) /\ Len(q) \in Nat
      BY <1>0, <1>2, <1>6, <2>1
    <3>2. DOMAIN t = 1..Len(q) - 1
      BY <1>0, <1>1
    <3>3. QED BY <3>1, <3>2
  <2>3. t[i - 1] = w
    BY <1>2, <2>1, <2>2, Zenon
  <2>4. QED BY <2>2, <2>3, Zenon
<1>7. /\ \A i \in DOMAIN l : l[i] \in 1..a
      /\ \A i, j \in DOMAIN l : i < j => l[i] < l[j]
      /\ n = 0 => \A i \in DOMAIN l : l[i] = i
  BY Zenon DEF InOrder
<1>8. CASE v = 0
  <2>1. h = l
    BY <1>1, <1>8, Zenon
  <2>2. ASSUME n = 0, NEW w \in Len(l)+1..a PROVE \E i \in DOMAIN t : t[i] = w
    <3>1. w # v
      BY <1>0, <1>8
    <3>2. QED BY <1>6, <2>2, <3>1, Zenon
  <2>3. InOrder(l, t, a, n)
    BY <1>0, <1>3, <1>4, <1>5, <1>7, <2>2, Zenon DEF InOrder
  <2>4. QED BY <1>1, <2>1, <2>3, Zenon
<1>9. CASE v # 0
  <2>a. PICK k \in Nat : k = Len(l) + 1
    BY <1>0
  <2>b. h \in Seq(Nat) /\ Len(h) = k /\ DOMAIN h = 1..k /\ h[k] = v /\ \A i \in 1..Len(l) : h[i] = l[i]
    BY <1>0, <1>1, <1>9, <2>a, OneMore
  <2>1. \A i \in DOMAIN h : (i \in DOMAIN l /\ h[i] = l[i] /\ i < k) \/ (i = k /\ h[i] = v)
    <3> TAKE i \in DOMAIN h
    <3>1. CASE i = k
      BY <2>b, <3>1, Zenon
    <3>2. CASE i # k
      <4>1. i \in 1..Len(l) /\ i < k
        BY <1>0, <2>a, <2>b, <3>2
      <4>2. QED BY <1>0, <2>b, <4>1, Zenon
    <3>3. QED BY <3>1, <3>2, Zenon
  <2>2. v \in 1..a /\ \A j \in DOMAIN l : l[j] < v
    <3>1. v <= a /\ \A j \in DOMAIN l : l[j] < v
      BY <1>2, <1>9, Zenon DEF InOrder
    <3>2. QED BY <1>0, <1>9, <3>1
  <2>3. \A i \in DOMAIN h : h[i] \in 1..a
    BY <1>7, <2>1, <2>2, Zenon
  <2>4. \A i, j \in DOMAIN h : i < j => h[i] < h[j]
    <3> SUFFICES ASSUME NEW i \in DOMAIN h, NEW j \in DOMAIN h, i < j PROVE h[i] < h[j]
      BY Zenon
    <3>1. i \in DOMAIN l /\ h[i] = l[i]
      <4>1. i # k
        BY <2>b
      <4>2. QED BY <2>1, <4>1, Zenon
    <3>2. CASE j = k
      BY <2>b, <2>2, <3>1, <3>2, Zenon
    <3>3. CASE j # k
      BY <1>7, <2>1, <3>1, <3>3, Zenon
    <3>4. QED BY <3>2, <3>3, Zenon
  <2>5. \A i \in DOMAIN t, j \in DOMAIN h : t[i] # 0 => h[j] < t[i]
    <3> SUFFICES ASSUME NEW i \in DOMAIN t, NEW j \in DOMAIN h, t[i] # 0 PROVE h[j] < t[i]
      BY Zenon
    <3>1. CASE j = k
      <4>1. i + 1 \in DOMAIN q /\ 1 \in DOMAIN q /\ 1 < i + 1 /\ q[1] # 0 /\ q[i + 1] # 0
        BY <1>2, <1>9
      <4>2. q[1] < q[i + 1]
        BY <4>1, Zenon DEF InOrder
      <4>3. QED BY <1>2, <2>b, <3>1, <4>2, Zenon
    <3>2. CASE j # k
      BY <1>5, <2>1, <3>2, Zenon
    <3>3. QED BY <3>1, <3>2, Zenon
  <2>6. ASSUME n = 0 PROVE v = k
    <3>1. v >= k
      <4>1. SUFFICES ASSUME v < k PROVE FALSE
        BY <2>a
      <4>2. v \in DOMAIN l
        BY <1>0, <1>9, <2>a, <4>1
      <4>3. l[v] = v /\ l[v] < v
        BY <1>7, <2>2, <2>6, <4>2, Zenon
      <4>4. QED BY <4>3
    <3>2. k \in Len(l)+1..a
      BY <1>0, <2>a, <2>2, <3>1
    <3>3. PICK i \in DOMAIN q : q[i] = k
      BY <2>6, <3>2, Zenon DEF InOrder
    <3>4. CASE i = 1
      BY <1>2, <3>3, <3>4, Zenon
    <3>5. CASE i # 1
      <4>1. 1 < i /\ q[1] # 0 /\ q[i] # 0
        <5>1. i \in Nat \ {0}
          BY <1>0
        <5>2. QED BY <1>0, <1>2, <1>9, <2>a, <3>3, <3>5, <5>1
      <4>2. q[1] < q[i]
        BY <1>2, <4>1, Zenon DEF InOrder
      <4>3. QED BY <1>2, <3>1, <3>3, <4>2
    <3>6. QED BY <3>4, <3>5, Zenon
  <2>7. ASSUME n = 0 PROVE \A i \in DOMAIN h : h[i] = i
    BY <1>7, <2>1, <2>6, <2>7, Zenon
  <2>8. ASSUME n = 0, NEW w \in Len(h)+1..a PROVE \E i \in DOMAIN t : t[i] = w
    <3>1. w \in Len(l)+1..a /\ w # v
      BY <1>0, <2>a, <2>b, <2>6, <2>8
    <3>2. QED BY <1>6, <2>8, <3>1, Zenon
  <2>9. InOrder(h, t, a, n)
    BY <1>0, <1>3, <1>4, <2>b, <2>3, <2>4, <2>5, <2>7, <2>8, Zenon DEF InOrder
  <2>10. QED BY <1>1, <2>9, Zenon
<1>10. QED BY <1>8, <1>9, Zenon

\* The writer begins again after a crash, with a part of the line.
LEMMA LineCut ==
    ASSUME NEW l, NEW q, NEW a, NEW n, InOrder(l, q, a, n), NEW e \in Seq(Nat), Begins(e, l),
           NEW m \in Nat, m # 0
    PROVE  InOrder(e, <<>>, a, m)
<1>0. /\ l \in Seq(Nat) /\ a \in Nat /\ a <= MaxEvents
      /\ DOMAIN l = 1..Len(l) /\ Len(l) \in Nat /\ DOMAIN e = 1..Len(e) /\ Len(e) \in Nat
  BY DEF InOrder
<1>1. \A i \in DOMAIN e : i \in DOMAIN l /\ e[i] = l[i]
  BY <1>0 DEF Begins
<1>a. PICK p : p = <<>>
  BY Zenon
<1>2. p = <<>> /\ p \in Seq(Nat) /\ DOMAIN p = {}
  BY <1>a
<1>3. /\ \A i \in DOMAIN e : e[i] \in 1..a
      /\ \A i, j \in DOMAIN e : i < j => e[i] < e[j]
  BY <1>1, Zenon DEF InOrder
<1>4. InOrder(e, p, a, m)
  BY <1>0, <1>2, <1>3, Zenon DEF InOrder
<1>5. QED BY <1>2, <1>4, Zenon

\* What the files hold is the beginning of the line.
LEMMA FilesInLine ==
    ASSUME NEW k \in Nat, FilesInv(k), WriterAt(k), LineInv
    PROVE  /\ EndOf(k) \in Seq(Nat) /\ Line \in Seq(Nat) /\ Begins(EndOf(k), Line)
           /\ \A i, j \in DOMAIN EndOf(k) : i < j => EndOf(k)[i] < EndOf(k)[j]
           /\ k <= MaxEvents
<1>0. state.file_start_hash \in Seq(Nat) /\ state.buffer \in Seq(Nat)
  BY Zenon DEF WriterAt
<1>1. PICK e \in Seq(Nat) : e = EndOf(k) /\ Len(e) >= k
  BY Ends
<1>2. PICK l \in Seq(Nat) : l = Line
  BY <1>0, Concat, Zenon DEF Line
<1>3. Begins(e, l)
  <2>1. CASE state.file_start_hash = EndOf(k)
    BY <1>0, <1>1, <1>2, <2>1, BeginsFacts DEF Line
  <2>2. CASE /\ k > 0 /\ state.file_start_hash = esf[k-1].start_running_hash
             /\ Begins(esf[k-1].items, state.buffer)
    <3>1. k - 1 \in 0..k-1 /\ k # 0
      BY <2>2
    <3>2. esf[k-1].items \in Seq(Nat)
      BY <3>1, Zenon DEF FilesInv, EFile
    <3>3. EndOf(k) = state.file_start_hash \o esf[k-1].items
      BY <2>2, <3>1, Zenon DEF FilesInv, EndOf
    <3>4. Begins(state.file_start_hash \o esf[k-1].items, state.file_start_hash \o state.buffer)
      BY <1>0, <2>2, <3>2, BeginsFacts
    <3>5. QED BY <1>1, <1>2, <3>3, <3>4, Zenon DEF Line
  <2>3. QED BY <2>1, <2>2, Zenon DEF WriterAt
<1>4. InOrder(l, channel, appended, crashes)
  BY <1>2, Zenon DEF LineInv
<1>5. /\ \A i \in DOMAIN l : l[i] \in 1..appended
      /\ \A i, j \in DOMAIN l : i < j => l[i] < l[j]
      /\ appended \in Nat /\ appended <= MaxEvents
  BY <1>4, Zenon DEF InOrder
<1>6. Len(l) <= appended
  BY <1>5, RisingBound, Zenon
<1>7. \A i \in DOMAIN e : i \in DOMAIN l /\ e[i] = l[i]
  BY <1>3, SMTT(20) DEF Begins
<1>8. \A i, j \in DOMAIN e : i < j => e[i] < e[j]
  BY <1>5, <1>7, Zenon
<1>9. k <= MaxEvents
  <2>1. Len(e) <= Len(l) /\ Len(e) \in Nat /\ Len(l) \in Nat
    BY <1>3 DEF Begins
  <2>2. QED BY <1>1, <1>5, <1>6, <2>1, EventAssumption
<1>10. QED BY <1>1, <1>2, <1>3, <1>8, <1>9, Zenon

\* The files stay as they are.
LEMMA EventFilesSame ==
    ASSUME NEW k \in Nat, FilesInv(k), esf' = esf
    PROVE  /\ FilesInv(k)' /\ EndOf(k)' = EndOf(k) /\ GoodStores(k)' = GoodStores(k)
           /\ (BlocksInv /\ UNCHANGED block_esf => BlocksInv')
<1>1. \A n \in 0..k-1 : EndOf(n)' = EndOf(n)
  BY Zenon DEF EndOf
<1>2. FilesInv(k)'
  <2>1. esf' \in [0..k-1 -> EFile]
    BY Zenon DEF FilesInv, EFile
  <2>2. ASSUME NEW n \in 0..k-1
        PROVE  /\ esf'[n].start_running_hash = EndOf(n)'
               /\ esf'[n].end_running_hash = esf'[n].start_running_hash \o esf'[n].items
               /\ esf'[n].items # <<>>
    <3>1. EndOf(n)' = EndOf(n)
      BY <1>1, Zenon
    <3>2. QED BY <3>1, Zenon DEF FilesInv
  <2>3. QED BY <2>1, <2>2, Zenon DEF FilesInv, EFile
<1>3. EndOf(k)' = EndOf(k)
  BY Zenon DEF EndOf
<1>4. GoodStores(k)' = GoodStores(k)
  BY <1>3, Zenon DEF GoodStores
<1>5. BlocksInv /\ UNCHANGED block_esf => BlocksInv'
  BY Zenon DEF BlocksInv, CopyOf
<1>6. QED BY <1>2, <1>3, <1>4, <1>5, Zenon

\* Files as the node wrote them: its own, or those of the block node.
Copies(files, k) == DOMAIN files \subseteq 0..k-1 /\ \A n \in DOMAIN files : CopyOf(files[n], n)

\* The events of the first files come in order.
Rising(k) == \A i, j \in DOMAIN EndOf(k) : i < j => EndOf(k)[i] < EndOf(k)[j]

LEMMA IngestEventGood ==
    ASSUME NEW k \in Nat, FilesInv(k), Rising(k), NEW files, NEW sigs, Copies(files, k),
           NEW x \in GoodStores(k), NEW n \in Nat, NEW outcome
    PROVE  IngestEvent(x, n, files, sigs, outcome) \in GoodStores(k)
<1>1. CASE ~AcceptsEvents(x.ingester, n, files, sigs)
  BY <1>1, Zenon DEF IngestEvent
<1>2. CASE AcceptsEvents(x.ingester, n, files, sigs)
  <2>0. PICK f : f = files[n]
    BY Zenon
  <2>1. /\ f \in EFile /\ f.end_running_hash = f.start_running_hash \o f.items
        /\ f.start_running_hash = esf[n].start_running_hash /\ Begins(f.items, esf[n].items)
        /\ f.start_running_hash = x.ingester.lastEventEnd /\ n \in 0..k-1
    BY <1>2, <2>0, Zenon DEF AcceptsEvents, Copies, CopyOf
  <2>2. PICK start \in Seq(Nat), items \in Seq(Nat) : start = f.start_running_hash /\ items = f.items
    BY <2>1, Zenon DEF EFile
  <2>3. PICK z \in Seq(Nat) : z = EndOf(k)
    BY EndTyped, Zenon
  <2>4. PICK stored \in Seq(Nat) : stored = x.events /\ Begins(start, stored) /\ Begins(stored, z)
    BY <2>1, <2>2, <2>3, Zenon DEF GoodStores
  <2>5. Begins(start \o items, z) /\ start \o items \in Seq(Nat)
    <3>1. PICK all \in Seq(Nat) : all = esf[n].items
      BY <2>1, Ends, Zenon
    <3>2. n \in 0..k-1 /\ n + 1 \in 0..k
      BY <2>1
    <3>3. start \o all = EndOf(n + 1) /\ Begins(EndOf(n + 1), z) /\ EndOf(n + 1) \in Seq(Nat)
      <4>1. start = EndOf(n)
        BY <2>1, <2>2, <3>2, Zenon DEF FilesInv
      <4>2. QED BY <2>3, <3>1, <3>2, <4>1, Ends, Zenon
    <3>4. Begins(items, all)
      BY <2>1, <2>2, <3>1, Zenon
    <3>5. Begins(start \o items, start \o all)
      BY <3>4, BeginsFacts, Zenon
    <3>6. start \o items \in Seq(Nat)
      BY Concat, Zenon
    <3>7. PICK u \in Seq(Nat), w \in Seq(Nat) : u = start \o items /\ w = EndOf(n + 1)
      BY <3>3, <3>6, Zenon
    <3>8. Begins(u, w) /\ Begins(w, z)
      BY <3>3, <3>5, <3>7, Zenon
    <3>9. Begins(u, z)
      BY <3>8, BeginsOn, Zenon
    <3>10. QED BY <3>6, <3>7, <3>9, Zenon
  <2>6. \A i, j \in DOMAIN z : i < j => z[i] < z[j]
    BY <2>3, Zenon DEF Rising
  <2>7. PICK after : after = stored \o Without(items, Range(stored))
    BY Zenon
  <2>8. after \in Seq(Nat) /\ Begins(start \o items, after) /\ Begins(after, z) /\ Begins(stored, after)
    BY <2>4, <2>5, <2>6, <2>7, StoreGoesOn, Zenon
  <2>9. Begins(start, after)
    BY <2>4, <2>8, BeginsOn, Zenon
  <2>10. PutEvents(x.events, f) = after
    BY <2>2, <2>4, <2>7, Zenon DEF PutEvents
  <2>11. PICK m \in [seenEvents : SUBSET Nat, lastEventEnd : Seq(Nat)] : m = x.ingester /\ m.lastEventEnd = start
    BY <2>1, <2>2, Zenon DEF GoodStores
  <2>12. [events |-> after, ingester |-> m] \in GoodStores(k)
    BY <2>3, <2>8, <2>9, <2>11, Zenon DEF GoodStores
  <2>13. [events |-> after, ingester |-> [seenEvents |-> m.seenEvents \cup {n}, lastEventEnd |-> start \o items]]
           \in GoodStores(k)
    <3>1. [seenEvents |-> m.seenEvents \cup {n}, lastEventEnd |-> start \o items]
            \in [seenEvents : SUBSET Nat, lastEventEnd : Seq(Nat)]
      BY <2>5, Zenon
    <3>2. QED BY <2>3, <2>8, <3>1, Zenon DEF GoodStores
  <2>14. CASE outcome = "error"
    <3>1. IngestEvent(x, n, files, sigs, outcome) = [events |-> x.events, ingester |-> x.ingester]
      BY <1>2, <2>14, Zenon DEF IngestEvent
    <3>2. x = [events |-> x.events, ingester |-> x.ingester]
      BY Zenon DEF GoodStores
    <3>3. QED BY <3>1, <3>2, Zenon
  <2>15. CASE outcome = "ok"
    <3>1. IngestEvent(x, n, files, sigs, outcome)
            = [events |-> after, ingester |-> [seenEvents |-> m.seenEvents \cup {n}, lastEventEnd |-> start \o items]]
      BY <1>2, <2>0, <2>1, <2>2, <2>10, <2>11, <2>15, Zenon DEF IngestEvent
    <3>2. QED BY <2>13, <3>1, Zenon
  <2>16. CASE outcome # "ok" /\ outcome # "error"
    <3>1. IngestEvent(x, n, files, sigs, outcome) = [events |-> after, ingester |-> m]
      BY <1>2, <2>0, <2>10, <2>11, <2>16, Zenon DEF IngestEvent
    <3>2. QED BY <2>12, <3>1, Zenon
  <2>17. QED BY <2>14, <2>15, <2>16, Zenon
<1>3. QED BY <1>1, <1>2, Zenon

\* A poll of the mirror.
LEMMA PollEventsGood ==
    ASSUME NEW k \in Nat, FilesInv(k), Rising(k), NEW files, NEW sigs, Copies(files, k),
           NEW x \in GoodStores(k), NEW bad, NEW outcome
    PROVE  EventsIngested(x, files, sigs, bad, outcome) \in GoodStores(k)
<1> DEFINE n == MaxEvents
           X == GoodStores(k)
           Step(i, y) == IF settings.source = "block"
                         THEN IngestEventRemote(y, i - 1, files, sigs, IF i - 1 = bad THEN outcome ELSE "ok")
                         ELSE IngestEvent(y, i - 1, files, sigs, IF i - 1 = bad THEN outcome ELSE "ok")
<1>0. n \in Nat /\ x \in X
  BY EventAssumption, Zenon
<1>1. \A i \in 1..n, y \in X : Step(i, y) \in X
  <2> TAKE i \in 1..n, y \in X
  <2>1. PICK o : o = IF i - 1 = bad THEN outcome ELSE "ok"
    BY Zenon
  <2>2. i - 1 \in Nat
    BY <1>0
  <2>3. IngestEvent(y, i - 1, files, sigs, o) \in X
    BY <2>2, IngestEventGood, Zenon
  <2>4. IngestEventRemote(y, i - 1, files, sigs, o) \in X
    BY <2>3, Zenon DEF IngestEventRemote
  <2>5. QED BY <2>1, <2>3, <2>4, Zenon
<1> DEFINE Solves(g) == g = [i \in 0..n |-> IF i = 0 THEN x ELSE Step(i, g[i-1])]
           f == CHOOSE g : Solves(g)
<1>2. EventsIngested(x, files, sigs, bad, outcome) = f[n]
  BY Zenon DEF EventsIngested
<1> HIDE DEF n, X, Step
<1> DEFINE step == [i \in 1..n |-> [y \in X |-> Step(i, y)]]
<1>3. step \in StepsOf(X, n)
  BY <1>1, Zenon DEF StepsOf
<1>4. PICK g : g \in RunsOf(X, n, x, step)
  <2> HIDE DEF step
  <2>1. QED BY <1>0, <1>3, RunExists, Zenon
<1>5. g \in [0..n -> X] /\ g[0] = x /\ \A i \in 1..n : g[i] = Step(i, g[i-1])
  <2>1. g \in [0..n -> X] /\ g[0] = x /\ \A i \in 1..n : g[i] = step[i][g[i-1]]
    BY <1>4, Zenon DEF RunsOf
  <2>2. ASSUME NEW i \in 1..n PROVE g[i] = Step(i, g[i-1])
    <3>1. g[i-1] \in X
      BY <2>1, <1>0
    <3>2. step[i][g[i-1]] = Step(i, g[i-1])
      BY <3>1, Zenon
    <3>3. QED BY <2>1, <3>2, Zenon
  <2>3. QED BY <2>1, <2>2, Zenon
<1>6. Solves(g)
  <2>1. \A i \in 0..n : g[i] = IF i = 0 THEN x ELSE Step(i, g[i-1])
    BY <1>0, <1>5
  <2>2. QED BY <1>5, <2>1, Zenon
<1>7. Solves(f)
  BY <1>6, Zenon
<1> HIDE DEF f
<1>8. \A i \in 0..n : f[i] = IF i = 0 THEN x ELSE Step(i, f[i-1])
  BY <1>7, Zenon
<1>9. 0..n \subseteq {i \in 0..n : f[i] \in X}
  <2> DEFINE T == {i \in 0..n : f[i] \in X}
  <2>1. 0 \in T
    BY <1>0, <1>8
  <2>2. \A i \in 0..n-1 : i \in T => i + 1 \in T
    <3>1. ASSUME NEW i \in 0..n-1, i \in T PROVE i + 1 \in T
      <4>1. i + 1 \in 1..n /\ i + 1 \in 0..n /\ i + 1 # 0 /\ (i + 1) - 1 = i
        BY <1>0
      <4>2. f[i + 1] = Step(i + 1, f[i])
        BY <1>8, <4>1, Zenon
      <4>3. QED BY <1>1, <3>1, <4>1, <4>2, Zenon
    <3>2. QED BY <3>1, Zenon
  <2> HIDE DEF T
  <2>3. QED BY <1>0, <2>1, <2>2, UpTo, Zenon DEF T
<1>10. f[n] \in X
  BY <1>0, <1>9
<1>11. QED BY <1>2, <1>10, Zenon DEF X

------------------------------------------------------------------------------
\* A step that leaves the writer, the files and the mirror alone.
LEMMA EventsSame ==
    ASSUME NEW k \in Nat, EventsInv(k), UNCHANGED onlyEvent, faults' \in Nat, crashes' \in Nat,
           faults' = 0 => faults = 0, crashes' = 0 => crashes = 0
    PROVE  EventsInv(k)'
<1>1. /\ UNCHANGED <<appended, flushes, channel, pc, state, esf, esf_sig, block_esf, events, eventIngester>>
      /\ FilesInv(k) /\ WriterAt(k) /\ LineInv /\ SignaturesInv(k) /\ BlocksInv
      /\ [events |-> events, ingester |-> eventIngester] \in GoodStores(k)
  BY Zenon DEF EventsInv, onlyEvent, eventWriter, eventFiles, eventBlocks, eventMirror
<1>2. FilesInv(k)' /\ EndOf(k)' = EndOf(k) /\ GoodStores(k)' = GoodStores(k) /\ BlocksInv'
  BY <1>1, EventFilesSame, Zenon
<1>3. WriterAt(k)'
  BY <1>1, <1>2, Zenon DEF WriterAt
<1>4. LineInv'
  <2>1. PICK l : l = Line /\ l = Line'
    BY <1>1, Zenon DEF Line
  <2>2. InOrder(l, channel, appended, crashes)
    BY <1>1, <2>1, Zenon DEF LineInv
  <2>3. InOrder(l, channel, appended, crashes')
    BY <2>2, Zenon DEF InOrder
  <2>4. QED BY <1>1, <2>1, <2>3, Zenon DEF LineInv
<1>5. SignaturesInv(k)'
  BY <1>1, Zenon DEF SignaturesInv, EventFile
<1>6. QED BY <1>1, <1>2, <1>3, <1>4, <1>5, Zenon DEF EventsInv

\* An event is inserted, or a checkpoint accepted.
LEMMA AppendGood ==
    ASSUME NEW k \in Nat, EventsInv(k), AppendEvent \/ FlushEvents
    PROVE  EventsInv(k)'
<1>1. /\ UNCHANGED <<pc, state, esf, esf_sig, block_esf, events, eventIngester, faults, crashes>>
      /\ FilesInv(k) /\ WriterAt(k) /\ LineInv /\ SignaturesInv(k) /\ BlocksInv
      /\ [events |-> events, ingester |-> eventIngester] \in GoodStores(k)
  BY Zenon DEF EventsInv, AppendEvent, FlushEvents, eventFiles, eventBlocks, eventMirror
<1>2. FilesInv(k)' /\ EndOf(k)' = EndOf(k) /\ GoodStores(k)' = GoodStores(k) /\ BlocksInv'
  BY <1>1, EventFilesSame, Zenon
<1>3. WriterAt(k)'
  BY <1>1, <1>2, Zenon DEF WriterAt
<1>4. LineInv'
  <2>1. PICK l : l = Line /\ l = Line'
    BY <1>1, Zenon DEF Line
  <2>2. InOrder(l, channel, appended, crashes)
    BY <1>1, <2>1, Zenon DEF LineInv
  <2>3. appended \in Nat /\ appended <= MaxEvents
    BY <2>2, Zenon DEF InOrder
  <2>4. CASE AppendEvent
    <3>1. appended' = appended + 1 /\ channel' = Append(channel, appended + 1) /\ appended' <= MaxEvents
      BY <2>3, <2>4, EventAssumption DEF AppendEvent
    <3>2. appended + 1 \in Nat /\ appended + 1 # 0
      BY <2>3
    <3>3. InOrder(l, channel', appended', crashes)
      BY <2>2, <3>1, <3>2, LineLonger, Zenon
    <3>4. QED BY <1>1, <2>1, <3>3, Zenon DEF LineInv
  <2>5. CASE FlushEvents
    <3>1. appended' = appended /\ channel' = Append(channel, 0)
      BY <2>5, Zenon DEF FlushEvents, FlushMsg
    <3>3. InOrder(l, channel', appended, crashes)
      BY <2>2, <2>3, <3>1, LineLonger, Zenon
    <3>4. QED BY <1>1, <2>1, <3>1, <3>3, Zenon DEF LineInv
  <2>6. QED BY <2>4, <2>5, Zenon
<1>5. SignaturesInv(k)'
  BY <1>1, Zenon DEF SignaturesInv, EventFile
<1>6. QED BY <1>1, <1>2, <1>3, <1>4, <1>5, Zenon DEF EventsInv

\* The writer takes a message.
LEMMA ReceiveGood ==
    ASSUME NEW k \in Nat, EventsInv(k), Receive
    PROVE  EventsInv(k)'
<1>1. /\ UNCHANGED <<appended, esf, esf_sig, block_esf, events, eventIngester, faults, crashes>>
      /\ FilesInv(k) /\ WriterAt(k) /\ LineInv /\ SignaturesInv(k) /\ BlocksInv
      /\ [events |-> events, ingester |-> eventIngester] \in GoodStores(k)
  BY Zenon DEF EventsInv, Receive, eventFiles, eventBlocks, eventMirror
<1>2. FilesInv(k)' /\ EndOf(k)' = EndOf(k) /\ GoodStores(k)' = GoodStores(k) /\ BlocksInv'
  BY <1>1, EventFilesSame, Zenon
<1>3. PICK start \in Seq(Nat), buffer \in Seq(Nat) : start = state.file_start_hash /\ buffer = state.buffer
  BY <1>1, Zenon DEF WriterAt
<1>4. PICK l : l = Line
  BY Zenon
<1>5. InOrder(l, channel, appended, crashes) /\ l \in Seq(Nat) /\ channel \in Seq(Nat) /\ l = start \o buffer
  BY <1>1, <1>3, <1>4, Zenon DEF LineInv, InOrder, Line
<1>6. channel # <<>> /\ channel' = Tail(channel) /\ pc' \in {"recv", "signature"}
  BY Zenon DEF Receive
<1>7. PICK m \in Nat : m = Head(channel)
  BY <1>5, <1>6, Taken, Zenon
<1>8. PICK b : b = IF m = 0 THEN buffer ELSE Append(buffer, m)
  BY Zenon
<1>9. /\ state' = [state EXCEPT !.buffer = b]
      /\ pc' = IF (m = 0 /\ b # <<>>) \/ (m # 0 /\ Len(b) >= EventsPerFile) THEN "signature" ELSE "recv"
  BY <1>3, <1>7, <1>8, Zenon DEF Receive, FlushMsg
<1>10. b \in Seq(Nat) /\ Begins(buffer, b) /\ (m # 0 => b # <<>>)
  <2>1. CASE m = 0
    BY <1>8, <2>1, BeginsFacts, Zenon
  <2>2. CASE m # 0
    <3>1. b = Append(buffer, m)
      BY <1>8, <2>2, Zenon
    <3>2. /\ b \in Seq(Nat) /\ Len(b) = Len(buffer) + 1 /\ Len(buffer) \in Nat
          /\ \A i \in 1..Len(buffer) : b[i] = buffer[i]
      BY <3>1, OneMore, Zenon
    <3>3. Begins(buffer, b)
      BY <3>2 DEF Begins
    <3>4. b # <<>>
      BY <3>2
    <3>5. QED BY <3>2, <3>3, <3>4, Zenon
  <2>3. QED BY <2>1, <2>2, Zenon
<1>11. /\ state \in [next_index : Nat, file_start_hash : Seq(Nat), buffer : Seq(Nat)]
       /\ state' \in [next_index : Nat, file_start_hash : Seq(Nat), buffer : Seq(Nat)]
       /\ state'.next_index = state.next_index /\ state'.file_start_hash = start /\ state'.buffer = b
  <2>1. state \in [next_index : Nat, file_start_hash : Seq(Nat), buffer : Seq(Nat)]
    BY <1>1, Zenon DEF WriterAt
  <2>2. QED BY <1>3, <1>9, <1>10, <2>1, Zenon
<1>12. WriterAt(k)'
  <2>1. pc' # "recv" => state'.buffer # <<>>
    BY <1>9, <1>10, <1>11, Zenon
  <2>2. \/ state'.next_index = k /\ state'.file_start_hash = EndOf(k)'
        \/ /\ faults' # 0 /\ k > 0 /\ state'.next_index = k - 1
           /\ state'.file_start_hash = esf'[k-1].start_running_hash
           /\ Begins(esf'[k-1].items, state'.buffer)
    <3>1. CASE state.next_index = k /\ state.file_start_hash = EndOf(k)
      BY <1>2, <1>3, <1>11, <3>1, Zenon
    <3>2. CASE /\ faults # 0 /\ k > 0 /\ state.next_index = k - 1
               /\ state.file_start_hash = esf[k-1].start_running_hash
               /\ Begins(esf[k-1].items, state.buffer)
      <4>1. esf[k-1].items \in Seq(Nat)
        <5>1. k - 1 \in 0..k-1
          BY <3>2
        <5>2. QED BY <1>1, <5>1, Ends, Zenon
      <4>2. Begins(esf[k-1].items, b)
        BY <1>3, <1>10, <3>2, <4>1, BeginsOn, Zenon
      <4>3. QED BY <1>1, <1>3, <1>11, <3>2, <4>2, Zenon
    <3>3. QED BY <1>1, <3>1, <3>2, Zenon DEF WriterAt
  <2>3. faults' \in Nat /\ pc' \in {"recv", "signature", "file"}
    BY <1>1, <1>6, Zenon DEF WriterAt
  <2>4. QED BY <1>11, <2>1, <2>2, <2>3, Zenon DEF WriterAt
<1>13. LineInv'
  <2>1. PICK h : h = Line'
    BY Zenon
  <2>2. h = IF m = 0 THEN l ELSE Append(l, m)
    <3>1. h = start \o b
      BY <1>11, <2>1, Zenon DEF Line
    <3>2. CASE m = 0
      BY <1>5, <1>8, <3>1, <3>2, Zenon
    <3>3. CASE m # 0
      <4>1. start \o Append(buffer, m) = Append(start \o buffer, m)
        OBVIOUS
      <4>2. QED BY <1>5, <1>8, <3>1, <3>3, <4>1, Zenon
    <3>4. QED BY <3>2, <3>3, Zenon
  <2>3. InOrder(h, Tail(channel), appended, crashes)
    BY <1>5, <1>6, <1>7, <2>2, LineTakes, Zenon
  <2>4. QED BY <1>1, <1>6, <2>1, <2>3, Zenon DEF LineInv
<1>14. SignaturesInv(k)'
  BY <1>1, <1>6, Zenon DEF SignaturesInv
<1>15. QED BY <1>1, <1>2, <1>12, <1>13, <1>14, Zenon DEF EventsInv

\* The writer writes the signature.
LEMMA SignatureGood ==
    ASSUME NEW k \in Nat, EventsInv(k), NEW outcome, WriteSignature(outcome)
    PROVE  EventsInv(k)'
<1>1. /\ UNCHANGED <<appended, channel, state, esf, block_esf, events, eventIngester, crashes>>
      /\ FilesInv(k) /\ WriterAt(k) /\ LineInv /\ SignaturesInv(k) /\ BlocksInv
      /\ [events |-> events, ingester |-> eventIngester] \in GoodStores(k)
  BY Zenon DEF EventsInv, WriteSignature, eventBlocks, eventMirror
<1>2. FilesInv(k)' /\ EndOf(k)' = EndOf(k) /\ GoodStores(k)' = GoodStores(k) /\ BlocksInv'
  BY <1>1, EventFilesSame, Zenon
<1>3. /\ pc = "signature" /\ pc' = IF outcome = "ok" THEN "file" ELSE "recv"
      /\ faults' = IF outcome = "ok" THEN faults ELSE faults + 1
      /\ esf_sig' = IF outcome = "failed" THEN esf_sig
                    ELSE Put(esf_sig, state.next_index, [signed |-> EventFile])
  BY Zenon DEF WriteSignature, Fault, atomic_write, build_signature_file
<1>4. faults \in Nat /\ faults' \in Nat /\ (faults' = 0 => faults = 0 /\ outcome = "ok") /\ (faults # 0 => faults' # 0)
  <2>1. faults \in Nat
    BY <1>1, Zenon DEF WriterAt
  <2>2. QED BY <1>3, <2>1
<1>5. WriterAt(k)'
  <2>1. state.buffer # <<>> /\ pc' \in {"recv", "signature", "file"}
    BY <1>1, <1>3, Zenon DEF WriterAt
  <2>2. QED BY <1>1, <1>2, <1>4, <2>1, Zenon DEF WriterAt
<1>6. LineInv'
  BY <1>1, Zenon DEF LineInv, Line
<1>7. SignaturesInv(k)'
  <2>1. EventFile' = EventFile
    BY <1>1, Zenon DEF EventFile
  <2>2. PICK s : s = state.next_index
    BY Zenon
  <2>3. /\ DOMAIN esf_sig \subseteq DOMAIN esf_sig'
        /\ outcome = "ok" => s \in DOMAIN esf_sig' /\ esf_sig'[s].signed = EventFile
        /\ \A n \in DOMAIN esf_sig : n # s => esf_sig'[n] = esf_sig[n]
    BY <1>3, <2>2, Zenon DEF Put
  <2>4. 0..k-1 \subseteq DOMAIN esf_sig' /\ (pc' = "file" => state'.next_index \in DOMAIN esf_sig')
    BY <1>1, <1>3, <2>2, <2>3, Zenon DEF SignaturesInv
  <2>5. ASSUME faults' = 0
        PROVE  /\ \A n \in 0..k-1 : esf_sig'[n].signed = esf'[n]
               /\ pc' = "file" => esf_sig'[state'.next_index].signed = EventFile'
    <3>1. faults = 0 /\ outcome = "ok" /\ s = k
      BY <1>1, <1>4, <2>2, <2>5, Zenon DEF WriterAt
    <3>2. \A n \in 0..k-1 : n \in DOMAIN esf_sig /\ n # s
      <4>1. 0..k-1 \subseteq DOMAIN esf_sig
        BY <1>1, Zenon DEF SignaturesInv
      <4>2. \A n \in 0..k-1 : n # k
        OBVIOUS
      <4>3. QED BY <3>1, <4>1, <4>2, Zenon
    <3>3. \A n \in 0..k-1 : esf_sig'[n].signed = esf'[n]
      BY <1>1, <2>3, <3>1, <3>2, Zenon DEF SignaturesInv
    <3>4. QED BY <1>1, <2>1, <2>2, <2>3, <3>1, <3>3, Zenon
  <2>6. QED BY <2>4, <2>5, Zenon DEF SignaturesInv
<1>8. QED BY <1>1, <1>2, <1>5, <1>6, <1>7, Zenon DEF EventsInv

\* The writer writes the file, which then is the last one.
LEMMA FileGood ==
    ASSUME NEW k \in Nat, EventsInv(k), NEW outcome, WriteEventFile(outcome)
    PROVE  EventInv'
<1>1. /\ UNCHANGED <<appended, channel, esf_sig, block_esf, events, eventIngester, crashes>>
      /\ FilesInv(k) /\ WriterAt(k) /\ LineInv /\ SignaturesInv(k) /\ BlocksInv
      /\ [events |-> events, ingester |-> eventIngester] \in GoodStores(k)
  BY Zenon DEF EventsInv, WriteEventFile, eventBlocks, eventMirror
<1>2. /\ pc = "file" /\ pc' = "recv"
      /\ faults' = IF outcome = "ok" THEN faults ELSE faults + 1
      /\ esf' = IF outcome = "failed" THEN esf ELSE Put(esf, state.next_index, EventFile)
      /\ state' = IF outcome = "ok" THEN from_resume(state.next_index + 1, EventFile.end_running_hash) ELSE state
  BY Zenon DEF WriteEventFile, Fault, atomic_write
<1>3. faults \in Nat /\ faults' \in Nat /\ (faults' = 0 => faults = 0 /\ outcome = "ok") /\ (outcome # "ok" => faults' # 0)
  <2>1. faults \in Nat
    BY <1>1, Zenon DEF WriterAt
  <2>2. QED BY <1>2, <2>1
<1>4. CASE outcome = "failed"
  <2>1. esf' = esf /\ state' = state /\ faults' # 0
    BY <1>2, <1>3, <1>4, Zenon
  <2>2. FilesInv(k)' /\ EndOf(k)' = EndOf(k) /\ GoodStores(k)' = GoodStores(k) /\ BlocksInv'
    BY <1>1, <2>1, EventFilesSame, Zenon
  <2>3. WriterAt(k)'
    BY <1>1, <1>2, <1>3, <2>1, <2>2, Zenon DEF WriterAt
  <2>4. LineInv'
    BY <1>1, <2>1, Zenon DEF LineInv, Line
  <2>5. SignaturesInv(k)'
    BY <1>1, <1>2, <2>1, Zenon DEF SignaturesInv
  <2>6. EventsInv(k)'
    BY <1>1, <2>2, <2>3, <2>4, <2>5, Zenon DEF EventsInv
  <2>7. QED BY <2>6, Zenon DEF EventInv
<1>5. CASE outcome # "failed"
  <2>1. PICK s \in Nat, start \in Seq(Nat), buffer \in Seq(Nat) :
           s = state.next_index /\ start = state.file_start_hash /\ buffer = state.buffer
    BY <1>1, Zenon DEF WriterAt
  <2>2. PICK l \in Seq(Nat) : l = start \o buffer /\ l = Line
    BY <2>1, Concat, Zenon DEF Line
  <2>a. PICK f : f = EventFile
    BY Zenon
  <2>b. f = [start_running_hash |-> start, items |-> buffer, end_running_hash |-> l]
    BY <2>1, <2>2, <2>a, Zenon DEF EventFile
  <2>3. /\ f \in EFile /\ f = EventFile /\ f.start_running_hash = start /\ f.items = buffer
        /\ f.end_running_hash = l
    <3>1. f.start_running_hash = start /\ f.items = buffer /\ f.end_running_hash = l
      BY <2>b, Zenon
    <3>2. f \in EFile
      BY <2>b, Zenon DEF EFile
    <3>3. QED BY <2>a, <3>1, <3>2, Zenon
  <2>4. buffer # <<>>
    BY <1>1, <1>2, <2>1, Zenon DEF WriterAt
  <2>5. s \in {k, k - 1} /\ (s # k => k > 0 /\ faults # 0 /\ start = esf[k-1].start_running_hash /\ Begins(esf[k-1].items, buffer))
    BY <1>1, <2>1, Zenon DEF WriterAt
  <2>6. start = EndOf(s)
    <3>1. CASE s = k
      BY <1>1, <2>1, <3>1 DEF WriterAt
    <3>2. CASE s # k
      <4>1. k - 1 \in 0..k-1 /\ s = k - 1
        BY <2>5, <3>2
      <4>2. QED BY <1>1, <2>5, <3>2, <4>1, Zenon DEF FilesInv
    <3>3. QED BY <3>1, <3>2, Zenon
  <2>7. DOMAIN esf = 0..k-1 /\ esf' = Put(esf, s, f)
    BY <1>1, <1>2, <1>5, <2>1, <2>3, Zenon DEF FilesInv
  <2>8. DOMAIN esf' = 0..s /\ esf'[s] = f /\ \A n \in 0..s-1 : esf'[n] = esf[n] /\ n \in 0..k-1
    <3>1. (0..k-1) \cup {s} = 0..s
      BY <2>5
    <3>2. \A n \in 0..s-1 : n \in 0..k-1 /\ n # s
      BY <2>5
    <3>3. QED BY <2>7, <3>1, <3>2, Zenon DEF Put
  <2>9. PICK m \in Nat : m = s + 1 /\ m > 0 /\ m - 1 = s
    OBVIOUS
  <2>10. (\A n \in 0..s : EndOf(n)' = EndOf(n)) /\ EndOf(m)' = l
    <3>1. \A n \in 0..s : n = 0 \/ n - 1 \in 0..s-1
      OBVIOUS
    <3>2. \A n \in 0..s : EndOf(n)' = EndOf(n)
      BY <2>8, <3>1, Zenon DEF EndOf
    <3>3. EndOf(m)' = l
      BY <2>3, <2>8, <2>9 DEF EndOf
    <3>4. QED BY <3>2, <3>3, Zenon
  <2>11. FilesInv(m)'
    <3>1. esf' \in [0..m-1 -> EFile]
      <4>1. \A n \in 0..s : esf'[n] \in EFile
        <5> TAKE n \in 0..s
        <5>1. CASE n = s
          BY <2>3, <2>8, <5>1, Zenon
        <5>2. CASE n # s
          <6>1. n \in 0..s-1
            BY <5>2
          <6>2. QED BY <1>1, <2>8, <6>1, Zenon DEF FilesInv
        <5>3. QED BY <5>1, <5>2, Zenon
      <4>2. esf' = [n \in DOMAIN esf' |-> esf'[n]]
        BY <2>7, Zenon DEF Put
      <4>3. QED BY <2>8, <2>9, <4>1, <4>2, Zenon
    <3>2. ASSUME NEW n \in 0..s
          PROVE  /\ esf'[n].start_running_hash = EndOf(n)'
                 /\ esf'[n].end_running_hash = esf'[n].start_running_hash \o esf'[n].items
                 /\ esf'[n].items # <<>>
      <4>1. CASE n = s
        BY <2>2, <2>3, <2>4, <2>6, <2>8, <2>10, <4>1, Zenon
      <4>2. CASE n # s
        <5>1. n \in 0..s-1
          BY <4>2
        <5>2. QED BY <1>1, <2>8, <2>10, <5>1, Zenon DEF FilesInv
      <4>3. QED BY <4>1, <4>2, Zenon
    <3>3. QED BY <2>9, <3>1, <3>2, Zenon DEF FilesInv, EFile
  <2>12. /\ state' \in [next_index : Nat, file_start_hash : Seq(Nat), buffer : Seq(Nat)]
         /\ \/ outcome = "ok" /\ state'.next_index = m /\ state'.file_start_hash = l /\ state'.buffer = <<>>
            \/ outcome # "ok" /\ state'.next_index = s /\ state'.file_start_hash = start /\ state'.buffer = buffer
    <3>1. CASE outcome = "ok"
      BY <1>2, <2>1, <2>3, <2>9, <3>1 DEF from_resume
    <3>2. CASE outcome # "ok"
      BY <1>1, <1>2, <2>1, <3>2, Zenon DEF WriterAt
    <3>3. QED BY <3>1, <3>2, Zenon
  <2>13. Begins(buffer, buffer) /\ l \o <<>> = l
    BY BeginsFacts, EmptySeq, Zenon
  <2>14. WriterAt(m)'
    <3>1. CASE outcome = "ok"
      BY <1>2, <1>3, <2>10, <2>12, <3>1, Zenon DEF WriterAt
    <3>2. CASE outcome # "ok"
      <4>1. esf'[m-1].start_running_hash = start /\ esf'[m-1].items = buffer
        BY <2>3, <2>8, <2>9, Zenon
      <4>2. QED BY <1>2, <1>3, <2>9, <2>12, <2>13, <3>2, <4>1, Zenon DEF WriterAt
    <3>3. QED BY <3>1, <3>2, Zenon
  <2>15. LineInv'
    <3>1. Line' = l
      BY <2>2, <2>12, <2>13, Zenon DEF Line
    <3>2. QED BY <1>1, <2>2, <3>1, Zenon DEF LineInv
  <2>16. SignaturesInv(m)'
    <3>1. 0..m-1 \subseteq DOMAIN esf_sig
      <4>1. s \in DOMAIN esf_sig
        BY <1>1, <1>2, <2>1, Zenon DEF SignaturesInv
      <4>2. \A n \in 0..m-1 : n \in 0..k-1 \/ n = s
        BY <2>5, <2>9
      <4>3. QED BY <1>1, <4>1, <4>2, Zenon DEF SignaturesInv
    <3>2. ASSUME faults' = 0, NEW n \in 0..m-1 PROVE esf_sig[n].signed = esf'[n]
      <4>0. faults = 0
        BY <1>3, <3>2, Zenon
      <4>1. CASE n = s
        BY <1>1, <1>2, <2>1, <2>3, <2>8, <4>0, <4>1, Zenon DEF SignaturesInv
      <4>2. CASE n # s
        <5>1. n \in 0..s-1
          BY <2>9, <4>2
        <5>2. QED BY <1>1, <2>8, <4>0, <5>1, Zenon DEF SignaturesInv
      <4>3. QED BY <4>1, <4>2, Zenon
    <3>3. QED BY <1>1, <1>2, <3>1, <3>2, Zenon DEF SignaturesInv
  <2>17. BlocksInv'
    <3>1. ASSUME NEW n \in DOMAIN block_esf PROVE n \in DOMAIN esf' /\ CopyOf(block_esf[n], n)'
      <4>1. n \in 0..k-1 /\ CopyOf(block_esf[n], n)
        BY <1>1, <2>7, Zenon DEF BlocksInv
      <4>2. n \in 0..s
        BY <2>5, <4>1
      <4>3. CASE n # s
        <5>1. esf'[n] = esf[n]
          BY <2>8, <4>2, <4>3
        <5>2. QED BY <1>1, <2>8, <4>1, <4>2, <5>1, Zenon DEF CopyOf
      <4>4. CASE n = s
        <5>1. n = k - 1 /\ s # k
          BY <2>5, <4>1, <4>4
        <5>2. esf[n].items \in Seq(Nat) /\ block_esf[n].items \in Seq(Nat)
          BY <1>1, <4>1, Ends, Zenon DEF CopyOf, EFile
        <5>3. Begins(block_esf[n].items, esf[n].items) /\ Begins(esf[n].items, buffer)
          BY <2>5, <4>1, <5>1, Zenon DEF CopyOf
        <5>4. Begins(block_esf[n].items, buffer)
          BY <5>2, <5>3, BeginsOn, Zenon
        <5>5. esf'[n].start_running_hash = esf[n].start_running_hash /\ esf'[n].items = buffer
          BY <2>3, <2>5, <2>8, <4>4, <5>1, Zenon
        <5>6. QED BY <1>1, <2>8, <4>1, <4>2, <5>4, <5>5, Zenon DEF CopyOf
      <4>5. QED BY <4>3, <4>4, Zenon
    <3>2. QED BY <1>1, <3>1, Zenon DEF BlocksInv
  <2>18. [events |-> events, ingester |-> eventIngester] \in GoodStores(m)'
    <3>1. EndOf(k) \in Seq(Nat) /\ Begins(EndOf(k), l)
      BY <1>1, <2>2, FilesInLine, Zenon
    <3>2. events \in Seq(Nat) /\ Begins(events, EndOf(k))
      BY <1>1, Zenon DEF GoodStores
    <3>3. Begins(events, l)
      BY <3>1, <3>2, BeginsOn, Zenon
    <3>4. QED BY <1>1, <2>10, <3>3, Zenon DEF GoodStores
  <2>19. EventsInv(m)'
    BY <1>1, <2>11, <2>14, <2>15, <2>16, <2>17, <2>18, Zenon DEF EventsInv
  <2>20. QED BY <2>19, Zenon DEF EventInv
<1>6. QED BY <1>4, <1>5, Zenon

\* The node stops, and goes on after the files it finds.
LEMMA CrashGood ==
    ASSUME NEW k \in Nat, EventsInv(k), CrashEvents
    PROVE  EventsInv(k)'
<1>1. /\ UNCHANGED <<appended, esf, esf_sig, block_esf, events, eventIngester, faults>>
      /\ FilesInv(k) /\ WriterAt(k) /\ LineInv /\ SignaturesInv(k) /\ BlocksInv
      /\ [events |-> events, ingester |-> eventIngester] \in GoodStores(k)
      /\ channel' = <<>> /\ pc' = "recv" /\ state' = resume_state(esf) /\ crashes' = crashes + 1
  BY Zenon DEF EventsInv, CrashEvents, eventFiles, eventBlocks, eventMirror
<1>2. FilesInv(k)' /\ EndOf(k)' = EndOf(k) /\ GoodStores(k)' = GoodStores(k) /\ BlocksInv'
  BY <1>1, EventFilesSame, Zenon
<1>3. PICK e \in Seq(Nat) : e = EndOf(k)
  BY <1>1, Ends
<1>4. state' = from_resume(k, e)
  <2>1. esf \in [0..k-1 -> EFile]
    BY <1>1, Zenon DEF FilesInv
  <2>2. CASE k = 0
    <3>1. 0..k-1 = {}
      BY <2>2
    <3>2. esf = <<>>
      BY <2>1, <3>1
    <3>3. QED BY <1>1, <1>3, <2>2, <3>2, Zenon DEF resume_state, EndOf, ChainSeed
  <2>3. CASE k # 0
    <3>1. k - 1 \in 0..k-1 /\ DOMAIN esf = 0..k-1 /\ k - 1 \in Nat
      BY <2>1, <2>3
    <3>2. esf # <<>>
      BY <3>1
    <3>3. Max(DOMAIN esf) = k - 1
      <4>1. Max(0..k-1) \in 0..k-1 /\ \A x \in 0..k-1 : x <= Max(0..k-1)
        <5>1. PICK S : S = 0..k-1
          BY Zenon
        <5>2. S \subseteq 0..k-1 /\ S # {}
          BY <3>1, <5>1, Zenon
        <5>3. Max(S) \in S /\ \A x \in S : x <= Max(S)
          BY <3>1, <5>2, MaxOf, Zenon
        <5>4. QED BY <5>1, <5>3, Zenon
      <4>2. QED BY <3>1, <4>1
    <3>4. resume_state(esf) = from_resume((k - 1) + 1, esf[k - 1].end_running_hash)
      BY <3>2, <3>3, Zenon DEF resume_state
    <3>5. QED BY <1>1, <1>3, <2>3, <3>4 DEF EndOf
  <2>4. QED BY <2>2, <2>3, Zenon
<1>5. /\ state' \in [next_index : Nat, file_start_hash : Seq(Nat), buffer : Seq(Nat)]
      /\ state'.next_index = k /\ state'.file_start_hash = e /\ state'.buffer = <<>>
  BY <1>4 DEF from_resume
<1>6. WriterAt(k)'
  BY <1>1, <1>2, <1>3, <1>5, Zenon DEF WriterAt
<1>7. LineInv'
  <2>1. Line' = e
    BY <1>5, EmptySeq, Zenon DEF Line
  <2>2. PICK l : l = Line
    BY Zenon
  <2>3. InOrder(l, channel, appended, crashes) /\ Begins(e, l)
    BY <1>1, <1>3, <2>2, FilesInLine, Zenon DEF LineInv
  <2>4. crashes' \in Nat /\ crashes' # 0
    BY <1>1, <2>3 DEF InOrder
  <2>5. InOrder(e, <<>>, appended, crashes')
    BY <2>3, <2>4, LineCut, Zenon
  <2>6. QED BY <1>1, <2>1, <2>5, Zenon DEF LineInv
<1>8. SignaturesInv(k)'
  BY <1>1, Zenon DEF SignaturesInv
<1>9. QED BY <1>1, <1>2, <1>6, <1>7, <1>8, Zenon DEF EventsInv

\* The relay uploads a file, the mirror polls, or starts again.
LEMMA OthersGood ==
    ASSUME NEW k \in Nat, EventsInv(k), UNCHANGED <<eventWriter, eventFiles, faults, crashes>>,
           BlocksInv', [events |-> events, ingester |-> eventIngester]' \in GoodStores(k)
    PROVE  EventsInv(k)'
<1>1. /\ UNCHANGED <<appended, channel, pc, state, esf, esf_sig, faults, crashes>>
      /\ FilesInv(k) /\ WriterAt(k) /\ LineInv /\ SignaturesInv(k)
  BY Zenon DEF EventsInv, eventWriter, eventFiles
<1>2. FilesInv(k)' /\ EndOf(k)' = EndOf(k) /\ GoodStores(k)' = GoodStores(k)
  BY <1>1, EventFilesSame, Zenon
<1>3. WriterAt(k)'
  BY <1>1, <1>2, Zenon DEF WriterAt
<1>4. LineInv'
  BY <1>1, Zenon DEF LineInv, Line
<1>5. SignaturesInv(k)'
  BY <1>1, Zenon DEF SignaturesInv, EventFile
<1>6. QED BY <1>2, <1>3, <1>4, <1>5, Zenon DEF EventsInv

LEMMA PushGood ==
    ASSUME NEW k \in Nat, EventsInv(k), NEW n, PushEvents(n) \/ PushSignature(n)
    PROVE  EventsInv(k)'
<1>1. /\ UNCHANGED <<eventWriter, eventFiles, faults, crashes>> /\ UNCHANGED <<esf, events, eventIngester>>
      /\ BlocksInv /\ FilesInv(k) /\ [events |-> events, ingester |-> eventIngester] \in GoodStores(k)
  BY Zenon DEF EventsInv, PushEvents, PushSignature, eventFiles, eventMirror
<1>2. [events |-> events, ingester |-> eventIngester]' \in GoodStores(k)
  BY <1>1, Zenon
<1>3. CASE PushSignature(n)
  <2>1. UNCHANGED block_esf
    BY <1>3, Zenon DEF PushSignature
  <2>2. BlocksInv'
    BY <1>1, <2>1, EventFilesSame, Zenon
  <2>3. QED BY <1>1, <1>2, <2>2, OthersGood, Zenon
<1>4. CASE PushEvents(n)
  <2>1. n \in DOMAIN esf \ DOMAIN block_esf /\ block_esf' = Put(block_esf, n, esf[n])
    BY <1>4, Zenon DEF PushEvents, handlePut
  <2>2. CopyOf(esf[n], n)
    <3>1. n \in 0..k-1
      BY <1>1, <2>1, Zenon DEF FilesInv
    <3>2. esf[n] \in EFile /\ esf[n].items \in Seq(Nat)
      BY <1>1, <3>1, Zenon DEF FilesInv, EFile
    <3>3. QED BY <1>1, <3>1, <3>2, BeginsFacts, Zenon DEF FilesInv, CopyOf
  <2>3. BlocksInv'
    <3>1. DOMAIN block_esf' = DOMAIN block_esf \cup {n}
      BY <2>1, Zenon DEF Put
    <3>2. \A i \in DOMAIN block_esf' : block_esf'[i] = IF i = n THEN esf[n] ELSE block_esf[i]
      BY <2>1, Zenon DEF Put
    <3>3. \A i \in DOMAIN block_esf' : CopyOf(block_esf'[i], i)
      BY <1>1, <2>2, <3>1, <3>2, Zenon DEF BlocksInv
    <3>4. \A i \in DOMAIN block_esf' : CopyOf(block_esf[i], i)'
      BY <1>1, <3>3, Zenon DEF CopyOf
    <3>5. QED BY <1>1, <2>1, <3>1, <3>4, Zenon DEF BlocksInv
  <2>4. QED BY <1>1, <1>2, <2>3, OthersGood, Zenon
<1>5. QED BY <1>3, <1>4, Zenon

LEMMA PollsGood ==
    ASSUME NEW k \in Nat, EventsInv(k), NEW bad, NEW outcome, PollEvents(bad, outcome)
    PROVE  EventsInv(k)'
<1>1. /\ FilesInv(k) /\ WriterAt(k) /\ LineInv /\ BlocksInv
      /\ [events |-> events, ingester |-> eventIngester] \in GoodStores(k)
  BY Zenon DEF EventsInv
<1>2. Rising(k)
  BY <1>1, FilesInLine, Zenon DEF Rising
<1>3. Copies(esf, k) /\ Copies(block_esf, k)
  <2>1. DOMAIN esf = 0..k-1
    BY <1>1, Zenon DEF FilesInv
  <2>2. \A n \in 0..k-1 : CopyOf(esf[n], n)
    <3> TAKE n \in 0..k-1
    <3>1. esf[n] \in EFile /\ esf[n].items \in Seq(Nat)
      BY <1>1, Zenon DEF FilesInv, EFile
    <3>2. QED BY <1>1, <3>1, BeginsFacts, Zenon DEF FilesInv, CopyOf
  <2>3. QED BY <1>1, <2>1, <2>2, Zenon DEF Copies, BlocksInv
<1>4. PICK files, sigs : Copies(files, k) /\ IngestAllEvents(files, sigs, bad, outcome)
  BY <1>3, Zenon DEF PollEvents
<1>5. PICK x \in GoodStores(k) : x = [events |-> events, ingester |-> eventIngester]
  BY <1>1, Zenon
<1>6. PICK y \in GoodStores(k) : y = EventsIngested(x, files, sigs, bad, outcome)
  BY <1>1, <1>2, <1>4, PollEventsGood, Zenon
<1>7. /\ events' = y.events /\ eventIngester' = y.ingester
      /\ UNCHANGED <<eventWriter, eventFiles, eventBlocks, faults, crashes>>
  BY <1>4, <1>5, <1>6, Zenon DEF IngestAllEvents
<1>8. [events |-> events, ingester |-> eventIngester]' \in GoodStores(k)
  <2>1. y = [events |-> y.events, ingester |-> y.ingester]
    BY Zenon DEF GoodStores
  <2>2. QED BY <1>7, <2>1, Zenon
<1>9. BlocksInv'
  BY <1>1, <1>7, EventFilesSame, Zenon DEF eventFiles, eventBlocks
<1>10. QED BY <1>7, <1>8, <1>9, OthersGood, Zenon

LEMMA RestartGood ==
    ASSUME NEW k \in Nat, EventsInv(k), RestartEvents
    PROVE  EventsInv(k)'
<1>1. /\ FilesInv(k) /\ BlocksInv
      /\ [events |-> events, ingester |-> eventIngester] \in GoodStores(k)
      /\ UNCHANGED <<eventWriter, eventFiles, eventBlocks, faults, crashes>>
      /\ events' \in {<<>>, events} /\ eventIngester' = [seenEvents |-> {}, lastEventEnd |-> <<>>]
  BY Zenon DEF EventsInv, RestartEvents, FreshEvents, ChainSeed
<1>2. PICK e \in Seq(Nat) : e = EndOf(k)
  BY <1>1, EndTyped, Zenon
<1>3. events \in Seq(Nat) /\ Begins(events, e)
  BY <1>1, <1>2, Zenon DEF GoodStores
<1>4. events' \in Seq(Nat) /\ Begins(events', e) /\ Begins(<<>>, events')
  BY <1>1, <1>3, EmptySeq, BeginsFacts, Zenon
<1>5. [events |-> events, ingester |-> eventIngester]' \in GoodStores(k)
  <2>1. eventIngester' \in [seenEvents : SUBSET Nat, lastEventEnd : Seq(Nat)] /\ eventIngester'.lastEventEnd = <<>>
    BY <1>1, EmptySeq, Zenon
  <2>2. QED BY <1>2, <1>4, <2>1, Zenon DEF GoodStores
<1>6. BlocksInv'
  BY <1>1, EventFilesSame, Zenon DEF eventFiles, eventBlocks
<1>7. QED BY <1>1, <1>5, <1>6, OthersGood, Zenon

LEMMA EventInvInit == EventInit /\ faults = 0 /\ crashes = 0 => EventInv
<1> SUFFICES ASSUME EventInit, faults = 0, crashes = 0 PROVE EventInv
  BY Zenon
<1>1. /\ appended = 0 /\ channel = <<>> /\ pc = "recv" /\ esf = <<>> /\ esf_sig = <<>> /\ block_esf = <<>>
      /\ events = <<>> /\ eventIngester = [seenEvents |-> {}, lastEventEnd |-> <<>>]
      /\ state = [next_index |-> 0, file_start_hash |-> <<>>, buffer |-> <<>>]
  BY Zenon DEF EventInit, FreshEvents, from_resume, ChainSeed
<1>2. 0..0-1 = {} /\ 0 \in Nat
  OBVIOUS
<1>3. EndOf(0) = <<>>
  BY Zenon DEF EndOf
<1>4. FilesInv(0)
  <2>1. esf \in [{} -> EFile]
    BY <1>1
  <2>2. QED BY <1>2, <2>1, Zenon DEF FilesInv
<1>5. WriterAt(0)
  BY <1>1, <1>3, EmptySeq, Zenon DEF WriterAt
<1>6. LineInv
  <2>1. Line = <<>>
    BY <1>1, EmptySeq, Zenon DEF Line
  <2>2. PICK l : l = <<>>
    BY Zenon
  <2>3. l \in Seq(Nat) /\ DOMAIN l = {} /\ Len(l) = 0
    BY <2>2
  <2>4. InOrder(l, l, 0, 0)
    BY <2>3, EventAssumption DEF InOrder
  <2>5. QED BY <1>1, <2>1, <2>2, <2>4, Zenon DEF LineInv
<1>7. SignaturesInv(0)
  BY <1>1, <1>2, Zenon DEF SignaturesInv
<1>8. BlocksInv
  <2>1. DOMAIN block_esf = {}
    BY <1>1
  <2>2. QED BY <2>1, Zenon DEF BlocksInv
<1>9. [events |-> events, ingester |-> eventIngester] \in GoodStores(0)
  BY <1>1, <1>3, EmptySeq, BeginsFacts, Zenon DEF GoodStores
<1>10. EventsInv(0)
  BY <1>4, <1>5, <1>6, <1>7, <1>8, <1>9, Zenon DEF EventsInv
<1>11. QED BY <1>2, <1>10, Zenon DEF EventInv

\* Steps of the event stream.
LEMMA EventInvStep ==
    ASSUME EventInv, EventNext
    PROVE  EventInv'
<1>0. PICK k \in Nat : EventsInv(k)
  BY Zenon DEF EventInv
<1>1. CASE AppendEvent \/ FlushEvents
  BY <1>0, <1>1, AppendGood, Zenon DEF EventInv
<1>2. CASE Receive
  BY <1>0, <1>2, ReceiveGood, Zenon DEF EventInv
<1>3. ASSUME NEW outcome, WriteSignature(outcome) PROVE EventInv'
  BY <1>0, <1>3, SignatureGood, Zenon DEF EventInv
<1>4. ASSUME NEW outcome, WriteEventFile(outcome) PROVE EventInv'
  BY <1>0, <1>4, FileGood, Zenon
<1>5. CASE CrashEvents
  BY <1>0, <1>5, CrashGood, Zenon DEF EventInv
<1>6. ASSUME NEW n, PushEvents(n) \/ PushSignature(n) PROVE EventInv'
  BY <1>0, <1>6, PushGood, Zenon DEF EventInv
<1>7. ASSUME NEW bad, NEW outcome, PollEvents(bad, outcome) PROVE EventInv'
  BY <1>0, <1>7, PollsGood, Zenon DEF EventInv
<1>8. CASE RestartEvents
  BY <1>0, <1>8, RestartGood, Zenon DEF EventInv
<1>9. QED BY <1>1, <1>2, <1>3, <1>4, <1>5, <1>6, <1>7, <1>8, Zenon DEF EventNext

\* A step of the record stream can only add to the counters.
LEMMA RecordCounts ==
    ASSUME RecordNext, faults \in Nat, crashes \in Nat
    PROVE  /\ faults' \in {faults, faults + 1} /\ crashes' \in {crashes, crashes + 1}
<1>1. ASSUME NEW r, NEW items, Submit(r, items) PROVE UNCHANGED <<faults, crashes>>
  BY <1>1, Zenon DEF Submit
<1>2. ASSUME NEW r, Push(r) PROVE UNCHANGED <<faults, crashes>>
  BY <1>2, Zenon DEF Push
<1>3. ASSUME NEW outcome, WriteRecord(outcome) PROVE faults' \in {faults, faults + 1} /\ crashes' = crashes
  BY <1>3, Zenon DEF WriteRecord
<1>4. ASSUME Crash PROVE faults' = faults /\ crashes' = crashes + 1
  BY <1>4, Zenon DEF Crash
<1>5. ASSUME NEW bad, NEW outcome, RunOnce(bad, outcome) \/ RunOnceRemote(bad, outcome)
      PROVE  UNCHANGED <<faults, crashes>>
  BY <1>5, Zenon DEF RunOnce, RunOnceRemote, Ingested
<1>6. ASSUME NEW listed, Restart(listed) PROVE UNCHANGED <<faults, crashes>>
  BY <1>6, Zenon DEF Restart
<1>7. QED BY <1>1, <1>2, <1>3, <1>4, <1>5, <1>6, Zenon DEF RecordNext, PollOk

\* The invariant of both streams.
StreamsInv == RecordInv /\ EventInv

LEMMA StreamsInvInit == Init => StreamsInv
<1> SUFFICES ASSUME Init PROVE StreamsInv
  BY Zenon
<1>1. RecordInit /\ EventInit
  BY Zenon DEF Init
<1>2. faults = 0 /\ crashes = 0
  BY <1>1, Zenon DEF RecordInit
<1>3. QED BY <1>1, <1>2, RecordInvInit, EventInvInit, Zenon DEF StreamsInv

LEMMA StreamsInvStep == StreamsInv /\ [Next]_vars => StreamsInv'
<1> SUFFICES ASSUME StreamsInv, [Next]_vars PROVE StreamsInv'
  BY Zenon
<1>0. PICK k \in Nat : EventsInv(k)
  BY Zenon DEF StreamsInv, EventInv
<1>1. faults \in Nat /\ crashes \in Nat
  BY <1>0, Zenon DEF EventsInv, WriterAt, LineInv, InOrder
<1>2. CASE RecordNext /\ UNCHANGED onlyEvent
  <2>1. RecordInv'
    BY <1>2, RecordInvStep, Zenon DEF StreamsInv
  <2>2. faults' \in {faults, faults + 1} /\ crashes' \in {crashes, crashes + 1}
    BY <1>1, <1>2, RecordCounts, Zenon
  <2>3. EventsInv(k)'
    BY <1>0, <1>1, <1>2, <2>2, EventsSame
  <2>4. QED BY <2>1, <2>3, Zenon DEF StreamsInv, EventInv
<1>3. CASE EventNext /\ UNCHANGED onlyRecord
  <2>1. EventInv'
    BY <1>3, EventInvStep, Zenon DEF StreamsInv
  <2>2. UNCHANGED <<submitted, queue, next_round, running_hash, rsf, blocks, records, ingester>>
    BY <1>3, Zenon DEF onlyRecord, writer, mirror
  <2>3. WriterInv'
    BY <2>2, Zenon DEF StreamsInv, RecordInv, WriterInv, Written
  <2>4. [records |-> records, ingester |-> ingester]' \in GoodMirrors'
    BY <2>2, FilesSame, Zenon DEF StreamsInv, RecordInv
  <2>5. QED BY <2>1, <2>3, <2>4, Zenon DEF StreamsInv, RecordInv
<1>4. CASE UNCHANGED vars
  <2>1. UNCHANGED recordVars /\ UNCHANGED eventVars
    BY <1>4, Zenon DEF vars
  <2>2. RecordInv'
    BY <2>1, RecordInvStep, Zenon DEF StreamsInv
  <2>3. UNCHANGED onlyEvent /\ faults' = faults /\ crashes' = crashes
    BY <2>1, Zenon DEF onlyEvent, eventVars
  <2>4. EventsInv(k)'
    BY <1>0, <1>1, <2>3, EventsSame, Zenon
  <2>5. QED BY <2>2, <2>4, Zenon DEF StreamsInv, EventInv
<1>5. QED BY <1>2, <1>3, <1>4, Zenon DEF Next

\* What the mirror stores of the events.
LEMMA EventsArePrefix == EventInv => StoresPrefix /\ StreamsExactly
<1> SUFFICES ASSUME EventInv PROVE StoresPrefix /\ StreamsExactly
  BY Zenon
<1>0. PICK k \in Nat : EventsInv(k)
  BY Zenon DEF EventInv
<1>1. /\ FilesInv(k) /\ WriterAt(k) /\ LineInv
      /\ [events |-> events, ingester |-> eventIngester] \in GoodStores(k)
  BY <1>0, Zenon DEF EventsInv
<1>2. PICK e \in Seq(Nat), l \in Seq(Nat) : e = EndOf(k) /\ l = Line /\ Begins(e, l) /\ k <= MaxEvents
  BY <1>1, FilesInLine, Zenon
<1>3. Streamed = e
  BY <1>1, <1>2, EventAssumption, StreamedIs, Zenon
<1>4. events \in Seq(Nat) /\ Begins(events, e)
  BY <1>1, <1>2, Zenon DEF GoodStores
<1>5. StoresPrefix
  <2>1. DOMAIN events = 1..Len(events)
    BY <1>4
  <2>2. QED BY <1>3, <1>4, <2>1, Zenon DEF StoresPrefix, Begins
<1>6. StreamsExactly
  <2>1. crashes = 0 => \A i \in DOMAIN l : l[i] = i
    BY <1>1, <1>2, Zenon DEF LineInv, InOrder
  <2>2. \A i \in DOMAIN e : i \in DOMAIN l /\ e[i] = l[i]
    BY <1>2 DEF Begins
  <2>3. crashes = 0 => \A i \in DOMAIN e : e[i] = i
    BY <2>1, <2>2, Zenon
  <2>4. QED BY <1>3, <2>3, Zenon DEF StreamsExactly
<1>7. QED BY <1>5, <1>6, Zenon

\* The verifier that ships with the node accepts the files.
LEMMA EventsSigned == EventInv => FilesSigned
<1> SUFFICES ASSUME EventInv PROVE FilesSigned
  BY Zenon
<1>0. PICK k \in Nat : EventsInv(k)
  BY Zenon DEF EventInv
<1>1. FilesInv(k) /\ SignaturesInv(k)
  BY <1>0, Zenon DEF EventsInv
<1>2. DOMAIN esf = 0..k-1 /\ 0..k-1 \subseteq DOMAIN esf_sig
  BY <1>1, Zenon DEF FilesInv, SignaturesInv
<1>3. ASSUME faults = 0, NEW n \in 0..k-1
      PROVE  /\ check_chain_link(esf, n) /\ verify_item_chain(esf[n])
             /\ verify_signature_file_for(esf_sig, n, esf[n])
  <2>1. esf[n].start_running_hash = EndOf(n) /\ esf[n].end_running_hash = esf[n].start_running_hash \o esf[n].items
    BY <1>1, Zenon DEF FilesInv
  <2>2. verify_item_chain(esf[n])
    BY <2>1, Zenon DEF verify_item_chain
  <2>3. verify_signature_file_for(esf_sig, n, esf[n])
    BY <1>1, <1>2, <1>3, Zenon DEF SignaturesInv, verify_signature_file_for
  <2>4. check_chain_link(esf, n)
    <3>1. PICK before : before = {m \in DOMAIN esf : m < n}
      BY Zenon
    <3>2. before = 0..n-1 /\ n \in Nat
      BY <1>2, <3>1
    <3>3. CASE n = 0
      <4>1. before = {}
        BY <3>2, <3>3
      <4>2. QED BY <2>1, <3>1, <3>3, <4>1, Zenon DEF check_chain_link, EndOf, ChainSeed
    <3>4. CASE n # 0
      <4>1. n - 1 \in Nat /\ before \subseteq 0..n-1 /\ n - 1 \in before
        BY <3>2, <3>4
      <4>2. Max(before) \in before /\ \A x \in before : x <= Max(before)
        BY <4>1, MaxOf, Zenon
      <4>3. Max(before) = n - 1
        BY <3>2, <4>1, <4>2
      <4>4. QED BY <2>1, <3>1, <3>4, <4>1, <4>3, Zenon DEF check_chain_link, EndOf
    <3>5. QED BY <3>3, <3>4, Zenon
  <2>5. QED BY <2>2, <2>3, <2>4, Zenon
<1>4. faults = 0 /\ DOMAIN esf # {} => verify_event_stream_dir(esf, esf_sig)
  BY <1>2, <1>3, Zenon DEF verify_event_stream_dir
<1>5. QED BY <1>2, <1>4, Zenon DEF FilesSigned

\* Whatever the node lost and whoever stopped when, and however many rounds, events and
\* files there are, what the mirror stores of either stream is a prefix of what the node
\* wrote, with no gap: ingestRecord and ingestEvent take a file only where the last one
\* ended, and a file that is written again goes on from the same hash.
THEOREM MirrorsHoldPrefixes == Spec => []MirrorHoldsPrefixes
<1>1. StreamsInv => MirrorHoldsPrefixes
  BY RecordsArePrefix, EventsArePrefix, Zenon DEF StreamsInv, MirrorHoldsPrefixes
<1>2. QED BY <1>1, StreamsInvInit, StreamsInvStep, PTL DEF Spec

\* Until a crash the event files hold exactly the events that log_fresh_inserts appended,
\* in order, whatever writes failed; each file has its signature, and where no write failed
\* verify_event_stream_dir accepts the directory at every moment.
THEOREM EventFilesComplete == Spec => []EventFilesExact
<1>1. StreamsInv => EventFilesExact
  BY EventsArePrefix, EventsSigned, Zenon DEF StreamsInv, EventFilesExact
<1>2. QED BY <1>1, StreamsInvInit, StreamsInvStep, PTL DEF Spec
=============================================================================
