--------------------------- MODULE CheckpointProofs ---------------------------
(***************************************************************************)
(* Collecting, buffering, adopting and restarting implement the abstract   *)
(* checkpoint protocol, and record files come out in order: for every      *)
(* roster, every number of members and rounds, any signatures of faulty    *)
(* members and any number of restarts and refused acceptances.             *)
(***************************************************************************)
EXTENDS Checkpoint, BasicLemmas, FiniteSetTheorems

\* The bounds are natural numbers.
LEMMA Bounds == MaxRound \in Nat /\ MaxRestarts \in Nat /\ MaxRefusals \in Nat
BY CheckpointAssumption

\* The round of the highest accepted checkpoint is a round, or 0.
LEMMA LatestType ==
    ASSUME TypeOK, NEW n \in Correct
    PROVE  /\ Latest(n) \in 0..MaxRound
           /\ Latest(n) # 0 => Latest(n) \in accepted[n]
<1> DEFINE S == accepted[n] \cup {0}
<1>1. S \subseteq 0..MaxRound /\ S # {} /\ MaxRound \in Nat
  BY Bounds DEF TypeOK, Round
<1>2. Max(S) \in S
  <2> HIDE DEF S
  <2>1. QED BY <1>1, MaxOf, Zenon
<1>3. QED BY <1>1, <1>2 DEF Latest

\* Rosters are finite sets of members.
LEMMA RosterType ==
    ASSUME NEW r \in Round
    PROVE  Roster[r] \in SUBSET Member /\ IsFiniteSet(Roster[r])
BY CheckpointAssumption, FS_Subset

\* An update in a table of tables keeps the table's type.
LEMMA Update2 ==
    ASSUME NEW D, NEW E, NEW R, NEW t \in [D -> [E -> R]], NEW d \in D, NEW e \in E, NEW v \in R
    PROVE  [t EXCEPT ![d][e] = v] \in [D -> [E -> R]]
OBVIOUS

\* add_sig keeps the types of what it changes.
LEMMA CollectType ==
    ASSUME TypeOK, NEW n \in Correct, NEW r \in Round, NEW S \in SUBSET Member,
           NEW d \in BOOLEAN, NEW t \in Member, Collect(n, r, S, d, t)
    PROVE  /\ accumulators' \in [Correct -> SUBSET Round]
           /\ sigs' \in [Correct -> [Round -> SUBSET Member]]
           /\ quorate' \in [Correct -> SUBSET Completed]
<1> DEFINE q == [entry |-> [round |-> r, diffs |-> d], task |-> t]
<1>1. q \in Completed
  BY DEF Completed, Entry
<1>2. CASE Quorum(r, S)
  <2>1. /\ accumulators' = [accumulators EXCEPT ![n] = @ \ {r}]
        /\ sigs' = [sigs EXCEPT ![n][r] = {}]
        /\ quorate' = [quorate EXCEPT ![n] = @ \cup {q}]
    BY <1>2 DEF Collect
  <2> HIDE DEF q
  <2>2. QED BY <1>1, <2>1 DEF TypeOK
<1>3. CASE ~Quorum(r, S)
  <2>1. /\ accumulators' = [accumulators EXCEPT ![n] = @ \cup {r}]
        /\ sigs' = [sigs EXCEPT ![n][r] = S]
        /\ quorate' = quorate
    BY <1>3 DEF Collect
  <2>2. sigs' \in [Correct -> [Round -> SUBSET Member]]
    BY <2>1, Update2 DEF TypeOK
  <2>3. QED BY <2>1, <2>2 DEF TypeOK
<1>4. QED BY <1>2, <1>3

\* The end of an adoption keeps the types of what it changes.
LEMMA EndAdoptType ==
    ASSUME TypeOK, NEW n \in Correct, NEW q, NEW recorded, EndAdopt(n, q, recorded)
    PROVE  adopting' \in [Correct -> 0..MaxRound] /\ needsSync' \in [Correct -> BOOLEAN]
<1>1. adopting' = adopting \/ adopting' = [adopting EXCEPT ![n] = 0]
  BY DEF EndAdopt
<1>2. adopting' \in [Correct -> 0..MaxRound]
  <2>1. adopting \in [Correct -> 0..MaxRound] /\ 0 \in 0..MaxRound
    BY Bounds DEF TypeOK
  <2>2. QED BY <1>1, <2>1
<1>3. PICK b \in BOOLEAN : needsSync' = needsSync \/ needsSync' = [needsSync EXCEPT ![n] = b]
  <2>1. (needsSync[n] /\ ~recorded) \in BOOLEAN
    OBVIOUS
  <2>2. QED BY <2>1, Zenon DEF EndAdopt
<1>4. needsSync' \in [Correct -> BOOLEAN]
  BY <1>3, Zenon DEF TypeOK
<1>5. QED BY <1>2, <1>4

\* Every step keeps the types.
LEMMA StepType == TypeOK /\ [Next]_vars => TypeOK'
<1> SUFFICES ASSUME TypeOK, [Next]_vars PROVE TypeOK'
  OBVIOUS
<1> USE Bounds
<1>1. ASSUME NEW n \in Correct, Decide(n) PROVE TypeOK'
  BY <1>1 DEF Decide, TypeOK, records, counters
<1>2. ASSUME NEW n \in Correct, Produce(n) PROVE TypeOK'
  <2> DEFINE r == produced[n] + 1
  <2>1. r \in Round
    BY <1>2 DEF Produce, TypeOK, Round
  <2>2. InitialSigners(n, r) \in SUBSET Member
    BY <2>1, RosterType DEF InitialSigners
  <2>3. n \in Member
    BY DEF Correct
  <2>4. /\ accumulators' \in [Correct -> SUBSET Round]
        /\ sigs' \in [Correct -> [Round -> SUBSET Member]]
        /\ quorate' \in [Correct -> SUBSET Completed]
    BY <1>2, <2>1, <2>2, <2>3, CollectType, Zenon DEF Produce
  <2>5. pending' \in [Correct -> [Round -> SUBSET (Member \X Payload)]]
    BY <1>2, <2>1, Update2 DEF Produce, TypeOK
  <2>6. produced' \in [Correct -> 0..MaxRound]
    BY <1>2, <2>1 DEF Produce, TypeOK, Round
  <2>7. QED
    BY <1>2, <2>1, <2>4, <2>5, <2>6 DEF Produce, TypeOK, records, counters
<1>3. ASSUME NEW n \in Correct, ArmLag(n) PROVE TypeOK'
  BY <1>3, Zenon DEF ArmLag, TypeOK, records, counters
<1>4. ASSUME NEW n \in Correct, FinishAdopt(n) PROVE TypeOK'
  <2> DEFINE r == adopting[n]
             q == [entry |-> [round |-> r, diffs |-> r \in diffs[n]], task |-> n]
  <2>1. r \in Round
    BY <1>4 DEF FinishAdopt, TypeOK, Round
  <2>2. q \in Completed
    BY <2>1 DEF Completed, Entry, Correct
  <2>3. quorate' = [quorate EXCEPT ![n] = @ \cup {q}]
    BY <1>4 DEF FinishAdopt
  <2> HIDE DEF q
  <2>4. quorate' \in [Correct -> SUBSET Completed]
    BY <2>2, <2>3, Zenon DEF TypeOK
  <2>5. QED
    BY <1>4, <2>1, <2>4, Zenon DEF FinishAdopt, TypeOK, driver, records, counters
<1>5. ASSUME NEW n \in Correct, WriteRecord(n) PROVE TypeOK'
  <2>1. Head(queue[n]) \in Entry /\ Tail(queue[n]) \in Seq(Entry)
    BY <1>5 DEF WriteRecord, TypeOK
  <2>2. Append(files[n], Head(queue[n])) \in Seq(Entry)
    BY <2>1 DEF TypeOK
  <2>3. QED
    BY <1>5, <2>1, <2>2, Zenon DEF WriteRecord, TypeOK, driver, counters
<1>6. ASSUME NEW n \in Correct, Restart(n) PROVE TypeOK'
  <2>1. Latest(n) \in 0..MaxRound
    BY LatestType
  <2>2. decided' \in [Correct -> 0..MaxRound]
    BY <1>6, <2>1 DEF Restart, TypeOK
  <2>3. QED
    BY <1>6, <2>1, <2>2 DEF Restart, TypeOK
<1>7. ASSUME NEW m \in Member, NEW n \in Correct, NEW k \in Round, NEW p \in Payload,
             GossipSigs(m, n, k, p)
      PROVE  TypeOK'
  <2> DEFINE rounds == IF m \in Correct THEN {r \in outbound[m] : r <= k} ELSE {k}
             F == {[from |-> m, round |-> r, absent |-> FALSE,
                    payload |-> IF m \in Correct THEN derived[m][r] ELSE p] : r \in rounds}
  <2>1. rounds \subseteq Round
    BY DEF TypeOK
  <2>2. \A r \in rounds : (IF m \in Correct THEN derived[m][r] ELSE p) \in Payload
    BY <2>1 DEF TypeOK
  <2>3. F \subseteq Frame
    <3> SUFFICES ASSUME NEW r \in rounds
                 PROVE  [from |-> m, round |-> r, absent |-> FALSE,
                         payload |-> IF m \in Correct THEN derived[m][r] ELSE p] \in Frame
      OBVIOUS
    <3>1. r \in Round /\ (IF m \in Correct THEN derived[m][r] ELSE p) \in Payload
      BY <2>1, <2>2, Zenon
    <3>2. QED BY <3>1 DEF Frame
  <2>4. inbound' = [inbound EXCEPT ![n] = @ \cup F]
    BY <1>7 DEF GossipSigs
  <2> HIDE DEF F
  <2>5. inbound' \in [Correct -> SUBSET Frame]
    BY <2>3, <2>4, Zenon DEF TypeOK
  <2>6. QED
    BY <1>7, <2>5, Zenon DEF GossipSigs, TypeOK, driver, records, counters
<1>8. ASSUME NEW n \in Correct, NEW f \in inbound[n], SubmitSig(n, f) PROVE TypeOK'
  <2>1. /\ f \in Frame /\ f.from \in Member /\ f.round \in Round
        /\ [f EXCEPT !.absent = TRUE] \in Frame
    <3>1. f \in Frame
      BY DEF TypeOK
    <3>2. QED BY <3>1, Zenon DEF Frame
  <2>2. inbound' \in [Correct -> SUBSET Frame]
    BY <1>8, <2>1, Zenon DEF SubmitSig, TypeOK
  <2>3. sigs[n][f.round] \cup {f.from} \in SUBSET Member
    BY <2>1 DEF TypeOK
  <2>4. /\ accumulators' \in [Correct -> SUBSET Round]
        /\ sigs' \in [Correct -> [Round -> SUBSET Member]]
        /\ quorate' \in [Correct -> SUBSET Completed]
    <3>1. CASE Collect(n, f.round, sigs[n][f.round] \cup {f.from}, FALSE, f.from)
      BY <3>1, <2>1, <2>3, CollectType, Zenon
    <3>2. CASE UNCHANGED <<accumulators, sigs, quorate>>
      BY <3>2, Zenon DEF TypeOK
    <3>3. QED BY <1>8, <3>1, <3>2, Zenon DEF SubmitSig
  <2>5. QED
    BY <1>8, <2>2, <2>4 DEF SubmitSig, TypeOK, driver, records, counters
<1>9. ASSUME NEW n \in Correct, NEW f \in inbound[n], BufferSig(n, f) PROVE TypeOK'
  <2>1. f.from \in Member /\ f.round \in Round /\ f.payload \in Payload
    BY DEF TypeOK, Frame
  <2>2. <<f.from, f.payload>> \in Member \X Payload
    BY <2>1
  <2>3. pending' \in [Correct -> [Round -> SUBSET (Member \X Payload)]]
    <3> DEFINE P == pending[n][f.round] \cup {<<f.from, f.payload>>}
    <3>1. P \in SUBSET (Member \X Payload)
      BY <2>1, <2>2 DEF TypeOK
    <3>2. pending' = pending \/ pending' = [pending EXCEPT ![n][f.round] = P]
      BY <1>9 DEF BufferSig
    <3> HIDE DEF P
    <3>3. pending \in [Correct -> [Round -> SUBSET (Member \X Payload)]]
      BY DEF TypeOK
    <3>4. CASE pending' = pending
      BY <3>3, <3>4
    <3>5. CASE pending' = [pending EXCEPT ![n][f.round] = P]
      <4>1. [pending EXCEPT ![n][f.round] = P] \in [Correct -> [Round -> SUBSET (Member \X Payload)]]
        BY <2>1, <3>1, <3>3, Update2, Zenon
      <4>2. QED BY <3>5, <4>1
    <3>6. QED BY <3>2, <3>4, <3>5, Zenon
  <2>4. QED
    BY <1>9, <2>3, Zenon DEF BufferSig, TypeOK, driver, records, counters
<1>10. ASSUME NEW n \in Correct, NEW q \in quorate[n], AcceptCheckpoint(n, q) PROVE TypeOK'
  <2>1. q.entry \in Entry /\ q.entry.round \in Round
    BY DEF TypeOK, Completed, Entry
  <2>2. Append(queue[n], q.entry) \in Seq(Entry)
    BY <2>1 DEF TypeOK
  <2>3. adopting' \in [Correct -> 0..MaxRound] /\ needsSync' \in [Correct -> BOOLEAN]
    BY <1>10, EndAdoptType, Zenon DEF AcceptCheckpoint
  <2>4. pending' \in [Correct -> [Round -> SUBSET (Member \X Payload)]]
    BY <1>10 DEF AcceptCheckpoint, TypeOK
  <2>5. QED
    BY <1>10, <2>1, <2>2, <2>3, <2>4 DEF AcceptCheckpoint, TypeOK, counters
<1>11. ASSUME NEW n \in Correct, NEW q \in quorate[n], RefuseCheckpoint(n, q) PROVE TypeOK'
  <2>1. adopting' \in [Correct -> 0..MaxRound] /\ needsSync' \in [Correct -> BOOLEAN]
    BY <1>11, EndAdoptType, Zenon DEF RefuseCheckpoint
  <2>2. refusals' \in 0..MaxRefusals /\ restarts' \in 0..MaxRestarts
    BY <1>11 DEF RefuseCheckpoint, TypeOK
  <2>3. quorate' \in [Correct -> SUBSET Completed]
    BY <1>11, Zenon DEF RefuseCheckpoint, TypeOK
  <2>4. QED
    BY <1>11, <2>1, <2>2, <2>3, Zenon DEF RefuseCheckpoint, TypeOK, records
<1>12. ASSUME NEW m \in Member, NEW n \in Correct, NEW r \in Round, AdoptCheckpoint(n, m, r)
       PROVE  TypeOK'
  BY <1>12 DEF AdoptCheckpoint, TypeOK, Round, records, counters
<1>13. CASE UNCHANGED vars
  BY <1>13 DEF TypeOK, vars, driver, records, counters
<1>14. QED
  BY <1>1, <1>2, <1>3, <1>4, <1>5, <1>6, <1>7, <1>8, <1>9, <1>10, <1>11, <1>12, <1>13, Zenon DEF Next

------------------------------------------------------------------------------
\* A signature of m over p for round r that exists: one of a correct member was
\* given by it, and is over what it derived.
Given(m, r, p) == m \in Correct => r \in signed[m] /\ derived[m][r] = p

\* Every signature that a node sends, receives, buffers or counts exists.
SignaturesGiven ==
    \A n \in Correct :
        /\ outbound[n] \subseteq signed[n]
        /\ \A f \in inbound[n] : Given(f.from, f.round, f.payload)
        /\ \A r \in Round : \A x \in pending[n][r] : Given(x[1], r, x[2])
        /\ \A r \in Round : \A m \in sigs[n][r] : m \in Roster[r] /\ Given(m, r, derived[n][r])

\* Every round on its way into accept_checkpoint has its quorum.
QuorumsVerify ==
    \A n \in Correct :
        /\ \A q \in quorate[n] : Verifies(q.entry.round, derived[n][q.entry.round])
        /\ adopting[n] # 0 => Verifies(adopting[n], derived[n][adopting[n]])

\* The inductive invariant of the refinement.
SigInv == TypeOK /\ SignaturesGiven /\ QuorumsVerify

\* What a node derives never changes, and no signature is taken back.
LEMMA SignedGrows ==
    ASSUME TypeOK, [Next]_vars
    PROVE  derived' = derived /\ \A m \in Correct : signed[m] \subseteq signed'[m]
<1>1. ASSUME NEW n \in Correct, Produce(n)
      PROVE  derived' = derived /\ \A m \in Correct : signed[m] \subseteq signed'[m]
  BY <1>1, Zenon DEF Produce, TypeOK
<1>2. ASSUME ~ \E n \in Correct : Produce(n)
      PROVE  derived' = derived /\ signed' = signed
  BY <1>2, ZenonT(60) DEF Next, Decide, ArmLag, FinishAdopt, WriteRecord, Restart, GossipSigs, SubmitSig,
              BufferSig, AcceptCheckpoint, RefuseCheckpoint, AdoptCheckpoint, vars
<1>3. QED BY <1>1, <1>2

\* A quorum stays one when it grows.
LEMMA QuorumGrows ==
    ASSUME NEW r \in Round, NEW S, NEW T, S \subseteq T, T \subseteq Roster[r], Quorum(r, S)
    PROVE  Quorum(r, T)
<1>1. IsFiniteSet(T)
  BY RosterType, FS_Subset, Zenon
<1>2. IsFiniteSet(S) /\ Cardinality(S) <= Cardinality(T)
  BY <1>1, FS_Subset, Zenon
<1>3. Cardinality(S) \in Nat /\ Cardinality(T) \in Nat /\ Cardinality(Roster[r]) \in Nat
  BY <1>1, <1>2, RosterType, FS_CardinalityType, Zenon
<1>4. QED BY <1>2, <1>3 DEF Quorum

\* A checkpoint that verifies does so after any step.
LEMMA VerifiesStable ==
    ASSUME TypeOK, [Next]_vars, NEW r \in Round, NEW p, Verifies(r, p)
    PROVE  Verifies(r, p)'
<1> DEFINE S == {m \in Roster[r] : m \in Faulty \/ (r \in signed[m] /\ derived[m][r] = p)}
           T == {m \in Roster[r] : m \in Faulty \/ (r \in signed'[m] /\ derived'[m][r] = p)}
<1>1. S \subseteq T /\ T \subseteq Roster[r]
  BY RosterType, SignedGrows DEF Correct
<1>2. Quorum(r, S)
  BY DEF Verifies
<1>3. Quorum(r, T)
  <2> HIDE DEF S, T
  <2>1. QED BY <1>1, <1>2, QuorumGrows, Zenon
<1>4. QED BY <1>3 DEF Verifies, Quorum

\* A signature that exists does so after any step.
LEMMA GivenStable ==
    ASSUME TypeOK, [Next]_vars, NEW m, NEW r, NEW p, Given(m, r, p)
    PROVE  Given(m, r, p)'
BY SignedGrows, Zenon DEF Given

\* What add_sig does to the signers: those of its own round become S.
SignersAre(n, r, S) ==
    \A k \in Correct, s \in Round :
        sigs'[k][s] \subseteq sigs[k][s] \/ (k = n /\ s = r /\ sigs'[k][s] = S)

\* What add_sig does to the quorums: with one, its own round is on the way into
\* accept_checkpoint.
QuorumOf(n, r, S) ==
    \A k \in Correct : \A q \in quorate'[k] :
        q \in quorate[k] \/ (k = n /\ q.entry.round = r /\ Quorum(r, S))

\* What add_sig does.
LEMMA CollectDoes ==
    ASSUME TypeOK, NEW n \in Correct, NEW r \in Round, NEW S \in SUBSET Member,
           NEW d \in BOOLEAN, NEW t \in Member, Collect(n, r, S, d, t)
    PROVE  SignersAre(n, r, S) /\ QuorumOf(n, r, S)
<1> USE DEF SignersAre, QuorumOf
<1> DEFINE c == [entry |-> [round |-> r, diffs |-> d], task |-> t]
<1>1. c.entry.round = r
  BY Zenon
<1>2. CASE Quorum(r, S)
  <2>1. sigs' = [sigs EXCEPT ![n][r] = {}] /\ quorate' = [quorate EXCEPT ![n] = @ \cup {c}]
    BY <1>2, Zenon DEF Collect
  <2> HIDE DEF c
  <2>2. QED BY <1>1, <1>2, <2>1, Zenon DEF TypeOK
<1>3. CASE ~Quorum(r, S)
  <2>1. sigs' = [sigs EXCEPT ![n][r] = S] /\ quorate' = quorate
    BY <1>3 DEF Collect
  <2>2. sigs \in [Correct -> [Round -> SUBSET Member]]
    BY DEF TypeOK
  <2>3. QED BY <2>1, <2>2
<1>4. QED BY <1>2, <1>3

\* Signatures that are kept from before exist after a step.
LEMMA KeptGiven ==
    ASSUME SigInv, [Next]_vars
    PROVE  \A n \in Correct :
               /\ outbound[n] \subseteq signed'[n]
               /\ \A f \in inbound[n] : Given(f.from, f.round, f.payload)'
               /\ \A r \in Round : \A x \in pending[n][r] : Given(x[1], r, x[2])'
               /\ \A r \in Round : \A m \in sigs[n][r] :
                      m \in Roster[r] /\ Given(m, r, derived[n][r])'
<1>1. derived' = derived
  BY SignedGrows, Zenon DEF SigInv
<1>2. QED BY <1>1, SignedGrows, GivenStable, Zenon DEF SigInv, SignaturesGiven

\* Every step keeps SignaturesGiven.
LEMMA StepGiven ==
    ASSUME SigInv, [Next]_vars
    PROVE  SignaturesGiven'
<1> USE DEF SigInv
<1>0. /\ derived' = derived
      /\ \A n \in Correct :
             /\ outbound[n] \subseteq signed'[n]
             /\ \A f \in inbound[n] : Given(f.from, f.round, f.payload)'
             /\ \A r \in Round : \A x \in pending[n][r] : Given(x[1], r, x[2])'
             /\ \A r \in Round : \A m \in sigs[n][r] :
                    m \in Roster[r] /\ Given(m, r, derived[n][r])'
  BY KeptGiven, SignedGrows, Zenon
<1>1. ASSUME UNCHANGED <<outbound, inbound, pending, sigs>>
      PROVE  SignaturesGiven'
  BY <1>0, <1>1, Zenon DEF SignaturesGiven
<1>2. ASSUME NEW n \in Correct, Produce(n) PROVE SignaturesGiven'
  <2>1. PICK r \in Round : r = produced[n] + 1
    BY <1>2, Bounds DEF Produce, TypeOK, Round
  <2>1a. Collect(n, r, InitialSigners(n, r), TRUE, n)
    BY <1>2, <2>1, Zenon DEF Produce
  <2>2. \A m \in InitialSigners(n, r) : m \in Roster[r] /\ Given(m, r, derived[n][r])'
    <3>1. Given(n, r, derived[n][r])'
      <4>1. signed' = [signed EXCEPT ![n] = @ \cup {r}] /\ signed \in [Correct -> SUBSET Round]
        BY <1>2, <2>1 DEF Produce, TypeOK
      <4>2. r \in signed'[n]
        BY <4>1
      <4>3. QED BY <1>0, <4>2 DEF Given
    <3>2. QED BY <1>0, <2>1, <3>1 DEF InitialSigners
  <2>3. \A k \in Correct, s \in Round : \A m \in sigs'[k][s] :
            m \in Roster[s] /\ Given(m, s, derived[k][s])'
    <3>1. SignersAre(n, r, InitialSigners(n, r))
      <4>1. InitialSigners(n, r) \in SUBSET Member /\ n \in Member
        BY RosterType DEF InitialSigners, Correct
      <4>2. QED BY <2>1a, <4>1, CollectDoes, Zenon
    <3>2. QED BY <1>0, <2>2, <3>1, Zenon DEF SignersAre
  <2>4. \A k \in Correct, s \in Round : pending'[k][s] \subseteq pending[k][s]
    BY <1>2, <2>1 DEF Produce, TypeOK
  <2>5. \A k \in Correct : outbound'[k] \subseteq signed'[k]
    BY <1>0, <1>2, Zenon DEF Produce, TypeOK
  <2>6. inbound' = inbound
    BY <1>2, Zenon DEF Produce
  <2>7. QED BY <1>0, <2>3, <2>4, <2>5, <2>6, Zenon DEF SignaturesGiven
<1>3. ASSUME NEW m \in Member, NEW n \in Correct, NEW k \in Round, NEW p \in Payload,
             GossipSigs(m, n, k, p)
      PROVE  SignaturesGiven'
  <2>1. ASSUME NEW f \in inbound'[n], f \notin inbound[n]
        PROVE  Given(f.from, f.round, f.payload)'
    <3> DEFINE rounds == IF m \in Correct THEN {r \in outbound[m] : r <= k} ELSE {k}
    <3>1. PICK r \in rounds : f = [from |-> m, round |-> r, absent |-> FALSE,
                                   payload |-> IF m \in Correct THEN derived[m][r] ELSE p]
      BY <1>3, <2>1, Zenon DEF GossipSigs, TypeOK
    <3>2. f.from = m /\ f.round = r /\ (m \in Correct => f.payload = derived[m][r])
      BY <3>1, Zenon
    <3>3. m \in Correct => r \in signed'[m]
      BY <1>0, <3>1, Zenon
    <3>4. QED BY <1>0, <3>2, <3>3, Zenon DEF Given
  <2>2. \A j \in Correct \ {n} : inbound'[j] = inbound[j]
    BY <1>3, Zenon DEF GossipSigs, TypeOK
  <2>3. \A j \in Correct : \A f \in inbound'[j] : Given(f.from, f.round, f.payload)'
    BY <1>0, <2>1, <2>2, Zenon
  <2>4. UNCHANGED <<outbound, pending, sigs>>
    BY <1>3, Zenon DEF GossipSigs
  <2>5. QED BY <1>0, <2>3, <2>4, Zenon DEF SignaturesGiven
<1>4. ASSUME NEW n \in Correct, NEW f \in inbound[n], SubmitSig(n, f) PROVE SignaturesGiven'
  <2> DEFINE r == f.round
             g == [f EXCEPT !.absent = TRUE]
  <2>1. r \in Round /\ f \in Frame
    BY DEF TypeOK, Frame
  <2>2. g.from = f.from /\ g.round = f.round /\ g.payload = f.payload
    BY <2>1, Zenon DEF Frame
  <2>3. \A j \in Correct : \A h \in inbound'[j] : Given(h.from, h.round, h.payload)'
    <3>1. \A j \in Correct : \A h \in inbound'[j] : h \in inbound[j] \/ (j = n /\ h = g)
      BY <1>4 DEF SubmitSig, TypeOK
    <3> HIDE DEF g
    <3>2. QED BY <1>0, <2>2, <3>1, Zenon
  <2>4. \A k \in Correct, s \in Round : \A m \in sigs'[k][s] :
            m \in Roster[s] /\ Given(m, s, derived[k][s])'
    <3>1. CASE UNCHANGED sigs
      BY <1>0, <3>1
    <3>2. CASE /\ f.from \in Roster[r] /\ f.payload = derived[n][r]
               /\ Collect(n, r, sigs[n][r] \cup {f.from}, FALSE, f.from)
      <4>1. \A m \in sigs[n][r] \cup {f.from} : m \in Roster[r] /\ Given(m, r, derived[n][r])'
        BY <1>0, <2>1, <3>2, Zenon
      <4>2. SignersAre(n, r, sigs[n][r] \cup {f.from})
        <5>1. sigs[n][r] \cup {f.from} \in SUBSET Member /\ f.from \in Member
          BY <2>1 DEF TypeOK, Frame
        <5>2. QED BY <2>1, <3>2, <5>1, CollectDoes, Zenon
      <4>3. QED BY <1>0, <4>1, <4>2 DEF SignersAre
    <3>3. QED BY <1>4, <3>1, <3>2, Zenon DEF SubmitSig
  <2>5. UNCHANGED <<outbound, pending>>
    BY <1>4 DEF SubmitSig
  <2>6. QED BY <1>0, <2>3, <2>4, <2>5 DEF SignaturesGiven
<1>5. ASSUME NEW n \in Correct, NEW f \in inbound[n], BufferSig(n, f) PROVE SignaturesGiven'
  <2> DEFINE y == <<f.from, f.payload>>
  <2>1. f.round \in Round
    BY DEF TypeOK, Frame
  <2>2. \A k \in Correct, s \in Round : \A x \in pending'[k][s] :
            x \in pending[k][s] \/ (k = n /\ s = f.round /\ x = y)
    <3> HIDE DEF y
    <3>1. pending' = pending \/ pending' = [pending EXCEPT ![n][f.round] = @ \cup {y}]
      BY <1>5, Zenon DEF BufferSig, y
    <3>2. pending \in [Correct -> [Round -> SUBSET (Member \X Payload)]]
      BY DEF TypeOK
    <3>3. QED BY <2>1, <3>1, <3>2
  <2>3. y[1] = f.from /\ y[2] = f.payload
    BY Zenon
  <2>4. \A k \in Correct, s \in Round : \A x \in pending'[k][s] : Given(x[1], s, x[2])'
    <3> HIDE DEF y
    <3>1. Given(y[1], f.round, y[2])'
      BY <1>0, <2>3
    <3>2. QED BY <1>0, <2>1, <2>2, <3>1
  <2>5. UNCHANGED <<outbound, sigs>> /\ \A k \in Correct : inbound'[k] \subseteq inbound[k]
    BY <1>5, Zenon DEF BufferSig, TypeOK
  <2>6. QED BY <1>0, <2>4, <2>5, Zenon DEF SignaturesGiven
<1>6. ASSUME /\ \A k \in Correct : outbound'[k] \subseteq outbound[k] /\ inbound'[k] \subseteq inbound[k]
             /\ \A k \in Correct, s \in Round :
                    pending'[k][s] \subseteq pending[k][s] /\ sigs'[k][s] \subseteq sigs[k][s]
      PROVE  SignaturesGiven'
  BY <1>0, <1>6, Zenon DEF SignaturesGiven
<1>7. ASSUME NEW n \in Correct, NEW q \in quorate[n], AcceptCheckpoint(n, q) PROVE SignaturesGiven'
  <2>1. \A k \in Correct : outbound'[k] \subseteq outbound[k] /\ inbound'[k] \subseteq inbound[k]
    BY <1>7, Zenon DEF AcceptCheckpoint, TypeOK
  <2>2. \A k \in Correct, s \in Round :
            pending'[k][s] \subseteq pending[k][s] /\ sigs'[k][s] \subseteq sigs[k][s]
    BY <1>7, Zenon DEF AcceptCheckpoint, TypeOK
  <2>3. QED BY <1>6, <2>1, <2>2, Zenon
<1>8. ASSUME NEW n \in Correct, FinishAdopt(n) PROVE SignaturesGiven'
  <2>1. \A k \in Correct : outbound'[k] \subseteq outbound[k] /\ inbound'[k] \subseteq inbound[k]
    BY <1>8, Zenon DEF FinishAdopt
  <2>2. \A k \in Correct, s \in Round :
            pending'[k][s] \subseteq pending[k][s] /\ sigs'[k][s] \subseteq sigs[k][s]
    BY <1>8, Zenon DEF FinishAdopt, TypeOK
  <2>3. QED BY <1>6, <2>1, <2>2, Zenon
<1>9. ASSUME NEW n \in Correct, Restart(n) PROVE SignaturesGiven'
  <2>1. \A k \in Correct : outbound'[k] \subseteq outbound[k] /\ inbound'[k] \subseteq inbound[k]
    BY <1>9, Zenon DEF Restart, TypeOK
  <2>2. \A k \in Correct, s \in Round :
            pending'[k][s] \subseteq pending[k][s] /\ sigs'[k][s] \subseteq sigs[k][s]
    BY <1>9, Zenon DEF Restart, TypeOK
  <2>3. QED BY <1>6, <2>1, <2>2
<1>10. ASSUME \/ \E n \in Correct : Decide(n) \/ ArmLag(n) \/ WriteRecord(n)
              \/ \E n \in Correct : \E q \in quorate[n] : RefuseCheckpoint(n, q)
              \/ \E m \in Member, n \in Correct, r \in Round : AdoptCheckpoint(n, m, r)
              \/ UNCHANGED vars
       PROVE  UNCHANGED <<outbound, inbound, pending, sigs>>
  BY <1>10, Zenon DEF Decide, ArmLag, WriteRecord, RefuseCheckpoint, AdoptCheckpoint, vars
<1>11. QED
  BY <1>1, <1>2, <1>3, <1>4, <1>5, <1>7, <1>8, <1>9, <1>10, Zenon DEF Next

\* Every step keeps QuorumsVerify.
LEMMA StepQuorums ==
    ASSUME SigInv, [Next]_vars, SignaturesGiven', TypeOK'
    PROVE  QuorumsVerify'
<1> USE DEF SigInv
<1>0. /\ derived' = derived
      /\ \A n \in Correct :
             /\ \A q \in quorate[n] : Verifies(q.entry.round, derived[n][q.entry.round])'
             /\ adopting[n] # 0 => Verifies(adopting[n], derived[n][adopting[n]])
  <2>1. derived' = derived
    BY SignedGrows
  <2>2. ASSUME NEW n \in Correct, NEW q \in quorate[n]
        PROVE  Verifies(q.entry.round, derived[n][q.entry.round])'
    <3>1. q.entry.round \in Round
      BY DEF TypeOK, Completed, Entry
    <3>2. Verifies(q.entry.round, derived[n][q.entry.round])
      BY DEF QuorumsVerify
    <3>3. PICK r \in Round : r = q.entry.round
      BY <3>1
    <3>4. PICK p : p = derived[n][q.entry.round]
      OBVIOUS
    <3>5. Verifies(r, p)'
      BY <3>2, <3>3, <3>4, VerifiesStable, Zenon
    <3>6. QED BY <2>1, <3>3, <3>4, <3>5, Zenon
  <2>3. QED BY <2>1, <2>2 DEF QuorumsVerify
<1>1. ASSUME NEW n \in Correct, NEW r \in Round, r = adopting[n]
      PROVE  Verifies(r, derived[n][r])'
  <2>1. r # 0
    BY DEF Round
  <2>2. Verifies(r, derived[n][r])
    BY <1>0, <1>1, <2>1, Zenon
  <2>3. PICK p : p = derived[n][r]
    OBVIOUS
  <2>4. Verifies(r, p)'
    BY <2>2, <2>3, VerifiesStable, Zenon
  <2>5. QED BY <1>0, <2>3, <2>4
<1>2. ASSUME NEW n \in Correct, NEW r \in Round, NEW S, S \subseteq Roster[r], Quorum(r, S),
             \A m \in S : Given(m, r, derived[n][r])'
      PROVE  Verifies(r, derived[n][r])'
  <2> DEFINE T == {m \in Roster[r] : m \in Faulty \/ (r \in signed'[m] /\ derived'[m][r] = derived'[n][r])}
  <2>1. S \subseteq T /\ T \subseteq Roster[r]
    BY <1>2, RosterType, Zenon DEF Given, Correct
  <2>2. Quorum(r, T)
    <3> HIDE DEF T
    <3>1. QED BY <1>2, <2>1, QuorumGrows, Zenon
  <2>3. QED BY <2>2, Zenon DEF Verifies, Quorum
<1>3. ASSUME \A n \in Correct : \A q \in quorate'[n] :
                 q \in quorate[n] \/ Verifies(q.entry.round, derived[n][q.entry.round])',
             \A n \in Correct :
                 \/ adopting'[n] \in {0, adopting[n]}
                 \/ Verifies(adopting[n], derived[n][adopting[n]])'
      PROVE  QuorumsVerify'
  <2>1. ASSUME NEW n \in Correct, adopting'[n] # 0
        PROVE  Verifies(adopting[n], derived[n][adopting[n]])'
    <3>1. CASE adopting'[n] = adopting[n]
      <4>1. adopting[n] \in Round
        BY <2>1, <3>1, Bounds DEF TypeOK, Round
      <4>2. PICK r \in Round : r = adopting[n] /\ r = adopting'[n]
        BY <3>1, <4>1, Zenon
      <4>3. Verifies(r, derived[n][r])'
        BY <1>1, <4>2, Zenon
      <4>4. QED BY <4>2, <4>3, Zenon
    <3>2. QED BY <1>3, <2>1, <3>1, Zenon
  <2>2. QED BY <1>0, <1>3, <2>1, Zenon DEF QuorumsVerify
<1>4. ASSUME NEW n \in Correct, Produce(n) PROVE QuorumsVerify'
  <2>1. PICK r \in Round : r = produced[n] + 1
    BY <1>4, Bounds, Zenon DEF Produce, TypeOK, Round
  <2>2. Collect(n, r, InitialSigners(n, r), TRUE, n)
    BY <1>4, <2>1, Zenon DEF Produce
  <2>3. InitialSigners(n, r) \in SUBSET Member /\ n \in Member /\ InitialSigners(n, r) \subseteq Roster[r]
    BY RosterType DEF InitialSigners, Correct
  <2>4. QuorumOf(n, r, InitialSigners(n, r))
    BY <2>2, <2>3, CollectDoes, Zenon
  <2>5. \A m \in InitialSigners(n, r) : Given(m, r, derived[n][r])'
    <3>1. Given(n, r, derived[n][r])'
      BY <1>0, <1>4, <2>1, ZenonT(60) DEF Given, Produce, TypeOK
    <3>2. \A x \in pending[n][r] : Given(x[1], r, x[2])'
      BY KeptGiven, Zenon
    <3>3. QED BY <1>0, <3>1, <3>2 DEF InitialSigners
  <2>6. Quorum(r, InitialSigners(n, r)) => Verifies(r, derived[n][r])'
    BY <1>2, <2>3, <2>5, Zenon
  <2>7. adopting' = adopting
    BY <1>4 DEF Produce
  <2>8. QED BY <1>3, <2>4, <2>6, <2>7 DEF QuorumOf
<1>5. ASSUME NEW n \in Correct, NEW f \in inbound[n], SubmitSig(n, f) PROVE QuorumsVerify'
  <2> DEFINE r == f.round
             S == sigs[n][r] \cup {f.from}
  <2>1. r \in Round /\ f.from \in Member /\ S \in SUBSET Member
    BY DEF TypeOK, Frame
  <2>2. adopting' = adopting
    BY <1>5, Zenon DEF SubmitSig, driver
  <2>3. CASE quorate' = quorate
    BY <1>3, <2>2, <2>3, Zenon
  <2>4. CASE f.from \in Roster[r] /\ f.payload = derived[n][r] /\ Collect(n, r, S, FALSE, f.from)
    <3>1. QuorumOf(n, r, S)
      BY <2>1, <2>4, CollectDoes, Zenon
    <3>2. S \subseteq Roster[r] /\ \A m \in S : Given(m, r, derived[n][r])'
      BY <1>0, <2>1, <2>4, KeptGiven
    <3>3. PICK T : T = S
      BY Zenon
    <3>4. Quorum(r, T) => Verifies(r, derived[n][r])'
      BY <1>2, <2>1, <3>2, <3>3, Zenon
    <3>5. QED BY <1>3, <2>2, <3>1, <3>3, <3>4, Zenon DEF QuorumOf
  <2>5. QED BY <1>5, <2>3, <2>4, Zenon DEF SubmitSig
<1>6. ASSUME NEW n \in Correct, FinishAdopt(n) PROVE QuorumsVerify'
  <2>1. PICK r \in Round : r = adopting[n]
    BY <1>6, Bounds DEF FinishAdopt, TypeOK, Round
  <2> DEFINE q == [entry |-> [round |-> r, diffs |-> r \in diffs[n]], task |-> n]
  <2>2. q.entry.round = r
    BY Zenon
  <2>3. quorate' = [quorate EXCEPT ![n] = @ \cup {q}] /\ adopting' = adopting
    BY <1>6, <2>1, Zenon DEF FinishAdopt, driver
  <2> HIDE DEF q
  <2>4. \A k \in Correct : \A c \in quorate'[k] : c \in quorate[k] \/ (k = n /\ c = q)
    BY <2>3, Zenon DEF TypeOK
  <2>5. Verifies(r, derived[n][r])'
    BY <1>1, <2>1, Zenon
  <2>6. QED BY <1>3, <2>2, <2>3, <2>4, <2>5, Zenon
<1>7. ASSUME NEW m \in Member, NEW n \in Correct, NEW r \in Round, AdoptCheckpoint(n, m, r)
      PROVE  QuorumsVerify'
  <2>1. PICK p : p = derived[n][r]
    BY Zenon
  <2>2. Verifies(r, p)'
    BY <1>7, <2>1, VerifiesStable, Zenon DEF AdoptCheckpoint
  <2>3. quorate' = quorate /\ adopting' = [adopting EXCEPT ![n] = r]
    BY <1>7, Zenon DEF AdoptCheckpoint
  <2>4. \A k \in Correct : adopting'[k] = adopting[k] \/ (k = n /\ adopting'[k] = r)
    BY <2>3, Zenon DEF TypeOK
  <2>5. QED BY <1>0, <1>3, <2>1, <2>2, <2>3, <2>4, Zenon
<1>8. ASSUME \A n \in Correct : quorate'[n] \subseteq quorate[n] /\ adopting'[n] \in {0, adopting[n]}
      PROVE  QuorumsVerify'
  BY <1>3, <1>8, Zenon
<1>9. ASSUME NEW n \in Correct, NEW q \in quorate[n], AcceptCheckpoint(n, q) PROVE QuorumsVerify'
  <2>1. quorate' = [quorate EXCEPT ![n] = @ \ {q}]
    BY <1>9, Zenon DEF AcceptCheckpoint
  <2>2. adopting' = adopting \/ adopting' = [adopting EXCEPT ![n] = 0]
    BY <1>9, Zenon DEF AcceptCheckpoint, EndAdopt
  <2>3. QED BY <1>8, <2>1, <2>2, Zenon DEF TypeOK
<1>10. ASSUME NEW n \in Correct, NEW q \in quorate[n], RefuseCheckpoint(n, q) PROVE QuorumsVerify'
  <2>1. quorate' = [quorate EXCEPT ![n] = @ \ {q}]
    BY <1>10, Zenon DEF RefuseCheckpoint
  <2>2. adopting' = adopting \/ adopting' = [adopting EXCEPT ![n] = 0]
    BY <1>10, Zenon DEF RefuseCheckpoint, EndAdopt
  <2>3. QED BY <1>8, <2>1, <2>2, ZenonT(60) DEF TypeOK
<1>11. ASSUME NEW n \in Correct, Restart(n) PROVE QuorumsVerify'
  BY <1>8, <1>11 DEF Restart, TypeOK
<1>12. ASSUME \/ \E n \in Correct : Decide(n) \/ ArmLag(n) \/ WriteRecord(n)
              \/ \E m \in Member, n \in Correct, k \in Round, p \in Payload : GossipSigs(m, n, k, p)
              \/ \E n \in Correct : \E f \in inbound[n] : BufferSig(n, f)
              \/ UNCHANGED vars
       PROVE  QuorumsVerify'
  <2>1. UNCHANGED <<quorate, adopting>>
    BY <1>12, ZenonT(60) DEF Decide, ArmLag, WriteRecord, GossipSigs, BufferSig, driver, vars
  <2>2. QED BY <1>8, <2>1, Zenon
<1>13. QED
  BY <1>4, <1>5, <1>6, <1>7, <1>9, <1>10, <1>11, <1>12, Zenon DEF Next

\* Nothing is signed, sent or collected at first.
LEMMA InitSig == Init => SigInv
<1> SUFFICES ASSUME Init PROVE SigInv
  BY Zenon
<1>1. TypeOK
  <2>1. 0 \in 0..MaxRound /\ 0 \in 0..MaxRestarts /\ 0 \in 0..MaxRefusals /\ <<>> \in Seq(Entry)
    BY Bounds
  <2>2. QED BY <2>1, Zenon DEF Init, TypeOK
<1>2. SignaturesGiven
  BY Zenon DEF Init, SignaturesGiven
<1>3. QuorumsVerify
  BY Zenon DEF Init, QuorumsVerify
<1>4. QED BY <1>1, <1>2, <1>3 DEF SigInv

\* The inductive invariant holds throughout.
LEMMA SigInvariance == Spec => []SigInv
<1>1. SigInv /\ [Next]_vars => SigInv'
  <2> SUFFICES ASSUME SigInv, [Next]_vars PROVE SigInv'
    OBVIOUS
  <2>1. TypeOK'
    BY StepType DEF SigInv
  <2>2. SignaturesGiven'
    BY StepGiven
  <2>3. QuorumsVerify'
    BY <2>1, <2>2, StepQuorums
  <2>4. QED BY <2>1, <2>2, <2>3 DEF SigInv
<1>2. QED BY <1>1, InitSig, PTL DEF Spec

------------------------------------------------------------------------------
\* The refinement mapping: what n has signed and what it has accepted.
SignedPairs == [n \in Correct |-> {<<r, derived[n][r]>> : r \in signed[n]}]
AcceptedPairs == [n \in Correct |-> {<<r, derived[n][r]>> : r \in accepted[n]}]

\* The abstract specification counts as this one does.
LEMMA SameCardinality == \A S : Agreed!Cardinality(S) = Cardinality(S)
BY Zenon DEF Agreed!Cardinality, Cardinality, Agreed!IsFiniteSet, IsFiniteSet

\* The abstract signers of a payload are those whose signature verifies.
LEMMA BackersAreSigners ==
    ASSUME NEW r \in Round, NEW p, TypeOK
    PROVE  Agreed!Backers(r, p)
             = {m \in Roster[r] : m \in Faulty \/ (r \in signed[m] /\ derived[m][r] = p)}
<1>1. \A m \in Correct : <<r, p>> \in SignedPairs[m] <=> r \in signed[m] /\ derived[m][r] = p
  BY DEF SignedPairs
<1>2. \A m \in Roster[r] : m \in Faulty \/ m \in Correct
  BY RosterType DEF Correct
<1>3. QED BY <1>1, <1>2, Zenon DEF Agreed!Backers, SignedPairs

\* Producing a checkpoint signs what was derived, or re-signs it after a restart.
LEMMA ProduceRefines ==
    ASSUME TypeOK, NEW n \in Correct, Produce(n)
    PROVE  [Agreed!Next]_(Agreed!vars)
<1>1. PICK r \in Round : r = produced[n] + 1
  BY Bounds DEF Produce, TypeOK, Round
<1>2. /\ signed' = [signed EXCEPT ![n] = @ \cup {r}]
      /\ derived' = derived /\ accepted' = accepted
  BY <1>1, Zenon DEF Produce
<1>3. PICK p \in Payload : p = derived[n][r]
  BY DEF TypeOK
<1>4. CASE r \in signed[n]
  <2>1. signed' = signed
    BY <1>2, <1>4, Zenon DEF TypeOK
  <2>2. QED BY <1>2, <2>1, Zenon DEF Agreed!vars
<1>5. CASE r \notin signed[n]
  <2>1. \A q \in Payload : <<r, q>> \notin SignedPairs[n]
    BY <1>5, Zenon DEF SignedPairs
  <2>2. SignedPairs' = [SignedPairs EXCEPT ![n] = @ \cup {<<r, p>>}]
    <3>1. ASSUME NEW k \in Correct
          PROVE  SignedPairs'[k] = IF k = n THEN SignedPairs[n] \cup {<<r, p>>} ELSE SignedPairs[k]
      BY <1>2, <1>3, Zenon DEF SignedPairs, TypeOK
    <3>2. QED BY <3>1, Zenon DEF SignedPairs
  <2>3. AcceptedPairs' = AcceptedPairs
    BY <1>2, Zenon DEF AcceptedPairs
  <2>4. Agreed!Sign(n, r, p)
    BY <2>1, <2>2, <2>3, Zenon DEF Agreed!Sign, SignedPairs, AcceptedPairs
  <2>5. QED BY <2>4, Zenon DEF Agreed!Next, Agreed!Correct, Correct
<1>6. QED BY <1>4, <1>5, Zenon

\* Accepting a checkpoint is accepting what a quorum signed.
LEMMA AcceptRefines ==
    ASSUME SigInv, NEW n \in Correct, NEW q \in quorate[n], AcceptCheckpoint(n, q)
    PROVE  [Agreed!Next]_(Agreed!vars)
<1> USE DEF SigInv
<1>1. PICK r \in Round : r = q.entry.round
  BY DEF TypeOK, Completed, Entry
<1>2. /\ accepted' = [accepted EXCEPT ![n] = @ \cup {r}]
      /\ derived' = derived /\ signed' = signed
  BY <1>1, Zenon DEF AcceptCheckpoint
<1>3. PICK p \in Payload : p = derived[n][r]
  BY DEF TypeOK
<1>4. Quorum(r, Agreed!Backers(r, p))
  <2>1. Verifies(r, p)
    BY <1>1, <1>3 DEF QuorumsVerify
  <2>2. QED BY <2>1, BackersAreSigners, Zenon DEF Verifies
<1>5. AcceptedPairs' = [AcceptedPairs EXCEPT ![n] = @ \cup {<<r, p>>}]
  <2>1. ASSUME NEW k \in Correct
        PROVE  AcceptedPairs'[k]
                 = IF k = n THEN AcceptedPairs[n] \cup {<<r, p>>} ELSE AcceptedPairs[k]
    BY <1>2, <1>3, Zenon DEF AcceptedPairs, TypeOK
  <2>2. QED BY <2>1, Zenon DEF AcceptedPairs
<1>6. SignedPairs' = SignedPairs
  BY <1>2, Zenon DEF SignedPairs
<1>7. Agreed!Accept(n, r, p)
  <2>1. Agreed!Quorum(r, Agreed!Backers(r, p))
    BY <1>4, SameCardinality, Zenon DEF Agreed!Quorum, Quorum
  <2>2. QED BY <2>1, <1>5, <1>6, Zenon DEF Agreed!Accept, SignedPairs, AcceptedPairs
<1>8. QED BY <1>7, Zenon DEF Agreed!Next, Agreed!Correct, Correct

\* Every step is one of the abstract protocol or changes nothing there.
LEMMA StepRefines == SigInv /\ [Next]_vars => [Agreed!Next]_(Agreed!vars)
<1> SUFFICES ASSUME SigInv, [Next]_vars PROVE [Agreed!Next]_(Agreed!vars)
  OBVIOUS
<1>1. ASSUME NEW n \in Correct, Produce(n) PROVE [Agreed!Next]_(Agreed!vars)
  BY <1>1, ProduceRefines, Zenon DEF SigInv
<1>2. ASSUME NEW n \in Correct, NEW q \in quorate[n], AcceptCheckpoint(n, q)
      PROVE  [Agreed!Next]_(Agreed!vars)
  BY <1>2, AcceptRefines, Zenon
<1>3. ASSUME ~ \E n \in Correct : Produce(n),
             ~ \E n \in Correct : \E q \in quorate[n] : AcceptCheckpoint(n, q)
      PROVE  UNCHANGED <<derived, signed, accepted>>
  BY <1>3, ZenonT(60) DEF Next, Decide, ArmLag, FinishAdopt, WriteRecord, Restart, GossipSigs, SubmitSig,
              BufferSig, RefuseCheckpoint, AdoptCheckpoint, vars
<1>4. UNCHANGED <<derived, signed, accepted>> => UNCHANGED Agreed!vars
  BY DEF Agreed!vars
<1>5. QED BY <1>1, <1>2, <1>3, <1>4, Zenon

\* Checkpoint collection implements the abstract protocol: whatever is dropped,
\* delayed, buffered, adopted, refused or lost in a restart, no step signs a
\* second payload for a round or records a checkpoint without its quorum.
THEOREM CheckpointsRefineAgreement == Spec => RefinesAgreement
<1>1. Init => Agreed!Init
  <2> SUFFICES ASSUME Init PROVE Agreed!Init
    OBVIOUS
  <2>1. \A n \in Correct : SignedPairs[n] = {} /\ AcceptedPairs[n] = {}
    BY Zenon DEF Init, SignedPairs, AcceptedPairs
  <2>2. QED
    BY <2>1, Zenon DEF Agreed!Init, SignedPairs, AcceptedPairs, Agreed!Correct, Correct
<1>2. QED
  BY <1>1, SigInvariance, StepRefines, PTL DEF Spec, RefinesAgreement, Agreed!Spec

\* Rounds of record files ascend: run_writer drops a round below its next one.
LEMMA StepRecorded == TypeOK /\ RecordedOnce /\ [Next]_vars => RecordedOnce'
<1> SUFFICES ASSUME TypeOK, RecordedOnce, [Next]_vars PROVE RecordedOnce'
  BY Zenon
<1>1. ASSUME NEW n \in Correct, WriteRecord(n) PROVE RecordedOnce'
  <2> DEFINE F == files[n]
             e == Head(queue[n])
  <2>1. F \in Seq(Entry) /\ e \in Entry
    BY <1>1 DEF WriteRecord, TypeOK
  <2>2. CASE files' = files
    BY <2>2, Zenon DEF RecordedOnce
  <2>3. CASE e.round >= NextFile(n) /\ files' = [files EXCEPT ![n] = Append(F, e)]
    <3>1. \A k \in Correct : files'[k] = IF k = n THEN Append(F, e) ELSE files[k]
      BY <2>3, SMTT(30) DEF TypeOK
    <3>2. \A i \in 1..Len(F) : F[i] \in Entry /\ F[i].round \in Nat
      <4>1. \A i \in 1..Len(F) : F[i] \in Entry
        BY <2>1
      <4>2. \A x \in Entry : x.round \in Nat
        BY Bounds DEF Entry, Round
      <4>3. QED BY <4>1, <4>2
    <3>3. \A i \in 1..Len(F) : F[i].round < e.round
      <4> SUFFICES ASSUME NEW i \in 1..Len(F) PROVE F[i].round < e.round
        OBVIOUS
      <4>1. Len(F) \in 1..Len(F) /\ F # <<>>
        BY <2>1
      <4>2. e.round >= F[Len(F)].round + 1 /\ e.round \in Nat
        BY <2>1, <2>3, <4>1 DEF NextFile, Entry, Round
      <4>3. F[i].round <= F[Len(F)].round
        BY <3>2, <4>1, <2>1 DEF RecordedOnce
      <4>4. QED BY <3>2, <4>1, <4>2, <4>3
    <3>4. \A i, j \in 1..Len(Append(F, e)) :
              i < j => Append(F, e)[i].round < Append(F, e)[j].round
      <4> HIDE DEF e
      <4> SUFFICES ASSUME NEW i \in 1..Len(Append(F, e)), NEW j \in 1..Len(Append(F, e)), i < j
                   PROVE  Append(F, e)[i].round < Append(F, e)[j].round
        OBVIOUS
      <4>1. Len(Append(F, e)) = Len(F) + 1 /\ Len(F) \in Nat
        BY <2>1
      <4>2. i \in 1..Len(F) /\ Append(F, e)[i] = F[i]
        BY <2>1, <4>1
      <4>3. CASE j = Len(F) + 1
        BY <2>1, <3>3, <4>2, <4>3
      <4>4. CASE j \in 1..Len(F)
        <5>1. Append(F, e)[j] = F[j]
          BY <2>1, <4>4
        <5>2. F[i].round < F[j].round
          BY <4>2, <4>4 DEF RecordedOnce
        <5>3. QED BY <4>2, <5>1, <5>2
      <4>5. QED BY <4>1, <4>3, <4>4
    <3>5. QED BY <3>1, <3>4, Zenon DEF RecordedOnce
  <2>4. QED BY <1>1, <2>2, <2>3, Zenon DEF WriteRecord
<1>2. ASSUME ~ \E n \in Correct : WriteRecord(n)
      PROVE  files' = files
  BY <1>2, ZenonT(60) DEF Next, Decide, Produce, ArmLag, FinishAdopt, Restart, GossipSigs, SubmitSig,
              BufferSig, AcceptCheckpoint, RefuseCheckpoint, AdoptCheckpoint, records, vars
<1>3. QED BY <1>1, <1>2, Zenon DEF RecordedOnce

\* Each round is written to at most one record file, in ascending order, though
\* rounds are accepted twice and out of order and a restart forgets the queue.
THEOREM RecordFilesAscend == Spec => []RecordedOnce
<1>1. Init => RecordedOnce
  BY DEF Init, RecordedOnce
<1>2. SigInv => TypeOK
  BY Zenon DEF SigInv
<1>3. QED BY <1>1, <1>2, SigInvariance, StepRecorded, PTL DEF Spec

------------------------------------------------------------------------------
\* The theorem about the abstract protocol, of what this one signs and accepts.
Abstract == INSTANCE CheckpointAgreementProofs
    WITH signed <- SignedPairs, accepted <- AcceptedPairs

\* The assumption of the abstract protocol holds of the rosters.
LEMMA AbstractAssumption ==
    /\ Faulty \subseteq Member
    /\ Round \subseteq Nat \ {0}
    /\ Abstract!IsFiniteSet(Member)
    /\ Roster \in [Round -> SUBSET Member]
    /\ \A r \in Round :
          Abstract!Cardinality(Faulty \cap Roster[r]) * 3 < Abstract!Cardinality(Roster[r])
<1>1. \A S : Abstract!Cardinality(S) = Cardinality(S)
  BY Zenon DEF Abstract!Cardinality, Cardinality, Abstract!IsFiniteSet, IsFiniteSet
<1>2. \A S : Abstract!IsFiniteSet(S) <=> IsFiniteSet(S)
  BY Zenon DEF Abstract!IsFiniteSet, IsFiniteSet
<1>3. Round \subseteq Nat \ {0}
  BY Bounds DEF Round
<1>4. QED BY <1>1, <1>2, <1>3, CheckpointAssumption, Zenon

\* Two correct members that accepted a checkpoint for a round derived the same
\* payload for it, whatever was lost, adopted or forgotten in a restart.
AcceptedSame ==
    \A m, n \in Correct : \A r \in accepted[m] \cap accepted[n] : derived[m][r] = derived[n][r]

\* So the nodes of module Checkpoint agree.
THEOREM AcceptedAgree == Spec => []AcceptedSame
<1>1. Abstract!Spec => []Abstract!Agreement
  BY AbstractAssumption, Abstract!AgreementTheorem, PTL
<1>2. Agreed!Init => Abstract!Init
  BY Zenon DEF Agreed!Init, Abstract!Init, SignedPairs, AcceptedPairs, Agreed!Correct, Abstract!Correct
<1>3. [Agreed!Next]_(Agreed!vars) => [Abstract!Next]_(Abstract!vars)
  <2>1. \A S : Abstract!Cardinality(S) = Agreed!Cardinality(S)
    BY Zenon DEF Abstract!Cardinality, Agreed!Cardinality, Abstract!IsFiniteSet, Agreed!IsFiniteSet
  <2>2. \A r, S : Abstract!Quorum(r, S) <=> Agreed!Quorum(r, S)
    BY <2>1, Zenon DEF Abstract!Quorum, Agreed!Quorum
  <2>3. \A r, p : Abstract!Backers(r, p) = Agreed!Backers(r, p)
    BY Zenon DEF Abstract!Backers, Agreed!Backers, SignedPairs
  <2>4. UNCHANGED Agreed!vars => UNCHANGED Abstract!vars
    BY Zenon DEF Agreed!vars, Abstract!vars, SignedPairs, AcceptedPairs
  <2>5. \A m, r, p : Agreed!Sign(m, r, p) => Abstract!Sign(m, r, p)
    BY Zenon DEF Agreed!Sign, Abstract!Sign, SignedPairs, AcceptedPairs
  <2>6. \A m, r, p : Agreed!Accept(m, r, p) => Abstract!Accept(m, r, p)
    BY <2>2, <2>3, Zenon DEF Agreed!Accept, Abstract!Accept, SignedPairs, AcceptedPairs
  <2>7. QED
    BY <2>4, <2>5, <2>6 DEF Agreed!Next, Abstract!Next, Agreed!Correct, Abstract!Correct
<1>4. TypeOK /\ Abstract!Agreement => AcceptedSame
  <2> SUFFICES ASSUME TypeOK, Abstract!Agreement, NEW m \in Correct, NEW n \in Correct,
                      NEW r \in accepted[m] \cap accepted[n]
               PROVE  derived[m][r] = derived[n][r]
    BY Zenon DEF AcceptedSame
  <2>1. r \in Round /\ derived[m][r] \in Payload /\ derived[n][r] \in Payload
    BY DEF TypeOK
  <2>2. <<r, derived[m][r]>> \in AcceptedPairs[m] /\ <<r, derived[n][r]>> \in AcceptedPairs[n]
    BY DEF AcceptedPairs
  <2>3. QED BY <2>1, <2>2, Zenon DEF Abstract!Agreement, Abstract!Correct, Correct
<1>5. SigInv => TypeOK
  BY DEF SigInv
<1>6. QED
  BY <1>1, <1>2, <1>3, <1>4, <1>5, SigInvariance, CheckpointsRefineAgreement, PTL
  DEF RefinesAgreement, Agreed!Spec, Abstract!Spec
==============================================================================
