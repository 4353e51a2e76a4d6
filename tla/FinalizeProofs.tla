--------------------------- MODULE FinalizeProofs ---------------------------
(***************************************************************************)
(* What process_finalized_rounds executes and signs, for every order of    *)
(* operations and every number of restarts and reconnects: the events of a *)
(* round are executed in its order, the bytes kept for a round rebuild to  *)
(* the hash signed for it, and, where what is executed again after a       *)
(* restore can do no harm, each round that was collected is signed with    *)
(* the state exactly after it.                                             *)
(***************************************************************************)
EXTENDS Finalize, BasicLemmas

------------------------------------------------------------------------------
\* Types.
Entry == [Key -> Value \cup {"absent"}]
StateType == [kv : Entry, tree : Entry]
Event == UNION {EventsOf(r) : r \in 1..MaxRound}
MapType == {m \in UNION {[D -> Entry] : D \in SUBSET (0..MaxRound)} : 0 \in DOMAIN m}

TypeInv ==
    /\ ordered \in 0..MaxRound /\ floor \in 1..MaxRound+1
    /\ pc \in {"idle", "execute", "produce"}
    /\ collected \in 0..MaxRound /\ (pc # "idle" => collected <= ordered)
    /\ state \in StateType /\ executed \in SUBSET Event
    /\ processed_through_round \in 0..MaxRound /\ checkpoint_watermark \in 0..MaxRound
    /\ cumulative_state_hashes \in MapType /\ snapshots \in MapType
    /\ DOMAIN signed \subseteq 1..MaxRound
    /\ faults \in Nat

\* An event that the graph retains once its round is collected.
Kept(e) == e[1] >= floor \/ e \in Anchors

\* RoundPrefix, whatever of the events' rounds is collected.
InPrefix(E) == \A e \in E : \A i \in 1..e[2] : Kept(<<e[1], i>>) => <<e[1], i>> \in E

\* The last hash recorded is the state's.
LatestIs(m, v) == \E t \in DOMAIN m : m[t] = v /\ \A j \in DOMAIN m : j <= t

\* Until a storage error: nothing was executed or recorded beyond the processed
\* rounds, the last hash is the state's, and the rounds still to be signed find
\* the same state in the hashes and in the snapshots of the pass.
SnapshotInv ==
    faults = 0 =>
        /\ state.kv = state.tree
        /\ \A e \in executed : e[1] <= processed_through_round
        /\ DOMAIN cumulative_state_hashes \subseteq 0..processed_through_round
        /\ LatestIs(cumulative_state_hashes, state.tree)
        /\ IF pc = "produce"
           THEN /\ processed_through_round <= checkpoint_watermark \/ processed_through_round <= collected
                /\ \A r \in checkpoint_watermark+1..MaxRound :
                      AtOrBelow(cumulative_state_hashes, r) = AtOrBelow(snapshots, r)
           ELSE processed_through_round <= checkpoint_watermark

\* Operations that are never refused, and the orders whose replay from a
\* checkpoint below some of them leads back to the same state: every operation
\* is a put and nothing is retained below the restored graph's first round.
PutsOnly == \A r \in 1..MaxRound : \A i \in 1..Len(Ops[r]) : Ops[r][i].when = "any"
Replayable == MaxRestores = 0 \/ (Anchors = {} /\ PutsOnly)

\* The events from the first retained round to round c.
EventsTo(c) == {e \in Event : floor <= e[1] /\ e[1] <= c}

\* The state is the one after round c, and what led to it has been executed by
\* this executor, or nothing has since it was restored.
AtRound(c) ==
    /\ floor <= c + 1 /\ c <= ordered
    /\ state.tree = StateAt[c]
    /\ executed = EventsTo(c) \/ (executed = {} /\ Anchors = {} /\ PutsOnly)
    /\ IF pc = "produce" THEN c = collected ELSE c <= checkpoint_watermark
    /\ pc = "execute" => c <= collected

OrderInv ==
    /\ (floor = 1 /\ restores = 0) \/ (Anchors = {} /\ PutsOnly)
    /\ faults = 0 =>
         /\ \E c \in 0..MaxRound : AtRound(c)
         /\ pc = "produce" => \A r \in checkpoint_watermark+1..collected :
                                 AtOrBelow(cumulative_state_hashes, r) = StateAt[r]

------------------------------------------------------------------------------
\* The values of the loops.
RoundType == [state : StateType, executed : SUBSET Event, any_new : BOOLEAN, failed : BOOLEAN]
PassType == [state : StateType, executed : SUBSET Event, processed : 0..MaxRound,
             failed : BOOLEAN, hashes : MapType, snapshots : MapType]

LEMMA OpsType ==
    ASSUME NEW r \in 1..MaxRound
    PROVE  /\ Len(Ops[r]) \in Nat
           /\ \A i \in 1..Len(Ops[r]) :
                 Ops[r][i] \in [key : Key, when : Value \cup {"any", "absent"}, value : Value]
<1> DEFINE T == [key : Key, when : Value \cup {"any", "absent"}, value : Value]
<1>1. Ops \in [1..MaxRound -> Seq(T)]
  BY OpsAssumption, Zenon
<1> HIDE DEF T
<1>2. Ops[r] \in Seq(T)
  BY <1>1, Zenon
<1>3. Len(Ops[r]) \in Nat /\ \A i \in 1..Len(Ops[r]) : Ops[r][i] \in T
  BY <1>2
<1>4. QED BY <1>3, Zenon DEF T

LEMMA EventIs ==
    ASSUME NEW e
    PROVE  /\ e \in Event <=> \E r \in 1..MaxRound : \E i \in 1..Len(Ops[r]) : e = <<r, i>>
           /\ e \in Retained <=> /\ \E r \in 1..collected : \E i \in 1..Len(Ops[r]) : e = <<r, i>>
                                 /\ Kept(e)
<1>1. \A r : e \in EventsOf(r) <=> \E i \in 1..Len(Ops[r]) : e = <<r, i>>
  BY DEF EventsOf
<1>2. QED BY <1>1, Zenon DEF Event, Retained, Kept

LEMMA ApplyType ==
    ASSUME NEW s \in StateType, NEW r \in 1..MaxRound, NEW i \in 1..Len(Ops[r])
    PROVE  Apply(s, Ops[r][i]) \in StateType
BY OpsType, Zenon DEF Apply, StateType, Entry

\* An operation changes the partition and the tree alike.
LEMMA ApplyInSync ==
    ASSUME NEW s \in StateType, NEW op, s.kv = s.tree
    PROVE  Apply(s, op).kv = Apply(s, op).tree
BY Zenon DEF Apply

LEMMA ExecuteEventType ==
    ASSUME NEW x \in RoundType, NEW r \in 1..MaxRound, NEW i \in 1..Len(Ops[r]), NEW fault
    PROVE  ExecuteEvent(x, <<r, i>>, fault) \in RoundType
<1>1. <<r, i>> \in Event /\ <<r, i>>[1] = r /\ <<r, i>>[2] = i
  BY EventIs, Zenon
<1>2. Apply(x.state, Ops[r][i]) \in StateType
  BY ApplyType, Zenon DEF RoundType
<1>3. PICK s1 \in StateType : s1 = Apply(x.state, Ops[r][i])
  BY <1>2, Zenon
<1>4. PICK e \in Event : e = <<r, i>> /\ e[1] = r /\ e[2] = i
  BY <1>1, Zenon
<1>5. ExecuteEvent(x, e, fault) \in {x, [x EXCEPT !.failed = TRUE],
          [x EXCEPT !.state = s1, !.executed = @ \cup {e}, !.any_new = TRUE]}
  BY <1>3, <1>4, Zenon DEF ExecuteEvent, RoundType
<1>6. [x EXCEPT !.failed = TRUE] \in RoundType
  BY Zenon DEF RoundType
<1>7. [x EXCEPT !.state = s1, !.executed = @ \cup {e}, !.any_new = TRUE] \in RoundType
  BY Zenon DEF RoundType
<1>8. QED BY <1>4, <1>5, <1>6, <1>7, Zenon

\* A function on 0..n that starts in X and stays there from one value to the next.
LEMMA RunTyped ==
    ASSUME NEW X, NEW n \in Nat, NEW f, f = [i \in 0..n |-> f[i]], f[0] \in X,
           \A i \in 1..n : f[i-1] \in X => f[i] \in X
    PROVE  f \in [0..n -> X]
<1> DEFINE S == {i \in 0..n : f[i] \in X}
<1>1. 0 \in S
  OBVIOUS
<1>2. ASSUME NEW i \in 0..n-1, i \in S PROVE i + 1 \in S
  <2>1. i + 1 \in 1..n /\ (i + 1) - 1 = i
    OBVIOUS
  <2>2. QED BY <1>2, <2>1
<1>3. 0..n \subseteq S
  <2> HIDE DEF S
  <2>1. QED BY <1>1, <1>2, UpTo, Zenon
<1>4. QED BY <1>3, Zenon

\* The operations of a round, one after the other.
LEMMA AppliedUnfolds ==
    ASSUME NEW s \in StateType, NEW r \in 1..MaxRound
    PROVE  \E f \in [0..Len(Ops[r]) -> StateType] : 
              /\ RoundApplied(s, r) = f[Len(Ops[r])]
              /\ f[0] = s /\ \A i \in 1..Len(Ops[r]) : f[i] = Apply(f[i-1], Ops[r][i])
<1> DEFINE n == Len(Ops[r])
           X == StateType
           x0 == s
           Step(i, y) == Apply(y, Ops[r][i])
<1>0. n \in Nat /\ x0 \in X
  BY OpsType, Zenon
<1>1. \A i \in 1..n : \A y \in X : Step(i, y) \in X
  BY ApplyType, Zenon
<1> HIDE DEF n, X, x0, Step
<1> DEFINE step == [i \in 1..n |-> [y \in X |-> Step(i, y)]]
           Solves(g) == g = [i \in 0..n |-> IF i = 0 THEN x0 ELSE Step(i, g[i - 1])]
           f == CHOOSE g : Solves(g)
<1>2. step \in StepsOf(X, n)
  BY <1>1, Zenon DEF StepsOf
<1>3. PICK g : g \in RunsOf(X, n, x0, step)
  <2> HIDE DEF step
  <2>1. QED BY <1>0, <1>2, RunExists, Zenon
<1>4. g \in [0..n -> X] /\ g[0] = x0 /\ \A i \in 1..n : g[i] = Step(i, g[i-1])
  <2>1. g \in [0..n -> X] /\ g[0] = x0 /\ \A i \in 1..n : g[i] = step[i][g[i-1]]
    BY <1>3, Zenon DEF RunsOf
  <2>2. ASSUME NEW i \in 1..n PROVE g[i] = Step(i, g[i-1])
    <3>1. g[i-1] \in X
      BY <2>1, <1>0
    <3>2. step[i][g[i-1]] = Step(i, g[i-1])
      BY <3>1, Zenon
    <3>3. QED BY <2>1, <3>2, Zenon
  <2>3. QED BY <2>1, <2>2, Zenon
<1>5. Solves(g)
  <2>1. \A i \in 0..n : g[i] = IF i = 0 THEN x0 ELSE Step(i, g[i - 1])
    BY <1>4
  <2>2. QED BY <2>1, <1>4, Zenon
<1>6. Solves(f)
  BY <1>5, Zenon
<1>7. RoundApplied(s, r) = f[n]
  BY Zenon DEF RoundApplied, Step, n, x0
<1> HIDE DEF f, step
<1>8. DOMAIN f = 0..n /\ f[0] = x0 /\ \A i \in 1..n : f[i] = Step(i, f[i-1])
  BY <1>0, <1>6
<1>9. f \in [0..n -> X]
  <2>1. f = [i \in 0..n |-> f[i]] /\ f[0] \in X
    BY <1>0, <1>6, <1>8, Zenon
  <2>2. \A i \in 1..n : f[i-1] \in X => f[i] \in X
    BY <1>1, <1>8, Zenon
  <2> HIDE DEF Solves
  <2>3. QED BY <1>0, <2>1, <2>2, RunTyped, Zenon
<1>10. QED
  BY <1>7, <1>8, <1>9, Zenon DEF n, X, x0, Step

\* bucket_finalized_with_diffs before its first event, and what it returns.
BucketStart(x) == [state |-> x.state, executed |-> x.executed, any_new |-> FALSE, failed |-> FALSE]

BucketEnd(x, r, done) ==
    [x EXCEPT !.state = done.state, !.executed = done.executed, !.failed = done.failed,
              !.processed = IF done.any_new /\ ~done.failed /\ r > @ THEN r ELSE @]

BucketRun(f, x, r, fault) ==
    /\ f[0] = BucketStart(x)
    /\ \A i \in 1..Len(Ops[r]) : f[i] = ExecuteEvent(f[i-1], <<r, i>>, fault)

\* The events of a round, one after the other.
LEMMA BucketUnfolds ==
    ASSUME NEW x \in PassType, NEW r \in 1..MaxRound, NEW fault
    PROVE  \E f \in [0..Len(Ops[r]) -> RoundType] : 
              /\ BucketRun(f, x, r, fault)
              /\ BucketFinalized(x, r, fault) = BucketEnd(x, r, f[Len(Ops[r])])
<1> DEFINE n == Len(Ops[r])
           X == RoundType
           x0 == BucketStart(x)
           Step(i, y) == ExecuteEvent(y, <<r, i>>, fault)
<1>0. n \in Nat /\ x0 \in X
  BY OpsType, Zenon DEF BucketStart, RoundType, PassType
<1>1. \A i \in 1..n : \A y \in X : Step(i, y) \in X
  BY ExecuteEventType, Zenon
<1> HIDE DEF n, X, x0, Step
<1> DEFINE step == [i \in 1..n |-> [y \in X |-> Step(i, y)]]
           Solves(g) == g = [i \in 0..n |-> IF i = 0 THEN x0 ELSE Step(i, g[i - 1])]
           f == CHOOSE g : Solves(g)
<1>2. step \in StepsOf(X, n)
  BY <1>1, Zenon DEF StepsOf
<1>3. PICK g : g \in RunsOf(X, n, x0, step)
  <2> HIDE DEF step
  <2>1. QED BY <1>0, <1>2, RunExists, Zenon
<1>4. g \in [0..n -> X] /\ g[0] = x0 /\ \A i \in 1..n : g[i] = Step(i, g[i-1])
  <2>1. g \in [0..n -> X] /\ g[0] = x0 /\ \A i \in 1..n : g[i] = step[i][g[i-1]]
    BY <1>3, Zenon DEF RunsOf
  <2>2. ASSUME NEW i \in 1..n PROVE g[i] = Step(i, g[i-1])
    <3>1. g[i-1] \in X
      BY <2>1, <1>0
    <3>2. step[i][g[i-1]] = Step(i, g[i-1])
      BY <3>1, Zenon
    <3>3. QED BY <2>1, <3>2, Zenon
  <2>3. QED BY <2>1, <2>2, Zenon
<1>5. Solves(g)
  <2>1. \A i \in 0..n : g[i] = IF i = 0 THEN x0 ELSE Step(i, g[i - 1])
    BY <1>4
  <2>2. QED BY <2>1, <1>4, Zenon
<1>6. Solves(f)
  BY <1>5, Zenon
<1>7. BucketFinalized(x, r, fault) = BucketEnd(x, r, f[n])
  BY Zenon DEF BucketFinalized, BucketEnd, BucketStart, Step, n, x0
<1> HIDE DEF f, step
<1>8. DOMAIN f = 0..n /\ f[0] = x0 /\ \A i \in 1..n : f[i] = Step(i, f[i-1])
  BY <1>0, <1>6
<1>9. f \in [0..n -> X]
  <2>1. f = [i \in 0..n |-> f[i]] /\ f[0] \in X
    BY <1>0, <1>6, <1>8, Zenon
  <2>2. \A i \in 1..n : f[i-1] \in X => f[i] \in X
    BY <1>1, <1>8, Zenon
  <2> HIDE DEF Solves
  <2>3. QED BY <1>0, <2>1, <2>2, RunTyped, Zenon
<1>10. QED
  BY <1>7, <1>8, <1>9, Zenon DEF n, X, x0, Step, BucketRun

LEMMA BucketType ==
    ASSUME NEW x \in PassType, NEW r \in 1..MaxRound, NEW fault
    PROVE  BucketFinalized(x, r, fault) \in PassType
<1>1. PICK f \in [0..Len(Ops[r]) -> RoundType] : BucketFinalized(x, r, fault) = BucketEnd(x, r, f[Len(Ops[r])])
  BY BucketUnfolds, Zenon
<1>2. f[Len(Ops[r])] \in RoundType
  BY OpsType
<1>3. PICK done \in RoundType : done = f[Len(Ops[r])]
  BY <1>2, Zenon
<1>4. BucketEnd(x, r, done) \in PassType
  <2>1. PICK p \in 0..MaxRound : p = IF done.any_new /\ ~done.failed /\ r > x.processed THEN r ELSE x.processed
    BY OpsAssumption DEF PassType
  <2>2. BucketEnd(x, r, done) = [x EXCEPT !.state = done.state, !.executed = done.executed,
                                         !.failed = done.failed, !.processed = p]
    BY <2>1, Zenon DEF BucketEnd, PassType
  <2>3. QED BY <2>2, Zenon DEF PassType, RoundType
<1>5. QED BY <1>1, <1>3, <1>4, Zenon

LEMMA MapDomain ==
    ASSUME NEW m \in MapType
    PROVE  /\ DOMAIN m \subseteq 0..MaxRound /\ 0 \in DOMAIN m
           /\ \A i \in DOMAIN m : i \in Nat /\ i >= 0 /\ i <= MaxRound
<1>1. DOMAIN m \subseteq 0..MaxRound /\ 0 \in DOMAIN m
  BY Zenon DEF MapType
<1>2. QED BY <1>1, OpsAssumption

LEMMA PutType ==
    ASSUME NEW m \in MapType, NEW r \in 0..MaxRound, NEW v \in Entry
    PROVE  /\ Put(m, r, v) \in MapType
           /\ DOMAIN Put(m, r, v) = DOMAIN m \cup {r}
           /\ Put(m, r, v)[r] = v
           /\ \A i \in DOMAIN m : i # r => Put(m, r, v)[i] = m[i]
<1>1. PICK D \in SUBSET (0..MaxRound) : m \in [D -> Entry] /\ 0 \in D
  BY Zenon DEF MapType
<1>2. Put(m, r, v) \in [D \cup {r} -> Entry]
  BY <1>1, Zenon DEF Put
<1>3. D \cup {r} \in SUBSET (0..MaxRound) /\ DOMAIN Put(m, r, v) = D \cup {r} /\ DOMAIN m = D
  BY <1>1, <1>2, Zenon
<1>4. Put(m, r, v) \in MapType
  BY <1>1, <1>2, <1>3, Zenon DEF MapType
<1>5. Put(m, r, v)[r] = v /\ \A i \in DOMAIN m : i # r => Put(m, r, v)[i] = m[i]
  BY <1>3, Zenon DEF Put
<1>6. QED BY <1>3, <1>4, <1>5, Zenon

\* One round of phase B as a step: over a round with retained events only.
RoundStep(x, r, fault) ==
    IF \E e \in Retained : e[1] = r THEN ExecuteRound(x, r, processed_through_round, fault) ELSE x

LEMMA RoundStepType ==
    ASSUME NEW x \in PassType, NEW r \in 1..MaxRound, NEW fault
    PROVE  RoundStep(x, r, fault) \in PassType
<1>1. PICK y \in PassType : y = BucketFinalized(x, r, fault)
  BY BucketType, Zenon
<1>2. PICK to \in 0..MaxRound : to = IF r > processed_through_round THEN r ELSE y.processed
  BY <1>1, OpsAssumption DEF PassType
<1>3. y.hashes \in MapType /\ y.snapshots \in MapType /\ y.state.tree \in Entry /\ y.state.kv \in Entry
  BY <1>1, Zenon DEF PassType, StateType
<1>4. PICK h \in MapType : h = Put(y.hashes, to, y.state.tree)
  BY <1>2, <1>3, PutType, Zenon
<1>5. PICK k \in MapType : k = Put(y.snapshots, to, y.state.kv)
  BY <1>2, <1>3, PutType, Zenon
<1>6. [y EXCEPT !.hashes = h, !.snapshots = k] \in PassType
  BY <1>1, <1>4, <1>5, Zenon DEF PassType
<1>7. ExecuteRound(x, r, processed_through_round, fault) \in {y, [y EXCEPT !.hashes = h, !.snapshots = k]}
  BY <1>1, <1>2, <1>4, <1>5, Zenon DEF ExecuteRound, PassType
<1>8. QED BY <1>1, <1>6, <1>7, Zenon DEF RoundStep

PassStart == [state |-> state, executed |-> executed, processed |-> processed_through_round,
              failed |-> FALSE, hashes |-> [r \in {0} |-> state.tree],
              snapshots |-> [r \in {0} |-> state.kv]]

LEMMA PassStartType == TypeInv => PassStart \in PassType
<1> SUFFICES ASSUME TypeInv PROVE PassStart \in PassType
  BY Zenon
<1>1. state.tree \in Entry /\ state.kv \in Entry
  BY Zenon DEF TypeInv, StateType
<1>2. \A v \in Entry : [r \in {0} |-> v] \in MapType
  <2>1. {0} \in SUBSET (0..MaxRound)
    BY OpsAssumption
  <2>2. \A v \in Entry : [r \in {0} |-> v] \in [{0} -> Entry]
    BY Zenon
  <2>3. QED BY <2>1, <2>2, Zenon DEF MapType
<1>3. QED BY <1>1, <1>2, Zenon DEF PassStart, PassType, TypeInv

PassRun(g, last, fault) ==
    /\ g[0] = PassStart
    /\ \A r \in 1..last : g[r] = RoundStep(g[r-1], r, fault)

\* Phase B, round by round.
LEMMA PassUnfolds ==
    ASSUME TypeInv, NEW last \in 0..MaxRound, NEW fault
    PROVE  \E f \in [0..last -> PassType] : 
              /\ PassRun(f, last, fault)
              /\ ExecuteRounds(last, fault) = f[last]
<1> DEFINE n == last
           X == PassType
           x0 == PassStart
           Step(i, y) == RoundStep(y, i, fault)
<1>0. n \in Nat /\ x0 \in X
  BY PassStartType, OpsAssumption
<1>1. \A i \in 1..n : \A y \in X : Step(i, y) \in X
  BY RoundStepType, OpsAssumption
<1> HIDE DEF n, X, x0, Step
<1> DEFINE step == [i \in 1..n |-> [y \in X |-> Step(i, y)]]
           Solves(g) == g = [i \in 0..n |-> IF i = 0 THEN x0 ELSE Step(i, g[i - 1])]
           f == CHOOSE g : Solves(g)
<1>2. step \in StepsOf(X, n)
  BY <1>1, Zenon DEF StepsOf
<1>3. PICK g : g \in RunsOf(X, n, x0, step)
  <2> HIDE DEF step
  <2>1. QED BY <1>0, <1>2, RunExists, Zenon
<1>4. g \in [0..n -> X] /\ g[0] = x0 /\ \A i \in 1..n : g[i] = Step(i, g[i-1])
  <2>1. g \in [0..n -> X] /\ g[0] = x0 /\ \A i \in 1..n : g[i] = step[i][g[i-1]]
    BY <1>3, Zenon DEF RunsOf
  <2>2. ASSUME NEW i \in 1..n PROVE g[i] = Step(i, g[i-1])
    <3>1. g[i-1] \in X
      BY <2>1, <1>0
    <3>2. step[i][g[i-1]] = Step(i, g[i-1])
      BY <3>1, Zenon
    <3>3. QED BY <2>1, <3>2, Zenon
  <2>3. QED BY <2>1, <2>2, Zenon
<1>5. Solves(g)
  <2>1. \A i \in 0..n : g[i] = IF i = 0 THEN x0 ELSE Step(i, g[i - 1])
    BY <1>4
  <2>2. QED BY <2>1, <1>4, Zenon
<1>6. Solves(f)
  BY <1>5, Zenon
<1>7. ExecuteRounds(last, fault) = f[n]
  BY Zenon DEF ExecuteRounds, RoundStep, PassStart, Step, n, x0
<1> HIDE DEF f, step
<1>8. DOMAIN f = 0..n /\ f[0] = x0 /\ \A i \in 1..n : f[i] = Step(i, f[i-1])
  BY <1>0, <1>6
<1>9. f \in [0..n -> X]
  <2>1. f = [i \in 0..n |-> f[i]] /\ f[0] \in X
    BY <1>0, <1>6, <1>8, Zenon
  <2>2. \A i \in 1..n : f[i-1] \in X => f[i] \in X
    BY <1>1, <1>8, Zenon
  <2> HIDE DEF Solves
  <2>3. QED BY <1>0, <2>1, <2>2, RunTyped, Zenon
<1>10. QED
  BY <1>7, <1>8, <1>9, Zenon DEF n, X, x0, Step, PassRun

------------------------------------------------------------------------------
\* RoundApplied: it keeps the partition and the tree the same, and on a state that
\* has, for each key, what either of two others have, puts lead to such a state.
LEMMA AppliedType ==
    ASSUME NEW s \in StateType, NEW r \in 1..MaxRound
    PROVE  /\ RoundApplied(s, r) \in StateType
           /\ s.kv = s.tree => RoundApplied(s, r).kv = RoundApplied(s, r).tree
           /\ Len(Ops[r]) = 0 => RoundApplied(s, r) = s
<1> DEFINE n == Len(Ops[r])
<1>0. n \in Nat
  BY OpsType, Zenon
<1>1. PICK f \in [0..n -> StateType] :
          /\ RoundApplied(s, r) = f[n]
          /\ f[0] = s /\ \A i \in 1..n : f[i] = Apply(f[i-1], Ops[r][i])
  BY AppliedUnfolds, Zenon
<1>2. RoundApplied(s, r) \in StateType
  BY <1>0, <1>1
<1>3. ASSUME s.kv = s.tree PROVE f[n].kv = f[n].tree
  <2> DEFINE S == {i \in 0..n : f[i].kv = f[i].tree}
  <2>1. 0 \in S
    BY <1>0, <1>1, <1>3
  <2>2. ASSUME NEW i \in 0..n-1, i \in S PROVE i + 1 \in S
    <3>1. i + 1 \in 1..n /\ (i + 1) - 1 = i /\ i \in 0..n
      BY <1>0
    <3>2. f[i+1] = Apply(f[i], Ops[r][i+1]) /\ f[i] \in StateType /\ f[i].kv = f[i].tree
      <4>1. f[i+1] = Apply(f[(i+1)-1], Ops[r][i+1])
        BY <1>1, <3>1, Zenon
      <4>2. QED BY <1>1, <2>2, <3>1, <4>1, Zenon
    <3>3. f[i+1].kv = f[i+1].tree
      BY <3>2, ApplyInSync, Zenon
    <3>4. QED BY <3>1, <3>3
  <2>3. 0..n \subseteq S
    <3> HIDE DEF S, n
    <3>1. QED BY <1>0, <2>1, <2>2, UpTo, Zenon
  <2>4. QED BY <1>0, <2>3
<1>4. QED BY <1>1, <1>2, <1>3, Zenon

\* Each key has what it has in a or in c.
Mixed(s, a, c) == \A k \in Key : s[k] = a[k] \/ s[k] = c[k]

LEMMA AppliedMixed ==
    ASSUME NEW s \in StateType, NEW a \in StateType, NEW c \in Entry, NEW r \in 1..MaxRound,
           s.kv = s.tree, a.kv = a.tree, PutsOnly, Mixed(s.tree, a.tree, c)
    PROVE  Mixed(RoundApplied(s, r).tree, RoundApplied(a, r).tree, c)
<1> DEFINE n == Len(Ops[r])
<1>0. n \in Nat
  BY OpsType, Zenon
<1>1. PICK f \in [0..n -> StateType] :
          /\ RoundApplied(s, r) = f[n]
          /\ f[0] = s /\ \A i \in 1..n : f[i] = Apply(f[i-1], Ops[r][i])
  BY AppliedUnfolds, Zenon
<1>2. PICK h \in [0..n -> StateType] :
          /\ RoundApplied(a, r) = h[n]
          /\ h[0] = a /\ \A i \in 1..n : h[i] = Apply(h[i-1], Ops[r][i])
  BY AppliedUnfolds, Zenon
<1> DEFINE S == {i \in 0..n : Mixed(f[i].tree, h[i].tree, c)}
<1>3. 0 \in S
  BY <1>0, <1>1, <1>2
<1>4. ASSUME NEW i \in 0..n-1, i \in S PROVE i + 1 \in S
  <2>1. i + 1 \in 1..n /\ (i + 1) - 1 = i /\ i \in 0..n /\ i + 1 \in 0..n
    BY <1>0
  <2>2. f[i+1] = Apply(f[i], Ops[r][i+1]) /\ h[i+1] = Apply(h[i], Ops[r][i+1])
    BY <1>1, <1>2, <2>1, Zenon
  <2>3. PICK op \in [key : Key, when : Value \cup {"any", "absent"}, value : Value] :
           op = Ops[r][i+1] /\ op.when = "any"
    BY <2>1, OpsType DEF PutsOnly
  <2>4. \A t \in StateType : Apply(t, op).tree = [t.tree EXCEPT ![op.key] = op.value]
    BY <2>3, Zenon DEF Apply
  <2>5. PICK t1 \in Entry, t2 \in Entry : t1 = f[i].tree /\ t2 = h[i].tree /\ Mixed(t1, t2, c)
    BY <1>1, <1>2, <1>4, <2>1, Zenon DEF StateType
  <2>6. f[i+1].tree = [t1 EXCEPT ![op.key] = op.value] /\ h[i+1].tree = [t2 EXCEPT ![op.key] = op.value]
    <3>1. f[i] \in StateType /\ h[i] \in StateType
      BY <2>1, Zenon
    <3>2. Apply(f[i], op).tree = [t1 EXCEPT ![op.key] = op.value]
      BY <3>1, <2>4, <2>5, Zenon
    <3>3. Apply(h[i], op).tree = [t2 EXCEPT ![op.key] = op.value]
      BY <3>1, <2>4, <2>5, Zenon
    <3>4. QED BY <2>2, <2>3, <3>2, <3>3, Zenon
  <2>7. Mixed([t1 EXCEPT ![op.key] = op.value], [t2 EXCEPT ![op.key] = op.value], c)
    BY <2>5, Zenon DEF Mixed, Entry
  <2>8. QED BY <2>1, <2>6, <2>7, Zenon
<1>5. 0..n \subseteq S
  <2> HIDE DEF S, n
  <2>1. QED BY <1>0, <1>3, <1>4, UpTo, Zenon
<1>6. QED BY <1>0, <1>1, <1>2, <1>5

LEMMA FromBytesType ==
    ASSUME NEW t \in Entry
    PROVE  FromBytes(t) \in StateType /\ FromBytes(t).kv = t /\ FromBytes(t).tree = t
BY Zenon DEF FromBytes, StateType

\* The states after the rounds.
LEMMA StateAtIs ==
    /\ StateAt \in [0..MaxRound -> Entry]
    /\ StateAt[0] = Empty
    /\ \A r \in 1..MaxRound : /\ StateAt[r] = RoundApplied(FromBytes(StateAt[r-1]), r).tree
                              /\ RoundApplied(FromBytes(StateAt[r-1]), r) = FromBytes(StateAt[r])
<1> DEFINE n == MaxRound
           X == Entry
           x0 == Empty
           Step(i, y) == RoundApplied(FromBytes(y), i).tree
<1>0. n \in Nat /\ x0 \in X
  BY OpsAssumption, Zenon DEF Empty, Entry
<1>1. \A i \in 1..n : \A y \in X : Step(i, y) \in X
  BY FromBytesType, AppliedType, Zenon DEF StateType
<1> HIDE DEF n, X, x0, Step
<1> DEFINE step == [i \in 1..n |-> [y \in X |-> Step(i, y)]]
           Solves(g) == g = [i \in 0..n |-> IF i = 0 THEN x0 ELSE Step(i, g[i - 1])]
           f == CHOOSE g : Solves(g)
<1>2. step \in StepsOf(X, n)
  BY <1>1, Zenon DEF StepsOf
<1>3. PICK g : g \in RunsOf(X, n, x0, step)
  <2> HIDE DEF step
  <2>1. QED BY <1>0, <1>2, RunExists, Zenon
<1>4. g \in [0..n -> X] /\ g[0] = x0 /\ \A i \in 1..n : g[i] = Step(i, g[i-1])
  <2>1. g \in [0..n -> X] /\ g[0] = x0 /\ \A i \in 1..n : g[i] = step[i][g[i-1]]
    BY <1>3, Zenon DEF RunsOf
  <2>2. ASSUME NEW i \in 1..n PROVE g[i] = Step(i, g[i-1])
    <3>1. g[i-1] \in X
      BY <2>1, <1>0
    <3>2. step[i][g[i-1]] = Step(i, g[i-1])
      BY <3>1, Zenon
    <3>3. QED BY <2>1, <3>2, Zenon
  <2>3. QED BY <2>1, <2>2, Zenon
<1>5. Solves(g)
  <2>1. \A i \in 0..n : g[i] = IF i = 0 THEN x0 ELSE Step(i, g[i - 1])
    BY <1>4
  <2>2. QED BY <2>1, <1>4, Zenon
<1>6. Solves(f)
  BY <1>5, Zenon
<1>7. StateAt = f
  BY Zenon DEF StateAt, Step, n, x0
<1> HIDE DEF f, step
<1>8. DOMAIN f = 0..n /\ f[0] = x0 /\ \A i \in 1..n : f[i] = Step(i, f[i-1])
  BY <1>0, <1>6
<1>9. f \in [0..n -> X]
  <2>1. f = [i \in 0..n |-> f[i]] /\ f[0] \in X
    BY <1>0, <1>6, <1>8, Zenon
  <2>2. \A i \in 1..n : f[i-1] \in X => f[i] \in X
    BY <1>1, <1>8, Zenon
  <2> HIDE DEF Solves
  <2>3. QED BY <1>0, <2>1, <2>2, RunTyped, Zenon
<1>10. ASSUME NEW r \in 1..MaxRound
       PROVE  /\ StateAt[r] = RoundApplied(FromBytes(StateAt[r-1]), r).tree
              /\ RoundApplied(FromBytes(StateAt[r-1]), r) = FromBytes(StateAt[r])
  <2>1. StateAt[r] = RoundApplied(FromBytes(StateAt[r-1]), r).tree
    BY <1>7, <1>8, Zenon DEF n, Step
  <2>2. StateAt[r-1] \in Entry
    BY <1>7, <1>9, <1>0 DEF n, X
  <2>3. PICK s \in StateType : s = RoundApplied(FromBytes(StateAt[r-1]), r) /\ s.kv = s.tree
    BY <2>2, FromBytesType, AppliedType
  <2>4. s = FromBytes(s.tree)
    BY <2>3, Zenon DEF FromBytes, StateType
  <2>5. QED BY <2>1, <2>3, <2>4, Zenon
<1>11. QED BY <1>7, <1>8, <1>9, <1>10, Zenon DEF n, X, x0

------------------------------------------------------------------------------
\* One event: what execute_event does when the event is executed, and when not.
EventTurn(x, y, r, i, fault) ==
    \/ /\ y = x
       /\ x.failed \/ ~Kept(<<r, i>>) \/ <<r, i>> \in x.executed
    \/ /\ y = [x EXCEPT !.failed = TRUE]
       /\ fault = <<r, i>>
    \/ /\ y = [x EXCEPT !.state = Apply(x.state, Ops[r][i]), !.executed = x.executed \cup {<<r, i>>},
                        !.any_new = TRUE]
       /\ ~x.failed /\ Kept(<<r, i>>) /\ <<r, i>> \notin x.executed

LEMMA ExecuteEventDoes ==
    ASSUME TypeInv, NEW x \in RoundType, NEW r \in 1..collected, NEW i \in 1..Len(Ops[r]), NEW fault
    PROVE  EventTurn(x, ExecuteEvent(x, <<r, i>>, fault), r, i, fault)
<1>1. <<r, i>>[1] = r /\ <<r, i>>[2] = i
  BY Zenon
<1>2. <<r, i>> \in Retained <=> Kept(<<r, i>>)
  BY EventIs, Zenon
<1>3. PICK e : e = <<r, i>> /\ e[1] = r /\ e[2] = i
  BY <1>1, Zenon
<1>4. ExecuteEvent(x, e, fault) =
          IF x.failed \/ e \notin Retained \/ e \in x.executed THEN x
          ELSE IF e = fault THEN [x EXCEPT !.failed = TRUE]
          ELSE [x EXCEPT !.state = Apply(x.state, Ops[r][i]), !.executed = x.executed \cup {e}, !.any_new = TRUE]
  BY <1>3, Zenon DEF ExecuteEvent, RoundType
<1>5. QED BY <1>2, <1>3, <1>4, Zenon DEF EventTurn

\* A round: with or without a storage error, what it executes is a prefix of it.
LEMMA BucketPrefix ==
    ASSUME TypeInv, NEW x \in PassType, NEW r \in 1..collected, NEW fault, InPrefix(x.executed)
    PROVE  InPrefix(BucketFinalized(x, r, fault).executed)
<1> DEFINE n == Len(Ops[r])
<1>0. n \in Nat /\ r \in 1..MaxRound /\ r \in Nat
  BY OpsType, OpsAssumption DEF TypeInv
<1>1. PICK f \in [0..n -> RoundType] : /\ BucketRun(f, x, r, fault)
                                       /\ BucketFinalized(x, r, fault) = BucketEnd(x, r, f[n])
  BY <1>0, BucketUnfolds, Zenon
<1> DEFINE S == {i \in 0..n : /\ InPrefix(f[i].executed)
                              /\ ~f[i].failed => \A j \in 1..i : Kept(<<r, j>>) => <<r, j>> \in f[i].executed}
<1>2. 0 \in S
  <2>1. f[0].executed = x.executed
    BY <1>1 DEF BucketRun, BucketStart
  <2>2. QED BY <2>1, <1>0
<1>3. ASSUME NEW i \in 0..n-1, i \in S PROVE i + 1 \in S
  <2>1. i + 1 \in 1..n /\ (i + 1) - 1 = i /\ i \in 0..n /\ i + 1 \in 0..n
    BY <1>0
  <2>2. f[i+1] = ExecuteEvent(f[i], <<r, i+1>>, fault)
    BY <1>1, <2>1, Zenon DEF BucketRun
  <2>3. PICK a \in RoundType : a = f[i]
    BY <2>1, Zenon
  <2>4. PICK b \in RoundType : b = f[i+1]
    BY <2>1, Zenon
  <2>5. PICK e : e = <<r, i+1>> /\ e[1] = r /\ e[2] = i+1
    OBVIOUS
  <2>6. InPrefix(a.executed) /\ (~a.failed => \A j \in 1..i : Kept(<<r, j>>) => <<r, j>> \in a.executed)
    BY <1>3, <2>3, Zenon
  <2>7. \A j \in 1..i+1 : j \in 1..i \/ j = i + 1
    BY <2>1
  <2>8. CASE b = a /\ (a.failed \/ ~Kept(e) \/ e \in a.executed)
    BY <2>1, <2>4, <2>5, <2>6, <2>7, <2>8, Zenon
  <2>9. CASE b = [a EXCEPT !.failed = TRUE]
    <3>1. b.executed = a.executed /\ b.failed
      BY <2>9, Zenon DEF RoundType
    <3>2. QED BY <2>1, <2>4, <2>6, <3>1, Zenon
  <2>10. CASE /\ b = [a EXCEPT !.state = Apply(a.state, Ops[r][i+1]), !.executed = a.executed \cup {e},
                               !.any_new = TRUE]
              /\ ~a.failed
    <3>1. b.executed = a.executed \cup {e}
      BY <2>10, Zenon DEF RoundType
    <3>2. \A j \in 1..i+1 : Kept(<<r, j>>) => <<r, j>> \in b.executed
      BY <3>1, <2>5, <2>6, <2>7, <2>10, Zenon
    <3>3. InPrefix(b.executed)
      <4> SUFFICES ASSUME NEW d \in b.executed, NEW j \in 1..d[2], Kept(<<d[1], j>>)
                   PROVE  <<d[1], j>> \in b.executed
        BY Zenon DEF InPrefix
      <4>1. CASE d \in a.executed
        BY <4>1, <3>1, <2>6, Zenon DEF InPrefix
      <4>2. CASE d = e
        BY <4>2, <3>2, <2>5, Zenon
      <4>3. QED BY <4>1, <4>2, <3>1, Zenon
    <3>4. QED BY <2>1, <2>4, <3>2, <3>3, Zenon
  <2>11. b = ExecuteEvent(a, <<r, i+1>>, fault)
    BY <2>2, <2>3, <2>4, Zenon
  <2>12. EventTurn(a, b, r, i + 1, fault)
    BY <2>1, <2>11, ExecuteEventDoes, Zenon
  <2> HIDE DEF S
  <2>13. QED BY <2>5, <2>8, <2>9, <2>10, <2>12, Zenon DEF EventTurn
<1>4. 0..n \subseteq S
  <2> HIDE DEF S, n
  <2>1. QED BY <1>0, <1>2, <1>3, UpTo, Zenon
<1>5. InPrefix(f[n].executed)
  BY <1>0, <1>4
<1>6. BucketEnd(x, r, f[n]).executed = f[n].executed
  BY Zenon DEF BucketEnd, PassType
<1>7. QED BY <1>1, <1>5, <1>6, Zenon

LEMMA RoundStepKeeps ==
    ASSUME TypeInv, NEW x \in PassType, NEW r \in 1..collected, NEW fault
    PROVE  RoundStep(x, r, fault).executed \in {x.executed, BucketFinalized(x, r, fault).executed}
<1>1. PICK y \in PassType : y = BucketFinalized(x, r, fault)
  BY BucketType, OpsAssumption DEF TypeInv
<1>2. \A h, k : [y EXCEPT !.hashes = h, !.snapshots = k].executed = y.executed
  BY Zenon DEF PassType
<1>3. ExecuteRound(x, r, processed_through_round, fault).executed = y.executed
  BY <1>1, <1>2, Zenon DEF ExecuteRound, PassType
<1>4. QED BY <1>1, <1>3, Zenon DEF RoundStep

\* A pass, or the part of it before an error.
LEMMA PassPrefix ==
    ASSUME TypeInv, InPrefix(executed), NEW last \in 0..collected, NEW fault
    PROVE  /\ ExecuteRounds(last, fault) \in PassType
           /\ InPrefix(ExecuteRounds(last, fault).executed)
<1>0. last \in Nat /\ last \in 0..MaxRound /\ collected \in 0..MaxRound
  BY OpsAssumption DEF TypeInv
<1>1. PICK g \in [0..last -> PassType] : PassRun(g, last, fault) /\ ExecuteRounds(last, fault) = g[last]
  BY <1>0, PassUnfolds, Zenon
<1> DEFINE S == {r \in 0..last : InPrefix(g[r].executed)}
<1>2. 0 \in S
  BY <1>0, <1>1 DEF PassRun, PassStart
<1>3. ASSUME NEW r \in 0..last-1, r \in S PROVE r + 1 \in S
  <2>1. r + 1 \in 1..last /\ (r + 1) - 1 = r /\ r \in 0..last /\ r + 1 \in 0..last /\ r + 1 \in 1..collected
    BY <1>0
  <2>2. g[r+1] = RoundStep(g[r], r + 1, fault)
    BY <1>1, <2>1, Zenon DEF PassRun
  <2>3. PICK x \in PassType : x = g[r] /\ InPrefix(x.executed)
    BY <1>3, <2>1, Zenon
  <2>4. InPrefix(BucketFinalized(x, r + 1, fault).executed)
    BY <2>1, <2>3, BucketPrefix, Zenon
  <2>5. InPrefix(RoundStep(x, r + 1, fault).executed)
    BY <2>1, <2>3, <2>4, RoundStepKeeps, Zenon
  <2>6. QED BY <2>1, <2>2, <2>3, <2>5, Zenon
<1>4. 0..last \subseteq S
  <2> HIDE DEF S
  <2>1. QED BY <1>0, <1>2, <1>3, UpTo, Zenon
<1>5. QED BY <1>0, <1>1, <1>4

------------------------------------------------------------------------------
\* Types and the order within a round, through every step.
PrefixInv == TypeInv /\ InPrefix(executed)

LEMMA MaxPair ==
    ASSUME NEW a \in Nat, NEW b \in Nat
    PROVE  Max({a, b}) = IF a >= b THEN a ELSE b
<1>1. PICK m \in Nat : a <= m /\ b <= m
  OBVIOUS
<1>2. Max({a, b}) \in {a, b} /\ \A x \in {a, b} : x <= Max({a, b})
  <2>1. {a, b} \subseteq 0..m /\ {a, b} # {}
    BY <1>1
  <2>2. QED BY <2>1, MaxOf, Zenon
<1>3. QED BY <1>2

LEMMA InitPrefix == Init => PrefixInv
<1> SUFFICES ASSUME Init PROVE PrefixInv
  BY Zenon
<1>1. Empty \in Entry
  BY Zenon DEF Empty, Entry
<1>2. [r \in {0} |-> Empty] \in MapType
  <2>1. {0} \in SUBSET (0..MaxRound)
    BY OpsAssumption
  <2>2. [r \in {0} |-> Empty] \in [{0} -> Entry]
    BY <1>1, Zenon
  <2>3. QED BY <2>1, <2>2, Zenon DEF MapType
<1>3. FromBytes(Empty) \in StateType
  BY <1>1, FromBytesType, Zenon
<1>4. DOMAIN [r \in {} |-> Empty] = {}
  BY Zenon
<1>5. TypeInv
  BY <1>2, <1>3, <1>4, OpsAssumption DEF Init, TypeInv
<1>6. QED BY <1>5, Zenon DEF Init, PrefixInv, InPrefix

LEMMA ExecutePrefix ==
    ASSUME PrefixInv, NEW fault, Execute(fault), faults' \in Nat
    PROVE  PrefixInv'
<1>0. TypeInv /\ InPrefix(executed) /\ collected \in 0..collected
  BY DEF PrefixInv, TypeInv
<1>1. PICK a \in PassType : a = ExecuteRounds(collected, fault) /\ InPrefix(a.executed)
  BY <1>0, PassPrefix, Zenon
<1>2. /\ pc' = "produce" /\ pc = "execute" /\ state' = a.state /\ executed' = a.executed
      /\ processed_through_round' = a.processed /\ snapshots' = a.snapshots
      /\ cumulative_state_hashes' =
             [r \in DOMAIN cumulative_state_hashes \cup DOMAIN a.hashes |->
                IF r # 0 /\ r \in DOMAIN a.hashes THEN a.hashes[r] ELSE cumulative_state_hashes[r]]
      /\ UNCHANGED <<ordered, floor, collected, checkpoint_watermark, signed>>
  BY <1>1, Zenon DEF Execute, graph
<1>3. cumulative_state_hashes' \in MapType
  <2>1. PICK D \in SUBSET (0..MaxRound) : cumulative_state_hashes \in [D -> Entry] /\ 0 \in D
    BY <1>0, Zenon DEF TypeInv, MapType
  <2>2. a.hashes \in MapType
    BY Zenon DEF PassType
  <2>3. PICK E \in SUBSET (0..MaxRound) : a.hashes \in [E -> Entry] /\ 0 \in E
    BY <2>2, Zenon DEF MapType
  <2>4. cumulative_state_hashes' \in [D \cup E -> Entry]
    BY <1>2, <2>1, <2>3, Zenon
  <2>5. D \cup E \in SUBSET (0..MaxRound) /\ 0 \in D \cup E
    BY <2>1, Zenon
  <2>6. QED BY <2>4, <2>5, Zenon DEF MapType
<1>4. TypeInv'
  BY <1>0, <1>2, <1>3, Zenon DEF TypeInv, PassType
<1>5. InPrefix(executed)'
  BY <1>1, <1>2, Zenon DEF InPrefix, Kept
<1>6. QED BY <1>4, <1>5, Zenon DEF PrefixInv

LEMMA SerializePrefix ==
    ASSUME PrefixInv, NEW last \in 0..MaxRound, SerializeFails(last)
    PROVE  PrefixInv'
<1>0. TypeInv /\ InPrefix(executed) /\ last \in 0..collected
  BY DEF PrefixInv, TypeInv, SerializeFails
<1>1. PICK a \in PassType : a = ExecuteRounds(last, <<0, 0>>) /\ InPrefix(a.executed)
  BY <1>0, PassPrefix, Zenon
<1>2. /\ pc' = "idle" /\ state' = a.state /\ executed' = a.executed
      /\ processed_through_round' = a.processed /\ faults' = faults + 1
      /\ UNCHANGED <<ordered, floor, collected, checkpoint_watermark, cumulative_state_hashes, snapshots, signed>>
  BY <1>1, Zenon DEF SerializeFails, graph
<1>3. TypeInv'
  BY <1>0, <1>2 DEF TypeInv, PassType
<1>4. InPrefix(executed)'
  BY <1>1, <1>2, Zenon DEF InPrefix, Kept
<1>5. QED BY <1>3, <1>4, Zenon DEF PrefixInv

LEMMA RestorePrefix ==
    ASSUME PrefixInv, NEW cp \in 1..MaxRound, NEW upTo \in 1..MaxRound, cp <= upTo, NEW from \in 1..cp + 1,
           Reconnect(cp, from, upTo) \/ Restart(cp, from, upTo)
    PROVE  PrefixInv'
<1>0. TypeInv /\ MaxRound \in Nat
  BY OpsAssumption, Zenon DEF PrefixInv
<1>1. ApplyCheckpoint(cp, from, upTo) /\ pc' = "idle"
  BY Zenon DEF Reconnect, Restart
<1>2. StateAt[cp] \in Entry /\ Empty \in Entry
  BY StateAtIs DEF Empty, Entry
<1>3. state' \in StateType
  BY <1>1, <1>2, FromBytesType, Zenon DEF ApplyCheckpoint
<1>4. cumulative_state_hashes' \in MapType
  <2>1. {0} \in SUBSET (0..MaxRound)
    BY OpsAssumption
  <2>2. [r \in {0} |-> Empty] \in [{0} -> Entry]
    BY <1>2, Zenon
  <2>3. [r \in {0} |-> Empty] \in MapType
    BY <2>1, <2>2, Zenon DEF MapType
  <2>4. cp \in 0..MaxRound
    BY <1>0
  <2>5. Put([r \in {0} |-> Empty], cp, StateAt[cp]) \in MapType
    BY <1>2, <2>3, <2>4, PutType, Zenon
  <2>6. QED BY <1>1, <2>5, Zenon DEF ApplyCheckpoint
<1>5. processed_through_round' \in 0..MaxRound /\ checkpoint_watermark' \in 0..MaxRound
  <2>1. CASE Restart(cp, from, upTo)
    BY <2>1, <1>0 DEF Restart
  <2>2. CASE Reconnect(cp, from, upTo)
    BY <2>2, <1>0, MaxPair DEF Reconnect, TypeInv
  <2>3. QED BY <2>1, <2>2, Zenon
<1>6. TypeInv'
  BY <1>0, <1>1, <1>3, <1>4, <1>5 DEF TypeInv, ApplyCheckpoint
<1>7. QED BY <1>1, <1>6, Zenon DEF PrefixInv, InPrefix, ApplyCheckpoint

LEMMA StepPrefixInv == PrefixInv /\ [Next]_vars => PrefixInv'
<1> SUFFICES ASSUME PrefixInv, [Next]_vars PROVE PrefixInv'
  BY Zenon
<1>0. TypeInv /\ InPrefix(executed) /\ MaxRound \in Nat
  BY OpsAssumption, Zenon DEF PrefixInv
<1>1. CASE Decide
  <2>1. TypeInv'
    BY <1>0, <1>1 DEF Decide, TypeInv, executor, activation
  <2>2. QED BY <1>0, <1>1, <2>1, Zenon DEF Decide, PrefixInv, InPrefix, Kept, executor
<1>2. CASE Collect
  <2>1. TypeInv'
    BY <1>0, <1>2 DEF Collect, TypeInv, executor, activation, graph
  <2>2. QED BY <1>0, <1>2, <2>1, Zenon DEF Collect, PrefixInv, InPrefix, Kept, executor, graph
<1>3. CASE ExecuteAll
  BY <1>0, <1>3, ExecutePrefix, Zenon DEF ExecuteAll, TypeInv
<1>4. CASE ExecuteFails
  BY <1>0, <1>4, ExecutePrefix DEF ExecuteFails, TypeInv
<1>5. CASE ProduceCheckpoint
  <2>1. PICK round \in 1..MaxRound : round = checkpoint_watermark + 1
    BY <1>0, <1>5 DEF ProduceCheckpoint, TypeInv
  <2>2. checkpoint_watermark' = round /\ \E v : signed' = Put(signed, round, v)
    BY <1>5, <2>1, Zenon DEF ProduceCheckpoint
  <2>3. DOMAIN signed' \subseteq 1..MaxRound
    BY <1>0, <2>1, <2>2, Zenon DEF Put, TypeInv
  <2>4. TypeInv'
    BY <1>0, <1>5, <2>1, <2>2, <2>3 DEF ProduceCheckpoint, TypeInv, executor, graph
  <2>5. QED BY <1>0, <1>5, <2>4, Zenon DEF ProduceCheckpoint, PrefixInv, InPrefix, Kept, executor, graph
<1>6. CASE Finish
  <2>1. TypeInv'
    BY <1>0, <1>6, Zenon DEF Finish, TypeInv, executor, activation, graph
  <2>2. QED BY <1>0, <1>6, <2>1, Zenon DEF Finish, PrefixInv, InPrefix, Kept, executor, graph
<1>7. ASSUME NEW last \in 0..MaxRound, SerializeFails(last) PROVE PrefixInv'
  BY <1>7, SerializePrefix, Zenon
<1>8. ASSUME NEW cp \in 1..MaxRound, ReconnectFails(cp) PROVE PrefixInv'
  <2>1. StateAt[cp] \in Entry
    BY StateAtIs
  <2>2. PICK written \in SUBSET Key :
          state' = [state EXCEPT !.kv = [k \in Key |-> IF k \in written THEN StateAt[cp][k] ELSE "absent"]]
    BY <1>8, Zenon DEF ReconnectFails
  <2>3. [k \in Key |-> IF k \in written THEN StateAt[cp][k] ELSE "absent"] \in Entry
    BY <2>1, Zenon DEF Entry
  <2>4. state' \in StateType
    BY <1>0, <2>2, <2>3, Zenon DEF TypeInv, StateType
  <2>5. TypeInv'
    BY <1>0, <1>8, <2>4 DEF ReconnectFails, TypeInv, activation, graph
  <2>6. QED BY <1>0, <1>8, <2>5, Zenon DEF ReconnectFails, PrefixInv, InPrefix, Kept, graph
<1>9. ASSUME NEW cp \in 1..MaxRound, NEW upTo \in 1..MaxRound, cp <= upTo, NEW from \in 1..cp + 1,
             Reconnect(cp, from, upTo) \/ Restart(cp, from, upTo)
      PROVE  PrefixInv'
  BY <1>9, RestorePrefix, Zenon
<1>10. CASE UNCHANGED vars
  <2>1. TypeInv'
    BY <1>0, <1>10, Zenon DEF vars, TypeInv, executor, activation, graph
  <2>2. QED BY <1>0, <1>10, <2>1, Zenon DEF vars, PrefixInv, InPrefix, Kept, executor, graph
<1>11. QED BY <1>1, <1>2, <1>3, <1>4, <1>5, <1>6, <1>7, <1>8, <1>9, <1>10, Zenon DEF Next

\* RoundPrefix, for every order of operations and through every storage error,
\* restart and reconnect: no event of a round is executed ahead of an earlier one.
THEOREM RoundsInOrder == Spec => []RoundPrefix
<1>1. PrefixInv => RoundPrefix
  <2>1. \A e \in Retained : Kept(e)
    BY EventIs, Zenon
  <2>2. QED BY <2>1, Zenon DEF PrefixInv, InPrefix, RoundPrefix
<1>2. QED BY <1>1, InitPrefix, StepPrefixInv, PTL DEF Spec

------------------------------------------------------------------------------
\* A round that no storage error strikes: the retained events that were not
\* executed before are, in order.
NewIn(x, r, i) == \E j \in 1..i : Kept(<<r, j>>) /\ <<r, j>> \notin x.executed
KeptIn(r, i) == {e \in {r} \X (1..i) : Kept(e)}

\* The loop after its first i events, where h[i] is the round applied that far.
CleanAt(y, x, r, i, h) ==
    /\ ~y.failed
    /\ y.executed = x.executed \cup KeptIn(r, i)
    /\ y.any_new <=> NewIn(x, r, i)
    /\ x.state.kv = x.state.tree => y.state.kv = y.state.tree
    /\ ~NewIn(x, r, i) => y.state = x.state
    /\ (\A j \in 1..i : Kept(<<r, j>>) /\ <<r, j>> \notin x.executed) => y.state = h

LEMMA CleanStep ==
    ASSUME TypeInv, NEW x \in PassType, NEW r \in 1..collected, NEW i \in Nat, i + 1 \in 1..Len(Ops[r]),
           NEW a \in RoundType, NEW h, CleanAt(a, x, r, i, h)
    PROVE  CleanAt(ExecuteEvent(a, <<r, i+1>>, <<0, 0>>), x, r, i + 1, Apply(h, Ops[r][i+1]))
<1>0. r \in Nat /\ r >= 1 /\ r \in 1..MaxRound
  BY OpsAssumption DEF TypeInv
<1>1. PICK e : e = <<r, i+1>> /\ e[1] = r /\ e[2] = i + 1
  <2>1. <<r, i+1>>[1] = r /\ <<r, i+1>>[2] = i + 1
    BY Zenon
  <2>2. QED BY <2>1, Zenon
<1>2. PICK b \in RoundType : b = ExecuteEvent(a, <<r, i+1>>, <<0, 0>>)
  BY <1>0, ExecuteEventType, Zenon
<1>3. EventTurn(a, b, r, i + 1, <<0, 0>>)
  BY <1>2, ExecuteEventDoes, Zenon
<1>4. (\A j \in 1..i+1 : j \in 1..i \/ j = i + 1) /\ (\A j \in 1..i : j \in 1..i+1) /\ i + 1 \in 1..i+1
  OBVIOUS
<1>5. KeptIn(r, i + 1) = IF Kept(e) THEN KeptIn(r, i) \cup {e} ELSE KeptIn(r, i)
  <2>1. \A d : d \in {r} \X (1..i+1) <=> d \in {r} \X (1..i) \/ d = e
    BY <1>1, <1>4
  <2>2. \A d : d \in KeptIn(r, i + 1) <=> d \in KeptIn(r, i) \/ (d = e /\ Kept(e))
    BY <2>1, Zenon DEF KeptIn
  <2>3. QED BY <2>2, Zenon
<1>6. NewIn(x, r, i + 1) <=> NewIn(x, r, i) \/ (Kept(e) /\ e \notin x.executed)
  BY <1>1, <1>4, Zenon DEF NewIn
<1>7. e \notin KeptIn(r, i)
  BY <1>1 DEF KeptIn
<1>8. PICK op \in [key : Key, when : Value \cup {"any", "absent"}, value : Value] : op = Ops[r][i+1]
  BY <1>0, OpsType, Zenon
<1>9. ~a.failed /\ a.executed = x.executed \cup KeptIn(r, i) /\ (a.any_new <=> NewIn(x, r, i))
  BY Zenon DEF CleanAt
<1>10. <<0, 0>> # <<r, i+1>>
  BY <1>0
<1>11. CASE b = a /\ (~Kept(e) \/ e \in a.executed)
  <2>1. ~(Kept(e) /\ e \notin x.executed)
    BY <1>7, <1>9, <1>11, Zenon
  <2>2. b.executed = x.executed \cup KeptIn(r, i + 1)
    BY <1>5, <1>9, <1>11, Zenon
  <2>3. NewIn(x, r, i + 1) <=> NewIn(x, r, i)
    BY <1>6, <2>1, Zenon
  <2>4. ~(\A j \in 1..i+1 : Kept(<<r, j>>) /\ <<r, j>> \notin x.executed)
    BY <1>1, <1>4, <2>1, Zenon
  <2>5. CleanAt(b, x, r, i + 1, Apply(h, Ops[r][i+1]))
    BY <1>11, <2>2, <2>3, <2>4, Zenon DEF CleanAt
  <2>6. QED BY <1>2, <2>5, Zenon
<1>12. CASE /\ b = [a EXCEPT !.state = Apply(a.state, Ops[r][i+1]), !.executed = a.executed \cup {e},
                             !.any_new = TRUE]
            /\ Kept(e) /\ e \notin a.executed
  <2>1. b.state = Apply(a.state, op) /\ b.executed = a.executed \cup {e} /\ b.any_new /\ ~b.failed
    BY <1>8, <1>9, <1>12, Zenon DEF RoundType
  <2>2. e \notin x.executed /\ NewIn(x, r, i + 1)
    BY <1>6, <1>9, <1>12, Zenon
  <2>3. b.executed = x.executed \cup KeptIn(r, i + 1)
    BY <1>5, <1>9, <1>12, <2>1, Zenon
  <2>4. ASSUME a.state.kv = a.state.tree PROVE b.state.kv = b.state.tree
    <3>1. a.state \in StateType
      BY Zenon DEF RoundType
    <3>2. QED BY <2>1, <2>4, <3>1 DEF Apply, StateType
  <2>5. (\A j \in 1..i+1 : Kept(<<r, j>>) /\ <<r, j>> \notin x.executed) => b.state = Apply(h, op)
    BY <1>4, <2>1, Zenon DEF CleanAt
  <2>6. CleanAt(b, x, r, i + 1, Apply(h, op))
    BY <2>1, <2>2, <2>3, <2>4, <2>5, Zenon DEF CleanAt
  <2>7. QED BY <1>2, <1>8, <2>6, Zenon
<1>13. QED BY <1>1, <1>3, <1>9, <1>10, <1>11, <1>12, Zenon DEF EventTurn

LEMMA BucketClean ==
    ASSUME TypeInv, NEW x \in PassType, NEW r \in 1..collected,
           NEW y, y = BucketFinalized(x, r, <<0, 0>>)
    PROVE  /\ y \in PassType /\ ~y.failed /\ y.hashes = x.hashes /\ y.snapshots = x.snapshots
           /\ y.executed = x.executed \cup KeptIn(r, Len(Ops[r]))
           /\ y.processed = IF NewIn(x, r, Len(Ops[r])) /\ r > x.processed THEN r ELSE x.processed
           /\ x.state.kv = x.state.tree => y.state.kv = y.state.tree
           /\ ~NewIn(x, r, Len(Ops[r])) => y.state = x.state
           /\ (\A j \in 1..Len(Ops[r]) : Kept(<<r, j>>) /\ <<r, j>> \notin x.executed) =>
                 y.state = RoundApplied(x.state, r)
<1> DEFINE n == Len(Ops[r])
<1>0. n \in Nat /\ r \in 1..MaxRound /\ x.state \in StateType
  BY OpsType, OpsAssumption DEF TypeInv, PassType
<1>1. PICK f \in [0..n -> RoundType] : /\ BucketRun(f, x, r, <<0, 0>>)
                                       /\ y = BucketEnd(x, r, f[n])
  BY <1>0, BucketUnfolds, Zenon
<1>2. PICK h \in [0..n -> StateType] :
          /\ RoundApplied(x.state, r) = h[n]
          /\ h[0] = x.state /\ \A i \in 1..n : h[i] = Apply(h[i-1], Ops[r][i])
  BY <1>0, AppliedUnfolds, Zenon
<1> DEFINE S == {i \in 0..n : CleanAt(f[i], x, r, i, h[i])}
<1>3. 0 \in S
  <2>1. PICK a : a = f[0] /\ a = BucketStart(x)
    BY <1>1, Zenon DEF BucketRun
  <2>2. a.state = x.state /\ a.executed = x.executed /\ a.any_new = FALSE /\ a.failed = FALSE
    BY <2>1 DEF BucketStart
  <2>3. KeptIn(r, 0) = {} /\ ~NewIn(x, r, 0)
    BY DEF KeptIn, NewIn
  <2>4. CleanAt(a, x, r, 0, x.state)
    BY <2>2, <2>3, Zenon DEF CleanAt
  <2>5. CleanAt(f[0], x, r, 0, h[0])
    BY <1>2, <2>1, <2>4, Zenon
  <2>6. QED BY <1>0, <2>5
<1>4. ASSUME NEW i \in 0..n-1, i \in S PROVE i + 1 \in S
  <2>1. i + 1 \in 1..n /\ (i + 1) - 1 = i /\ i \in 0..n /\ i + 1 \in 0..n /\ i \in Nat
    BY <1>0
  <2>2. f[i+1] = ExecuteEvent(f[i], <<r, i+1>>, <<0, 0>>) /\ h[i+1] = Apply(h[i], Ops[r][i+1])
    BY <1>1, <1>2, <2>1, Zenon DEF BucketRun
  <2>3. f[i] \in RoundType /\ CleanAt(f[i], x, r, i, h[i])
    BY <1>4, <2>1, Zenon
  <2>4. CleanAt(ExecuteEvent(f[i], <<r, i+1>>, <<0, 0>>), x, r, i + 1, Apply(h[i], Ops[r][i+1]))
    BY <2>1, <2>3, CleanStep, Zenon
  <2>5. QED BY <2>1, <2>2, <2>4, Zenon
<1>5. 0..n \subseteq S
  <2> HIDE DEF S, n
  <2>1. QED BY <1>0, <1>3, <1>4, UpTo, Zenon
<1>6. PICK d \in RoundType : d = f[n] /\ CleanAt(d, x, r, n, h[n])
  BY <1>0, <1>5
<1>7. y \in PassType
  BY <1>0, BucketType, Zenon
<1>8. /\ y.state = d.state /\ y.executed = d.executed /\ (y.failed <=> d.failed)
      /\ y.hashes = x.hashes /\ y.snapshots = x.snapshots
  BY <1>1, <1>6, Zenon DEF BucketEnd, PassType
<1>9. y.processed = IF d.any_new /\ ~d.failed /\ r > x.processed THEN r ELSE x.processed
  BY <1>1, <1>6, Zenon DEF BucketEnd, PassType
<1>10. y.processed = IF NewIn(x, r, n) /\ r > x.processed THEN r ELSE x.processed
  BY <1>6, <1>9, Zenon DEF CleanAt
<1>11. QED BY <1>2, <1>6, <1>7, <1>8, <1>10, Zenon DEF CleanAt

------------------------------------------------------------------------------
\* The recorded states of a pass.
LEMMA AtOrBelowIs ==
    ASSUME NEW m \in MapType, NEW q \in 0..MaxRound, NEW t \in DOMAIN m, t <= q,
           \A j \in DOMAIN m : j <= q => j <= t
    PROVE  AtOrBelow(m, q) = m[t]
<1> DEFINE S == {i \in DOMAIN m : i <= q}
<1>1. DOMAIN m \subseteq 0..MaxRound /\ MaxRound \in Nat
  BY OpsAssumption, Zenon DEF MapType
<1>2. S \subseteq 0..MaxRound /\ t \in S /\ S # {}
  BY <1>1, Zenon
<1>3. Max(S) \in S /\ \A x \in S : x <= Max(S)
  <2> HIDE DEF S
  <2>1. QED BY <1>1, <1>2, MaxOf, Zenon
<1>4. Max(S) = t
  BY <1>1, <1>2, <1>3
<1>5. QED BY <1>4, Zenon DEF AtOrBelow

\* There is always one: 0 has an entry.
LEMMA AtOrBelowSome ==
    ASSUME NEW m \in MapType, NEW q \in 0..MaxRound
    PROVE  \E t \in DOMAIN m : t <= q /\ (\A j \in DOMAIN m : j <= q => j <= t) /\ AtOrBelow(m, q) = m[t]
<1> DEFINE S == {i \in DOMAIN m : i <= q}
<1>1. DOMAIN m \subseteq 0..MaxRound /\ MaxRound \in Nat /\ 0 \in DOMAIN m
  BY OpsAssumption, Zenon DEF MapType
<1>2. S \subseteq 0..MaxRound /\ 0 \in S /\ S # {}
  BY <1>1
<1>3. Max(S) \in S /\ \A x \in S : x <= Max(S)
  <2> HIDE DEF S
  <2>1. QED BY <1>1, <1>2, MaxOf, Zenon
<1>4. QED BY <1>3, Zenon DEF AtOrBelow

LEMMA AtOrBelowPut ==
    ASSUME NEW m \in MapType, NEW q \in 0..MaxRound, NEW to \in 0..MaxRound, q < to, NEW v \in Entry
    PROVE  AtOrBelow(Put(m, to, v), q) = AtOrBelow(m, q)
<1>1. PICK t \in DOMAIN m : t <= q /\ (\A j \in DOMAIN m : j <= q => j <= t) /\ AtOrBelow(m, q) = m[t]
  BY AtOrBelowSome, Zenon
<1>2. PICK p \in MapType : p = Put(m, to, v) /\ DOMAIN p = DOMAIN m \cup {to} /\ \A i \in DOMAIN m : i # to => p[i] = m[i]
  <2>1. /\ Put(m, to, v) \in MapType /\ DOMAIN Put(m, to, v) = DOMAIN m \cup {to}
        /\ \A i \in DOMAIN m : i # to => Put(m, to, v)[i] = m[i]
    BY PutType, Zenon
  <2>2. QED BY <2>1, Zenon
<1>3. t \in Nat /\ q \in Nat /\ to \in Nat
  <2>1. t \in Nat
    BY MapDomain, Zenon
  <2>2. QED BY <2>1, OpsAssumption
<1>4. t \in DOMAIN p /\ p[t] = m[t] /\ \A j \in DOMAIN p : j <= q => j <= t
  BY <1>1, <1>2, <1>3
<1>5. AtOrBelow(p, q) = p[t]
  BY <1>1, <1>4, AtOrBelowIs, Zenon
<1>6. QED BY <1>1, <1>2, <1>4, <1>5, Zenon

\* A round as it changes the pass.
RoundTurn(x, y, r) ==
    \/ /\ y.hashes = x.hashes /\ y.snapshots = x.snapshots
       /\ y.state.tree = x.state.tree
    \/ \E to \in 1..MaxRound :
          /\ IF r > processed_through_round THEN to = r ELSE to = y.processed /\ r <= to
          /\ \E e \in Retained : e[1] = r
          /\ y.hashes = Put(x.hashes, to, y.state.tree)
          /\ y.snapshots = Put(x.snapshots, to, y.state.kv)

LEMMA RetainedIn ==
    ASSUME TypeInv, NEW r \in 1..collected
    PROVE  (\E e \in Retained : e[1] = r) <=> KeptIn(r, Len(Ops[r])) # {}
<1>1. \A e : e \in KeptIn(r, Len(Ops[r])) <=> (\E i \in 1..Len(Ops[r]) : e = <<r, i>>) /\ Kept(e)
  BY DEF KeptIn
<1>2. \A e : e \in Retained /\ e[1] = r <=> (\E i \in 1..Len(Ops[r]) : e = <<r, i>>) /\ Kept(e)
  BY EventIs
<1>3. QED BY <1>1, <1>2, Zenon

\* What a round changes: the one without retained events nothing, and the others
\* what their new events do.
LEMMA RoundStepDoes ==
    ASSUME TypeInv, NEW x \in PassType, x.processed >= processed_through_round, NEW r \in 1..collected,
           NEW y, y = RoundStep(x, r, <<0, 0>>)
    PROVE  /\ y \in PassType /\ RoundTurn(x, y, r)
           /\ y.executed = x.executed \cup KeptIn(r, Len(Ops[r]))
           /\ y.processed = IF NewIn(x, r, Len(Ops[r])) /\ r > x.processed THEN r ELSE x.processed
           /\ x.state.kv = x.state.tree => y.state.kv = y.state.tree
           /\ ~NewIn(x, r, Len(Ops[r])) => y.state = x.state
           /\ (\A j \in 1..Len(Ops[r]) : Kept(<<r, j>>) /\ <<r, j>> \notin x.executed) =>
                 y.state = RoundApplied(x.state, r)
<1> DEFINE n == Len(Ops[r])
<1>0. n \in Nat /\ r \in 1..MaxRound /\ MaxRound \in Nat /\ processed_through_round \in 0..MaxRound
  BY OpsType, OpsAssumption DEF TypeInv
<1>1. CASE ~(\E e \in Retained : e[1] = r)
  <2>1. y = x
    BY <1>1, Zenon DEF RoundStep
  <2>2. KeptIn(r, n) = {}
    BY <1>1, RetainedIn, Zenon
  <2>3. \A j \in 1..n : ~Kept(<<r, j>>)
    <3>1. \A j \in 1..n : <<r, j>> \in {r} \X (1..n)
      BY Zenon
    <3>2. QED BY <2>2, <3>1, Zenon DEF KeptIn
  <2>4. ~NewIn(x, r, n)
    BY <2>3, Zenon DEF NewIn
  <2>5. (\A j \in 1..n : Kept(<<r, j>>) /\ <<r, j>> \notin x.executed) => n = 0
    <3>1. n # 0 => 1 \in 1..n
      BY <1>0
    <3>2. QED BY <2>3, <3>1, Zenon
  <2>6. n = 0 => RoundApplied(x.state, r) = x.state
    BY <1>0, AppliedType, Zenon DEF PassType
  <2>7. RoundTurn(x, y, r)
    BY <2>1, Zenon DEF RoundTurn
  <2>8. QED BY <2>1, <2>2, <2>4, <2>5, <2>6, <2>7, Zenon
<1>2. CASE \E e \in Retained : e[1] = r
  <2>1. PICK b : b = BucketFinalized(x, r, <<0, 0>>)
    BY Zenon
  <2>2. /\ b \in PassType /\ ~b.failed /\ b.hashes = x.hashes /\ b.snapshots = x.snapshots
        /\ b.executed = x.executed \cup KeptIn(r, n)
        /\ b.processed = IF NewIn(x, r, n) /\ r > x.processed THEN r ELSE x.processed
        /\ x.state.kv = x.state.tree => b.state.kv = b.state.tree
        /\ ~NewIn(x, r, n) => b.state = x.state
        /\ (\A j \in 1..n : Kept(<<r, j>>) /\ <<r, j>> \notin x.executed) =>
                 b.state = RoundApplied(x.state, r)
    BY <2>1, BucketClean
  <2>3. PICK to \in 1..MaxRound : to = (IF r > processed_through_round THEN r ELSE b.processed)
                                  /\ (r <= processed_through_round => r <= to)
    BY <1>0, <2>2 DEF PassType
  <2>4. y = IF b.failed \/ (r <= processed_through_round /\ b.state.tree = x.state.tree) THEN b
            ELSE [b EXCEPT !.hashes = Put(b.hashes, to, b.state.tree), !.snapshots = Put(b.snapshots, to, b.state.kv)]
    BY <1>2, <2>1, <2>2, <2>3, Zenon DEF RoundStep, ExecuteRound, PassType
  <2>5. /\ y.state = b.state /\ y.executed = b.executed /\ y.processed = b.processed
        /\ \/ y.hashes = x.hashes /\ y.snapshots = x.snapshots /\ b.state.tree = x.state.tree
           \/ y.hashes = Put(x.hashes, to, b.state.tree) /\ y.snapshots = Put(x.snapshots, to, b.state.kv)
    BY <2>2, <2>4, Zenon DEF PassType
  <2>6. RoundTurn(x, y, r)
    BY <1>0, <1>2, <2>3, <2>5 DEF RoundTurn
  <2>7. y \in PassType
    BY <1>0, RoundStepType, Zenon
  <2>8. QED BY <2>2, <2>5, <2>6, <2>7, Zenon
<1>3. QED BY <1>1, <1>2, Zenon

\* A pass after round r: what it has recorded is what it has processed, and the
\* last of it is the state.
PassGood(y, r) ==
    /\ y.state.kv = y.state.tree /\ y.hashes = y.snapshots
    /\ y.processed >= processed_through_round
    /\ y.processed <= processed_through_round \/ y.processed <= r
    /\ \A e \in y.executed : e[1] <= y.processed
    /\ \A i \in DOMAIN y.hashes : i = 0 \/ (processed_through_round <= i /\ i <= y.processed)
    /\ y.hashes[0] = state.tree
    /\ LatestIs(y.hashes, y.state.tree)

LEMMA PassGoodStart ==
    ASSUME TypeInv, state.kv = state.tree, \A e \in executed : e[1] <= processed_through_round
    PROVE  PassGood(PassStart, 0)
<1>1. PICK m : m = [r \in {0} |-> state.tree]
  BY Zenon
<1>2. DOMAIN m = {0} /\ m[0] = state.tree
  BY <1>1, Zenon
<1>3. LatestIs(m, state.tree)
  BY <1>2 DEF LatestIs
<1>4. /\ PassStart.state = state /\ PassStart.executed = executed
      /\ PassStart.processed = processed_through_round /\ PassStart.hashes = m /\ PassStart.snapshots = m
  BY <1>1, Zenon DEF PassStart
<1>5. processed_through_round \in Nat
  BY OpsAssumption DEF TypeInv
<1>6. QED BY <1>2, <1>3, <1>4, <1>5 DEF PassGood

LEMMA PassGoodStep ==
    ASSUME TypeInv, NEW x \in PassType, NEW r \in 1..collected, PassGood(x, r - 1),
           NEW y, y = RoundStep(x, r, <<0, 0>>)
    PROVE  PassGood(y, r)
<1> DEFINE n == Len(Ops[r])
           P == processed_through_round
<1>0. MaxRound \in Nat /\ P \in 0..MaxRound /\ r \in 1..MaxRound /\ x.processed \in 0..MaxRound
  BY OpsAssumption DEF TypeInv, PassType
<1>1. x.processed >= P
  BY Zenon DEF PassGood
<1>2. /\ y \in PassType /\ RoundTurn(x, y, r)
      /\ y.executed = x.executed \cup KeptIn(r, n)
      /\ y.processed = IF NewIn(x, r, n) /\ r > x.processed THEN r ELSE x.processed
      /\ x.state.kv = x.state.tree => y.state.kv = y.state.tree
  BY <1>1, RoundStepDoes
<1>3. y.state.kv = y.state.tree
  BY <1>2, Zenon DEF PassGood
<1>4. x.processed <= y.processed /\ y.processed \in 0..MaxRound
  BY <1>0, <1>2
<1>5. y.processed >= P /\ (y.processed <= P \/ y.processed <= r)
  BY <1>0, <1>1, <1>2 DEF PassGood
<1>6. \A e \in KeptIn(r, n) : e[1] = r /\ r <= y.processed
  <2> SUFFICES ASSUME NEW e \in KeptIn(r, n) PROVE e[1] = r /\ r <= y.processed
    BY Zenon
  <2>1. PICK i \in 1..n : e = <<r, i>> /\ Kept(<<r, i>>) /\ e[1] = r
    BY DEF KeptIn
  <2>2. CASE e \in x.executed
    <3>1. r <= x.processed
      BY <2>1, <2>2, Zenon DEF PassGood
    <3>2. QED BY <1>0, <1>4, <2>1, <3>1
  <2>3. CASE e \notin x.executed
    <3>1. NewIn(x, r, n)
      BY <2>1, <2>3, Zenon DEF NewIn
    <3>2. QED BY <1>0, <1>2, <2>1, <3>1
  <2>4. QED BY <2>2, <2>3, Zenon
<1>7. \A e \in y.executed : e[1] <= y.processed
  <2> SUFFICES ASSUME NEW e \in y.executed PROVE e[1] <= y.processed
    BY Zenon
  <2>1. CASE e \in KeptIn(r, n)
    BY <2>1, <1>6, Zenon
  <2>2. CASE e \in x.executed
    <3>1. e[1] <= x.processed
      BY <2>2, Zenon DEF PassGood
    <3>2. e[1] \in Nat
      <4>1. e \in Event
        BY <2>2, Zenon DEF PassType
      <4>2. QED BY <4>1, EventIs
    <3>3. QED BY <1>0, <1>4, <3>1, <3>2
  <2>3. QED BY <1>2, <2>1, <2>2, Zenon
<1>8. CASE y.hashes = x.hashes /\ y.snapshots = x.snapshots /\ y.state.tree = x.state.tree
  <2>1. \A i \in DOMAIN y.hashes : i \in Nat
    BY <1>2, <1>0 DEF PassType, MapType
  <2>2. \A i \in DOMAIN y.hashes : i = 0 \/ (P <= i /\ i <= y.processed)
    BY <1>0, <1>4, <1>8, <2>1 DEF PassGood
  <2>3. QED BY <1>3, <1>5, <1>7, <1>8, <2>2, Zenon DEF PassGood
<1>9. ASSUME NEW to \in 1..MaxRound,
             IF r > P THEN to = r ELSE to = y.processed /\ r <= to,
             \E e \in Retained : e[1] = r,
             y.hashes = Put(x.hashes, to, y.state.tree), y.snapshots = Put(x.snapshots, to, y.state.kv)
      PROVE  PassGood(y, r)
  <2>1. x.hashes \in MapType /\ y.state.tree \in Entry /\ to \in 0..MaxRound /\ x.hashes = x.snapshots
    BY <1>2 DEF PassType, StateType, PassGood
  <2>2. PICK m \in MapType : /\ m = y.hashes /\ DOMAIN m = DOMAIN x.hashes \cup {to} /\ m[to] = y.state.tree
                             /\ \A i \in DOMAIN x.hashes : i # to => m[i] = x.hashes[i]
    <3>1. PICK m : m = Put(x.hashes, to, y.state.tree)
      BY Zenon
    <3>2. /\ m \in MapType /\ DOMAIN m = DOMAIN x.hashes \cup {to} /\ m[to] = y.state.tree
          /\ \A i \in DOMAIN x.hashes : i # to => m[i] = x.hashes[i]
      BY <2>1, <3>1, PutType
    <3>3. QED BY <1>9, <3>1, <3>2, Zenon
  <2>3. y.hashes = y.snapshots
    BY <1>3, <1>9, <2>1, Zenon
  <2>4. r <= y.processed
    BY <1>6, <1>9, RetainedIn, Zenon
  <2>5. P <= to /\ to <= y.processed /\ to # 0
    BY <1>0, <1>4, <1>5, <1>9, <2>4
  <2>6. \A i \in DOMAIN x.hashes : i \in Nat
    BY <2>1, MapDomain, Zenon
  <2>7. \A i \in DOMAIN x.hashes : i = 0 \/ (P <= i /\ i <= x.processed)
    BY Zenon DEF PassGood
  <2>8. \A i \in DOMAIN m : i = 0 \/ (P <= i /\ i <= y.processed)
    BY <1>0, <1>4, <2>2, <2>5, <2>6, <2>7
  <2>9. \A i \in DOMAIN x.hashes : i <= to
    <3>1. x.processed <= to
      BY <1>0, <1>1, <1>2, <1>4, <1>5, <1>9 DEF PassGood
    <3>2. QED BY <1>0, <2>6, <2>7, <3>1
  <2>10. LatestIs(m, y.state.tree)
    <3>1. to \in DOMAIN m /\ m[to] = y.state.tree /\ \A j \in DOMAIN m : j <= to
      BY <2>2, <2>9
    <3>2. QED BY <3>1, Zenon DEF LatestIs
  <2>11. m[0] = state.tree
    <3>1. 0 \in DOMAIN x.hashes /\ x.hashes[0] = state.tree
      BY <2>1, Zenon DEF MapType, PassGood
    <3>2. QED BY <2>2, <2>5, <3>1, Zenon
  <2>12. QED BY <1>3, <1>5, <1>7, <2>2, <2>3, <2>8, <2>10, <2>11, Zenon DEF PassGood
<1>10. QED BY <1>2, <1>8, <1>9, Zenon DEF RoundTurn

\* A later round leaves what an earlier one, beyond those processed, has recorded.
LEMMA HistoryKept ==
    ASSUME TypeInv, NEW x \in PassType, NEW r \in 1..collected, PassGood(x, r - 1),
           NEW y, y = RoundStep(x, r, <<0, 0>>), NEW q \in 0..MaxRound, processed_through_round <= q, q < r
    PROVE  AtOrBelow(y.hashes, q) = AtOrBelow(x.hashes, q)
<1>0. processed_through_round \in Nat /\ x.processed >= processed_through_round /\ MaxRound \in Nat
  BY OpsAssumption DEF TypeInv, PassGood
<1>1. y \in PassType /\ RoundTurn(x, y, r)
  BY <1>0, RoundStepDoes, Zenon
<1>2. r > processed_through_round
  BY <1>0
<1>3. CASE y.hashes = x.hashes
  BY <1>3, Zenon
<1>4. ASSUME NEW to \in 1..MaxRound, to = r, y.hashes = Put(x.hashes, to, y.state.tree)
      PROVE  AtOrBelow(y.hashes, q) = AtOrBelow(x.hashes, q)
  <2>1. x.hashes \in MapType /\ y.state.tree \in Entry /\ to \in 0..MaxRound /\ q < to
    BY <1>0, <1>1, <1>4 DEF PassType, StateType
  <2>2. QED BY <1>4, <2>1, AtOrBelowPut
<1>5. QED BY <1>1, <1>2, <1>3, <1>4, Zenon DEF RoundTurn

LEMMA LatestAt ==
    ASSUME NEW m \in MapType, NEW v, LatestIs(m, v), NEW q \in 0..MaxRound, \A j \in DOMAIN m : j <= q
    PROVE  AtOrBelow(m, q) = v
<1>1. PICK t \in DOMAIN m : m[t] = v /\ \A j \in DOMAIN m : j <= t
  BY Zenon DEF LatestIs
<1>2. QED BY <1>1, AtOrBelowIs, Zenon

\* The whole pass.
PassHistory(g, r) ==
    \A q \in 0..r : processed_through_round <= q => AtOrBelow(g[r].hashes, q) = g[q].state.tree

LEMMA PassClean ==
    ASSUME TypeInv, state.kv = state.tree, \A e \in executed : e[1] <= processed_through_round,
           NEW g \in [0..collected -> PassType], PassRun(g, collected, <<0, 0>>)
    PROVE  \A r \in 0..collected : PassGood(g[r], r) /\ PassHistory(g, r)
<1>0. collected \in Nat /\ collected \in 0..MaxRound /\ MaxRound \in Nat /\ processed_through_round \in 0..MaxRound
  BY OpsAssumption DEF TypeInv
<1> DEFINE P == processed_through_round
           S == {r \in 0..collected : PassGood(g[r], r) /\ PassHistory(g, r)}
<1>1. ASSUME NEW r \in 0..collected, PassGood(g[r], r), P <= r PROVE AtOrBelow(g[r].hashes, r) = g[r].state.tree
  <2>1. PICK x \in PassType : x = g[r]
    BY Zenon
  <2>2. x.hashes \in MapType /\ x.processed \in 0..MaxRound /\ x.processed <= r
    BY <1>0, <1>1, <2>1 DEF PassType, PassGood
  <2>3. \A i \in DOMAIN x.hashes : i \in Nat
    BY <2>2, MapDomain, Zenon
  <2>4. \A i \in DOMAIN x.hashes : i <= r
    BY <1>0, <1>1, <2>1, <2>2, <2>3 DEF PassGood
  <2>5. LatestIs(x.hashes, x.state.tree) /\ r \in 0..MaxRound
    BY <1>0, <1>1, <2>1 DEF PassGood
  <2>6. QED BY <2>1, <2>2, <2>4, <2>5, LatestAt
<1>2. 0 \in S
  <2>1. PassGood(g[0], 0)
    BY PassGoodStart, Zenon DEF PassRun
  <2>2. PassHistory(g, 0)
    BY <1>0, <1>1, <2>1 DEF PassHistory
  <2>3. QED BY <1>0, <2>1, <2>2
<1>3. ASSUME NEW r \in 0..collected-1, r \in S PROVE r + 1 \in S
  <2>1. r + 1 \in 1..collected /\ (r + 1) - 1 = r /\ r \in 0..collected /\ r + 1 \in 0..collected
    BY <1>0
  <2>2. g[r+1] = RoundStep(g[r], r + 1, <<0, 0>>)
    BY <2>1, Zenon DEF PassRun
  <2>3. g[r] \in PassType /\ PassGood(g[r], r) /\ PassHistory(g, r)
    BY <1>3, <2>1, Zenon
  <2>4. PassGood(g[r+1], r + 1)
    BY <2>1, <2>2, <2>3, PassGoodStep, Zenon
  <2>5. PassHistory(g, r + 1)
    <3> SUFFICES ASSUME NEW q \in 0..r+1, P <= q PROVE AtOrBelow(g[r+1].hashes, q) = g[q].state.tree
      BY Zenon DEF PassHistory
    <3>1. CASE q = r + 1
      BY <1>1, <2>1, <2>4, <3>1, Zenon
    <3>2. CASE q # r + 1
      <4>1. q \in 0..r /\ q \in 0..MaxRound /\ q < r + 1
        BY <1>0, <2>1, <3>2
      <4>2. AtOrBelow(g[r+1].hashes, q) = AtOrBelow(g[r].hashes, q)
        BY <2>1, <2>2, <2>3, <4>1, HistoryKept, Zenon
      <4>3. QED BY <2>3, <4>1, <4>2, Zenon DEF PassHistory
    <3>3. QED BY <3>1, <3>2, Zenon
  <2>6. QED BY <2>1, <2>4, <2>5, Zenon
<1>4. 0..collected \subseteq S
  <2> HIDE DEF S
  <2>1. QED BY <1>0, <1>2, <1>3, UpTo, Zenon
<1>5. QED BY <1>4, Zenon

------------------------------------------------------------------------------
\* cumulative_state_hashes with what a pass recorded put into it.
Merged(cum, h) ==
    [r \in DOMAIN cum \cup DOMAIN h |-> IF r # 0 /\ r \in DOMAIN h THEN h[r] ELSE cum[r]]

LEMMA MergedType ==
    ASSUME NEW cum \in MapType, NEW h \in MapType
    PROVE  Merged(cum, h) \in MapType
<1>1. PICK D \in SUBSET (0..MaxRound) : cum \in [D -> Entry] /\ 0 \in D
  BY Zenon DEF MapType
<1>2. PICK E \in SUBSET (0..MaxRound) : h \in [E -> Entry] /\ 0 \in E
  BY Zenon DEF MapType
<1>3. Merged(cum, h) \in [D \cup E -> Entry]
  BY <1>1, <1>2, Zenon DEF Merged
<1>4. D \cup E \in SUBSET (0..MaxRound) /\ 0 \in D \cup E
  BY <1>1, Zenon
<1>5. QED BY <1>3, <1>4, Zenon DEF MapType

\* Where the pass starts with the last state recorded and records nothing below
\* round p, the hashes and the pass agree from p on.
LEMMA MergedAgrees ==
    ASSUME NEW cum \in MapType, NEW h \in MapType, NEW p \in 0..MaxRound, NEW w,
           \A i \in DOMAIN cum : i <= p, LatestIs(cum, h[0]),
           \A i \in DOMAIN h : i = 0 \/ p <= i, LatestIs(h, w)
    PROVE  /\ LatestIs(Merged(cum, h), w)
           /\ \A q \in 0..MaxRound : p <= q => AtOrBelow(Merged(cum, h), q) = AtOrBelow(h, q)
<1>1. PICK m \in MapType : m = Merged(cum, h)
  BY MergedType, Zenon
<1>2. /\ DOMAIN m = DOMAIN cum \cup DOMAIN h
      /\ \A i \in DOMAIN h : i # 0 => m[i] = h[i]
      /\ \A i \in DOMAIN cum : i = 0 \/ i \notin DOMAIN h => m[i] = cum[i]
  BY <1>1, Zenon DEF Merged
<1>3. /\ \A i \in DOMAIN cum : i \in Nat
      /\ \A i \in DOMAIN h : i \in Nat
      /\ 0 \in DOMAIN cum /\ 0 \in DOMAIN h /\ MaxRound \in Nat /\ p \in Nat
  BY MapDomain, OpsAssumption
<1>4. PICK t \in DOMAIN cum : cum[t] = h[0] /\ \A j \in DOMAIN cum : j <= t
  BY Zenon DEF LatestIs
<1>5. ASSUME NEW q \in Nat, p <= q, NEW s \in DOMAIN h, s <= q, \A j \in DOMAIN h : j <= q => j <= s
      PROVE  \E u \in DOMAIN m : u <= q /\ m[u] = h[s] /\ \A j \in DOMAIN m : j <= q => j <= u
  <2>1. CASE s # 0
    <3>1. p <= s /\ s \in DOMAIN m /\ m[s] = h[s]
      BY <1>2, <2>1, Zenon
    <3>2. \A j \in DOMAIN m : j <= q => j <= s
      BY <1>2, <1>3, <1>5, <3>1
    <3>3. QED BY <1>5, <3>1, <3>2, Zenon
  <2>2. CASE s = 0
    <3>1. \A j \in DOMAIN h : j <= q => j = 0
      BY <1>3, <1>5, <2>2
    <3>2. t \in DOMAIN m /\ t <= q
      BY <1>2, <1>3, <1>4, <1>5
    <3>3. m[t] = cum[t]
      BY <1>2, <1>4, <3>1, <3>2, Zenon
    <3>4. \A j \in DOMAIN m : j <= q => j <= t
      BY <1>2, <1>3, <1>4, <3>1, Zenon
    <3>5. QED BY <1>4, <2>2, <3>2, <3>3, <3>4, Zenon
  <2>3. QED BY <2>1, <2>2, Zenon
<1>6. LatestIs(m, w)
  <2>1. PICK s \in DOMAIN h : h[s] = w /\ \A j \in DOMAIN h : j <= s
    BY Zenon DEF LatestIs
  <2>2. \A j \in DOMAIN m : j <= MaxRound
    BY <1>2, MapDomain, Zenon
  <2>3. p <= MaxRound /\ s <= MaxRound
    BY <1>3, MapDomain
  <2>4. PICK u \in DOMAIN m : m[u] = h[s] /\ \A j \in DOMAIN m : j <= MaxRound => j <= u
    BY <1>3, <1>5, <2>1, <2>3, Zenon
  <2>5. QED BY <2>1, <2>2, <2>4, Zenon DEF LatestIs
<1>7. ASSUME NEW q \in 0..MaxRound, p <= q PROVE AtOrBelow(m, q) = AtOrBelow(h, q)
  <2>1. PICK s \in DOMAIN h : s <= q /\ (\A j \in DOMAIN h : j <= q => j <= s) /\ AtOrBelow(h, q) = h[s]
    BY AtOrBelowSome, Zenon
  <2>2. PICK u \in DOMAIN m : u <= q /\ m[u] = h[s] /\ \A j \in DOMAIN m : j <= q => j <= u
    BY <1>5, <1>7, <2>1
  <2>3. QED BY <2>1, <2>2, AtOrBelowIs, Zenon
<1>8. QED BY <1>1, <1>6, <1>7, Zenon

\* A pass without an error: what it leaves, and the rounds it went through.
PassEnd(g) ==
    /\ g \in [0..collected -> PassType] /\ PassRun(g, collected, <<0, 0>>)
    /\ state' = g[collected].state /\ executed' = g[collected].executed
    /\ processed_through_round' = g[collected].processed
    /\ snapshots' = g[collected].snapshots
    /\ cumulative_state_hashes' = Merged(cumulative_state_hashes, g[collected].hashes)

LEMMA ExecuteEnds ==
    ASSUME TypeInv, Execute(<<0, 0>>)
    PROVE  \E g : PassEnd(g)
<1>1. collected \in 0..MaxRound
  BY Zenon DEF TypeInv
<1>2. PICK g \in [0..collected -> PassType] : PassRun(g, collected, <<0, 0>>) /\ ExecuteRounds(collected, <<0, 0>>) = g[collected]
  BY <1>1, PassUnfolds, Zenon
<1>3. PassEnd(g)
  BY <1>2, Zenon DEF PassEnd, Execute, Merged
<1>4. QED BY <1>3, Zenon

LEMMA ExecuteSnapshot ==
    ASSUME PrefixInv, SnapshotInv, faults = 0, Execute(<<0, 0>>), faults' = faults
    PROVE  SnapshotInv'
<1>0. /\ TypeInv /\ MaxRound \in Nat /\ collected \in 0..MaxRound /\ processed_through_round \in 0..MaxRound
      /\ checkpoint_watermark \in 0..MaxRound /\ cumulative_state_hashes \in MapType
  BY OpsAssumption, Zenon DEF PrefixInv, TypeInv
<1>1. PICK g : PassEnd(g)
  BY <1>0, ExecuteEnds, Zenon
<1>2. pc = "execute" /\ pc' = "produce" /\ checkpoint_watermark' = checkpoint_watermark /\ collected' = collected
  BY Zenon DEF Execute
<1>3. /\ state.kv = state.tree /\ \A e \in executed : e[1] <= processed_through_round
      /\ DOMAIN cumulative_state_hashes \subseteq 0..processed_through_round
      /\ LatestIs(cumulative_state_hashes, state.tree)
      /\ processed_through_round <= checkpoint_watermark
  BY <1>2, Zenon DEF SnapshotInv
<1>4. PICK a \in PassType : a = g[collected] /\ PassGood(a, collected)
  <2>1. g[collected] \in PassType
    BY <1>0, <1>1 DEF PassEnd
  <2>2. PassGood(g[collected], collected)
    BY <1>0, <1>1, <1>3, PassClean DEF PassEnd
  <2>3. QED BY <2>1, <2>2, Zenon
<1>5. /\ state' = a.state /\ executed' = a.executed /\ processed_through_round' = a.processed
      /\ snapshots' = a.snapshots
      /\ cumulative_state_hashes' = Merged(cumulative_state_hashes, a.hashes)
  BY <1>1, <1>4, Zenon DEF PassEnd
<1>6. a.hashes \in MapType /\ a.processed \in 0..MaxRound
  BY Zenon DEF PassType
<1>7. /\ \A i \in DOMAIN cumulative_state_hashes : i <= processed_through_round
      /\ LatestIs(cumulative_state_hashes, a.hashes[0])
      /\ \A i \in DOMAIN a.hashes : i = 0 \/ processed_through_round <= i
      /\ LatestIs(a.hashes, a.state.tree)
  BY <1>0, <1>3, <1>4 DEF PassGood
<1>8. /\ LatestIs(cumulative_state_hashes', a.state.tree)
      /\ \A q \in 0..MaxRound : processed_through_round <= q =>
            AtOrBelow(cumulative_state_hashes', q) = AtOrBelow(a.hashes, q)
  BY <1>0, <1>5, <1>6, <1>7, MergedAgrees
<1>9. \A r \in checkpoint_watermark+1..MaxRound : AtOrBelow(cumulative_state_hashes', r) = AtOrBelow(snapshots', r)
  <2>1. \A r \in checkpoint_watermark+1..MaxRound : r \in 0..MaxRound /\ processed_through_round <= r
    BY <1>0, <1>3
  <2>2. snapshots' = a.hashes
    BY <1>4, <1>5, Zenon DEF PassGood
  <2>3. QED BY <1>8, <2>1, <2>2, Zenon
<1>10. DOMAIN cumulative_state_hashes' \subseteq 0..a.processed
  <2>1. DOMAIN cumulative_state_hashes' = DOMAIN cumulative_state_hashes \cup DOMAIN a.hashes
    BY <1>5, Zenon DEF Merged
  <2>2. processed_through_round <= a.processed
    BY <1>4, Zenon DEF PassGood
  <2>3. \A i \in DOMAIN a.hashes : i \in Nat /\ i <= a.processed
    <3>1. \A i \in DOMAIN a.hashes : i \in Nat
      BY <1>6, MapDomain, Zenon
    <3>2. QED BY <1>4, <1>6, <3>1 DEF PassGood
  <2>4. QED BY <1>0, <1>3, <1>6, <2>1, <2>2, <2>3
<1>11. a.processed <= checkpoint_watermark \/ a.processed <= collected
  BY <1>0, <1>3, <1>4, <1>6 DEF PassGood
<1>12. a.state.kv = a.state.tree /\ \A e \in a.executed : e[1] <= a.processed
  BY <1>4, Zenon DEF PassGood
<1>13. QED BY <1>2, <1>5, <1>8, <1>9, <1>10, <1>11, <1>12, Zenon DEF SnapshotInv

------------------------------------------------------------------------------
\* The steps other than a pass.
LEMMA FaultsGrow == TypeInv /\ [Next]_vars /\ faults' = 0 => faults = 0
<1> SUFFICES ASSUME TypeInv, [Next]_vars, faults' = 0 PROVE faults = 0
  BY Zenon
<1>1. faults' = faults \/ faults' = faults + 1
  BY Zenon DEF Next, vars, Decide, Collect, ExecuteAll, ExecuteFails, ProduceCheckpoint, Finish,
         SerializeFails, ReconnectFails, Reconnect, Restart, ApplyCheckpoint
<1>2. QED BY <1>1 DEF TypeInv

\* The steps of Next that end in a state no storage error has struck.
LEMMA CleanSteps ==
    ASSUME TypeInv, [Next]_vars, faults' = 0
    PROVE  \/ Decide \/ Collect \/ ExecuteAll \/ ProduceCheckpoint \/ Finish \/ UNCHANGED vars
           \/ \E cp \in 1..MaxRound, upTo \in 1..MaxRound : cp <= upTo /\
                 \E from \in 1..cp + 1 : Reconnect(cp, from, upTo) \/ Restart(cp, from, upTo)
<1>1. faults \in Nat
  BY Zenon DEF TypeInv
<1>2. ~ExecuteFails
  BY <1>1 DEF ExecuteFails
<1>3. \A last \in 0..MaxRound : ~SerializeFails(last)
  BY <1>1 DEF SerializeFails
<1>4. \A cp \in 1..MaxRound : ~ReconnectFails(cp)
  BY <1>1 DEF ReconnectFails
<1>5. QED BY <1>2, <1>3, <1>4, Zenon DEF Next

LEMMA RestoredHashes ==
    ASSUME NEW cp \in 1..MaxRound
    PROVE  /\ DOMAIN Put([r \in {0} |-> Empty], cp, StateAt[cp]) = {0, cp}
           /\ Put([r \in {0} |-> Empty], cp, StateAt[cp])[cp] = StateAt[cp]
BY Zenon DEF Put

LEMMA RestoreSnapshot ==
    ASSUME PrefixInv, SnapshotInv, faults = 0, NEW cp \in 1..MaxRound, NEW from, NEW upTo,
           Reconnect(cp, from, upTo) \/ Restart(cp, from, upTo)
    PROVE  SnapshotInv' /\ signed' = signed
<1>0. /\ TypeInv /\ MaxRound \in Nat /\ processed_through_round \in Nat /\ checkpoint_watermark \in Nat
      /\ cp \in Nat /\ cp >= 1
  BY OpsAssumption DEF PrefixInv, TypeInv
<1>1. ApplyCheckpoint(cp, from, upTo) /\ pc' = "idle"
  BY Zenon DEF Reconnect, Restart
<1>2. StateAt[cp] \in Entry
  BY StateAtIs
<1>3. state'.kv = StateAt[cp] /\ state'.tree = StateAt[cp] /\ executed' = {}
  BY <1>1, <1>2, FromBytesType, Zenon DEF ApplyCheckpoint
<1>4. DOMAIN cumulative_state_hashes' = {0, cp} /\ cumulative_state_hashes'[cp] = StateAt[cp]
  BY <1>1, RestoredHashes, Zenon DEF ApplyCheckpoint
<1>5. LatestIs(cumulative_state_hashes', state'.tree)
  BY <1>0, <1>3, <1>4 DEF LatestIs
<1>6. /\ processed_through_round' \in Nat /\ cp <= processed_through_round'
      /\ processed_through_round' <= checkpoint_watermark'
  <2>1. CASE Restart(cp, from, upTo)
    BY <1>0, <2>1 DEF Restart
  <2>2. CASE Reconnect(cp, from, upTo)
    <3>1. processed_through_round <= checkpoint_watermark
      BY <2>2, Zenon DEF SnapshotInv, Reconnect
    <3>2. QED BY <1>0, <2>2, <3>1, MaxPair DEF Reconnect
  <2>3. QED BY <2>1, <2>2, Zenon
<1>7. DOMAIN cumulative_state_hashes' \subseteq 0..processed_through_round'
  BY <1>0, <1>4, <1>6
<1>8. QED BY <1>1, <1>3, <1>5, <1>6, <1>7, Zenon DEF SnapshotInv, ApplyCheckpoint

SnapshotsInv == PrefixInv /\ SnapshotInv /\ SnapshotRebuilds

LEMMA InitSnapshots == Init => SnapshotsInv
<1> SUFFICES ASSUME Init PROVE SnapshotInv /\ SnapshotRebuilds
  BY InitPrefix, Zenon DEF SnapshotsInv
<1>1. PICK m : m = [r \in {0} |-> Empty]
  BY Zenon
<1>2. DOMAIN m = {0} /\ m[0] = Empty
  BY <1>1, Zenon
<1>3. LatestIs(m, Empty)
  BY <1>2 DEF LatestIs
<1>4. state.kv = Empty /\ state.tree = Empty
  BY Zenon DEF Init, FromBytes
<1>5. SnapshotInv
  BY <1>1, <1>2, <1>3, <1>4 DEF Init, SnapshotInv
<1>6. DOMAIN [r \in {} |-> Empty] = {}
  BY Zenon
<1>7. QED BY <1>5, <1>6, Zenon DEF Init, SnapshotRebuilds

LEMMA StepSnapshots == SnapshotsInv /\ [Next]_vars => SnapshotsInv'
<1> SUFFICES ASSUME SnapshotsInv, [Next]_vars PROVE SnapshotsInv'
  BY Zenon
<1>0. PrefixInv' /\ PrefixInv /\ TypeInv /\ SnapshotInv /\ MaxRound \in Nat
  BY StepPrefixInv, OpsAssumption, Zenon DEF SnapshotsInv, PrefixInv
<1> SUFFICES ASSUME faults' = 0 PROVE SnapshotInv' /\ SnapshotRebuilds'
  BY <1>0, Zenon DEF SnapshotsInv, SnapshotInv, SnapshotRebuilds
<1>1. faults = 0 /\ \A r \in DOMAIN signed : signed[r].snapshot = signed[r].hash
  BY <1>0, FaultsGrow, Zenon DEF SnapshotsInv, SnapshotRebuilds
<1>2. CASE Decide
  BY <1>0, <1>1, <1>2, Zenon DEF Decide, SnapshotInv, SnapshotRebuilds, executor, activation
<1>3. CASE Collect
  BY <1>0, <1>1, <1>3, Zenon DEF Collect, SnapshotInv, SnapshotRebuilds, executor, activation
<1>4. CASE ExecuteAll
  <2>1. SnapshotInv'
    BY <1>0, <1>1, <1>4, ExecuteSnapshot, Zenon DEF ExecuteAll
  <2>2. signed' = signed
    BY <1>4, Zenon DEF ExecuteAll, Execute
  <2>3. QED BY <1>1, <2>1, <2>2, Zenon DEF SnapshotRebuilds
<1>5. CASE ProduceCheckpoint
  <2>1. PICK round \in 1..MaxRound : round = checkpoint_watermark + 1
    BY <1>0, <1>5 DEF ProduceCheckpoint, TypeInv
  <2>2. /\ pc = "produce" /\ pc' = pc /\ checkpoint_watermark' = round
        /\ UNCHANGED <<collected, state, executed, processed_through_round, cumulative_state_hashes, snapshots>>
    BY <1>5, <2>1, Zenon DEF ProduceCheckpoint, executor
  <2>3. AtOrBelow(cumulative_state_hashes, round) = AtOrBelow(snapshots, round)
    BY <1>0, <1>1, <2>1, <2>2 DEF SnapshotInv, TypeInv
  <2>4. PICK v : v.snapshot = v.hash /\ signed' = Put(signed, round, v)
    <3>1. PICK v : v = [hash |-> AtOrBelow(cumulative_state_hashes, round),
                        snapshot |-> AtOrBelow(snapshots, round), collected |-> collected]
      BY Zenon
    <3>2. v.snapshot = v.hash
      BY <2>3, <3>1, Zenon
    <3>3. signed' = Put(signed, round, v)
      BY <1>5, <2>1, <3>1, Zenon DEF ProduceCheckpoint
    <3>4. QED BY <3>2, <3>3, Zenon
  <2>5. \A r \in DOMAIN signed' : signed'[r].snapshot = signed'[r].hash
    BY <1>1, <2>4, Zenon DEF Put
  <2>6. \A r \in round+1..MaxRound : r \in checkpoint_watermark+1..MaxRound
    BY <1>0, <2>1 DEF TypeInv
  <2>7. processed_through_round <= round \/ processed_through_round <= collected
    BY <1>0, <1>1, <2>1, <2>2 DEF SnapshotInv, TypeInv
  <2>8. SnapshotInv'
    BY <1>0, <1>1, <2>2, <2>6, <2>7, Zenon DEF SnapshotInv
  <2>9. QED BY <2>5, <2>8, Zenon DEF SnapshotRebuilds
<1>6. CASE Finish
  <2>1. processed_through_round <= checkpoint_watermark
    BY <1>0, <1>1, <1>6 DEF Finish, SnapshotInv, TypeInv
  <2>2. SnapshotInv'
    BY <1>0, <1>1, <1>6, <2>1, Zenon DEF Finish, SnapshotInv, executor, activation
  <2>3. QED BY <1>1, <1>6, <2>2, Zenon DEF Finish, SnapshotRebuilds
<1>7. CASE UNCHANGED vars
  BY <1>0, <1>1, <1>7, Zenon DEF vars, SnapshotInv, SnapshotRebuilds, executor, activation
<1>8. ASSUME NEW cp \in 1..MaxRound, NEW upTo \in 1..MaxRound, NEW from \in 1..cp + 1,
             Reconnect(cp, from, upTo) \/ Restart(cp, from, upTo)
      PROVE  SnapshotInv' /\ SnapshotRebuilds'
  <2>1. SnapshotInv' /\ signed' = signed
    BY <1>0, <1>1, <1>8, RestoreSnapshot, Zenon
  <2>2. QED BY <1>1, <2>1, Zenon DEF SnapshotRebuilds
<1>9. QED BY <1>0, <1>2, <1>3, <1>4, <1>5, <1>6, <1>7, <1>8, CleanSteps, Zenon

\* SnapshotRebuilds, for every order of operations and through every restart and
\* reconnect: until a storage error, the bytes produce_checkpoint keeps for a
\* round rebuild to the hash it signs for the round, collected or not.
THEOREM SnapshotsRebuild == Spec => []SnapshotRebuilds
<1>1. SnapshotsInv => SnapshotRebuilds
  BY Zenon DEF SnapshotsInv
<1>2. QED BY <1>1, InitSnapshots, StepSnapshots, PTL DEF Spec

------------------------------------------------------------------------------
\* Executing again.  Where the graph retains whole rounds, the events of a round
\* are kept or gone together.
WholeRounds == floor = 1 \/ Anchors = {}

LEMMA EventsToIs ==
    ASSUME TypeInv, NEW c \in 0..MaxRound, NEW e
    PROVE  e \in EventsTo(c) <=> \E r \in 1..MaxRound : \E i \in 1..Len(Ops[r]) :
                                    e = <<r, i>> /\ floor <= r /\ r <= c
<1>1. \A r, i : <<r, i>>[1] = r
  BY Zenon
<1>2. QED BY <1>1, EventIs DEF EventsTo

LEMMA KeptFrom ==
    ASSUME TypeInv, WholeRounds, NEW r \in 1..MaxRound, floor <= r
    PROVE  /\ \A j \in 1..Len(Ops[r]) : Kept(<<r, j>>) /\ <<r, j>> \notin EventsTo(r - 1)
           /\ EventsTo(r) = EventsTo(r - 1) \cup KeptIn(r, Len(Ops[r]))
           /\ \A c \in r..MaxRound : KeptIn(r, Len(Ops[r])) \subseteq EventsTo(c)
<1>0. MaxRound \in Nat /\ r \in Nat /\ floor \in Nat /\ r - 1 \in 0..MaxRound /\ r \in 0..MaxRound
  BY OpsAssumption DEF TypeInv
<1>1. \A a, b, i, j : <<a, i>>[1] = a /\ (<<a, i>> = <<b, j>> => a = b)
  BY Zenon
<1>2. \A j \in 1..Len(Ops[r]) : Kept(<<r, j>>)
  BY <1>0, <1>1, Zenon DEF Kept
<1>3. \A j \in 1..Len(Ops[r]) : <<r, j>> \notin EventsTo(r - 1)
  <2> SUFFICES ASSUME NEW j \in 1..Len(Ops[r]), <<r, j>> \in EventsTo(r - 1) PROVE FALSE
    BY Zenon
  <2>1. PICK q \in 1..MaxRound : (\E i \in 1..Len(Ops[q]) : <<r, j>> = <<q, i>>) /\ q <= r - 1
    BY <1>0, EventsToIs, Zenon
  <2>2. QED BY <1>0, <1>1, <2>1
<1>4. \A e : e \in KeptIn(r, Len(Ops[r])) <=> \E i \in 1..Len(Ops[r]) : e = <<r, i>>
  BY <1>2 DEF KeptIn
<1>5. \A e : e \in EventsTo(r) <=> e \in EventsTo(r - 1) \/ e \in KeptIn(r, Len(Ops[r]))
  <2> TAKE e
  <2>1. e \in EventsTo(r) <=> \E q \in 1..MaxRound : \E i \in 1..Len(Ops[q]) : e = <<q, i>> /\ floor <= q /\ q <= r
    BY <1>0, EventsToIs, Zenon
  <2>2. e \in EventsTo(r - 1) <=> \E q \in 1..MaxRound : \E i \in 1..Len(Ops[q]) : e = <<q, i>> /\ floor <= q /\ q <= r - 1
    BY <1>0, EventsToIs, Zenon
  <2>3. \A q \in 1..MaxRound : q <= r <=> q <= r - 1 \/ q = r
    BY <1>0
  <2>4. QED BY <1>4, <2>1, <2>2, <2>3, Zenon
<1>6. \A c \in r..MaxRound : KeptIn(r, Len(Ops[r])) \subseteq EventsTo(c)
  <2> SUFFICES ASSUME NEW c \in r..MaxRound, NEW e \in KeptIn(r, Len(Ops[r])) PROVE e \in EventsTo(c)
    BY Zenon
  <2>1. PICK i \in 1..Len(Ops[r]) : e = <<r, i>>
    BY <1>4, Zenon
  <2>2. c \in 0..MaxRound /\ r <= c
    BY <1>0
  <2>3. QED BY <2>1, <2>2, EventsToIs, Zenon
<1>7. QED BY <1>2, <1>3, <1>5, <1>6, Zenon

LEMMA KeptBelow ==
    ASSUME TypeInv, WholeRounds, NEW r \in 1..MaxRound, r < floor
    PROVE  /\ KeptIn(r, Len(Ops[r])) = {} /\ (\A x : ~NewIn(x, r, Len(Ops[r])))
           /\ EventsTo(r) = {} /\ EventsTo(r - 1) = {}
<1>0. MaxRound \in Nat /\ r \in Nat /\ floor \in Nat /\ r - 1 \in 0..MaxRound /\ r \in 0..MaxRound
  BY OpsAssumption DEF TypeInv
<1>1. Anchors = {}
  BY <1>0 DEF WholeRounds
<1>2. \A j : ~Kept(<<r, j>>)
  <2>1. \A j : <<r, j>>[1] = r
    BY Zenon
  <2>2. QED BY <1>0, <1>1, <2>1 DEF Kept
<1>3. \A e : e \notin EventsTo(r) /\ e \notin EventsTo(r - 1)
  <2> TAKE e
  <2>1. \A q \in 1..MaxRound : ~(floor <= q /\ q <= r) /\ ~(floor <= q /\ q <= r - 1)
    BY <1>0
  <2>2. QED BY <1>0, <2>1, EventsToIs, Zenon
<1>4. KeptIn(r, Len(Ops[r])) = {}
  BY <1>2 DEF KeptIn
<1>5. QED BY <1>2, <1>3, <1>4, Zenon DEF NewIn

\* A pass that starts with the state after round c: until it is there again, each
\* key has its value after the round the pass is at or its value after c.
OrderedAt(y, r, c) ==
    \/ /\ y.executed = EventsTo(IF r <= c THEN c ELSE r)
       /\ y.state.tree = StateAt[IF r <= c THEN c ELSE r]
    \/ /\ r < c /\ Anchors = {} /\ PutsOnly
       /\ y.executed = EventsTo(r)
       /\ Mixed(y.state.tree, StateAt[r], StateAt[c])
       /\ r < floor => y.state.tree = StateAt[c]

\* The arithmetic of a round r beside the round c of the state and the first
\* retained round m.
LEMMA RoundBounds ==
    ASSUME NEW n \in Nat, NEW r \in 1..n, NEW c \in 0..n, NEW m \in Nat, m <= c + 1
    PROVE  /\ r <= c \/ r > c
           /\ r <= c => (IF r - 1 <= c THEN c ELSE r - 1) = c /\ c \in r..n /\ (r = c \/ r < c)
           /\ r > c => (IF r - 1 <= c THEN c ELSE r - 1) = r - 1 /\ m <= r /\ ~(r <= c)
           /\ r - 1 < c => r <= c
           /\ r < m => r - 1 < m
           /\ r < m \/ m <= r
           /\ m <= r => ~(r < m)
OBVIOUS

LEMMA OrderedStep ==
    ASSUME TypeInv, WholeRounds, NEW c \in 0..collected, floor <= c + 1, NEW r \in 1..collected,
           NEW x \in PassType, x.processed >= processed_through_round, x.state.kv = x.state.tree,
           OrderedAt(x, r - 1, c), NEW y, y = RoundStep(x, r, <<0, 0>>)
    PROVE  OrderedAt(y, r, c)
<1> DEFINE n == Len(Ops[r])
<1>0. /\ MaxRound \in Nat /\ r \in 1..MaxRound /\ c \in 0..MaxRound /\ r - 1 \in 0..MaxRound
      /\ r \in 0..MaxRound /\ floor \in Nat
  BY OpsAssumption DEF TypeInv
<1>9. /\ r <= c \/ r > c
      /\ r <= c => (IF r - 1 <= c THEN c ELSE r - 1) = c /\ c \in r..MaxRound /\ (r = c \/ r < c)
      /\ r > c => (IF r - 1 <= c THEN c ELSE r - 1) = r - 1 /\ floor <= r /\ ~(r <= c)
      /\ r - 1 < c => r <= c
      /\ r < floor => r - 1 < floor
      /\ r < floor \/ floor <= r
      /\ floor <= r => ~(r < floor)
  BY <1>0, RoundBounds, Zenon
<1>1. PICK s \in StateType : s = x.state /\ s.kv = s.tree
  BY Zenon DEF PassType
<1>2. /\ y \in PassType
      /\ y.executed = x.executed \cup KeptIn(r, n)
      /\ ~NewIn(x, r, n) => y.state = s
      /\ (\A j \in 1..n : Kept(<<r, j>>) /\ <<r, j>> \notin x.executed) => y.state = RoundApplied(s, r)
  BY <1>1, RoundStepDoes
<1>3. StateAt[r] \in Entry /\ StateAt[r-1] \in Entry /\ StateAt[c] \in Entry
  BY <1>0, StateAtIs, Zenon
<1>4. FromBytes(StateAt[r-1]) \in StateType /\ FromBytes(StateAt[r-1]).kv = StateAt[r-1] /\ FromBytes(StateAt[r-1]).tree = StateAt[r-1]
  BY <1>3, FromBytesType, Zenon
<1>5. StateAt[r] = RoundApplied(FromBytes(StateAt[r-1]), r).tree
  BY <1>0, StateAtIs, Zenon
<1>6. CASE /\ x.executed = EventsTo(IF r - 1 <= c THEN c ELSE r - 1)
           /\ x.state.tree = StateAt[IF r - 1 <= c THEN c ELSE r - 1]
  <2>1. CASE r <= c
    <3>0. x.executed = EventsTo(c) /\ s.tree = StateAt[c]
      BY <1>1, <1>6, <1>9, <2>1, Zenon
    <3>1. KeptIn(r, n) \subseteq EventsTo(c)
      <4>1. CASE floor <= r
        <5>1. c \in r..MaxRound
          BY <1>9, <2>1, Zenon
        <5>2. QED BY <1>0, <4>1, <5>1, KeptFrom, Zenon
      <4>2. CASE r < floor
        BY <1>0, <4>2, KeptBelow, Zenon
      <4>3. QED BY <1>9, <4>1, <4>2, Zenon
    <3>2. ~NewIn(x, r, n)
      <4>1. \A j \in 1..n : Kept(<<r, j>>) => <<r, j>> \in KeptIn(r, n)
        BY Zenon DEF KeptIn
      <4>2. QED BY <3>0, <3>1, <4>1, Zenon DEF NewIn
    <3>3. y.executed = EventsTo(c) /\ y.state.tree = StateAt[c]
      BY <1>2, <3>0, <3>1, <3>2, Zenon
    <3>4. QED BY <2>1, <3>3, Zenon DEF OrderedAt
  <2>2. CASE r > c
    <3>0. x.executed = EventsTo(r - 1) /\ s.tree = StateAt[r - 1]
      BY <1>1, <1>6, <1>9, <2>2, Zenon
    <3>1. floor <= r
      BY <1>9, <2>2, Zenon
    <3>2. y.state = RoundApplied(s, r)
      BY <1>0, <1>2, <3>0, <3>1, KeptFrom
    <3>3. s = FromBytes(StateAt[r - 1])
      BY <1>1, <3>0, Zenon DEF FromBytes, StateType
    <3>4. y.state.tree = StateAt[r]
      BY <1>5, <3>2, <3>3, Zenon
    <3>5. y.executed = EventsTo(r)
      BY <1>0, <1>2, <3>0, <3>1, KeptFrom, Zenon
    <3>6. ~(r <= c)
      BY <1>9, <2>2, Zenon
    <3>7. QED BY <3>4, <3>5, <3>6, Zenon DEF OrderedAt
  <2>3. QED BY <1>9, <2>1, <2>2, Zenon
<1>7. CASE /\ r - 1 < c /\ Anchors = {} /\ PutsOnly
           /\ x.executed = EventsTo(r - 1)
           /\ Mixed(x.state.tree, StateAt[r - 1], StateAt[c])
           /\ r - 1 < floor => x.state.tree = StateAt[c]
  <2>0. r <= c
    BY <1>7, <1>9, Zenon
  <2>1. CASE r < floor
    <3>0. r - 1 < floor
      BY <1>9, <2>1, Zenon
    <3>1. y.state = s /\ s.tree = StateAt[c] /\ y.executed = EventsTo(r)
      BY <1>0, <1>1, <1>2, <1>7, <2>1, <3>0, KeptBelow, Zenon
    <3>2. Mixed(y.state.tree, StateAt[r], StateAt[c])
      BY <3>1, Zenon DEF Mixed
    <3>3. CASE r = c
      BY <3>1, <3>3, Zenon DEF OrderedAt
    <3>4. CASE r < c
      BY <1>7, <3>1, <3>2, <3>4, Zenon DEF OrderedAt
    <3>5. QED BY <1>9, <2>0, <3>3, <3>4, Zenon
  <2>2. CASE floor <= r
    <3>0. /\ \A j \in 1..n : Kept(<<r, j>>) /\ <<r, j>> \notin EventsTo(r - 1)
          /\ EventsTo(r) = EventsTo(r - 1) \cup KeptIn(r, n)
      BY <1>0, <2>2, KeptFrom, Zenon
    <3>1. y.state = RoundApplied(s, r) /\ y.executed = EventsTo(r)
      BY <1>2, <1>7, <3>0, Zenon
    <3>2. Mixed(s.tree, FromBytes(StateAt[r-1]).tree, StateAt[c])
      BY <1>1, <1>4, <1>7, Zenon
    <3>3. Mixed(y.state.tree, StateAt[r], StateAt[c])
      BY <1>0, <1>1, <1>3, <1>4, <1>5, <1>7, <3>1, <3>2, AppliedMixed, Zenon
    <3>4. CASE r = c
      <4>1. y.state.tree \in Entry
        BY <1>2, Zenon DEF PassType, StateType
      <4>2. \A k \in Key : y.state.tree[k] = StateAt[c][k]
        BY <3>3, <3>4, Zenon DEF Mixed
      <4>3. y.state.tree = StateAt[c]
        BY <1>3, <4>1, <4>2 DEF Entry
      <4>4. QED BY <3>1, <3>4, <4>3, Zenon DEF OrderedAt
    <3>5. CASE r < c
      <4>1. ~(r < floor)
        BY <1>9, <2>2, Zenon
      <4>2. QED BY <1>7, <3>1, <3>3, <3>5, <4>1, Zenon DEF OrderedAt
    <3>6. QED BY <1>9, <2>0, <3>4, <3>5, Zenon
  <2>3. QED BY <1>9, <2>1, <2>2, Zenon
<1>8. QED BY <1>6, <1>7, Zenon DEF OrderedAt

LEMMA PassOrdered ==
    ASSUME TypeInv, WholeRounds, state.kv = state.tree, \A e \in executed : e[1] <= processed_through_round,
           NEW c \in 0..collected, floor <= c + 1, state.tree = StateAt[c],
           executed = EventsTo(c) \/ (executed = {} /\ Anchors = {} /\ PutsOnly),
           NEW g \in [0..collected -> PassType], PassRun(g, collected, <<0, 0>>)
    PROVE  \A r \in 0..collected : OrderedAt(g[r], r, c)
<1>0. collected \in Nat /\ c \in Nat /\ floor \in Nat /\ floor >= 1 /\ MaxRound \in Nat /\ c \in 0..MaxRound
  BY OpsAssumption DEF TypeInv
<1> DEFINE S == {r \in 0..collected : OrderedAt(g[r], r, c)}
<1>1. 0 \in S
  <2>1. g[0].state = state /\ g[0].executed = executed
    BY DEF PassRun, PassStart
  <2>2. EventsTo(0) = {}
    <3>1. 0 \in 0..MaxRound /\ \A r \in 1..MaxRound : ~(r <= 0)
      BY <1>0
    <3>2. \A e : e \notin EventsTo(0)
      BY <3>1, EventsToIs, Zenon
    <3>3. QED BY <3>2, Zenon
  <2>3. CASE executed = EventsTo(c)
    <3>1. OrderedAt(g[0], 0, c)
      BY <1>0, <2>1, <2>3 DEF OrderedAt
    <3>2. QED BY <1>0, <3>1
  <2>4. CASE executed = {} /\ Anchors = {} /\ PutsOnly
    <3>1. CASE c = 0
      <4>1. OrderedAt(g[0], 0, c)
        BY <2>1, <2>2, <2>4, <3>1, Zenon DEF OrderedAt
      <4>2. QED BY <1>0, <4>1
    <3>2. CASE c # 0
      <4>1. 0 < c
        BY <1>0, <3>2
      <4>2. OrderedAt(g[0], 0, c)
        BY <2>1, <2>2, <2>4, <4>1, Zenon DEF OrderedAt, Mixed
      <4>3. QED BY <1>0, <4>2
    <3>3. QED BY <3>1, <3>2, Zenon
  <2>5. QED BY <2>3, <2>4, Zenon
<1>2. ASSUME NEW r \in 0..collected-1, r \in S PROVE r + 1 \in S
  <2>1. r + 1 \in 1..collected /\ (r + 1) - 1 = r /\ r \in 0..collected /\ r + 1 \in 0..collected
    BY <1>0
  <2>2. g[r+1] = RoundStep(g[r], r + 1, <<0, 0>>)
    BY <2>1, Zenon DEF PassRun
  <2>3. PassGood(g[r], r)
    BY <2>1, PassClean, Zenon
  <2>4. g[r] \in PassType /\ g[r].processed >= processed_through_round /\ g[r].state.kv = g[r].state.tree
    BY <2>1, <2>3, Zenon DEF PassGood
  <2>5. OrderedAt(g[r+1], r + 1, c)
    BY <1>2, <2>1, <2>2, <2>4, OrderedStep, Zenon
  <2>6. QED BY <2>1, <2>5, Zenon
<1>3. 0..collected \subseteq S
  <2> HIDE DEF S
  <2>1. QED BY <1>0, <1>1, <1>2, UpTo, Zenon
<1>4. QED BY <1>3, Zenon

LEMMA ExecuteOrder ==
    ASSUME SnapshotsInv, SnapshotInv', faults = 0, faults' = 0, WholeRounds, Execute(<<0, 0>>),
           NEW c \in 0..MaxRound, AtRound(c)
    PROVE  /\ AtRound(collected)'
           /\ \A r \in checkpoint_watermark'+1..collected' : AtOrBelow(cumulative_state_hashes', r) = StateAt[r]
<1>0. /\ TypeInv /\ MaxRound \in Nat /\ collected \in 0..MaxRound /\ processed_through_round \in 0..MaxRound
      /\ checkpoint_watermark \in 0..MaxRound /\ c \in Nat /\ floor \in Nat
  BY OpsAssumption DEF SnapshotsInv, PrefixInv, TypeInv
<1>1. PICK g : PassEnd(g)
  BY <1>0, ExecuteEnds, Zenon
<1>2. /\ pc = "execute" /\ pc' = "produce"
      /\ UNCHANGED <<ordered, floor, checkpoint_watermark, collected>>
  BY Zenon DEF Execute, graph
<1>3. /\ state.kv = state.tree /\ \A e \in executed : e[1] <= processed_through_round
      /\ processed_through_round <= checkpoint_watermark
  BY <1>2, Zenon DEF SnapshotsInv, SnapshotInv
<1>4. /\ c \in 0..collected /\ floor <= c + 1 /\ state.tree = StateAt[c] /\ c <= checkpoint_watermark
      /\ executed = EventsTo(c) \/ (executed = {} /\ Anchors = {} /\ PutsOnly)
  BY <1>0, <1>2 DEF AtRound
<1>5. \A r \in 0..collected : OrderedAt(g[r], r, c)
  BY <1>0, <1>1, <1>3, <1>4, PassOrdered, Zenon DEF PassEnd
<1>6. ASSUME NEW r \in 0..collected, c <= r
      PROVE  g[r].executed = EventsTo(r) /\ g[r].state.tree = StateAt[r]
  <2>1. (IF r <= c THEN c ELSE r) = r /\ ~(r < c)
    BY <1>0, <1>6
  <2>2. QED BY <1>5, <2>1, Zenon DEF OrderedAt
<1>7. collected \in 0..collected /\ c <= collected
  BY <1>0, <1>4
<1>8. state'.tree = StateAt[collected] /\ executed' = EventsTo(collected)
  BY <1>1, <1>6, <1>7, Zenon DEF PassEnd
<1>9. EventsTo(collected)' = EventsTo(collected)
  BY <1>2, Zenon DEF EventsTo
<1>10. AtRound(collected)'
  <2>1. floor <= collected + 1 /\ collected <= ordered
    BY <1>0, <1>2, <1>4 DEF TypeInv
  <2>2. QED BY <1>2, <1>8, <1>9, <2>1, Zenon DEF AtRound
<1>11. ASSUME NEW r \in checkpoint_watermark+1..collected
       PROVE  AtOrBelow(cumulative_state_hashes', r) = StateAt[r]
  <2>1. r \in checkpoint_watermark+1..MaxRound /\ r \in 0..collected /\ processed_through_round <= r /\ c <= r
    BY <1>0, <1>3, <1>4
  <2>2. AtOrBelow(cumulative_state_hashes', r) = AtOrBelow(snapshots', r)
    BY <1>2, <2>1, Zenon DEF SnapshotInv
  <2>3. PassGood(g[collected], collected) /\ PassHistory(g, collected)
    BY <1>0, <1>1, <1>3, <1>7, PassClean, Zenon DEF PassEnd
  <2>4. snapshots' = g[collected].hashes
    BY <1>1, <2>3, Zenon DEF PassEnd, PassGood
  <2>5. AtOrBelow(g[collected].hashes, r) = g[r].state.tree
    BY <2>1, <2>3, Zenon DEF PassHistory
  <2>6. QED BY <1>6, <2>1, <2>2, <2>4, <2>5, Zenon
<1>12. QED BY <1>2, <1>10, <1>11, Zenon

------------------------------------------------------------------------------
\* Order through every step.
OrdersInv == SnapshotsInv /\ OrderInv /\ SignedAsCollected

LEMMA InitOrders == Init => OrdersInv
<1> SUFFICES ASSUME Init PROVE OrdersInv
  BY Zenon
<1>0. SnapshotsInv /\ TypeInv /\ MaxRound \in Nat
  BY InitSnapshots, OpsAssumption, Zenon DEF SnapshotsInv, PrefixInv
<1>1. EventsTo(0) = {}
  <2>1. 0 \in 0..MaxRound /\ \A r \in 1..MaxRound : ~(r <= 0)
    BY <1>0
  <2>2. \A e : e \notin EventsTo(0)
    BY <1>0, <2>1, EventsToIs, Zenon
  <2>3. QED BY <2>2, Zenon
<1>2. state.tree = StateAt[0]
  BY StateAtIs, Zenon DEF Init, FromBytes
<1>3. AtRound(0) /\ 0 \in 0..MaxRound
  BY <1>0, <1>1, <1>2 DEF Init, AtRound
<1>4. OrderInv
  BY <1>3, Zenon DEF Init, OrderInv
<1>5. DOMAIN [r \in {} |-> Empty] = {}
  BY Zenon
<1>6. SignedAsCollected
  BY <1>5, Zenon DEF Init, SignedAsCollected
<1>7. QED BY <1>0, <1>4, <1>6, Zenon DEF OrdersInv

LEMMA StepReplayable ==
    ASSUME Replayable, (floor = 1 /\ restores = 0) \/ (Anchors = {} /\ PutsOnly), [Next]_vars
    PROVE  ((floor = 1 /\ restores = 0) \/ (Anchors = {} /\ PutsOnly))'
<1>1. UNCHANGED <<floor, restores>> \/ restores < MaxRestores
  BY Zenon DEF Next, vars, graph, Decide, Collect, ExecuteAll, ExecuteFails, Execute, ProduceCheckpoint, Finish,
         SerializeFails, ReconnectFails, Reconnect, Restart, ApplyCheckpoint
<1>2. QED BY <1>1 DEF Replayable, PutsOnly

LEMMA RestoreOrder ==
    ASSUME TypeInv, Replayable, (floor = 1 /\ restores = 0) \/ (Anchors = {} /\ PutsOnly),
           NEW cp \in 1..MaxRound, NEW upTo \in 1..MaxRound, cp <= upTo, NEW from \in 1..cp + 1,
           Reconnect(cp, from, upTo) \/ Restart(cp, from, upTo)
    PROVE  AtRound(cp)' /\ pc' = "idle" /\ signed' = signed
<1>0. MaxRound \in Nat /\ checkpoint_watermark \in Nat /\ cp \in Nat
  BY OpsAssumption DEF TypeInv
<1>1. ApplyCheckpoint(cp, from, upTo) /\ pc' = "idle"
  BY Zenon DEF Reconnect, Restart
<1>2. Anchors = {} /\ PutsOnly
  BY <1>1 DEF ApplyCheckpoint, Replayable
<1>3. StateAt[cp] \in Entry
  BY StateAtIs
<1>4. state'.tree = StateAt[cp] /\ executed' = {} /\ floor' = from /\ ordered' = upTo /\ signed' = signed
  BY <1>1, <1>3, FromBytesType, Zenon DEF ApplyCheckpoint
<1>5. cp <= checkpoint_watermark'
  <2>1. CASE Restart(cp, from, upTo)
    BY <1>0, <2>1 DEF Restart
  <2>2. CASE Reconnect(cp, from, upTo)
    BY <1>0, <2>2, MaxPair DEF Reconnect
  <2>3. QED BY <2>1, <2>2, Zenon
<1>6. from <= cp + 1
  BY <1>0
<1>7. QED BY <1>1, <1>2, <1>4, <1>5, <1>6, Zenon DEF AtRound, PutsOnly

LEMMA StepOrders ==
    ASSUME Replayable, OrdersInv, [Next]_vars
    PROVE  OrdersInv'
<1>0. /\ SnapshotsInv /\ SnapshotsInv' /\ TypeInv /\ SnapshotInv' /\ MaxRound \in Nat
      /\ (floor = 1 /\ restores = 0) \/ (Anchors = {} /\ PutsOnly)
  BY StepSnapshots, OpsAssumption, Zenon DEF OrdersInv, SnapshotsInv, PrefixInv, OrderInv
<1>1. ((floor = 1 /\ restores = 0) \/ (Anchors = {} /\ PutsOnly))'
  BY <1>0, StepReplayable, Zenon
<1> DEFINE Hashes == pc = "produce" => \A r \in checkpoint_watermark+1..collected :
                                          AtOrBelow(cumulative_state_hashes, r) = StateAt[r]
           Signed == \A r \in DOMAIN signed : r <= signed[r].collected => signed[r].hash = StateAt[r]
<1> SUFFICES ASSUME faults' = 0 PROVE (\E c \in 0..MaxRound : AtRound(c)') /\ Hashes' /\ Signed'
  BY <1>0, <1>1, Zenon DEF OrdersInv, OrderInv, SignedAsCollected
<1>2. faults = 0
  BY <1>0, FaultsGrow, Zenon
<1>3. PICK c \in 0..MaxRound : AtRound(c)
  BY <1>2, Zenon DEF OrdersInv, OrderInv
<1>4. Hashes /\ Signed
  BY <1>2, Zenon DEF OrdersInv, OrderInv, SignedAsCollected
<1>5. CASE Decide
  <2>1. AtRound(c)'
    BY <1>0, <1>3, <1>5 DEF Decide, AtRound, EventsTo, PutsOnly, TypeInv, executor, activation
  <2>2. QED BY <1>4, <1>5, <2>1, Zenon DEF Decide, executor, activation
<1>6. CASE Collect
  <2>1. AtRound(c)'
    BY <1>0, <1>3, <1>6, Zenon DEF Collect, AtRound, EventsTo, PutsOnly, TypeInv, executor, activation, graph
  <2>2. QED BY <1>4, <1>6, <2>1, Zenon DEF Collect
<1>7. CASE ExecuteAll
  <2>1. WholeRounds /\ Execute(<<0, 0>>) /\ signed' = signed /\ collected' \in 0..MaxRound
    BY <1>0, <1>7, Zenon DEF WholeRounds, ExecuteAll, Execute, TypeInv
  <2>2. /\ AtRound(collected)'
        /\ \A r \in checkpoint_watermark'+1..collected' : AtOrBelow(cumulative_state_hashes', r) = StateAt[r]
    BY <1>0, <1>2, <1>3, <2>1, ExecuteOrder, Zenon
  <2>3. QED BY <1>4, <2>1, <2>2, Zenon
<1>8. CASE ProduceCheckpoint
  <2>1. PICK round \in 1..MaxRound : round = checkpoint_watermark + 1
    BY <1>0, <1>8 DEF ProduceCheckpoint, TypeInv
  <2>2. /\ pc = "produce" /\ pc' = pc /\ checkpoint_watermark' = round
        /\ UNCHANGED <<ordered, floor, collected, state, executed, cumulative_state_hashes>>
    BY <1>8, <2>1, Zenon DEF ProduceCheckpoint, executor, graph
  <2>3. AtRound(c)'
    BY <1>3, <2>2, Zenon DEF AtRound, EventsTo, PutsOnly
  <2>4. \A r \in round+1..collected : r \in checkpoint_watermark+1..collected
    BY <1>0, <2>1 DEF TypeInv
  <2>5. Hashes'
    BY <1>4, <2>2, <2>4, Zenon
  <2>6. PICK v : v.collected = collected /\ v.hash = AtOrBelow(cumulative_state_hashes, round) /\ signed' = Put(signed, round, v)
    <3>1. PICK v : v = [hash |-> AtOrBelow(cumulative_state_hashes, round),
                        snapshot |-> AtOrBelow(snapshots, round), collected |-> collected]
      BY Zenon
    <3>2. v.collected = collected /\ v.hash = AtOrBelow(cumulative_state_hashes, round)
      BY <3>1, Zenon
    <3>3. signed' = Put(signed, round, v)
      BY <1>8, <2>1, <3>1, Zenon DEF ProduceCheckpoint
    <3>4. QED BY <3>2, <3>3, Zenon
  <2>7. round <= collected => v.hash = StateAt[round]
    BY <1>0, <1>4, <2>1, <2>2, <2>6 DEF TypeInv
  <2>8. Signed'
    BY <1>4, <2>6, <2>7, Zenon DEF Put
  <2>9. QED BY <2>3, <2>5, <2>8, Zenon
<1>9. CASE Finish
  <2>1. AtRound(c)'
    <3>1. /\ pc = "produce" /\ pc' = "idle" /\ checkpoint_watermark + 1 > ordered
          /\ UNCHANGED <<ordered, floor, state, executed, checkpoint_watermark>>
      BY <1>9, Zenon DEF Finish, executor, activation, graph
    <3>2. c <= ordered /\ ordered \in Nat /\ checkpoint_watermark \in Nat
      BY <1>0, <1>3 DEF AtRound, TypeInv
    <3>3. c <= checkpoint_watermark
      BY <3>1, <3>2
    <3>4. QED BY <1>3, <3>1, <3>3, Zenon DEF AtRound, EventsTo, PutsOnly
  <2>2. QED BY <1>4, <1>9, <2>1, Zenon DEF Finish
<1>10. CASE UNCHANGED vars
  <2>1. AtRound(c)'
    BY <1>3, <1>10, Zenon DEF vars, AtRound, EventsTo, PutsOnly, executor, activation, graph
  <2>2. QED BY <1>4, <1>10, <2>1, Zenon DEF vars, activation
<1>11. ASSUME NEW cp \in 1..MaxRound, NEW upTo \in 1..MaxRound, cp <= upTo, NEW from \in 1..cp + 1,
              Reconnect(cp, from, upTo) \/ Restart(cp, from, upTo)
       PROVE  (\E c1 \in 0..MaxRound : AtRound(c1)') /\ Hashes' /\ Signed'
  <2>1. AtRound(cp)' /\ pc' = "idle" /\ signed' = signed
    BY <1>0, <1>11, RestoreOrder, Zenon
  <2>2. cp \in 0..MaxRound
    BY <1>0
  <2>3. QED BY <1>4, <2>1, <2>2, Zenon
<1>12. QED BY <1>0, <1>5, <1>6, <1>7, <1>8, <1>9, <1>10, <1>11, CleanSteps, Zenon

\* ExecutedInOrder, for every order of operations where nothing is restored, and for
\* every order of puts through every restart and reconnect to a graph that retains
\* no anchors: execution does not depend on how the rounds came in batches, nor on
\* what is executed a second time.
THEOREM ExecutesInOrder ==
    ASSUME Replayable
    PROVE  Spec => []ExecutedInOrder
<1>1. OrdersInv /\ [Next]_vars => OrdersInv'
  BY StepOrders, Zenon
<1>2. OrdersInv => ExecutedInOrder
  <2> SUFFICES ASSUME OrdersInv PROVE ExecutedInOrder
    BY Zenon
  <2>1. RoundPrefix
    <3>1. \A e \in Retained : Kept(e)
      BY EventIs, Zenon
    <3>2. QED BY <3>1, Zenon DEF OrdersInv, SnapshotsInv, PrefixInv, InPrefix, RoundPrefix
  <2>2. ASSUME faults = 0, pc = "produce" PROVE state = FromBytes(StateAt[collected])
    <3>1. state.tree = StateAt[collected]
      BY <2>2, Zenon DEF OrdersInv, OrderInv, AtRound
    <3>2. state.kv = state.tree /\ state \in StateType
      BY <2>2, Zenon DEF OrdersInv, SnapshotsInv, SnapshotInv, PrefixInv, TypeInv
    <3>3. QED BY <3>1, <3>2, Zenon DEF FromBytes, StateType
  <2>3. QED BY <2>1, <2>2, Zenon DEF ExecutedInOrder, AppliedInOrder
<1>3. QED BY <1>1, <1>2, InitOrders, PTL DEF Spec

\* SignedWithSnapshot under the same conditions: until a storage error the
\* checkpoint of a round that was collected carries the state exactly after it, and
\* the bytes kept for the round rebuild to it.
THEOREM SignsInOrder ==
    ASSUME Replayable
    PROVE  Spec => []SignedWithSnapshot
<1>1. OrdersInv /\ [Next]_vars => OrdersInv'
  BY StepOrders, Zenon
<1>2. OrdersInv => SignedWithSnapshot
  BY Zenon DEF OrdersInv, SnapshotsInv, SignedWithSnapshot
<1>3. QED BY <1>1, <1>2, InitOrders, PTL DEF Spec
=============================================================================
