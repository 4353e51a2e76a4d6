--------------------------- MODULE DurabilityProofs ---------------------------
(***************************************************************************)
(* One node's stores through any number of crashes, power cuts, restarts   *)
(* and reconnects: for every window and retention, any number of members,  *)
(* rounds, checkpoints being accepted at a time and events on their way to *)
(* the log, and any clock.  What a killed process leaves on disk passes    *)
(* the checks of the next start; and of any number of daemons on one data  *)
(* directory, of any formats, the control socket leads to the one that     *)
(* serves, and the stores are open only in a binary of their format.       *)
(***************************************************************************)
EXTENDS Durability, Daemon, BasicLemmas, FiniteSetTheorems

Place == {"no", "signed", "file", "prune", "log", "done", "reconnect"}

\* A version of the state database.
Version == [snapshots : SUBSET Round, watermark : Nat]

\* A log orders an event in the round that receives it, or not.
IsLog(log) ==
    /\ log = [events |-> log.events, roster |-> log.roster]
    /\ log.roster \in {Founders, Member}
    /\ DOMAIN log.events \subseteq Member \X Round
    /\ log.events = [e \in DOMAIN log.events |-> log.events[e]]
    /\ \A e \in DOMAIN log.events : log.events[e] \in {0, ReceivedIn(e)} \cap 0..MaxBirth

StoreTypeOK ==
    /\ up \in BOOLEAN
    /\ have \in [Member -> Nat]
    /\ unlogged \subseteq Member \X Round
    /\ processed \in 0..MaxBirth
    /\ roster \in {Founders, Member}
    /\ bucketed \in BOOLEAN
    /\ last_timestamp \in Nat
    /\ accepted \subseteq Round
    /\ accepting \in [Round -> Place]
    /\ files \subseteq Round
    /\ db \in Seq(Version) /\ db # <<>>
    /\ IsLog(eventLog) /\ IsLog(flushedLog)
    /\ stamp \in [Round -> Nat]
    /\ emitted \in [birth : 0..MaxBirth, timestamp : Nat]

\* What a stop leaves in memory, and what it has recorded.
Stopped ==
    ~up => /\ processed = 0 /\ roster = Founders /\ unlogged = {}
           /\ \A r \in Round : accepting[r] = "no"
           /\ Largest(files) \in OpRound..OpRound + 1 => "pending" \in mishaps
           /\ files = {} => "young" \in mishaps

\* The rounds whose checkpoint is produced, or on its way to the disk, have been
\* processed; so has the round of the last checkpoint file.
Behind ==
    up => /\ \A r \in Round : accepting[r] # "no" => r <= processed
          /\ Largest(files) <= processed

\* Until it takes effect the operation is bucketed.
JoinInv ==
    /\ roster = Member => processed > OpRound
    /\ up /\ "pending" \notin mishaps =>
          /\ processed = OpRound => bucketed
          /\ processed > OpRound => roster = Member

\* A checkpoint that may become the last one on disk has its snapshot, in every
\* version of the state database when accept_checkpoint has written it.
SnapInv ==
    "file" \notin mishaps =>
        /\ \A r \in Round : accepting[r] \in {"prune", "log"} => r <= Largest(files)
        /\ \A r \in Round : accepting[r] = "file" /\ r > Largest(files)
                               => \A v \in Range(db) : r \in v.snapshots
        /\ \A r \in Round : accepting[r] = "reconnect" /\ r > Largest(files) => r \in Snapshots

\* The graph has the own events that a peer has, later ones are not earlier in
\* time, and at a stop the log has the last of them.
Unharmed == mishaps \cap {"lost", "young", "power"} = {}

OwnEvents == {e \in DOMAIN eventLog.events \cup unlogged : e[1] = Self}

ChainInv ==
    /\ emitted.birth = 0 => emitted.timestamp = 0
    /\ Unharmed =>
          /\ emitted.birth \in Round => stamp[emitted.birth] >= emitted.timestamp
          /\ \A e \in OwnEvents : e[2] >= emitted.birth => stamp[e[2]] >= emitted.timestamp
          /\ up => /\ emitted.birth <= have[Self] /\ emitted.timestamp <= last_timestamp
                   /\ \A e \in OwnEvents : e[2] <= have[Self]
          /\ ~up => emitted.birth <= LastReplayed(Self)

------------------------------------------------------------------------------
(* Numbers, rosters and versions.                                            *)

\* The bounds are natural numbers.
LEMMA StoreBounds ==
    /\ MaxBirth \in Nat /\ OpRound \in Nat \ {0} /\ WindowRounds \in Nat
    /\ SnapshotRounds \in Nat /\ Round = 1..MaxBirth
BY StoreAssumption, Zenon DEF Round

\* The members: New is none of the founders, and this node is one.
LEMMA Members ==
    /\ New \notin Founders /\ Self \in Founders /\ Founders \subseteq Member /\ New \in Member
    /\ Self # New /\ Founders # Member
BY StoreAssumption, Zenon DEF Founders, Member

\* The largest round of a set is its greatest element, 0 when it has none.
LEMMA LargestOf ==
    ASSUME NEW S, S \subseteq Round
    PROVE  /\ Largest(S) \in 0..MaxBirth /\ Largest(S) \in {0} \cup S
           /\ \A x \in S : x <= Largest(S)
           /\ S = {} <=> Largest(S) = 0
<1> DEFINE T == {0} \cup S
<1>1. T \subseteq 0..MaxBirth /\ T # {} /\ MaxBirth \in Nat
  BY StoreBounds
<1>2. Max(T) \in T /\ \A x \in T : x <= Max(T)
  <2> HIDE DEF T
  <2>1. QED BY <1>1, MaxOf, Zenon
<1>3. Largest(S) \in T /\ \A x \in T : x <= Largest(S)
  BY <1>2, Zenon DEF Largest
<1>4. S = {} => Largest(S) = 0
  BY <1>3, Zenon
<1>5. ASSUME NEW x \in S PROVE Largest(S) # 0
  BY <1>1, <1>3, StoreBounds
<1>6. QED BY <1>1, <1>3, <1>4, <1>5, Zenon

\* The larger of two numbers.
LEMMA MaxPair ==
    ASSUME NEW a \in Nat, NEW b \in Nat
    PROVE  Max({a, b}) \in Nat /\ Max({a, b}) >= a /\ Max({a, b}) >= b
<1>1. {a, b} \subseteq 0..a + b /\ a + b \in Nat /\ {a, b} # {}
  OBVIOUS
<1>2. Max({a, b}) \in {a, b} /\ \A x \in {a, b} : x <= Max({a, b})
  BY <1>1, MaxOf, Zenon
<1>3. QED BY <1>2, Zenon

\* The rosters grow: New is a member of the rounds from OpRound + 2.
LEMMA Rosters ==
    ASSUME NEW r \in Int
    PROVE  /\ RosterAt(r) \in {Founders, Member} /\ Self \in RosterAt(r)
           /\ New \in RosterAt(r) <=> r >= OpRound + 2
           /\ RosterAt(r) \subseteq Member
           /\ \A s \in Int : s <= r => RosterAt(s) \subseteq RosterAt(r)
BY Members, StoreBounds DEF RosterAt

\* The versions of a database have a last one.
LEMMA LastVersion ==
    ASSUME NEW d \in Seq(Version), d # <<>>
    PROVE  Current(d) \in Version /\ Current(d) \in Range(d)
BY DEF Current, Range

\* A write adds a version ...
LEMMA Written ==
    ASSUME NEW d \in Seq(Version), NEW w \in Version
    PROVE  /\ Append(d, w) \in Seq(Version) /\ Append(d, w) # <<>> /\ Current(Append(d, w)) = w
           /\ \A v \in Range(Append(d, w)) : v \in Range(d) \/ v = w
BY DEF Current, Range

\* ... with other snapshots,
LEMMA SnapshotsWritten ==
    ASSUME NEW d \in Seq(Version), d # <<>>, NEW S \in SUBSET Round
    PROVE  LET w == WriteSnapshots(d, S)
           IN /\ w \in Seq(Version) /\ w # <<>> /\ Current(w).snapshots = S
              /\ Current(w).watermark = Current(d).watermark
              /\ \A v \in Range(w) : v \in Range(d) \/ v.snapshots = S
<1> DEFINE v == [Current(d) EXCEPT !.snapshots = S]
<1>1. v \in Version /\ v.snapshots = S /\ v.watermark = Current(d).watermark
  BY LastVersion, Zenon DEF Version
<1>2. WriteSnapshots(d, S) = Append(d, v)
  BY Zenon DEF WriteSnapshots
<1>3. QED
  <2> HIDE DEF v
  <2>1. QED BY <1>1, <1>2, Written

\* ... or with another watermark,
LEMMA WatermarkSet ==
    ASSUME NEW d \in Seq(Version), d # <<>>, NEW t \in Nat
    PROVE  LET w == SetWatermark(d, t)
           IN /\ w \in Seq(Version) /\ w # <<>> /\ Current(w).snapshots = Current(d).snapshots
              /\ Current(w).watermark = t
              /\ \A v \in Range(w) : v \in Range(d) \/ v.snapshots = Current(d).snapshots
<1> DEFINE v == [Current(d) EXCEPT !.watermark = t]
<1>1. v \in Version /\ v.snapshots = Current(d).snapshots /\ v.watermark = t
  BY LastVersion, Zenon DEF Version
<1>2. SetWatermark(d, t) = Append(d, v)
  BY Zenon DEF SetWatermark
<1>3. QED
  <2> HIDE DEF v
  <2>1. QED BY <1>1, <1>2, Written

\* ... or, in apply_checkpoint, with both,
LEMMA BothWritten ==
    ASSUME NEW d \in Seq(Version), d # <<>>, NEW S \in SUBSET Round, NEW t \in Nat
    PROVE  LET w == SetWatermark(WriteSnapshots(d, S), t)
           IN /\ w \in Seq(Version) /\ w # <<>> /\ Current(w).snapshots = S
              /\ \A v \in Range(w) : v \in Range(d) \/ v.snapshots = S
<1> DEFINE x == WriteSnapshots(d, S)
<1>1. /\ x \in Seq(Version) /\ x # <<>> /\ Current(x).snapshots = S
      /\ \A v \in Range(x) : v \in Range(d) \/ v.snapshots = S
  BY SnapshotsWritten, Zenon
<1> HIDE DEF x
<1>2. /\ SetWatermark(x, t) \in Seq(Version) /\ SetWatermark(x, t) # <<>>
      /\ Current(SetWatermark(x, t)).snapshots = S
      /\ \A v \in Range(SetWatermark(x, t)) : v \in Range(x) \/ v.snapshots = S
  BY <1>1, WatermarkSet, Zenon
<1>3. QED BY <1>1, <1>2, Zenon DEF x

\* ... and a flush leaves the last one.
LEMMA Flushed ==
    ASSUME NEW d \in Seq(Version), d # <<>>
    PROVE  /\ Flush(d) \in Seq(Version) /\ Flush(d) # <<>> /\ Current(Flush(d)) = Current(d)
           /\ \A v \in Range(Flush(d)) : v = Current(d)
BY LastVersion DEF Flush, Current, Range

\* The round that process_finalized_rounds finds decided: all members of the
\* rounds up to it have gone past them.
LEMMA DecidedType ==
    /\ Decided \in 0..MaxBirth
    /\ Decided # 0 => \A s \in 1..Decided : \A m \in RosterAt(s) : have[m] > s
<1> DEFINE S == {r \in Round : \A s \in 1..r : \A m \in RosterAt(s) : have[m] > s}
<1>1. Decided = Largest(S) /\ S \subseteq Round
  BY Zenon DEF Decided
<1>2. Decided \in 0..MaxBirth /\ Decided \in {0} \cup S
  <2> HIDE DEF S
  <2>1. QED BY <1>1, LargestOf, Zenon
<1>3. QED BY <1>2, Zenon

\* The last event of a member in the log.
LEMMA LastReplayedOf ==
    ASSUME IsLog(eventLog), NEW m
    PROVE  /\ LastReplayed(m) \in 0..MaxBirth
           /\ \A e \in DOMAIN eventLog.events : e[1] = m => e[2] <= LastReplayed(m)
           /\ LastReplayed(m) # 0 => Event(m, LastReplayed(m)) \in DOMAIN eventLog.events
<1> DEFINE S == {e[2] : e \in Replayed(m)}
<1>1. Replayed(m) \subseteq Member \X Round /\ S \subseteq Round
  BY Zenon DEF Replayed, IsLog
<1>2. LastReplayed(m) = Largest(S)
  BY Zenon DEF LastReplayed
<1>3. /\ LastReplayed(m) \in 0..MaxBirth /\ LastReplayed(m) \in {0} \cup S
      /\ \A x \in S : x <= LastReplayed(m)
  <2> HIDE DEF S
  <2>1. QED BY <1>1, <1>2, LargestOf
<1>4. \A e \in DOMAIN eventLog.events : e[1] = m => e[2] \in S
  BY Zenon DEF Replayed
<1>5. ASSUME NEW x \in S PROVE Event(m, x) \in DOMAIN eventLog.events
  <2>1. PICK e \in Replayed(m) : x = e[2]
    BY Zenon
  <2>2. e = <<m, x>>
    BY <1>1, <2>1 DEF Replayed
  <2>3. QED BY <2>1, <2>2, Zenon DEF Replayed, Event
<1>6. QED BY <1>3, <1>4, <1>5, Zenon

\* The own timestamps have a bound, since there are finitely many rounds.
LEMMA StampsBounded ==
    ASSUME stamp \in [Round -> Nat]
    PROVE  \E u \in Nat : \A i \in Round : stamp[i] <= u
<1> DEFINE S == {n \in 0..MaxBirth : \E u \in Nat : \A i \in 1..n : stamp[i] <= u}
<1>1. 0 \in S
  BY StoreBounds
<1>2. ASSUME NEW n \in 0..MaxBirth - 1, n \in S PROVE n + 1 \in S
  <2>1. PICK u \in Nat : \A i \in 1..n : stamp[i] <= u
    BY <1>2, Zenon
  <2>2. n + 1 \in Round /\ stamp[n + 1] \in Nat
    BY StoreBounds
  <2>3. \A i \in 1..n + 1 : stamp[i] \in Nat
    BY <2>2, StoreBounds
  <2>4. \A i \in 1..n + 1 : stamp[i] <= u + stamp[n + 1]
    BY <2>1, <2>2, <2>3, StoreBounds
  <2>5. n + 1 \in 0..MaxBirth /\ u + stamp[n + 1] \in Nat
    BY <2>2, StoreBounds
  <2>6. QED BY <2>4, <2>5, Zenon
<1>3. MaxBirth \in S
  <2> HIDE DEF S
  <2>1. \A n \in 0..MaxBirth - 1 : n \in S => n + 1 \in S
    BY <1>2, Zenon
  <2>2. 0..MaxBirth \subseteq S
    BY <1>1, <2>1, UpTo, StoreBounds, Zenon
  <2>3. QED BY <2>2, StoreBounds
<1>4. QED BY <1>3, StoreBounds, Zenon

\* replay_response takes up the clock after every own event of the log.
LEMMA Restored ==
    ASSUME StoreTypeOK
    PROVE  /\ RestoredTimestamp \in Nat
           /\ \A e \in DOMAIN eventLog.events : e[1] = Self => stamp[e[2]] <= RestoredTimestamp
<1> DEFINE T == {Watermark} \cup {stamp[e[2]] : e \in Replayed(Self)}
<1>1. Watermark \in Nat
  BY LastVersion, Zenon DEF StoreTypeOK, Watermark, Version
<1>2. Replayed(Self) \subseteq Member \X Round
  BY Zenon DEF Replayed, StoreTypeOK, IsLog
<1>3. PICK u \in Nat : \A i \in Round : stamp[i] <= u
  BY StampsBounded, Zenon DEF StoreTypeOK
<1>4. \A e \in Replayed(Self) : stamp[e[2]] \in 0..u
  BY <1>2, <1>3 DEF StoreTypeOK
<1>5. T \subseteq 0..u + Watermark /\ T # {} /\ u + Watermark \in Nat
  BY <1>1, <1>3, <1>4
<1>6. RestoredTimestamp \in T /\ \A x \in T : x <= RestoredTimestamp
  <2>1. RestoredTimestamp = Max(T)
    BY Zenon DEF RestoredTimestamp
  <2> HIDE DEF T
  <2>2. QED BY <1>5, <2>1, MaxOf, Zenon
<1>7. QED BY <1>5, <1>6 DEF Replayed

------------------------------------------------------------------------------
(* What the operations of the event log leave.                               *)

\* EventLog::append keeps what is there; set_roster_history, the events.
LEMMA LogAppended ==
    ASSUME NEW log, IsLog(log), NEW e \in Member \X Round
    PROVE  LET new == [log EXCEPT !.events = Appended(@, e)]
           IN /\ IsLog(new) /\ new.roster = log.roster
              /\ DOMAIN new.events = DOMAIN log.events \cup {e}
              /\ \A f \in DOMAIN log.events : new.events[f] = log.events[f]
              /\ e \notin DOMAIN log.events => new.events[e] = 0
<1> DEFINE ev == Appended(log.events, e)
<1>1. [log EXCEPT !.events = Appended(@, e)] = [events |-> ev, roster |-> log.roster]
  BY DEF IsLog
<1>2. ev = [f \in DOMAIN log.events \cup {e} |-> IF f \in DOMAIN log.events THEN log.events[f] ELSE 0]
  BY Zenon DEF Appended
<1>3. QED BY <1>1, <1>2, StoreBounds DEF IsLog

\* SetRosterHistory leaves the events of a log alone.
LEMMA LogRosterSet ==
    ASSUME NEW log, IsLog(log), NEW R \in {Founders, Member}
    PROVE  LET new == SetRosterHistory(log, R)
           IN IsLog(new) /\ new.roster = R /\ new.events = log.events
BY DEF IsLog, SetRosterHistory

\* set_ordering, of all that is decided.
LEMMA LogOrdered ==
    ASSUME NEW log, IsLog(log), NEW R \in {Founders, Member}, NEW r \in 0..MaxBirth
    PROVE  LET new == [events |-> Ordered(log.events, r), roster |-> R]
           IN /\ IsLog(new) /\ new.roster = R /\ DOMAIN new.events = DOMAIN log.events
              /\ \A e \in DOMAIN log.events :
                    /\ ReceivedIn(e) <= r => new.events[e] = ReceivedIn(e)
                    /\ new.events[e] # log.events[e] => new.events[e] <= r
<1> DEFINE ev == Ordered(log.events, r)
<1>1. ev = [e \in DOMAIN log.events |->
              IF log.events[e] = 0 /\ ReceivedIn(e) <= r THEN ReceivedIn(e) ELSE log.events[e]]
  BY Zenon DEF Ordered
<1>2. \A e \in DOMAIN log.events : ReceivedIn(e) \in Nat \ {0}
  BY StoreBounds DEF IsLog, ReceivedIn
<1> HIDE DEF ev
<1>3. DOMAIN ev = DOMAIN log.events /\ ev = [e \in DOMAIN ev |-> ev[e]]
  BY <1>1, Zenon
<1>4. ASSUME NEW e \in DOMAIN log.events
      PROVE  /\ ev[e] \in {0, ReceivedIn(e)} \cap 0..MaxBirth
             /\ ReceivedIn(e) <= r => ev[e] = ReceivedIn(e)
             /\ ev[e] # log.events[e] => ev[e] <= r
  BY <1>1, <1>2, StoreBounds DEF IsLog
<1>5. QED BY <1>3, <1>4, Zenon DEF IsLog, ev

\* prune: what is kept is kept as it is.
LEMMA LogPruned ==
    ASSUME NEW log, IsLog(log), NEW K, K \subseteq DOMAIN log.events
    PROVE  LET new == [log EXCEPT !.events = Restrict(@, K)]
           IN /\ IsLog(new) /\ new.roster = log.roster /\ DOMAIN new.events = K
              /\ \A e \in K : new.events[e] = log.events[e]
<1>1. [log EXCEPT !.events = Restrict(@, K)] = [events |-> Restrict(log.events, K), roster |-> log.roster]
  BY DEF IsLog
<1>2. Restrict(log.events, K) = [e \in K |-> log.events[e]]
  BY Zenon DEF Restrict
<1>3. QED BY <1>1, <1>2, Zenon DEF IsLog

\* append, of what a teacher retains.
LEMMA LogMerged ==
    ASSUME NEW log, IsLog(log), NEW r \in Round
    PROVE  LET new == [events |-> AppendedRetained(log.events, r), roster |-> RosterAt(r)]
           IN /\ IsLog(new) /\ new.roster = RosterAt(r)
              /\ DOMAIN new.events = DOMAIN log.events \cup Retained(r)
              /\ \A e \in DOMAIN log.events : new.events[e] >= log.events[e]
              /\ \A e \in Retained(r) : ReceivedIn(e) <= r => new.events[e] = ReceivedIn(e)
              /\ \A e \in DOMAIN new.events :
                    (e \in DOMAIN log.events /\ new.events[e] = log.events[e]) \/ new.events[e] <= r
<1> DEFINE A(e) == IF e \in DOMAIN log.events THEN {log.events[e]} ELSE {}
           B(e) == IF e \in Retained(r) THEN {OrderBy(e, r)} ELSE {}
           D == DOMAIN log.events \cup Retained(r)
           ev == AppendedRetained(log.events, r)
<1>1. ev = [e \in D |-> Max(A(e) \cup B(e))]
  BY Zenon DEF AppendedRetained
<1>2. D \subseteq Member \X Round /\ RosterAt(r) \in {Founders, Member}
  BY StoreBounds, Rosters DEF IsLog, Retained
<1>3. ASSUME NEW e \in D
      PROVE  /\ ReceivedIn(e) \in Nat \ {0}
             /\ A(e) \subseteq {0, ReceivedIn(e)} \cap 0..MaxBirth
             /\ B(e) \subseteq {0, ReceivedIn(e)} \cap 0..r
             /\ A(e) \cup B(e) # {}
  BY <1>2, StoreBounds DEF IsLog, ReceivedIn, OrderBy
<1>4. ASSUME NEW e \in D
      PROVE  /\ ev[e] \in A(e) \cup B(e)
             /\ \A x \in A(e) \cup B(e) : x <= ev[e]
  <2>1. ev[e] = Max(A(e) \cup B(e))
    BY <1>1, Zenon
  <2>2. A(e) \cup B(e) \subseteq 0..MaxBirth /\ A(e) \cup B(e) # {} /\ MaxBirth \in Nat
    BY <1>3, StoreBounds
  <2> HIDE DEF A, B, ev
  <2>3. QED BY <2>1, <2>2, MaxOf, Zenon
<1>5. DOMAIN ev = D /\ ev = [e \in DOMAIN ev |-> ev[e]]
  BY <1>1, Zenon
<1>6. ASSUME NEW e \in D PROVE ev[e] \in {0, ReceivedIn(e)} \cap 0..MaxBirth
  <2> HIDE DEF A, B, ev, D
  <2>1. QED BY <1>3, <1>4, StoreBounds
<1>7. IsLog([events |-> ev, roster |-> RosterAt(r)])
  <2> HIDE DEF A, B, ev, D
  <2>1. QED BY <1>2, <1>5, <1>6, Zenon DEF IsLog
<1>8. ASSUME NEW e \in DOMAIN log.events PROVE ev[e] >= log.events[e]
  BY <1>4, <1>6, Zenon
<1>9. ASSUME NEW e \in Retained(r), ReceivedIn(e) <= r PROVE ev[e] = ReceivedIn(e)
  <2>1. B(e) = {ReceivedIn(e)} /\ e \in D
    BY <1>9, Zenon DEF OrderBy
  <2> HIDE DEF A, B, ev, D
  <2>2. QED BY <1>3, <1>4, <1>6, <2>1
<1>10. ASSUME NEW e \in D
       PROVE  (e \in DOMAIN log.events /\ ev[e] = log.events[e]) \/ ev[e] <= r
  <2>1. \A x \in A(e) : e \in DOMAIN log.events /\ x = log.events[e]
    BY Zenon
  <2> HIDE DEF A, B, ev, D
  <2>2. QED BY <1>3, <1>4, <2>1, StoreBounds
<1>11. QED
  <2> HIDE DEF ev
  <2>1. QED BY <1>5, <1>7, <1>8, <1>9, <1>10, Zenon DEF ev

------------------------------------------------------------------------------
(* Types.                                                                    *)

\* A new birth round is a round.
LEMMA BirthType ==
    ASSUME NEW i \in Nat \ {0}, MayBear(i) PROVE i \in Round
BY StoreBounds DEF MayBear

\* A node that was never started has well-typed stores.
LEMMA InitType == StoreInit => StoreTypeOK
<1> SUFFICES ASSUME StoreInit PROVE StoreTypeOK
  BY Zenon
<1>1. db \in Seq(Version) /\ db # <<>>
  BY DEF StoreInit, Version
<1>2. IsLog([events |-> <<>>, roster |-> Founders])
  BY DEF IsLog
<1>3. [m \in Member |-> IF m = New THEN OpRound + 1 ELSE 0] \in [Member -> Nat]
  BY StoreBounds
<1>4. [r \in Round |-> "no"] \in [Round -> Place]
  BY Zenon DEF Place
<1>5. 0 \in 0..MaxBirth
  BY StoreBounds
<1>6. stamp \in [Round -> Nat] /\ emitted \in [birth : 0..MaxBirth, timestamp : Nat]
  BY <1>5, Zenon DEF StoreInit
<1>7. QED
  BY <1>1, <1>2, <1>3, <1>4, <1>5, <1>6, Zenon DEF StoreInit, StoreTypeOK

\* What a stop leaves in memory.
LEMMA ForgottenType ==
    ASSUME Forgotten
    PROVE  /\ up' \in BOOLEAN /\ have' \in [Member -> Nat] /\ unlogged' \subseteq Member \X Round
           /\ processed' \in 0..MaxBirth /\ roster' \in {Founders, Member} /\ bucketed' \in BOOLEAN
           /\ last_timestamp' \in Nat /\ accepted' \subseteq Round /\ accepting' \in [Round -> Place]
<1>1. [m \in Member |-> IF m = New THEN OpRound + 1 ELSE 0] \in [Member -> Nat]
  BY StoreBounds
<1>2. [r \in Round |-> "no"] \in [Round -> Place]
  BY Zenon DEF Place
<1>3. 0 \in 0..MaxBirth
  BY StoreBounds
<1>4. QED BY <1>1, <1>2, <1>3, Zenon DEF Forgotten

\* What a reconnect leaves in the graph: the last event of each member that the
\* teacher retains.
LEMMA TransferredHave ==
    ASSUME NEW r \in Round, Reconnect(r)
    PROVE  /\ have' \in [Member -> Nat]
           /\ \A e \in Retained(r) : e[1] \in Member => e[2] <= have'[e[1]]
           /\ \A m \in Member : have'[m] = (IF m = New THEN OpRound + 1 ELSE 0)
                                \/ Event(m, have'[m]) \in Retained(r)
           /\ have'[New] > OpRound
<1> DEFINE base(m) == IF m = New THEN OpRound + 1 ELSE 0
           S(m) == {e[2] : e \in {f \in Retained(r) : f[1] = m}}
<1>1. have' = [m \in Member |-> Max(S(m) \cup {base(m)})]
  BY Zenon DEF Reconnect
<1>2. Retained(r) \subseteq Member \X Round
  BY Rosters, StoreBounds DEF Retained
<1>3. ASSUME NEW m \in Member
      PROVE  /\ have'[m] \in S(m) \cup {base(m)} /\ have'[m] \in Nat
             /\ \A x \in S(m) \cup {base(m)} : x <= have'[m]
  <2>1. /\ S(m) \cup {base(m)} \subseteq 0..MaxBirth + OpRound + 1
        /\ S(m) \cup {base(m)} # {} /\ MaxBirth + OpRound + 1 \in Nat
    BY <1>2, StoreBounds
  <2>2. have'[m] = Max(S(m) \cup {base(m)})
    BY <1>1, Zenon
  <2> HIDE DEF S, base
  <2>3. QED BY <2>1, <2>2, MaxOf
<1>4. have' \in [Member -> Nat]
  BY <1>1, <1>3, Zenon
<1>5. ASSUME NEW e \in Retained(r), e[1] \in Member PROVE e[2] <= have'[e[1]]
  BY <1>3, <1>5, Zenon
<1>6. ASSUME NEW m \in Member
      PROVE  have'[m] = base(m) \/ Event(m, have'[m]) \in Retained(r)
  <2>1. CASE have'[m] \in S(m)
    <3>1. PICK e \in Retained(r) : e[1] = m /\ e[2] = have'[m]
      BY <2>1, Zenon
    <3>2. e = <<m, have'[m]>>
      BY <1>2, <3>1
    <3>3. QED BY <3>2, Zenon DEF Event
  <2>2. QED BY <1>3, <2>1, Zenon
<1>7. have'[New] > OpRound
  <2>1. OpRound + 1 <= have'[New] /\ have'[New] \in Nat
    BY <1>3, Members, Zenon
  <2>2. QED BY <2>1, StoreBounds
<1>8. QED BY <1>4, <1>5, <1>6, <1>7, Zenon

\* Every step of the node keeps its stores well typed.
LEMMA StepType ==
    ASSUME StoreTypeOK, [StoreNext]_storeVars
    PROVE  StoreTypeOK'
<1>0. db \in Seq(Version) /\ db # <<>>
  BY Zenon DEF StoreTypeOK
<1>1. ASSUME NEW m \in Member, InsertEvent(m) PROVE StoreTypeOK'
  <2>1. have[m] + 1 \in Round
    BY <1>1, BirthType DEF InsertEvent, StoreTypeOK
  <2>2. QED BY <1>1, <2>1 DEF InsertEvent, StoreTypeOK, Event, onDisk, peersKnow
<1>2. ASSUME NEW clock \in Clock, CreateOwn(clock) PROVE StoreTypeOK'
  <2>1. Self \in Member /\ have[Self] + 1 \in Round
    BY <1>2, BirthType, Members DEF CreateOwn, StoreTypeOK
  <2>2. last_timestamp' \in Nat
    <3>1. clock \in Nat /\ last_timestamp + 1 \in Nat
      BY StoreAssumption DEF StoreTypeOK
    <3>2. QED BY <1>2, <3>1, MaxPair, Zenon DEF CreateOwn
  <2>3. emitted' \in [birth : 0..MaxBirth, timestamp : Nat]
    BY <1>2, <2>1, <2>2, StoreBounds DEF CreateOwn, StoreTypeOK
  <2>4. stamp' \in [Round -> Nat] /\ have' \in [Member -> Nat]
    BY <1>2, <2>1, <2>2 DEF CreateOwn, StoreTypeOK
  <2>5. QED BY <1>2, <2>1, <2>2, <2>3, <2>4 DEF CreateOwn, StoreTypeOK, Event, onDisk
<1>3. ASSUME NEW e \in unlogged, LogFreshInsert(e) PROVE StoreTypeOK'
  <2>1. IsLog(eventLog')
    BY <1>3, LogAppended, Zenon DEF LogFreshInsert, StoreTypeOK
  <2>2. QED BY <1>3, <2>1, Zenon DEF LogFreshInsert, StoreTypeOK, peersKnow
<1>4. ASSUME NEW e \in unlogged, SkipLog(e) PROVE StoreTypeOK'
  BY <1>4, Zenon DEF SkipLog, StoreTypeOK, peersKnow, onDisk
<1>5. ASSUME ProcessFinalizedRounds PROVE StoreTypeOK'
  <2>1. IsLog(eventLog')
    <3>1. PICK R \in {Founders, Member} :
             eventLog' = [events |-> Ordered(eventLog.events, Decided), roster |-> R]
      BY <1>5, Zenon DEF ProcessFinalizedRounds, StoreTypeOK, IsLog
    <3>2. QED BY <3>1, LogOrdered, DecidedType, Zenon DEF StoreTypeOK
  <2>2. QED BY <1>5, <2>1, DecidedType, Zenon DEF ProcessFinalizedRounds, StoreTypeOK, peersKnow, Place
<1>6. ASSUME NEW r \in Round, AcceptSnapshot(r) PROVE StoreTypeOK'
  <2>1. db' \in Seq(Version) /\ db' # <<>>
    <3>1. Snapshots \cup {r} \in SUBSET Round
      BY LastVersion, Zenon DEF StoreTypeOK, Snapshots, Version
    <3>2. SetWatermark(db, last_timestamp) \in Seq(Version) /\ SetWatermark(db, last_timestamp) # <<>>
      BY WatermarkSet, Zenon DEF StoreTypeOK
    <3>3. PICK w \in Seq(Version) :
             w = WriteSnapshots(SetWatermark(db, last_timestamp), Snapshots \cup {r}) /\ w # <<>>
      BY <3>1, <3>2, SnapshotsWritten, Zenon
    <3>4. Flush(w) \in Seq(Version) /\ Flush(w) # <<>>
      BY <3>3, Flushed, Zenon
    <3>5. QED BY <1>6, <3>3, <3>4, Zenon DEF AcceptSnapshot
  <2>2. QED BY <1>6, <2>1, Zenon DEF AcceptSnapshot, StoreTypeOK, peersKnow, Place, At
<1>7. ASSUME NEW r \in Round, AcceptFile(r) PROVE StoreTypeOK'
  BY <1>7, Zenon DEF AcceptFile, StoreTypeOK, peersKnow, Place, At, PersistCheckpoint
<1>8. ASSUME NEW r \in Round, AcceptPrune(r) PROVE StoreTypeOK'
  <2>1. db' \in Seq(Version) /\ db' # <<>>
    <3>1. {s \in Snapshots : s >= r - SnapshotRounds} \in SUBSET Round
      BY LastVersion, Zenon DEF StoreTypeOK, Snapshots, Version
    <3>2. QED BY <1>8, <3>1, SnapshotsWritten, Zenon DEF AcceptPrune, StoreTypeOK
  <2>2. QED BY <1>8, <2>1, Zenon DEF AcceptPrune, StoreTypeOK, peersKnow, Place, At
<1>9. ASSUME NEW r \in Round, AcceptLog(r) PROVE StoreTypeOK'
  <2>1. IsLog(eventLog')
    <3>1. {e \in DOMAIN eventLog.events : ~OutsideWindow(e, r)} \subseteq DOMAIN eventLog.events
      BY Zenon
    <3>2. QED BY <1>9, <3>1, LogPruned, Zenon DEF AcceptLog, StoreTypeOK
  <2>2. db' \in Seq(Version) /\ db' # <<>>
    BY <1>9, Flushed, Zenon DEF AcceptLog, StoreTypeOK
  <2>3. QED BY <1>9, <2>1, <2>2, Zenon DEF AcceptLog, StoreTypeOK, peersKnow, Place, At
<1>10. ASSUME Crash PROVE StoreTypeOK'
  BY <1>10, ForgottenType, Zenon DEF Crash, StoreTypeOK, onDisk, peersKnow
<1>11. ASSUME PowerCut PROVE StoreTypeOK'
  <2>1. db' \in Seq(Version) /\ db' # <<>>
    BY <1>11 DEF PowerCut, StoreTypeOK, Range
  <2>2. QED BY <1>11, <2>1, ForgottenType, Zenon DEF PowerCut, StoreTypeOK, peersKnow
<1>12. ASSUME Restore PROVE StoreTypeOK'
  <2>1. PICK r \in 0..MaxBirth : r = Largest(files) /\ r \in files
    BY <1>12, LargestOf, Zenon DEF Restore, StoreTypeOK
  <2>2. r \in Round /\ RosterAt(r) \in {Founders, Member}
    BY <2>1, Rosters DEF StoreTypeOK
  <2>3. last_timestamp' \in Nat
    BY <1>12, Restored, Zenon DEF Restore, FromCheckpoint
  <2>4. db' \in Seq(Version) /\ db' # <<>>
    <3>1. Snapshots \cup {r} \in SUBSET Round
      BY <2>2, LastVersion, Zenon DEF StoreTypeOK, Snapshots, Version
    <3>2. db' = SetWatermark(WriteSnapshots(db, Snapshots \cup {r}), last_timestamp')
      BY <1>12, <2>1, Zenon DEF Restore
    <3>3. QED BY <1>0, <2>3, <3>1, <3>2, BothWritten, Zenon
  <2>5. have' \in [Member -> Nat]
    <3>1. \A m \in Member : Max({have[m], LastReplayed(m)}) \in Nat
      BY LastReplayedOf, MaxPair DEF StoreTypeOK
    <3>2. QED BY <1>12, <3>1, Zenon DEF Restore, FromCheckpoint
  <2>6. IsLog(eventLog')
    BY <1>12, <2>1, <2>2, LogRosterSet, Zenon DEF Restore, StoreTypeOK
  <2>7. QED BY <1>12, <2>1, <2>2, <2>3, <2>4, <2>5, <2>6, Zenon DEF Restore, FromCheckpoint, StoreTypeOK, peersKnow
<1>13. ASSUME StartAnew PROVE StoreTypeOK'
  BY <1>13, LogRosterSet, Zenon DEF StartAnew, StoreTypeOK, memory, peersKnow
<1>14. ASSUME NEW r \in Round, Reconnect(r) PROVE StoreTypeOK'
  <2>1. last_timestamp' \in Nat
    BY <1>14, MaxPair, Zenon DEF Reconnect, StoreTypeOK
  <2>2. db' \in Seq(Version) /\ db' # <<>>
    <3>1. Snapshots \cup {r} \in SUBSET Round
      BY LastVersion, Zenon DEF StoreTypeOK, Snapshots, Version
    <3>2. db' = SetWatermark(WriteSnapshots(db, Snapshots \cup {r}), last_timestamp')
      BY <1>14, Zenon DEF Reconnect
    <3>3. QED BY <1>0, <2>1, <3>1, <3>2, BothWritten, Zenon
  <2>3. IsLog(eventLog')
    BY <1>14, LogMerged, Zenon DEF Reconnect, StoreTypeOK
  <2>4. have' \in [Member -> Nat]
    BY <1>14, TransferredHave, Zenon
  <2>5. roster' \in {Founders, Member} /\ processed' \in 0..MaxBirth
    BY <1>14, Rosters, StoreBounds DEF Reconnect
  <2>6. accepting' \in [Round -> Place] /\ unlogged' = {} /\ bucketed' = FALSE
    BY <1>14, Zenon DEF Reconnect, StoreTypeOK, Place, At
  <2>7. UNCHANGED <<up, accepted, files, flushedLog, stamp, emitted>>
    BY <1>14, Zenon DEF Reconnect, peersKnow
  <2>8. QED BY <2>1, <2>2, <2>3, <2>4, <2>5, <2>6, <2>7, Zenon DEF StoreTypeOK
<1>15. ASSUME NEW r \in Round, ReconnectFile(r) PROVE StoreTypeOK'
  BY <1>15, Zenon DEF ReconnectFile, StoreTypeOK, peersKnow, Place, At, PersistCheckpoint
<1>16. CASE UNCHANGED storeVars
  BY <1>16, Zenon DEF StoreTypeOK, storeVars, memory, onDisk, peersKnow
<1>17. QED
  BY <1>1, <1>2, <1>3, <1>4, <1>5, <1>6, <1>7, <1>8, <1>9, <1>10, <1>11, <1>12, <1>13, <1>14,
     <1>15, <1>16 DEF StoreNext

------------------------------------------------------------------------------
(* What a step does to the registry and to the last checkpoint file.         *)

\* A checkpoint file of an older round does not become the last one.
LEMMA Persisted ==
    ASSUME files \subseteq Round, NEW r \in Round
    PROVE  /\ PersistCheckpoint(r) \subseteq Round /\ PersistCheckpoint(r) # {}
           /\ Largest(PersistCheckpoint(r)) = IF r > Largest(files) THEN r ELSE Largest(files)
<1>1. PersistCheckpoint(r) \subseteq Round
  BY Zenon DEF PersistCheckpoint
<1>2. r \in PersistCheckpoint(r)
  BY StoreBounds DEF PersistCheckpoint
<1>3. PICK l \in 0..MaxBirth : l = Largest(files) /\ l \in {0} \cup files /\ \A x \in files : x <= l
  BY LargestOf, Zenon
<1>4. PICK k \in 0..MaxBirth : /\ k = Largest(PersistCheckpoint(r)) /\ k \in {0} \cup PersistCheckpoint(r)
                               /\ \A x \in PersistCheckpoint(r) : x <= k
  BY <1>1, LargestOf, Zenon
<1>5. l >= r => l \in PersistCheckpoint(r)
  BY <1>3, StoreBounds DEF PersistCheckpoint
<1>6. k \in files \cup {r}
  BY <1>2, <1>4, StoreBounds DEF PersistCheckpoint
<1>7. QED BY <1>1, <1>2, <1>3, <1>4, <1>5, <1>6, StoreBounds

\* Steps that neither process rounds nor stop, start or replace what is in memory.
Routine ==
    /\ up /\ UNCHANGED <<up, processed, roster, bucketed>>
    /\ mishaps \subseteq mishaps'
    /\ \/ UNCHANGED <<accepting, files>>
       \/ \E r \in Round : \E p \in Place \ {"no", "reconnect"} :
             /\ accepting[r] # "no" /\ At(r, p)
             /\ files' \in {files, PersistCheckpoint(r)}

\* A step is routine, leaving the processed round and the roster alone, or one
\* of the six that do not.
LEMMA StepKinds ==
    ASSUME StoreTypeOK, StoreNext
    PROVE  \/ Routine \/ ProcessFinalizedRounds \/ \E r \in Round : Reconnect(r)
           \/ Crash \/ PowerCut \/ Restore \/ StartAnew
<1>1. ASSUME NEW m \in Member, InsertEvent(m) PROVE Routine
  BY <1>1, Zenon DEF InsertEvent, Routine, onDisk
<1>2. ASSUME NEW clock \in Clock, CreateOwn(clock) PROVE Routine
  BY <1>2, Zenon DEF CreateOwn, Routine, onDisk
<1>3. ASSUME NEW e \in unlogged, LogFreshInsert(e) \/ SkipLog(e) PROVE Routine
  BY <1>3, Zenon DEF LogFreshInsert, SkipLog, Routine, onDisk
<1>4. ASSUME NEW r \in Round, AcceptSnapshot(r) PROVE Routine
  BY <1>4, Zenon DEF AcceptSnapshot, Routine, Place
<1>5. ASSUME NEW r \in Round, AcceptFile(r) PROVE Routine
  BY <1>5, Zenon DEF AcceptFile, Routine, Place
<1>6. ASSUME NEW r \in Round, AcceptPrune(r) PROVE Routine
  BY <1>6, Zenon DEF AcceptPrune, Routine, Place
<1>7. ASSUME NEW r \in Round, AcceptLog(r) PROVE Routine
  BY <1>7, Zenon DEF AcceptLog, Routine, Place
<1>8. ASSUME NEW r \in Round, ReconnectFile(r) PROVE Routine
  BY <1>8, Zenon DEF ReconnectFile, Routine, Place
<1>9. QED BY <1>1, <1>2, <1>3, <1>4, <1>5, <1>6, <1>7, <1>8, Zenon DEF StoreNext

\* What is known of a stopped node survives every step.
LEMMA StepStopped ==
    ASSUME StoreTypeOK, Stopped, [StoreNext]_storeVars
    PROVE  Stopped'
<1>1. CASE UNCHANGED storeVars
  BY <1>1, Zenon DEF Stopped, storeVars, memory, onDisk, Largest
<1>2. ASSUME Forgotten, files' = files, StopsAmid \subseteq mishaps' PROVE Stopped'
  <2>1. files = {} => "young" \in StopsAmid
    BY Zenon DEF StopsAmid
  <2>2. Largest(files) \in OpRound..OpRound + 1 => "pending" \in StopsAmid
    BY Zenon DEF StopsAmid
  <2>3. QED BY <1>2, <2>1, <2>2, Zenon DEF Forgotten, Stopped
<1>3. CASE Crash
  BY <1>2, <1>3, Zenon DEF Crash, onDisk
<1>4. CASE PowerCut
  BY <1>2, <1>4, Zenon DEF PowerCut
<1>5. CASE up' = TRUE
  BY <1>5, Zenon DEF Stopped
<1>6. QED BY <1>1, <1>3, <1>4, <1>5, StepKinds, Zenon DEF Routine, ProcessFinalizedRounds, Reconnect, Restore, StartAnew

\* No step takes a checkpoint on its way, or the last file, past the processed
\* round.
LEMMA StepBehind ==
    ASSUME StoreTypeOK, StoreTypeOK', Stopped, Behind, [StoreNext]_storeVars
    PROVE  Behind'
<1>1. CASE UNCHANGED storeVars
  BY <1>1, Zenon DEF Behind, storeVars, memory, onDisk, Largest
<1>2. CASE Routine
  <2>1. CASE UNCHANGED <<accepting, files>>
    BY <1>2, <2>1, Zenon DEF Routine, Behind
  <2>2. ASSUME NEW r \in Round, NEW p \in Place \ {"no", "reconnect"}, accepting[r] # "no", At(r, p),
               files' \in {files, PersistCheckpoint(r)}
        PROVE  Behind'
    <3>1. r <= processed /\ Largest(files) <= processed
      BY <1>2, <2>2, Zenon DEF Routine, Behind
    <3>2. Largest(files') <= processed
      BY <2>2, <3>1, Persisted, Zenon DEF StoreTypeOK
    <3>3. \A s \in Round : accepting'[s] # "no" => s <= processed
      BY <1>2, <2>2, <3>1, Zenon DEF Routine, Behind, At, StoreTypeOK
    <3>4. QED BY <1>2, <3>2, <3>3, Zenon DEF Routine, Behind
  <2>3. QED BY <1>2, <2>1, <2>2, Zenon DEF Routine
<1>3. CASE ProcessFinalizedRounds
  <2>1. processed' = Decided /\ Decided > processed /\ files' = files /\ up
    BY <1>3, Zenon DEF ProcessFinalizedRounds
  <2>2. ASSUME NEW s \in Round, accepting'[s] # "no" PROVE s <= Decided
    <3>1. s \in processed + 1..Decided \/ accepting[s] # "no"
      BY <1>3, <2>2, Zenon DEF ProcessFinalizedRounds
    <3>2. QED BY <2>1, <3>1, DecidedType, StoreBounds DEF Behind, StoreTypeOK
  <2>3. Largest(files) <= Decided
    <3>1. Largest(files) <= processed
      BY <2>1, Zenon DEF Behind
    <3>2. Largest(files) \in 0..MaxBirth /\ processed \in 0..MaxBirth /\ Decided \in 0..MaxBirth
      BY DecidedType, LargestOf, Zenon DEF StoreTypeOK
    <3>3. QED BY <2>1, <3>1, <3>2, StoreBounds
  <2>4. QED BY <2>1, <2>2, <2>3, Zenon DEF Behind
<1>4. ASSUME NEW r \in Round, Reconnect(r) PROVE Behind'
  <2>1. processed' = r /\ r > processed /\ files' = files /\ up /\ At(r, "reconnect")
    BY <1>4, Zenon DEF Reconnect
  <2>2. \A s \in Round : accepting'[s] # "no" => s <= r
    BY <2>1, StoreBounds DEF Behind, StoreTypeOK, At
  <2>3. Largest(files) <= r
    <3>1. Largest(files) <= processed
      BY <2>1, Zenon DEF Behind
    <3>2. Largest(files) \in 0..MaxBirth /\ processed \in 0..MaxBirth
      BY LargestOf, Zenon DEF StoreTypeOK
    <3>3. QED BY <2>1, <3>1, <3>2, StoreBounds
  <2>4. QED BY <2>1, <2>2, <2>3, Zenon DEF Behind
<1>5. CASE Crash \/ PowerCut
  BY <1>5, Zenon DEF Crash, PowerCut, Forgotten, Behind
<1>6. CASE Restore
  BY <1>6, LargestOf, Zenon DEF Restore, FromCheckpoint, Stopped, Behind, StoreTypeOK
<1>7. CASE StartAnew
  <2>1. /\ ~up /\ files = {} /\ files' = files
        /\ processed' = processed /\ accepting' = accepting
    BY <1>7, Zenon DEF StartAnew, memory
  <2>2. processed = 0 /\ \A r \in Round : accepting[r] = "no"
    BY <2>1, Zenon DEF Stopped
  <2>3. Largest(files) = 0
    BY <2>1, LargestOf, Zenon DEF StoreTypeOK
  <2>4. Largest(files) <= processed
    BY <2>2, <2>3
  <2>5. QED BY <2>1, <2>2, <2>4, Zenon DEF Behind
<1>8. QED BY <1>1, <1>2, <1>3, <1>4, <1>5, <1>6, <1>7, StepKinds, Zenon

\* No step loses the operation between its bucket and its effect.
LEMMA StepJoin ==
    ASSUME StoreTypeOK, StoreTypeOK', Stopped, JoinInv, [StoreNext]_storeVars
    PROVE  JoinInv'
<1>1. CASE UNCHANGED storeVars
  BY <1>1, Zenon DEF JoinInv, storeVars, memory, Member, Founders
<1>2. CASE Routine
  BY <1>2, Zenon DEF Routine, JoinInv
<1>3. CASE ProcessFinalizedRounds
  <2> DEFINE due == bucketed \/ OpRound \in processed + 1..Decided
             activates == due /\ OpRound + 1 <= Decided
  <2>1. PICK d \in 0..MaxBirth : d = Decided
    BY DecidedType, Zenon
  <2>2. /\ up /\ d > processed /\ processed' = d /\ mishaps \subseteq mishaps'
        /\ bucketed' = (due /\ ~activates) /\ roster' = IF activates THEN Member ELSE roster
    BY <1>3, <2>1, Zenon DEF ProcessFinalizedRounds
  <2>3. processed \in 0..MaxBirth /\ d \in Int /\ OpRound \in Int
    BY StoreBounds DEF StoreTypeOK
  <2>4. processed < OpRound /\ d >= OpRound => due
    BY <2>1, <2>2, <2>3
  <2>5. "pending" \notin mishaps /\ processed = OpRound => due
    BY <2>2, Zenon DEF JoinInv
  <2>6. activates <=> due /\ OpRound + 1 <= d
    BY <2>1, Zenon
  <2>7. roster = Member => processed > OpRound
    BY Zenon DEF JoinInv
  <2>8. "pending" \notin mishaps /\ processed > OpRound => roster = Member
    BY <2>2, Zenon DEF JoinInv
  <2> HIDE DEF due, activates
  <2>9. roster' = Member => d > OpRound
    BY <2>2, <2>3, <2>6, <2>7
  <2>10. "pending" \notin mishaps /\ d = OpRound => bucketed'
    <3>1. d = OpRound => ~(OpRound + 1 <= d) /\ processed < OpRound /\ d >= OpRound
      BY <2>2, <2>3
    <3>2. QED BY <2>2, <2>4, <2>6, <3>1, Zenon
  <2>11. "pending" \notin mishaps /\ d > OpRound => roster' = Member
    BY <2>2, <2>3, <2>4, <2>5, <2>6, <2>8
  <2>12. QED BY <2>2, <2>9, <2>10, <2>11, Zenon DEF JoinInv
<1>4. ASSUME NEW r \in Round, Reconnect(r) PROVE JoinInv'
  <2>1. processed' = r /\ roster' = RosterAt(r)
    BY <1>4, Zenon DEF Reconnect
  <2>2. r \in OpRound..OpRound + 1 => "pending" \in mishaps'
    BY <1>4, Zenon DEF Reconnect
  <2>3. QED BY <2>1, <2>2, StoreBounds, Members, Rosters DEF JoinInv
<1>5. CASE Crash \/ PowerCut
  BY <1>5, Members, Zenon DEF Crash, PowerCut, Forgotten, JoinInv
<1>6. CASE Restore
  <2>1. PICK r \in 0..MaxBirth : r = Largest(files)
    BY LargestOf, Zenon DEF StoreTypeOK
  <2>2. processed' = r /\ roster' = RosterAt(r) /\ ~up /\ mishaps' = mishaps
    BY <1>6, <2>1, Zenon DEF Restore, FromCheckpoint
  <2>3. r \in OpRound..OpRound + 1 => "pending" \in mishaps'
    BY <2>1, <2>2, Zenon DEF Stopped
  <2>4. QED BY <2>2, <2>3, StoreBounds, Members, Rosters DEF JoinInv
<1>7. CASE StartAnew
  BY <1>7, StoreBounds, Members DEF StartAnew, memory, Stopped, JoinInv
<1>8. QED BY <1>1, <1>2, <1>3, <1>4, <1>5, <1>6, <1>7, StepKinds, Zenon

------------------------------------------------------------------------------
(* Snapshots.                                                                *)

InAll(r, versions) == \A v \in Range(versions) : r \in v.snapshots

\* A write to the state database loses no snapshot of a round from l on.
Keeps(l) ==
    \A s \in Round : s >= l => /\ s \in Snapshots => s \in Snapshots'
                               /\ InAll(s, db) => InAll(s, db')

\* The checkpoint of a round comes to a place in accept_checkpoint at which
\* SnapInv asks nothing of it, or what it asks has been done.
Arrives(r) ==
    \/ accepting'[r] \in {"no", "signed", "done"}
    \/ accepting'[r] \in {"prune", "log"} /\ r <= Largest(files')
    \/ accepting'[r] = "file" /\ InAll(r, db')
    \/ accepting'[r] = "reconnect" /\ r \in Snapshots'

\* The last version is one of the versions.
LEMMA InLast ==
    ASSUME StoreTypeOK, NEW r, InAll(r, db) PROVE r \in Snapshots
BY LastVersion, Zenon DEF StoreTypeOK, InAll, Snapshots

\* The last checkpoint file stays, and its snapshot with it.
LEMMA SnapFrame ==
    ASSUME StoreTypeOK, SnapInv, SnapshotPresent, files' = files, mishaps \subseteq mishaps',
           Keeps(Largest(files)), \A r \in Round : accepting'[r] = accepting[r] \/ Arrives(r)
    PROVE  SnapInv' /\ SnapshotPresent'
<1> SUFFICES ASSUME "file" \notin mishaps' PROVE SnapInv' /\ SnapshotPresent'
  BY Zenon DEF SnapInv, SnapshotPresent
<1>0. "file" \notin mishaps
  BY Zenon
<1>1. PICK l \in 0..MaxBirth : l = Largest(files) /\ (files # {} => l \in files) /\ files \subseteq Round
  BY LargestOf, Zenon DEF StoreTypeOK
<1>2. l = Largest(files')
  BY <1>1, Zenon
<1>3. \A r \in Round : accepting'[r] \in {"prune", "log"} => r <= l
  BY <1>0, <1>1, <1>2, Zenon DEF SnapInv, Arrives
<1>4. \A r \in Round : r > l => r >= l
  BY <1>1, StoreBounds
<1>5. \A r \in Round : accepting'[r] = "file" /\ r > l => InAll(r, db')
  BY <1>0, <1>1, <1>4, Zenon DEF SnapInv, Arrives, Keeps, InAll
<1>6. \A r \in Round : accepting'[r] = "reconnect" /\ r > l => r \in Snapshots'
  BY <1>0, <1>1, <1>4, Zenon DEF SnapInv, Arrives, Keeps
<1>7. SnapInv'
  BY <1>2, <1>3, <1>5, <1>6, Zenon DEF SnapInv, InAll
<1>8. ASSUME files # {}
      PROVE  /\ l \in Snapshots' \/ {"reconnected", "power"} \subseteq mishaps'
             /\ "reconnected" \in mishaps' \/ InAll(l, db')
  <2>1. l \in Round /\ l >= l
    BY <1>1, <1>8, StoreBounds
  <2>2. /\ l \in Snapshots \/ {"reconnected", "power"} \subseteq mishaps
        /\ "reconnected" \in mishaps \/ InAll(l, db)
    BY <1>0, <1>1, <1>8, Zenon DEF SnapshotPresent, InAll
  <2>3. QED BY <1>1, <2>1, <2>2, Zenon DEF Keeps
<1>9. SnapshotPresent'
  BY <1>2, <1>8, Zenon DEF SnapshotPresent, InAll
<1>10. QED BY <1>7, <1>9, Zenon

\* A checkpoint file is written, of a round whose snapshot is there.
LEMMA SnapFile ==
    ASSUME StoreTypeOK, SnapInv, SnapshotPresent, NEW r \in Round, files' = PersistCheckpoint(r),
           db' = db, mishaps \subseteq mishaps', accepting'[r] \in {"prune", "done"},
           \A s \in Round : s # r => accepting'[s] = accepting[s],
           \/ accepting[r] = "file"
           \/ accepting[r] = "reconnect" /\ "reconnected" \in mishaps'
    PROVE  SnapInv' /\ SnapshotPresent'
<1> SUFFICES ASSUME "file" \notin mishaps' PROVE SnapInv' /\ SnapshotPresent'
  BY Zenon DEF SnapInv, SnapshotPresent
<1>0. "file" \notin mishaps
  BY Zenon
<1>1. PICK l \in 0..MaxBirth : l = Largest(files) /\ l \in {0} \cup files
  BY LargestOf, Zenon DEF StoreTypeOK
<1>2. PICK k \in 0..MaxBirth : k = Largest(files')
  BY Persisted, LargestOf, Zenon DEF StoreTypeOK
<1>3. k = IF r > l THEN r ELSE l
  BY <1>1, <1>2, Persisted, Zenon DEF StoreTypeOK
<1>4. k >= l /\ k >= r
  BY <1>3, StoreBounds
<1>5. \A s \in Round : accepting'[s] \in {"prune", "log"} => s <= k
  <2>1. \A s \in Round : accepting[s] \in {"prune", "log"} => s <= l
    BY <1>0, <1>1, Zenon DEF SnapInv
  <2>2. QED BY <1>4, <2>1, StoreBounds
<1>6. \A s \in Round : s > k => s > l
  BY <1>4, StoreBounds
<1>7. Snapshots' = Snapshots
  BY Zenon DEF Snapshots
<1>8. SnapInv'
  <2>1. \A s \in Round : accepting'[s] = "file" /\ s > k => InAll(s, db')
    BY <1>0, <1>1, <1>6, Zenon DEF SnapInv, InAll
  <2>2. \A s \in Round : accepting'[s] = "reconnect" /\ s > k => s \in Snapshots'
    BY <1>0, <1>1, <1>6, <1>7, Zenon DEF SnapInv
  <2>3. QED BY <1>2, <1>5, <2>1, <2>2, Zenon DEF SnapInv, InAll
<1>9. /\ k \in Snapshots \/ {"reconnected", "power"} \subseteq mishaps'
      /\ "reconnected" \in mishaps' \/ InAll(k, db)
  <2>1. CASE r > l
    <3>1. k = r
      BY <1>3, <2>1, Zenon
    <3>2. accepting[r] = "file" => InAll(r, db) /\ r \in Snapshots
      BY <1>0, <1>1, <2>1, InLast, Zenon DEF SnapInv, InAll
    <3>3. accepting[r] = "reconnect" => r \in Snapshots
      BY <1>0, <1>1, <2>1, Zenon DEF SnapInv
    <3>4. QED BY <3>1, <3>2, <3>3, Zenon
  <2>2. CASE ~(r > l)
    <3>1. k = l /\ l # 0 /\ l \in files
      BY <1>1, <1>3, <2>2, StoreBounds
    <3>2. QED BY <1>0, <1>1, <3>1, Zenon DEF SnapshotPresent, InAll
  <2>3. QED BY <2>1, <2>2, Zenon
<1>10. SnapshotPresent'
  BY <1>2, <1>7, <1>9, Zenon DEF SnapshotPresent, InAll
<1>11. QED BY <1>8, <1>10, Zenon

\* Nothing is written to the state database.
LEMMA KeepsSame ==
    ASSUME db' = db, NEW l PROVE Keeps(l)
BY Zenon DEF Keeps, Snapshots

\* What a write leaves: versions from before, and one with the snapshots S.
LEMMA KeepsWritten ==
    ASSUME StoreTypeOK, NEW l, NEW S, Snapshots' = S,
           \A s \in Snapshots : s >= l => s \in S,
           \A v \in Range(db') : v \in Range(db) \/ v.snapshots = S
    PROVE  Keeps(l)
<1> SUFFICES ASSUME NEW s \in Round, s >= l
             PROVE  /\ s \in Snapshots => s \in Snapshots'
                    /\ InAll(s, db) => InAll(s, db')
  BY Zenon DEF Keeps
<1>1. s \in Snapshots => s \in S
  BY Zenon
<1>2. InAll(s, db) => InAll(s, db')
  BY <1>1, InLast, Zenon DEF InAll
<1>3. QED BY <1>1, <1>2, Zenon

\* No step lets a checkpoint file become the last without its snapshot.
LEMMA StepSnap ==
    ASSUME StoreTypeOK, StoreTypeOK', Stopped, SnapInv, SnapshotPresent, [StoreNext]_storeVars
    PROVE  SnapInv' /\ SnapshotPresent'
<1> DEFINE Goal == SnapInv' /\ SnapshotPresent'
<1>0. ASSUME UNCHANGED <<files, db>>, mishaps \subseteq mishaps',
             \A r \in Round : accepting'[r] = accepting[r] \/ accepting'[r] = "signed"
      PROVE  Goal
  BY <1>0, KeepsSame, SnapFrame, Zenon DEF Arrives
<1>1. CASE UNCHANGED storeVars
  BY <1>0, <1>1, Zenon DEF storeVars, memory, onDisk
<1>2. ASSUME NEW m \in Member, InsertEvent(m) PROVE Goal
  BY <1>0, <1>2, Zenon DEF InsertEvent, onDisk
<1>3. ASSUME NEW clock \in Clock, CreateOwn(clock) PROVE Goal
  BY <1>0, <1>3, Zenon DEF CreateOwn, onDisk
<1>4. ASSUME NEW e \in unlogged, LogFreshInsert(e) \/ SkipLog(e) PROVE Goal
  BY <1>0, <1>4, Zenon DEF LogFreshInsert, SkipLog, onDisk
<1>5. CASE ProcessFinalizedRounds
  BY <1>0, <1>5, Zenon DEF ProcessFinalizedRounds
<1>6. ASSUME NEW r \in Round, AcceptSnapshot(r) PROVE Goal
  <2> DEFINE d == SetWatermark(db, last_timestamp)
             w == WriteSnapshots(d, Snapshots \cup {r})
  <2>1. d \in Seq(Version) /\ d # <<>>
    BY WatermarkSet, Zenon DEF StoreTypeOK
  <2>2. Snapshots \cup {r} \in SUBSET Round
    BY LastVersion, Zenon DEF StoreTypeOK, Snapshots, Version
  <2>3. w \in Seq(Version) /\ w # <<>> /\ Current(w).snapshots = Snapshots \cup {r}
    <3> HIDE DEF d
    <3>1. QED BY <2>1, <2>2, SnapshotsWritten, Zenon
  <2>4. db' = Flush(w)
    BY <1>6, Zenon DEF AcceptSnapshot
  <2>5. Snapshots' = Snapshots \cup {r} /\ \A v \in Range(db') : v.snapshots = Snapshots \cup {r}
    <3> HIDE DEF w
    <3>1. QED BY <2>3, <2>4, Flushed, Zenon DEF Snapshots
  <2>6. Keeps(Largest(files))
    BY <2>5, KeepsWritten, Zenon
  <2>7. \A s \in Round : accepting'[s] = accepting[s] \/ Arrives(s)
    BY <1>6, <2>5, Zenon DEF AcceptSnapshot, At, Arrives, InAll, StoreTypeOK
  <2>8. files' = files /\ mishaps' = mishaps
    BY <1>6, Zenon DEF AcceptSnapshot
  <2>9. QED BY <2>6, <2>7, <2>8, SnapFrame, Zenon
<1>7. ASSUME NEW r \in Round, AcceptFile(r) PROVE Goal
  <2>1. /\ accepting[r] = "file" /\ db' = db /\ mishaps \subseteq mishaps' /\ accepting'[r] = "prune"
        /\ \A s \in Round : s # r => accepting'[s] = accepting[s]
    BY <1>7, Zenon DEF AcceptFile, At, StoreTypeOK
  <2>2. CASE "file" \in mishaps'
    BY <2>2, Zenon DEF SnapInv, SnapshotPresent
  <2>3. CASE files' = PersistCheckpoint(r)
    BY <2>1, <2>3, SnapFile, Zenon
  <2>4. QED BY <1>7, <2>2, <2>3, Zenon DEF AcceptFile
<1>8. ASSUME NEW r \in Round, AcceptPrune(r) PROVE Goal
  <2> SUFFICES ASSUME "file" \notin mishaps PROVE Goal
    BY <1>8, Zenon DEF AcceptPrune, SnapInv, SnapshotPresent
  <2> DEFINE S == {s \in Snapshots : s >= r - SnapshotRounds}
  <2>1. PICK l \in 0..MaxBirth : l = Largest(files)
    BY LargestOf, Zenon DEF StoreTypeOK
  <2>2. r <= l
    BY <1>8, <2>1, Zenon DEF AcceptPrune, SnapInv
  <2>3. S \in SUBSET Round /\ Snapshots \subseteq Round
    BY LastVersion, Zenon DEF StoreTypeOK, Snapshots, Version
  <2>4. \A s \in Snapshots : s >= l => s \in S
    BY <2>2, <2>3, StoreBounds
  <2>5. db' = WriteSnapshots(db, S)
    BY <1>8, Zenon DEF AcceptPrune
  <2>6. Snapshots' = S /\ \A v \in Range(db') : v \in Range(db) \/ v.snapshots = S
    <3> HIDE DEF S
    <3>1. QED BY <2>3, <2>5, SnapshotsWritten, Zenon DEF Snapshots, StoreTypeOK
  <2>7. Keeps(Largest(files))
    <3> HIDE DEF S
    <3>1. QED BY <2>1, <2>4, <2>6, KeepsWritten, Zenon
  <2>8. files' = files /\ mishaps' = mishaps /\ At(r, "log")
    BY <1>8, Zenon DEF AcceptPrune
  <2>9. \A s \in Round : accepting'[s] = accepting[s] \/ Arrives(s)
    BY <2>1, <2>2, <2>8, Zenon DEF At, Arrives, StoreTypeOK
  <2>10. QED BY <2>7, <2>8, <2>9, SnapFrame, Zenon
<1>9. ASSUME NEW r \in Round, AcceptLog(r) PROVE Goal
  <2>1. db' = Flush(db) /\ files' = files /\ mishaps' = mishaps /\ At(r, "done")
    BY <1>9, Zenon DEF AcceptLog
  <2>2. Snapshots' = Snapshots /\ \A v \in Range(db') : v.snapshots = Snapshots
    BY <2>1, Flushed, Zenon DEF Snapshots, StoreTypeOK
  <2>3. Keeps(Largest(files))
    BY <2>2, KeepsWritten, Zenon
  <2>4. \A s \in Round : accepting'[s] = accepting[s] \/ Arrives(s)
    BY <2>1, Zenon DEF At, Arrives, StoreTypeOK
  <2>5. QED BY <2>1, <2>3, <2>4, SnapFrame, Zenon
<1>10. CASE Crash
  <2>1. UNCHANGED <<files, db>> /\ mishaps \subseteq mishaps' /\ \A r \in Round : accepting'[r] = "no"
    BY <1>10, Zenon DEF Crash, Forgotten, onDisk
  <2>2. QED BY <2>1, KeepsSame, SnapFrame, Zenon DEF Arrives
<1>11. CASE PowerCut
  <2>1. /\ files' = files /\ mishaps \subseteq mishaps' /\ "power" \in mishaps'
        /\ \A r \in Round : accepting'[r] = "no"
    BY <1>11, Zenon DEF PowerCut, Forgotten
  <2>2. PICK v \in Range(db) : db' = <<v>>
    BY <1>11, Zenon DEF PowerCut
  <2>3. Snapshots' = v.snapshots /\ \A x \in Range(db') : x = v
    BY <2>2 DEF Snapshots, Current, Range
  <2>4. SnapInv'
    BY <2>1, Zenon DEF SnapInv
  <2>5. SnapshotPresent'
    BY <2>1, <2>3, Zenon DEF SnapshotPresent, Largest
  <2>6. QED BY <2>4, <2>5, Zenon
<1>12. CASE Restore
  <2>1. PICK r \in 0..MaxBirth : r = Largest(files) /\ r \in Round
    BY <1>12, LargestOf, Zenon DEF Restore, StoreTypeOK
  <2>2. /\ db' = SetWatermark(WriteSnapshots(db, Snapshots \cup {r}), last_timestamp')
        /\ UNCHANGED <<files, accepting, mishaps>>
    BY <1>12, <2>1, Zenon DEF Restore
  <2>3. Keeps(Largest(files))
    <3>1. Snapshots \cup {r} \in SUBSET Round
      BY <2>1, LastVersion, Zenon DEF StoreTypeOK, Snapshots, Version
    <3>2. last_timestamp' \in Nat /\ db \in Seq(Version) /\ db # <<>>
      BY Zenon DEF StoreTypeOK
    <3>3. /\ Current(db').snapshots = Snapshots \cup {r}
          /\ \A v \in Range(db') : v \in Range(db) \/ v.snapshots = Snapshots \cup {r}
      BY <2>2, <3>1, <3>2, BothWritten, Zenon
    <3>4. Snapshots' = Snapshots \cup {r}
      BY <3>3, Zenon DEF Snapshots
    <3>5. QED BY <3>3, <3>4, KeepsWritten, Zenon
  <2>4. QED BY <2>2, <2>3, SnapFrame, Zenon
<1>13. CASE StartAnew
  BY <1>0, <1>13, Zenon DEF StartAnew, memory
<1>14. ASSUME NEW r \in Round, Reconnect(r) PROVE Goal
  <2>1. /\ db' = SetWatermark(WriteSnapshots(db, Snapshots \cup {r}), last_timestamp')
        /\ files' = files /\ mishaps \subseteq mishaps' /\ At(r, "reconnect")
    BY <1>14, Zenon DEF Reconnect
  <2>2. Snapshots \cup {r} \in SUBSET Round
    BY LastVersion, Zenon DEF StoreTypeOK, Snapshots, Version
  <2>3. last_timestamp' \in Nat /\ db \in Seq(Version) /\ db # <<>>
    BY Zenon DEF StoreTypeOK
  <2>4. /\ Current(db').snapshots = Snapshots \cup {r}
        /\ \A v \in Range(db') : v \in Range(db) \/ v.snapshots = Snapshots \cup {r}
    BY <2>1, <2>2, <2>3, BothWritten, Zenon
  <2>5. Snapshots' = Snapshots \cup {r}
    BY <2>4, Zenon DEF Snapshots
  <2>6. Keeps(Largest(files))
    BY <2>4, <2>5, KeepsWritten, Zenon
  <2>7. \A s \in Round : accepting'[s] = accepting[s] \/ Arrives(s)
    BY <2>1, <2>5, Zenon DEF At, Arrives, StoreTypeOK
  <2>8. QED BY <2>1, <2>6, <2>7, SnapFrame, Zenon
<1>15. ASSUME NEW r \in Round, ReconnectFile(r) PROVE Goal
  <2>1. /\ accepting[r] = "reconnect" /\ db' = db /\ mishaps \subseteq mishaps'
        /\ "reconnected" \in mishaps' /\ accepting'[r] = "done" /\ files' = PersistCheckpoint(r)
        /\ \A s \in Round : s # r => accepting'[s] = accepting[s]
    BY <1>15, Zenon DEF ReconnectFile, At, StoreTypeOK
  <2>2. QED BY <2>1, SnapFile, Zenon
<1>16. QED
  BY <1>1, <1>2, <1>3, <1>4, <1>5, <1>6, <1>7, <1>8, <1>9, <1>10, <1>11, <1>12, <1>13, <1>14,
     <1>15, Zenon DEF StoreNext

\* AcceptLog drops from the log what is outside the window, and nothing else.
LEMMA Trimmed ==
    ASSUME StoreTypeOK, NEW r \in Round, AcceptLog(r)
    PROVE  /\ eventLog'.roster = eventLog.roster
           /\ DOMAIN eventLog'.events = {e \in DOMAIN eventLog.events : ~OutsideWindow(e, r)}
           /\ \A e \in DOMAIN eventLog'.events : eventLog'.events[e] = eventLog.events[e]
<1> DEFINE kept == {e \in DOMAIN eventLog.events : ~OutsideWindow(e, r)}
<1>1. kept \subseteq DOMAIN eventLog.events /\ IsLog(eventLog)
  BY Zenon DEF StoreTypeOK
<1>2. eventLog' = [eventLog EXCEPT !.events = Restrict(@, kept)]
  BY Zenon DEF AcceptLog
<1> HIDE DEF kept
<1>3. eventLog'.roster = eventLog.roster /\ DOMAIN eventLog'.events = kept
      /\ \A e \in kept : eventLog'.events[e] = eventLog.events[e]
  BY <1>1, <1>2, LogPruned
<1>4. QED BY <1>3, Zenon DEF kept

------------------------------------------------------------------------------
(* The own chain.                                                            *)

\* Steps that leave the own chain alone.
LEMMA ChainFrame ==
    ASSUME ChainInv, up, UNCHANGED <<up, emitted, stamp, last_timestamp>>, have'[Self] = have[Self],
           mishaps \subseteq mishaps', OwnEvents' \subseteq OwnEvents
    PROVE  ChainInv'
BY Zenon DEF ChainInv, Unharmed

\* An own event is created, later than all others, and a peer gets it or not.
LEMMA ChainCreated ==
    ASSUME StoreTypeOK, ChainInv, NEW clock \in Clock, CreateOwn(clock)
    PROVE  /\ ChainInv'
           /\ Unharmed => have'[Self] > emitted.birth /\ last_timestamp' > emitted.timestamp
<1>1. PICK i \in Round : i = have[Self] + 1
  BY BirthType, Members DEF CreateOwn, StoreTypeOK
<1>2. PICK t \in Nat : t = last_timestamp' /\ t > last_timestamp
  <2>1. clock \in Nat /\ last_timestamp \in Nat /\ last_timestamp + 1 \in Nat
    BY StoreAssumption DEF StoreTypeOK
  <2>2. last_timestamp' = Max({clock, last_timestamp + 1})
    BY Zenon DEF CreateOwn
  <2>3. QED BY <2>1, <2>2, MaxPair
<1>3. /\ up /\ up' /\ mishaps' = mishaps /\ have'[Self] = i
      /\ stamp' = [stamp EXCEPT ![i] = t] /\ eventLog' = eventLog
      /\ unlogged' = unlogged \cup {Event(Self, i)}
      /\ emitted' \in {emitted, [birth |-> i, timestamp |-> t]}
  BY <1>1, <1>2, Members, Zenon DEF CreateOwn, onDisk, StoreTypeOK
<1>4. /\ have[Self] \in Nat /\ i = have[Self] + 1 /\ last_timestamp \in Nat /\ stamp \in [Round -> Nat]
      /\ emitted.birth \in 0..MaxBirth /\ emitted.timestamp \in Nat
  BY <1>1, Members, Zenon DEF StoreTypeOK
<1>5. OwnEvents \subseteq Member \X Round
  BY Zenon DEF OwnEvents, StoreTypeOK, IsLog
<1>6. OwnEvents' = OwnEvents \cup {<<Self, i>>}
  BY <1>3 DEF OwnEvents, Event
<1>7. stamp'[i] = t /\ \A j \in Round : j # i => stamp'[j] = stamp[j]
  BY <1>3, <1>4, Zenon
<1>8. CASE ~Unharmed
  BY <1>3, <1>4, <1>8 DEF ChainInv, Unharmed
<1>9. CASE Unharmed
  <2>1. /\ emitted.birth <= have[Self] /\ emitted.timestamp <= last_timestamp
        /\ \A e \in OwnEvents : e[2] <= have[Self]
        /\ \A e \in OwnEvents : e[2] >= emitted.birth => stamp[e[2]] >= emitted.timestamp
        /\ emitted.birth \in Round => stamp[emitted.birth] >= emitted.timestamp
        /\ emitted.birth = 0 => emitted.timestamp = 0
    BY <1>3, <1>9, Zenon DEF ChainInv
  <2>2. i > emitted.birth /\ t > emitted.timestamp
    BY <1>1, <1>2, <1>4, <2>1
  <2>3. \A e \in OwnEvents : e[2] \in Round /\ e[2] < i /\ stamp'[e[2]] = stamp[e[2]]
    <3> SUFFICES ASSUME NEW e \in OwnEvents
                 PROVE  e[2] \in Round /\ e[2] < i /\ stamp'[e[2]] = stamp[e[2]]
      BY Zenon
    <3>1. e[2] \in Round
      BY <1>5, Zenon
    <3>2. e[2] < i
      BY <1>4, <2>1, <3>1, StoreBounds
    <3>3. QED BY <1>7, <3>1, <3>2, StoreBounds
  <2>4. emitted.birth \in Round => stamp'[emitted.birth] = stamp[emitted.birth]
    BY <1>4, <1>7, <2>2, StoreBounds
  <2>5. CASE emitted' = emitted
    <3>1. \A e \in OwnEvents' : e[2] >= emitted'.birth => stamp'[e[2]] >= emitted'.timestamp
      <4>1. \A e \in OwnEvents : e[2] >= emitted.birth => stamp'[e[2]] >= emitted.timestamp
        BY <2>1, <2>3, Zenon
      <4>2. stamp'[<<Self, i>>[2]] >= emitted.timestamp
        BY <1>4, <1>7, <2>2
      <4>3. QED BY <1>6, <2>5, <4>1, <4>2, Zenon
    <3>2. \A e \in OwnEvents' : e[2] <= i
      BY <1>4, <1>6, <2>3, StoreBounds
    <3>3. emitted'.birth <= i /\ emitted'.timestamp <= t
      BY <1>4, <2>2, <2>5, StoreBounds
    <3>4. QED BY <1>2, <1>3, <1>9, <2>1, <2>2, <2>4, <2>5, <3>1, <3>2, <3>3, Zenon DEF ChainInv, Unharmed
  <2>6. CASE emitted' = [birth |-> i, timestamp |-> t]
    <3>1. emitted'.birth = i /\ emitted'.timestamp = t
      BY <2>6, Zenon
    <3>2. \A e \in OwnEvents' : e[2] >= i => stamp'[e[2]] >= t
      BY <1>4, <1>6, <1>7, <2>3, StoreBounds
    <3>3. \A e \in OwnEvents' : e[2] <= i
      BY <1>4, <1>6, <2>3, StoreBounds
    <3>4. i # 0 /\ i <= i /\ t <= t /\ stamp'[i] >= t
      BY <1>4, <1>7, StoreBounds
    <3>5. QED BY <1>2, <1>3, <2>2, <3>1, <3>2, <3>3, <3>4, Zenon DEF ChainInv
  <2>7. QED BY <1>3, <2>5, <2>6, Zenon
<1>10. QED BY <1>8, <1>9, Zenon

\* A restart takes up the chain after the last own event of the log.
LEMMA ChainRestored ==
    ASSUME StoreTypeOK, Stopped, ChainInv, Restore
    PROVE  ChainInv'
<1>1. /\ ~up /\ up' /\ UNCHANGED <<mishaps, emitted, stamp, unlogged>>
      /\ have' = [m \in Member |-> Max({have[m], LastReplayed(m)})]
      /\ last_timestamp' = RestoredTimestamp /\ eventLog' = SetRosterHistory(eventLog, RosterAt(Largest(files)))
  BY Zenon DEF Restore, FromCheckpoint, peersKnow
<1>2. OwnEvents' = OwnEvents
  <2>1. eventLog'.events = eventLog.events
    BY <1>1, Zenon DEF SetRosterHistory, StoreTypeOK, IsLog
  <2>2. QED BY <1>1, <2>1, Zenon DEF OwnEvents
<1>3. unlogged = {}
  BY <1>1, Zenon DEF Stopped
<1>4. PICK l \in 0..MaxBirth : /\ l = LastReplayed(Self)
                               /\ \A e \in OwnEvents : e[2] <= l
                               /\ l # 0 => <<Self, l>> \in OwnEvents
  BY <1>3, LastReplayedOf, Zenon DEF OwnEvents, StoreTypeOK, Event
<1>5. have'[Self] \in Nat /\ have'[Self] >= l
  <2>1. have[Self] \in Nat /\ l \in Nat /\ Self \in Member
    BY <1>4, Members DEF StoreTypeOK
  <2>2. have'[Self] = Max({have[Self], l})
    BY <1>1, <1>4, <2>1, Zenon
  <2>3. QED BY <2>1, <2>2, MaxPair, Zenon
<1>6. OwnEvents \subseteq Member \X Round
  BY Zenon DEF OwnEvents, StoreTypeOK, IsLog
<1>7. \A e \in OwnEvents : e[2] <= have'[Self]
  BY <1>4, <1>5, <1>6, StoreBounds
<1>8. ASSUME Unharmed PROVE emitted.birth <= have'[Self] /\ emitted.timestamp <= last_timestamp'
  <2>1. emitted.birth <= l
    BY <1>1, <1>4, <1>8, Zenon DEF ChainInv
  <2>2. emitted.birth \in 0..MaxBirth /\ emitted.timestamp \in Nat
    BY Zenon DEF StoreTypeOK
  <2>3. RestoredTimestamp \in Nat
    BY Restored, Zenon
  <2>4. CASE l = 0
    BY <1>1, <1>5, <2>1, <2>2, <2>3, <2>4 DEF ChainInv
  <2>5. CASE l # 0
    <3>1. stamp[l] >= emitted.timestamp /\ stamp[l] \in Nat
      BY <1>4, <1>8, <2>1, <2>2, <2>5, StoreBounds DEF ChainInv, StoreTypeOK
    <3>2. stamp[l] <= RestoredTimestamp
      BY <1>3, <1>4, <2>5, Restored, Zenon DEF OwnEvents
    <3>3. QED BY <1>1, <1>4, <1>5, <2>1, <2>2, <2>3, <3>1, <3>2
  <2>6. QED BY <2>4, <2>5, Zenon
<1>9. QED BY <1>1, <1>2, <1>7, <1>8, Zenon DEF ChainInv, Unharmed

\* A reconnect leaves the own events that the peers have, and when no other was
\* in the graph it leaves the chain as it was.
LEMMA OwnRetained ==
    ASSUME StoreTypeOK, NEW r \in Round, r < emitted.birth, NEW j \in Round, j <= emitted.birth,
           ~OutsideWindow(Event(Self, j), r)
    PROVE  Event(Self, j) \in Retained(r)
BY Rosters, StoreBounds DEF Retained, Event

\* Reconnect: the stamp restored from the log is that of the newest own event a
\* peer has, or newer.
LEMMA ChainTransferred ==
    ASSUME StoreTypeOK, ChainInv, NEW r \in Round, Reconnect(r)
    PROVE  ChainInv'
<1>1. /\ up /\ up' /\ mishaps \subseteq mishaps' /\ UNCHANGED <<emitted, stamp>> /\ r < emitted.birth
      /\ last_timestamp' = Max({last_timestamp, emitted.timestamp})
      /\ have[Self] > emitted.birth => "lost" \in mishaps'
  BY Zenon DEF Reconnect, peersKnow
<1>2. emitted.birth \in Round /\ emitted.timestamp \in Nat /\ last_timestamp \in Nat /\ have[Self] \in Nat
  BY <1>1, Members, StoreBounds DEF StoreTypeOK
<1>3. PICK b \in Round : b = emitted.birth
  BY <1>2, Zenon
<1>4. last_timestamp' \in Nat /\ emitted.timestamp <= last_timestamp'
  BY <1>1, <1>2, MaxPair, Zenon
<1>5. SUFFICES ASSUME Unharmed' PROVE ChainInv'
  BY <1>1, <1>2, StoreBounds, Zenon DEF ChainInv
<1>6. Unharmed
  BY <1>1, <1>5, Zenon DEF Unharmed
<1>7. have[Self] = b
  <2>1. b <= have[Self]
    BY <1>1, <1>3, <1>6, Zenon DEF ChainInv
  <2>2. ~(have[Self] > b)
    BY <1>1, <1>3, <1>5, Zenon DEF Unharmed
  <2>3. b \in Nat
    BY StoreBounds
  <2>4. QED BY <1>2, <2>1, <2>2, <2>3
<1>8. OwnEvents \subseteq Member \X Round /\ \A e \in OwnEvents : e[2] <= b
  BY <1>1, <1>6, <1>7, Zenon DEF ChainInv, OwnEvents, StoreTypeOK, IsLog
<1>9. Event(Self, b) \in Retained(r)
  <2>1. ~OutsideWindow(Event(Self, b), r)
    BY <1>1, <1>3, StoreBounds DEF OutsideWindow, ReceivedIn, Event
  <2>2. QED BY <1>1, <1>2, <1>3, <2>1, OwnRetained, StoreBounds
<1>10. have'[Self] \in Nat /\ b <= have'[Self]
  BY <1>9, TransferredHave, Members, Zenon DEF Event
<1>11. OwnEvents' \subseteq OwnEvents \cup {e \in Retained(r) : e[1] = Self}
  <2>1. eventLog' = [events |-> AppendedRetained(eventLog.events, r), roster |-> RosterAt(r)]
    BY Zenon DEF Reconnect
  <2>2. DOMAIN eventLog'.events = DOMAIN eventLog.events \cup Retained(r)
    BY <2>1, LogMerged, Zenon DEF StoreTypeOK
  <2>3. unlogged' = {}
    BY Zenon DEF Reconnect
  <2>4. QED BY <2>2, <2>3, Zenon DEF OwnEvents
<1>12. \A e \in Retained(r) : e[1] = Self => e[2] \in Round /\ e[2] <= b
  BY <1>3, Zenon DEF Retained
<1>13. stamp[b] >= emitted.timestamp /\ stamp[b] \in Nat
  BY <1>3, <1>6, Zenon DEF ChainInv, StoreTypeOK
<1>14. \A e \in OwnEvents' : e[2] <= have'[Self]
  BY <1>8, <1>10, <1>11, <1>12, StoreBounds
<1>15. \A e \in OwnEvents' : e[2] >= b => stamp[e[2]] >= emitted.timestamp
  <2> SUFFICES ASSUME NEW e \in OwnEvents', e[2] >= b PROVE stamp[e[2]] >= emitted.timestamp
    BY Zenon
  <2>1. e[2] = b
    BY <1>8, <1>11, <1>12, StoreBounds
  <2>2. QED BY <1>13, <2>1, Zenon
<1>16. QED BY <1>1, <1>3, <1>4, <1>6, <1>10, <1>14, <1>15, <1>13, StoreBounds, Zenon DEF ChainInv

\* No step puts the stamp behind the newest own event a peer has.
LEMMA StepChain ==
    ASSUME StoreTypeOK, StoreTypeOK', Stopped, ChainInv, [StoreNext]_storeVars
    PROVE  ChainInv'
<1>1. CASE UNCHANGED storeVars
  BY <1>1, Zenon DEF storeVars, memory, onDisk, peersKnow, ChainInv, Unharmed, OwnEvents, LastReplayed, Replayed
<1>2. ASSUME NEW m \in Member, InsertEvent(m) PROVE ChainInv'
  <2>1. CASE m = Self
    <3>1. ~Unharmed
      BY <1>2, <2>1, Members DEF InsertEvent, ChainInv, StoreTypeOK
    <3>2. mishaps' = mishaps /\ emitted' = emitted
      BY <1>2, Zenon DEF InsertEvent, peersKnow
    <3>3. QED BY <3>1, <3>2, Zenon DEF ChainInv, Unharmed
  <2>2. CASE m # Self
    <3>1. OwnEvents' = OwnEvents
      BY <1>2, <2>2 DEF InsertEvent, OwnEvents, Event, onDisk
    <3>2. have'[Self] = have[Self]
      BY <1>2, <2>2, Members, Zenon DEF InsertEvent, StoreTypeOK
    <3>3. up /\ UNCHANGED <<up, emitted, stamp, last_timestamp>> /\ mishaps' = mishaps
      BY <1>2, Zenon DEF InsertEvent, peersKnow
    <3>4. QED BY <3>1, <3>2, <3>3, ChainFrame, Zenon
  <2>3. QED BY <2>1, <2>2, Zenon
<1>3. ASSUME NEW clock \in Clock, CreateOwn(clock) PROVE ChainInv'
  BY <1>3, ChainCreated, Zenon
<1>4. ASSUME NEW e \in unlogged, LogFreshInsert(e) PROVE ChainInv'
  <2>1. DOMAIN eventLog'.events = DOMAIN eventLog.events \cup {e}
    BY <1>4, LogAppended, Zenon DEF LogFreshInsert, StoreTypeOK
  <2>2. OwnEvents' \subseteq OwnEvents
    BY <1>4, <2>1, Zenon DEF LogFreshInsert, OwnEvents
  <2>3. QED BY <1>4, <2>2, ChainFrame, Zenon DEF LogFreshInsert, peersKnow
<1>5. ASSUME NEW e \in unlogged, SkipLog(e) PROVE ChainInv'
  <2>1. OwnEvents' \subseteq OwnEvents
    BY <1>5, Zenon DEF SkipLog, OwnEvents, onDisk
  <2>2. QED BY <1>5, <2>1, ChainFrame, Zenon DEF SkipLog, peersKnow
<1>6. CASE ProcessFinalizedRounds
  <2>1. DOMAIN eventLog'.events = DOMAIN eventLog.events
    BY <1>6, Zenon DEF ProcessFinalizedRounds, Ordered
  <2>2. OwnEvents' \subseteq OwnEvents
    BY <1>6, <2>1, Zenon DEF ProcessFinalizedRounds, OwnEvents
  <2>3. QED BY <1>6, <2>2, ChainFrame, Zenon DEF ProcessFinalizedRounds, peersKnow
<1>7. ASSUME NEW r \in Round, AcceptSnapshot(r) \/ AcceptFile(r) \/ AcceptPrune(r) \/ ReconnectFile(r)
      PROVE  ChainInv'
  <2>1. OwnEvents' = OwnEvents
    BY <1>7, Zenon DEF AcceptSnapshot, AcceptFile, AcceptPrune, ReconnectFile, OwnEvents
  <2>2. /\ up /\ UNCHANGED <<up, emitted, stamp, last_timestamp>> /\ have'[Self] = have[Self]
        /\ mishaps \subseteq mishaps'
    BY <1>7, Zenon DEF AcceptSnapshot, AcceptFile, AcceptPrune, ReconnectFile, peersKnow
  <2>3. QED BY <2>1, <2>2, ChainFrame, Zenon
<1>8. ASSUME NEW r \in Round, AcceptLog(r) PROVE ChainInv'
  <2>1. DOMAIN eventLog'.events \subseteq DOMAIN eventLog.events
    BY <1>8, Trimmed, Zenon
  <2>2. OwnEvents' \subseteq OwnEvents
    BY <1>8, <2>1, Zenon DEF AcceptLog, OwnEvents
  <2>3. QED BY <1>8, <2>2, ChainFrame, Zenon DEF AcceptLog, peersKnow
<1>9. CASE Crash
  <2>1. /\ ~up' /\ UNCHANGED <<emitted, stamp, eventLog>> /\ unlogged' = {}
        /\ mishaps' = mishaps \cup StopsAmid
    BY <1>9, Zenon DEF Crash, Forgotten, onDisk, peersKnow
  <2>2. emitted.birth > LastReplayed(Self) => "lost" \in mishaps'
    BY <2>1, Zenon DEF StopsAmid
  <2>3. LastReplayed(Self)' = LastReplayed(Self)
    BY <2>1, Zenon DEF LastReplayed, Replayed
  <2>4. LastReplayed(Self) \in 0..MaxBirth /\ emitted.birth \in 0..MaxBirth
    BY LastReplayedOf, Zenon DEF StoreTypeOK
  <2>5. "lost" \notin mishaps' => emitted.birth <= LastReplayed(Self)
    BY <2>2, <2>4, StoreBounds
  <2>6. OwnEvents' \subseteq OwnEvents
    BY <2>1, Zenon DEF OwnEvents
  <2>7. QED BY <2>1, <2>3, <2>5, <2>6, Zenon DEF ChainInv, Unharmed
<1>10. CASE PowerCut
  BY <1>10, Zenon DEF PowerCut, peersKnow, ChainInv, Unharmed
<1>11. CASE Restore
  BY <1>11, ChainRestored, Zenon
<1>12. CASE StartAnew
  BY <1>12, Zenon DEF StartAnew, peersKnow, Stopped, ChainInv, Unharmed
<1>13. ASSUME NEW r \in Round, Reconnect(r) PROVE ChainInv'
  BY <1>13, ChainTransferred, Zenon
<1>14. QED
  BY <1>1, <1>2, <1>3, <1>4, <1>5, <1>6, <1>7, <1>8, <1>9, <1>10, <1>11, <1>12, <1>13, Zenon DEF StoreNext

------------------------------------------------------------------------------
(* The theorems.                                                             *)

StoreInv ==
    StoreTypeOK /\ Stopped /\ Behind /\ JoinInv /\ SnapInv /\ SnapshotPresent /\ ChainInv

\* A new node has nothing on disk.
LEMMA InitInv == StoreInit => StoreInv
<1> SUFFICES ASSUME StoreInit PROVE StoreInv
  BY Zenon
<1>1. StoreTypeOK
  BY InitType, Zenon
<1>2. /\ up /\ processed = 0 /\ roster = Founders /\ files = {} /\ unlogged = {} /\ have[Self] = 0
      /\ emitted.birth = 0 /\ emitted.timestamp = 0 /\ last_timestamp = 0 /\ eventLog.events = <<>>
      /\ \A r \in Round : accepting[r] = "no"
  BY Members, Zenon DEF StoreInit
<1>3. Largest(files) = 0
  BY <1>2, LargestOf, Zenon
<1>4. Stopped /\ Behind /\ JoinInv
  BY <1>2, <1>3, Members, StoreBounds DEF Stopped, Behind, JoinInv
<1>5. SnapInv /\ SnapshotPresent
  BY <1>2, Zenon DEF SnapInv, SnapshotPresent
<1>6. OwnEvents = {}
  BY <1>2 DEF OwnEvents
<1>7. ChainInv
  BY <1>2, <1>6, StoreBounds DEF ChainInv
<1>8. QED BY <1>1, <1>4, <1>5, <1>7, Zenon DEF StoreInv

\* Every step keeps the invariants.
LEMMA StepInv == ASSUME StoreInv, [StoreNext]_storeVars PROVE StoreInv'
<1>1. StoreTypeOK'
  BY StepType, Zenon DEF StoreInv
<1>2. QED BY <1>1, StepStopped, StepBehind, StepJoin, StepSnap, StepChain, Zenon DEF StoreInv

\* The invariants hold in every state.
THEOREM StoresKeep == StoreSpec => []StoreInv
<1>1. QED BY InitInv, StepInv, PTL DEF StoreSpec

\* process_finalized_rounds, from_checkpoint and apply_checkpoint: an operation
\* that was received takes effect, for any number of stops and reconnects in any
\* order, unless one begins from the two checkpoints that JoinSurvives names.
THEOREM JoinsSurvive == StoreSpec => []JoinSurvives
<1>1. StoreInv => JoinSurvives
  BY Members, Zenon DEF StoreInv, JoinInv, JoinSurvives
<1>2. QED BY <1>1, StoresKeep, PTL

\* accept_checkpoint and apply_checkpoint: the last checkpoint file has its
\* snapshot at whatever write the process or the power stops, with any number of
\* checkpoints being accepted at a time and for every retention of snapshots.
THEOREM SnapshotsPresent == StoreSpec => []SnapshotPresent
<1>1. StoreInv => SnapshotPresent
  BY Zenon DEF StoreInv
<1>2. QED BY <1>1, StoresKeep, PTL

\* next_timestamp, set_watermark and replay_response: an own event is above the
\* last that a peer has, and later, whatever the wall clock says.
THEOREM OwnChainsGrow == StoreSpec => OwnChainGrows
<1>1. ASSUME StoreInv, [StoreNext]_storeVars
      PROVE  [(\E clock \in Clock : CreateOwn(clock)) /\ mishaps \cap {"lost", "young", "power"} = {}
                 => have'[Self] > emitted.birth /\ last_timestamp' > emitted.timestamp]_storeVars
  BY <1>1, ChainCreated, Zenon DEF StoreInv, Unharmed
<1>2. QED BY <1>1, StoresKeep, PTL DEF StoreSpec, OwnChainGrows

------------------------------------------------------------------------------
(* The next start.                                                          *)

\* Every event of the log and of the graph is of a member of its birth round and
\* of the rosters in the log, which are those of the registry.
Calm == mishaps \subseteq {"pending", "reconnected"}

Known == DOMAIN eventLog.events \cup unlogged

RosterInv ==
    /\ have[New] > OpRound
    /\ Calm =>
          /\ up => eventLog.roster = roster
          /\ \A e \in Known : e[1] \in RosterAt(e[2]) /\ e[1] \in eventLog.roster

\* The window of round r and the own event of that round are in the log.
WindowLogged(r) ==
    /\ \A e \in Window(r) : e \in DOMAIN eventLog.events /\ eventLog.events[e] = ReceivedIn(e)
    /\ Event(Self, r) \in DOMAIN eventLog.events

\* So they are for the checkpoints that may become the last one on disk, l.
PendingLogged(l) ==
    \A r \in Round : r > l /\ accepting[r] \in {"signed", "file", "reconnect"} => WindowLogged(r)

\* From l on, the own events of the rounds that the log has ordered are in it.
OrderedLogged(l) ==
    \A e \in DOMAIN eventLog.events : \A j \in Round :
        j >= l /\ j <= eventLog.events[e] => Event(Self, j) \in DOMAIN eventLog.events

\* Of the graph, what later windows may need is in the log or on its way to it.
GraphKnown ==
    \A e \in Member \X Round :
        e[1] \in RosterAt(e[2]) /\ e[2] <= have[e[1]] /\ ~OutsideWindow(e, processed) => e \in Known

\* So are the own events from l on.
OwnKnown(l) == \A j \in Round : j >= l /\ j <= have[Self] => Event(Self, j) \in Known

\* The graph of a stopped process.
EmptyGraph == \A m \in Member : have[m] = IF m = New THEN OpRound + 1 ELSE 0

LogInv ==
    Calm =>
        /\ files # {} => WindowLogged(Largest(files))
        /\ PendingLogged(Largest(files)) /\ OrderedLogged(Largest(files))
        /\ up => GraphKnown /\ OwnKnown(Largest(files))
        /\ ~up => Gaps(Largest(files)) = {} /\ EmptyGraph

------------------------------------------------------------------------------
(* The rosters.                                                              *)

\* Steps that leave the rosters alone and no new event.
LEMMA RosterFrame ==
    ASSUME RosterInv, up, up', roster' = roster, eventLog'.roster = eventLog.roster,
           mishaps \subseteq mishaps', Known' \subseteq Known, have'[New] = have[New]
    PROVE  RosterInv'
BY Zenon DEF RosterInv, Calm

\* Steps after which the disk is not relied on.
LEMMA RosterHarmed ==
    ASSUME have'[New] > OpRound, ~Calm'
    PROVE  RosterInv'
BY Zenon DEF RosterInv

\* An event is born into the roster of its round.
LEMMA RosterBorn ==
    ASSUME StoreTypeOK, RosterInv, up, NEW m \in Member, m \in roster, have[m] + 1 \in Round,
           have' = [have EXCEPT ![m] = have[m] + 1], unlogged' = unlogged \cup {Event(m, have[m] + 1)},
           UNCHANGED <<up, roster, eventLog, mishaps>>
    PROVE  RosterInv'
<1>1. have[m] \in Nat /\ have[New] \in Nat /\ have'[m] = have[m] + 1
  BY Members, Zenon DEF StoreTypeOK
<1>2. have'[New] > OpRound
  BY <1>1, Members, StoreBounds DEF RosterInv, StoreTypeOK
<1>3. m \in RosterAt(have[m] + 1)
  <2>1. CASE m = New
    BY <1>1, <2>1, Rosters, StoreBounds DEF RosterInv
  <2>2. CASE m # New
    BY <1>1, <2>2, Zenon DEF RosterAt, Member
  <2>3. QED BY <2>1, <2>2, Zenon
<1>4. Known' = Known \cup {Event(m, have[m] + 1)}
  BY Zenon DEF Known
<1>5. CASE Calm
  <2>1. m \in eventLog.roster
    BY <1>5, Zenon DEF RosterInv
  <2>2. \A e \in Known' : e[1] \in RosterAt(e[2]) /\ e[1] \in eventLog.roster
    BY <1>3, <1>4, <1>5, <2>1 DEF RosterInv, Event
  <2>3. QED BY <1>2, <1>5, <2>2, Zenon DEF RosterInv
<1>6. CASE ~Calm
  BY <1>2, <1>6, Zenon DEF RosterInv, Calm
<1>7. QED BY <1>5, <1>6, Zenon

\* process_finalized_rounds extends the rosters of the log with the registry.
LEMMA RosterProcessed ==
    ASSUME StoreTypeOK, RosterInv, ProcessFinalizedRounds
    PROVE  RosterInv'
<1>1. /\ up /\ up' /\ mishaps \subseteq mishaps' /\ have' = have /\ unlogged' = unlogged
      /\ DOMAIN eventLog'.events = DOMAIN eventLog.events
  BY Zenon DEF ProcessFinalizedRounds, Ordered
<1>2. \/ roster' = Member /\ eventLog'.roster = Member
      \/ roster' = roster /\ eventLog'.roster = eventLog.roster
  BY Zenon DEF ProcessFinalizedRounds
<1>3. Known' = Known /\ Known \subseteq Member \X Round
  BY <1>1, Zenon DEF Known, StoreTypeOK, IsLog
<1>4. CASE roster' = Member /\ eventLog'.roster = Member
  BY <1>1, <1>3, <1>4, Zenon DEF RosterInv, Calm
<1>5. CASE roster' = roster /\ eventLog'.roster = eventLog.roster
  BY <1>1, <1>3, <1>5, RosterFrame, Zenon
<1>6. QED BY <1>2, <1>4, <1>5, Zenon

\* A restart begins with the roster of the checkpoint, which knows every event.
LEMMA RosterRestored ==
    ASSUME StoreTypeOK, Stopped, RosterInv, Restore
    PROVE  RosterInv'
<1>1. PICK r \in 0..MaxBirth : r = Largest(files)
  BY LargestOf, Zenon DEF StoreTypeOK
<1>2. /\ ~up /\ up' /\ mishaps' = mishaps /\ unlogged' = unlogged /\ roster' = RosterAt(r)
      /\ have' = [m \in Member |-> Max({have[m], LastReplayed(m)})]
      /\ eventLog' = SetRosterHistory(eventLog, RosterAt(r))
      /\ SignedByRoster(r)
  BY <1>1, Zenon DEF Restore, FromCheckpoint, Restorable
<1>3. eventLog'.roster = RosterAt(r) /\ eventLog'.events = eventLog.events
  <2>1. RosterAt(r) \in {Founders, Member}
    <3>1. r \in Int
      BY StoreBounds
    <3>2. QED BY <3>1, Rosters, Zenon
  <2>2. IsLog(eventLog)
    BY Zenon DEF StoreTypeOK
  <2>3. QED BY <1>2, <2>1, <2>2, LogRosterSet, Zenon
<1>4. unlogged = {}
  BY <1>2, Zenon DEF Stopped
<1>5. have'[New] > OpRound
  <2>1. have[New] \in Nat /\ LastReplayed(New) \in Nat /\ have[New] > OpRound
    BY Members, LastReplayedOf DEF StoreTypeOK, RosterInv
  <2>2. have'[New] = Max({have[New], LastReplayed(New)})
    BY <1>2, Members, Zenon
  <2>3. have'[New] \in Nat /\ have'[New] >= have[New]
    BY <2>1, <2>2, MaxPair, Zenon
  <2>4. QED BY <2>1, <2>3, StoreBounds
<1>6. Known' = Known /\ \A e \in Known : e[1] \in RosterAt(r)
  BY <1>2, <1>3, <1>4, Zenon DEF Known, SignedByRoster
<1>7. QED BY <1>2, <1>3, <1>5, <1>6, Zenon DEF RosterInv, Calm

\* A transfer extends the rosters: those of the graph are of an earlier round.
LEMMA RosterTransferred ==
    ASSUME StoreTypeOK, JoinInv, RosterInv, NEW r \in Round, Reconnect(r)
    PROVE  RosterInv'
<1>1. /\ up /\ up' /\ mishaps \subseteq mishaps' /\ unlogged' = {} /\ roster' = RosterAt(r)
      /\ r > processed
      /\ eventLog' = [events |-> AppendedRetained(eventLog.events, r), roster |-> RosterAt(r)]
  BY Zenon DEF Reconnect
<1>2. eventLog'.roster = RosterAt(r) /\ Known' = DOMAIN eventLog.events \cup Retained(r)
  BY <1>1, LogMerged, Zenon DEF StoreTypeOK, Known
<1>3. have'[New] > OpRound
  BY TransferredHave, Zenon
<1>4. \A e \in Retained(r) : e[1] \in RosterAt(r) /\ e[1] \in RosterAt(e[2])
  BY Zenon DEF Retained
<1>5. roster \subseteq RosterAt(r)
  BY <1>1, Members, Rosters, StoreBounds DEF JoinInv, StoreTypeOK, RosterAt
<1>6. ASSUME Calm' PROVE \A e \in Known' : e[1] \in RosterAt(e[2]) /\ e[1] \in RosterAt(r)
  <2>1. Calm
    BY <1>1, <1>6, Zenon DEF Calm
  <2>2. \A e \in DOMAIN eventLog.events : e[1] \in RosterAt(e[2]) /\ e[1] \in roster
    BY <1>1, <2>1, Zenon DEF RosterInv, Known
  <2>3. QED BY <1>2, <1>4, <1>5, <2>2, Zenon
<1>7. QED BY <1>1, <1>2, <1>3, <1>6, Zenon DEF RosterInv

\* Every step keeps the rosters.
LEMMA StepRoster ==
    ASSUME StoreInv, RosterInv, [StoreNext]_storeVars
    PROVE  RosterInv'
<1>0. StoreTypeOK /\ Stopped /\ JoinInv
  BY Zenon DEF StoreInv
<1>1. CASE UNCHANGED storeVars
  BY <1>1, Zenon DEF storeVars, memory, onDisk, peersKnow, RosterInv, Calm, Known
<1>2. ASSUME NEW m \in Member, InsertEvent(m) PROVE RosterInv'
  <2>1. have[m] + 1 \in Round
    BY <1>0, <1>2, BirthType DEF InsertEvent, StoreTypeOK
  <2>2. QED BY <1>0, <1>2, <2>1, RosterBorn, Zenon DEF InsertEvent, onDisk
<1>3. ASSUME NEW clock \in Clock, CreateOwn(clock) PROVE RosterInv'
  <2>1. Self \in Member /\ Self \in roster /\ have[Self] + 1 \in Round
    BY <1>0, <1>3, BirthType, Members DEF CreateOwn, StoreTypeOK
  <2>2. QED BY <1>0, <1>3, <2>1, RosterBorn, Zenon DEF CreateOwn, onDisk
<1>4. ASSUME NEW e \in unlogged, LogFreshInsert(e) PROVE RosterInv'
  <2>1. eventLog'.roster = eventLog.roster /\ DOMAIN eventLog'.events = DOMAIN eventLog.events \cup {e}
    BY <1>0, <1>4, LogAppended, Zenon DEF LogFreshInsert, StoreTypeOK
  <2>2. Known' \subseteq Known
    BY <1>4, <2>1, Zenon DEF LogFreshInsert, Known
  <2>3. QED BY <1>4, <2>1, <2>2, RosterFrame, Zenon DEF LogFreshInsert
<1>5. ASSUME NEW e \in unlogged, SkipLog(e) PROVE RosterInv'
  <2>1. Known' \subseteq Known
    BY <1>5, Zenon DEF SkipLog, Known, onDisk
  <2>2. QED BY <1>5, <2>1, RosterFrame, Zenon DEF SkipLog, onDisk
<1>6. CASE ProcessFinalizedRounds
  BY <1>0, <1>6, RosterProcessed, Zenon
<1>7. ASSUME NEW r \in Round, AcceptSnapshot(r) \/ AcceptFile(r) \/ AcceptPrune(r) \/ ReconnectFile(r)
      PROVE  RosterInv'
  <2>1. up /\ UNCHANGED <<up, have, roster, unlogged, eventLog>> /\ mishaps \subseteq mishaps'
    BY <1>7, Zenon DEF AcceptSnapshot, AcceptFile, AcceptPrune, ReconnectFile
  <2>2. QED BY <2>1, RosterFrame, Zenon DEF Known
<1>8. ASSUME NEW r \in Round, AcceptLog(r) PROVE RosterInv'
  <2>1. up /\ UNCHANGED <<up, have, roster, unlogged, mishaps>>
    BY <1>8, Zenon DEF AcceptLog
  <2>2. eventLog'.roster = eventLog.roster /\ DOMAIN eventLog'.events \subseteq DOMAIN eventLog.events
    BY <1>0, <1>8, Trimmed, Zenon
  <2>3. QED BY <2>1, <2>2, RosterFrame, Zenon DEF Known
<1>9. ASSUME Forgotten PROVE have'[New] > OpRound
  BY <1>9, Members, StoreBounds DEF Forgotten
<1>10. CASE Crash
  <2>1. ~up' /\ unlogged' = {} /\ eventLog' = eventLog /\ mishaps \subseteq mishaps'
    BY <1>10, Zenon DEF Crash, Forgotten, onDisk
  <2>2. Known' \subseteq Known
    BY <2>1, Zenon DEF Known
  <2>3. have'[New] > OpRound
    BY <1>9, <1>10, Zenon DEF Crash
  <2>4. QED BY <2>1, <2>2, <2>3, Zenon DEF RosterInv, Calm
<1>11. CASE PowerCut
  BY <1>9, <1>11, RosterHarmed, Zenon DEF PowerCut, Calm
<1>12. CASE Restore
  BY <1>0, <1>12, RosterRestored, Zenon
<1>13. CASE StartAnew
  <2>1. "young" \in mishaps' /\ have' = have
    BY <1>0, <1>13, Zenon DEF StartAnew, Stopped, memory
  <2>2. QED BY <2>1, RosterHarmed, Zenon DEF RosterInv, Calm
<1>14. ASSUME NEW r \in Round, Reconnect(r) PROVE RosterInv'
  BY <1>0, <1>14, RosterTransferred, Zenon
<1>15. QED
  BY <1>1, <1>2, <1>3, <1>4, <1>5, <1>6, <1>7, <1>8, <1>10, <1>11, <1>12, <1>13, <1>14, Zenon DEF StoreNext

------------------------------------------------------------------------------
(* The windows.                                                              *)

\* Later windows begin later.
LEMMA WindowMoves ==
    ASSUME NEW e \in Member \X Round, NEW r \in Int, NEW s \in Int, s <= r, ~OutsideWindow(e, r)
    PROVE  ~OutsideWindow(e, s)
BY StoreBounds DEF OutsideWindow, ReceivedIn

\* An event of round s is not outside the window of s, nor of an earlier round.
LEMMA Inside ==
    ASSUME NEW m, NEW s \in Round, NEW r \in Int, r <= s
    PROVE  ~OutsideWindow(Event(m, s), r)
BY StoreBounds DEF OutsideWindow, ReceivedIn, Event

\* The events of a window.
LEMMA WindowOf ==
    ASSUME NEW r \in Round, NEW e \in Window(r)
    PROVE  /\ e \in Member \X Round /\ e[1] \in RosterAt(e[2]) /\ e[2] < r /\ ReceivedIn(e) <= r
           /\ ~OutsideWindow(e, r) /\ e = Event(e[1], e[2])
BY StoreBounds DEF Window, ReceivedIn, OutsideWindow, Event

\* The log keeps all but what is outside the window of round r.
LogGrows(r) ==
    \A e \in DOMAIN eventLog.events : ~OutsideWindow(e, r)
        => e \in DOMAIN eventLog'.events /\ eventLog'.events[e] >= eventLog.events[e]

\* What is logged of a window stays logged.
LEMMA WindowKept ==
    ASSUME StoreTypeOK, StoreTypeOK', NEW r \in Round, WindowLogged(r), NEW s \in Int, s <= r, LogGrows(s)
    PROVE  WindowLogged(r)'
<1>1. ASSUME NEW e \in Window(r)
      PROVE  e \in DOMAIN eventLog'.events /\ eventLog'.events[e] = ReceivedIn(e)
  <2>1. e \in Member \X Round /\ ~OutsideWindow(e, s) /\ ReceivedIn(e) \in Nat \ {0}
    BY WindowOf, WindowMoves, StoreBounds DEF ReceivedIn
  <2>2. e \in DOMAIN eventLog.events /\ eventLog.events[e] = ReceivedIn(e)
    BY Zenon DEF WindowLogged
  <2>3. e \in DOMAIN eventLog'.events /\ eventLog'.events[e] >= ReceivedIn(e)
    BY <2>1, <2>2, Zenon DEF LogGrows
  <2>4. eventLog'.events[e] \in {0, ReceivedIn(e)}
    BY <2>3, Zenon DEF StoreTypeOK, IsLog
  <2>5. QED BY <2>1, <2>3, <2>4
<1>2. Event(Self, r) \in DOMAIN eventLog'.events
  BY Inside, Zenon DEF WindowLogged, LogGrows
<1>3. QED BY <1>1, <1>2, Zenon DEF WindowLogged, Window

\* Steps that log events without their order, and drop those that are outside the
\* window of a round s up to the last checkpoint on disk.
LEMMA LogFrame ==
    ASSUME StoreTypeOK, StoreTypeOK', LogInv, up, up', mishaps \subseteq mishaps',
           UNCHANGED <<have, processed, files>>, NEW s \in Int, s <= processed, LogGrows(s),
           Calm => s <= Largest(files),
           \A r \in Round : accepting'[r] \in {"signed", "file", "reconnect"}
                               => accepting[r] \in {"signed", "file", "reconnect"},
           \A e \in DOMAIN eventLog'.events :
               eventLog'.events[e] = 0 \/ (e \in DOMAIN eventLog.events
                                           /\ eventLog'.events[e] = eventLog.events[e]),
           \A e \in Known : ~OutsideWindow(e, s) => e \in Known'
    PROVE  LogInv'
<1> SUFFICES ASSUME Calm' PROVE LogInv'
  BY Zenon DEF LogInv
<1>1. Calm
  BY Zenon DEF Calm
<1>2. PICK l \in 0..MaxBirth : l = Largest(files) /\ (files # {} => l \in Round)
  BY LargestOf, StoreBounds, Zenon DEF StoreTypeOK
<1>3. Largest(files') = l /\ s <= l
  BY <1>1, <1>2, Zenon
<1>4. /\ files # {} => WindowLogged(l)
      /\ PendingLogged(l) /\ OrderedLogged(l) /\ GraphKnown /\ OwnKnown(l)
  BY <1>1, <1>2, Zenon DEF LogInv
<1>5. files # {} => WindowLogged(l)'
  BY <1>2, <1>3, <1>4, WindowKept, Zenon
<1>6. PendingLogged(l)'
  <2> SUFFICES ASSUME NEW r \in Round, r > l, accepting'[r] \in {"signed", "file", "reconnect"}
               PROVE  WindowLogged(r)'
    BY Zenon DEF PendingLogged
  <2>1. WindowLogged(r)
    BY <1>4, Zenon DEF PendingLogged
  <2>2. s <= r
    BY <1>3, StoreBounds
  <2>3. QED BY <2>1, <2>2, WindowKept, Zenon
<1>7. OrderedLogged(l)'
  <2> SUFFICES ASSUME NEW e \in DOMAIN eventLog'.events, NEW j \in Round, j >= l,
                      j <= eventLog'.events[e]
               PROVE  Event(Self, j) \in DOMAIN eventLog'.events
    BY Zenon DEF OrderedLogged
  <2>1. e \in DOMAIN eventLog.events /\ eventLog'.events[e] = eventLog.events[e]
    BY StoreBounds
  <2>2. Event(Self, j) \in DOMAIN eventLog.events
    BY <1>4, <2>1, Zenon DEF OrderedLogged
  <2>3. s <= j
    BY <1>3, StoreBounds
  <2>4. QED BY <2>2, <2>3, Inside, Zenon DEF LogGrows
<1>8. GraphKnown'
  <2> SUFFICES ASSUME NEW e \in Member \X Round, e[1] \in RosterAt(e[2]), e[2] <= have[e[1]],
                      ~OutsideWindow(e, processed)
               PROVE  e \in Known'
    BY Zenon DEF GraphKnown
  <2>1. e \in Known
    BY <1>4, Zenon DEF GraphKnown
  <2>2. ~OutsideWindow(e, s)
    BY WindowMoves, StoreBounds DEF StoreTypeOK
  <2>3. QED BY <2>1, <2>2, Zenon
<1>9. OwnKnown(l)'
  <2> SUFFICES ASSUME NEW j \in Round, j >= l, j <= have[Self] PROVE Event(Self, j) \in Known'
    BY Zenon DEF OwnKnown
  <2>1. Event(Self, j) \in Known
    BY <1>4, Zenon DEF OwnKnown
  <2>2. s <= j
    BY <1>3, StoreBounds
  <2>3. QED BY <2>1, <2>2, Inside, Zenon
<1>10. QED BY <1>3, <1>5, <1>6, <1>7, <1>8, <1>9, Zenon DEF LogInv

\* A new event is on its way to the log.
LEMMA LogBorn ==
    ASSUME StoreTypeOK, LogInv, up, up', UNCHANGED <<processed, files, accepting, eventLog, mishaps>>,
           NEW m \in Member, have' = [have EXCEPT ![m] = have[m] + 1],
           unlogged' = unlogged \cup {Event(m, have[m] + 1)}
    PROVE  LogInv'
<1>1. Known' = Known \cup {Event(m, have[m] + 1)}
  BY Zenon DEF Known
<1>2. \A n \in Member : have[n] \in Nat /\ have'[n] = IF n = m THEN have[m] + 1 ELSE have[n]
  BY Zenon DEF StoreTypeOK
<1>3. ASSUME GraphKnown PROVE GraphKnown'
  <2> SUFFICES ASSUME NEW e \in Member \X Round, e[1] \in RosterAt(e[2]), e[2] <= have'[e[1]],
                      ~OutsideWindow(e, processed)
               PROVE  e \in Known'
    BY Zenon DEF GraphKnown
  <2>1. e[2] <= have[e[1]] \/ (e[1] = m /\ e[2] = have[m] + 1)
    BY <1>2, StoreBounds
  <2>2. e = <<e[1], e[2]>>
    OBVIOUS
  <2>3. QED BY <1>1, <1>3, <2>1, <2>2, Zenon DEF GraphKnown, Event
<1>4. ASSUME NEW l, OwnKnown(l) PROVE OwnKnown(l)'
  <2> SUFFICES ASSUME NEW j \in Round, j >= l, j <= have'[Self] PROVE Event(Self, j) \in Known'
    BY Zenon DEF OwnKnown
  <2>1. j <= have[Self] \/ (Self = m /\ j = have[m] + 1)
    BY <1>2, Members, StoreBounds
  <2>2. QED BY <1>1, <1>4, <2>1, Zenon DEF OwnKnown
<1>5. Largest(files)' = Largest(files)
  BY Zenon DEF Largest
<1>6. \A r : WindowLogged(r)' <=> WindowLogged(r)
  BY Zenon DEF WindowLogged, Window
<1>7. \A l : (PendingLogged(l)' <=> PendingLogged(l)) /\ (OrderedLogged(l)' <=> OrderedLogged(l))
  BY <1>6, Zenon DEF PendingLogged, OrderedLogged
<1>8. QED BY <1>3, <1>4, <1>5, <1>6, <1>7, Zenon DEF LogInv, Calm

\* The checkpoint file of a round whose window is logged is written.
LEMMA LogFile ==
    ASSUME StoreTypeOK, LogInv, up, up', mishaps \subseteq mishaps', NEW r \in Round,
           UNCHANGED <<have, unlogged, processed, eventLog>>, files' = PersistCheckpoint(r),
           accepting[r] \in {"file", "reconnect"},
           \A s \in Round : accepting'[s] \in {"signed", "file", "reconnect"}
                               => accepting'[s] = accepting[s]
    PROVE  LogInv'
<1> SUFFICES ASSUME Calm' PROVE LogInv'
  BY Zenon DEF LogInv
<1>1. Calm
  BY Zenon DEF Calm
<1>2. PICK l \in 0..MaxBirth : l = Largest(files) /\ (files = {} <=> l = 0)
  BY LargestOf, Zenon DEF StoreTypeOK
<1>3. PICK k \in Round : k = Largest(files') /\ k = IF r > l THEN r ELSE l
  <2>1. Largest(PersistCheckpoint(r)) = IF r > l THEN r ELSE l
    BY <1>2, Persisted, Zenon DEF StoreTypeOK
  <2>2. (IF r > l THEN r ELSE l) \in Round
    BY <1>2, StoreBounds
  <2>3. QED BY <2>1, <2>2, Zenon
<1>4. l <= k /\ ((k = r /\ r > l) \/ (k = l /\ l # 0))
  BY <1>3, StoreBounds
<1>5. /\ files # {} => WindowLogged(l)
      /\ PendingLogged(l) /\ OrderedLogged(l) /\ GraphKnown /\ OwnKnown(l)
  BY <1>1, <1>2, Zenon DEF LogInv
<1>6. \A s : WindowLogged(s)' <=> WindowLogged(s)
  BY Zenon DEF WindowLogged, Window
<1>7. WindowLogged(k)'
  BY <1>2, <1>4, <1>5, <1>6, Zenon DEF PendingLogged
<1>8. PendingLogged(k)'
  <2> SUFFICES ASSUME NEW s \in Round, s > k, accepting'[s] \in {"signed", "file", "reconnect"}
               PROVE  WindowLogged(s)'
    BY Zenon DEF PendingLogged
  <2>1. s > l
    BY <1>4, StoreBounds
  <2>2. QED BY <1>5, <1>6, <2>1, Zenon DEF PendingLogged
<1>9. OrderedLogged(k)'
  <2>1. \A j \in Round : j >= k => j >= l
    BY <1>4, StoreBounds
  <2>2. QED BY <1>5, <2>1, Zenon DEF OrderedLogged
<1>10. GraphKnown' /\ OwnKnown(k)'
  <2>1. \A j \in Round : j >= k => j >= l
    BY <1>4, StoreBounds
  <2>2. QED BY <1>5, <2>1, Zenon DEF GraphKnown, OwnKnown, Known
<1>11. QED BY <1>3, <1>7, <1>8, <1>9, <1>10, Zenon DEF LogInv

\* process_finalized_rounds, with no event of the decided rounds on its way to
\* the log: it orders the windows of the rounds that it decides.
LEMMA LogProcessed ==
    ASSUME StoreTypeOK, StoreTypeOK', Behind, LogInv, ProcessFinalizedRounds
    PROVE  LogInv'
<1> SUFFICES ASSUME Calm' PROVE LogInv'
  BY Zenon DEF LogInv
<1>1. PICK d \in 0..MaxBirth : d = Decided
  BY DecidedType, Zenon
<1>2. \A s \in Round : s <= d => \A m \in RosterAt(s) : have[m] > s
  BY <1>1, DecidedType, StoreBounds
<1>3. /\ up /\ up' /\ UNCHANGED <<have, unlogged, files>> /\ processed' = d /\ d > processed
      /\ mishaps \subseteq mishaps'
      /\ \A r \in Round : accepting'[r] = IF r \in processed + 1..d THEN "signed" ELSE accepting[r]
  BY <1>1, Zenon DEF ProcessFinalizedRounds
<1>4. \A e \in unlogged : ~(e[2] <= d + 1)
  BY <1>1, Zenon DEF ProcessFinalizedRounds, Calm
<1>5. PICK R \in {Founders, Member} : eventLog' = [events |-> Ordered(eventLog.events, d), roster |-> R]
  BY <1>1, Zenon DEF ProcessFinalizedRounds, StoreTypeOK, IsLog
<1>6. /\ DOMAIN eventLog'.events = DOMAIN eventLog.events
      /\ \A e \in DOMAIN eventLog.events :
            /\ ReceivedIn(e) <= d => eventLog'.events[e] = ReceivedIn(e)
            /\ eventLog'.events[e] # eventLog.events[e] => eventLog'.events[e] <= d
  BY <1>5, LogOrdered DEF StoreTypeOK
<1>7. Calm /\ Known' = Known
  BY <1>3, <1>6, Zenon DEF Calm, Known
<1>8. PICK l \in 0..MaxBirth : l = Largest(files) /\ (files # {} => l \in Round)
  BY LargestOf, StoreBounds, Zenon DEF StoreTypeOK
<1>9. Largest(files') = l /\ l <= processed /\ processed \in 0..MaxBirth
  BY <1>3, <1>8, Zenon DEF Behind, StoreTypeOK
<1>10. /\ files # {} => WindowLogged(l)
       /\ PendingLogged(l) /\ OrderedLogged(l) /\ GraphKnown /\ OwnKnown(l)
  BY <1>3, <1>7, <1>8, Zenon DEF LogInv
<1>11. LogGrows(0)
  <2> SUFFICES ASSUME NEW e \in DOMAIN eventLog.events PROVE eventLog'.events[e] >= eventLog.events[e]
    BY <1>6, Zenon DEF LogGrows
  <2>1. /\ eventLog.events[e] \in {0, ReceivedIn(e)} \cap 0..MaxBirth
        /\ eventLog'.events[e] \in {0, ReceivedIn(e)} \cap 0..MaxBirth
    BY <1>6, Zenon DEF StoreTypeOK, IsLog
  <2>2. CASE ReceivedIn(e) <= d
    BY <1>6, <2>1, <2>2
  <2>3. CASE ~(ReceivedIn(e) <= d)
    <3>1. eventLog'.events[e] = eventLog.events[e] \/ eventLog'.events[e] <= d
      BY <1>6, Zenon
    <3>2. QED BY <1>5, <2>1, <2>3, <3>1 DEF Ordered
  <2>4. QED BY <2>2, <2>3, Zenon
<1>12. ASSUME NEW j \in Round, j >= l, j <= d PROVE Event(Self, j) \in DOMAIN eventLog.events
  <2>1. have[Self] > j /\ have[Self] \in Nat
    BY <1>2, <1>12, Members, Rosters, StoreBounds DEF StoreTypeOK
  <2>2. Event(Self, j) \in Known
    BY <1>10, <1>12, <2>1, StoreBounds DEF OwnKnown
  <2>3. Event(Self, j) \notin unlogged
    BY <1>4, <1>12, StoreBounds DEF Event
  <2>4. QED BY <2>2, <2>3, Zenon DEF Known
<1>13. ASSUME NEW r \in Round, r \in processed + 1..d PROVE WindowLogged(r)'
  <2>1. ASSUME NEW e \in Window(r)
        PROVE  e \in DOMAIN eventLog'.events /\ eventLog'.events[e] = ReceivedIn(e)
    <3>1. /\ e \in Member \X Round /\ e[1] \in RosterAt(e[2]) /\ e[2] < r /\ ReceivedIn(e) <= r
          /\ ~OutsideWindow(e, r)
      BY WindowOf, Zenon
    <3>2. e[2] <= d /\ ReceivedIn(e) <= d /\ ~OutsideWindow(e, processed)
      BY <1>9, <1>13, <3>1, WindowMoves, StoreBounds DEF ReceivedIn
    <3>3. e[2] <= have[e[1]]
      <4>1. have[e[1]] > e[2] /\ have[e[1]] \in Nat
        BY <1>2, <3>1, <3>2, Zenon DEF StoreTypeOK
      <4>2. QED BY <3>1, <4>1, StoreBounds
    <3>4. e \in Known
      BY <1>10, <3>1, <3>2, <3>3, Zenon DEF GraphKnown
    <3>5. e \notin unlogged
      BY <1>4, <3>1, <3>2, StoreBounds
    <3>6. QED BY <1>6, <3>2, <3>4, <3>5, Zenon DEF Known
  <2>2. Event(Self, r) \in DOMAIN eventLog'.events
    BY <1>6, <1>9, <1>12, <1>13
  <2>3. QED BY <2>1, <2>2, Zenon DEF WindowLogged, Window
<1>14. files # {} => WindowLogged(l)'
  BY <1>8, <1>10, <1>11, WindowKept, StoreBounds
<1>15. PendingLogged(l)'
  <2> SUFFICES ASSUME NEW r \in Round, r > l, accepting'[r] \in {"signed", "file", "reconnect"}
               PROVE  WindowLogged(r)'
    BY Zenon DEF PendingLogged
  <2>1. CASE r \in processed + 1..d
    BY <1>13, <2>1, Zenon
  <2>2. CASE r \notin processed + 1..d
    <3>1. WindowLogged(r)
      BY <1>3, <1>10, <2>2, Zenon DEF PendingLogged
    <3>2. QED BY <1>11, <3>1, WindowKept, StoreBounds
  <2>3. QED BY <2>1, <2>2, Zenon
<1>16. OrderedLogged(l)'
  <2> SUFFICES ASSUME NEW e \in DOMAIN eventLog'.events, NEW j \in Round, j >= l,
                      j <= eventLog'.events[e]
               PROVE  Event(Self, j) \in DOMAIN eventLog'.events
    BY Zenon DEF OrderedLogged
  <2>1. CASE eventLog'.events[e] = eventLog.events[e]
    BY <1>6, <1>10, <2>1, Zenon DEF OrderedLogged
  <2>2. CASE eventLog'.events[e] # eventLog.events[e]
    <3>1. eventLog'.events[e] <= d /\ eventLog'.events[e] \in 0..MaxBirth
      BY <1>6, <2>2, Zenon DEF StoreTypeOK, IsLog
    <3>2. j <= d
      BY <3>1, StoreBounds
    <3>3. QED BY <1>6, <1>12, <3>2, Zenon
  <2>3. QED BY <2>1, <2>2, Zenon
<1>17. GraphKnown'
  <2> SUFFICES ASSUME NEW e \in Member \X Round, e[1] \in RosterAt(e[2]), e[2] <= have[e[1]],
                      ~OutsideWindow(e, d)
               PROVE  e \in Known
    BY <1>3, <1>7, Zenon DEF GraphKnown
  <2>1. ~OutsideWindow(e, processed)
    BY <1>3, <1>9, WindowMoves, StoreBounds
  <2>2. QED BY <1>10, <2>1, Zenon DEF GraphKnown
<1>18. OwnKnown(l)'
  BY <1>3, <1>7, <1>10, Zenon DEF OwnKnown
<1>19. QED BY <1>3, <1>9, <1>14, <1>15, <1>16, <1>17, <1>18, Zenon DEF LogInv

\* A transfer brings the window of its round, and the own events up to the last
\* that a peer has, which is the last in the graph.
LEMMA LogTransferred ==
    ASSUME StoreTypeOK, StoreTypeOK', ChainInv, LogInv, NEW r \in Round, Reconnect(r)
    PROVE  LogInv'
<1> SUFFICES ASSUME Calm' PROVE LogInv'
  BY Zenon DEF LogInv
<1>1. /\ up /\ up' /\ files' = files /\ processed' = r /\ unlogged' = {} /\ SyncsLogged
      /\ mishaps \subseteq mishaps' /\ r < emitted.birth
      /\ eventLog' = [events |-> AppendedRetained(eventLog.events, r), roster |-> RosterAt(r)]
      /\ \A s \in Round : s # r => accepting'[s] = accepting[s]
      /\ have[Self] > emitted.birth => "lost" \in mishaps'
  BY Zenon DEF Reconnect, At, StoreTypeOK
<1>2. Calm /\ Unharmed
  BY <1>1, Zenon DEF Calm, Unharmed
<1>3. PICK b \in Round : b = emitted.birth /\ r < b /\ have[Self] = b
  <2>1. emitted.birth \in Round /\ have[Self] \in Nat
    BY <1>1, Members, StoreBounds DEF StoreTypeOK
  <2>2. emitted.birth <= have[Self]
    BY <1>1, <1>2, Zenon DEF ChainInv
  <2>3. ~(have[Self] > emitted.birth)
    BY <1>1, Zenon DEF Calm
  <2>4. have[Self] = emitted.birth
    BY <2>1, <2>2, <2>3, StoreBounds
  <2>5. QED BY <1>1, <2>1, <2>4, Zenon
<1>4. /\ DOMAIN eventLog'.events = DOMAIN eventLog.events \cup Retained(r)
      /\ \A e \in DOMAIN eventLog.events : eventLog'.events[e] >= eventLog.events[e]
      /\ \A e \in Retained(r) : ReceivedIn(e) <= r => eventLog'.events[e] = ReceivedIn(e)
      /\ \A e \in DOMAIN eventLog'.events :
            (e \in DOMAIN eventLog.events /\ eventLog'.events[e] = eventLog.events[e])
            \/ eventLog'.events[e] <= r
  <2>1. IsLog(eventLog)
    BY Zenon DEF StoreTypeOK
  <2>2. DOMAIN eventLog'.events = DOMAIN eventLog.events \cup Retained(r)
    BY <1>1, <2>1, LogMerged, Zenon
  <2>3. \A e \in DOMAIN eventLog.events : eventLog'.events[e] >= eventLog.events[e]
    BY <1>1, <2>1, LogMerged, Zenon
  <2>4. \A e \in Retained(r) : ReceivedIn(e) <= r => eventLog'.events[e] = ReceivedIn(e)
    <3>1. eventLog'.events = AppendedRetained(eventLog.events, r)
      BY <1>1, Zenon
    <3>2. \A e \in Retained(r) : ReceivedIn(e) <= r
                                     => AppendedRetained(eventLog.events, r)[e] = ReceivedIn(e)
      BY <2>1, LogMerged, Zenon
    <3>3. QED BY <3>1, <3>2, Zenon
  <2>5. \A e \in DOMAIN eventLog'.events :
            (e \in DOMAIN eventLog.events /\ eventLog'.events[e] = eventLog.events[e])
            \/ eventLog'.events[e] <= r
    BY <1>1, <2>1, LogMerged, Zenon
  <2>6. QED BY <2>2, <2>3, <2>4, <2>5, Zenon
<1>5. LogGrows(0) /\ Known' = DOMAIN eventLog'.events
  BY <1>1, <1>4, Zenon DEF LogGrows, Known
<1>6. PICK l \in 0..MaxBirth : l = Largest(files) /\ (files # {} => l \in Round)
  BY LargestOf, StoreBounds, Zenon DEF StoreTypeOK
<1>7. /\ files # {} => WindowLogged(l)
      /\ PendingLogged(l) /\ OrderedLogged(l) /\ GraphKnown /\ OwnKnown(l)
  BY <1>1, <1>2, <1>6, Zenon DEF LogInv
<1>8. ASSUME NEW j \in Round, j >= l, j <= b PROVE Event(Self, j) \in DOMAIN eventLog'.events
  <2>1. Event(Self, j) \in Known /\ Event(Self, j) \notin unlogged
    BY <1>1, <1>3, <1>7, <1>8, Zenon DEF OwnKnown, SyncsLogged, Event
  <2>2. QED BY <1>4, <2>1, Zenon DEF Known
<1>9. ASSUME NEW e \in Member \X Round, e[1] \in RosterAt(r), e[1] \in RosterAt(e[2]),
             ~OutsideWindow(e, r), e[2] <= IF e[1] = Self THEN b ELSE r + 1
      PROVE  e \in Retained(r)
  BY <1>3, <1>9, Zenon DEF Retained
<1>10. WindowLogged(r)'
  <2>1. ASSUME NEW e \in Window(r)
        PROVE  e \in DOMAIN eventLog'.events /\ eventLog'.events[e] = ReceivedIn(e)
    <3>1. /\ e \in Member \X Round /\ e[1] \in RosterAt(e[2]) /\ e[2] < r /\ ReceivedIn(e) <= r
          /\ ~OutsideWindow(e, r)
      BY WindowOf, Zenon
    <3>2. RosterAt(e[2]) \subseteq RosterAt(r)
      BY <3>1, Rosters, StoreBounds
    <3>3. e[2] <= IF e[1] = Self THEN b ELSE r + 1
      BY <1>3, <3>1, StoreBounds
    <3>4. e \in Retained(r)
      BY <1>9, <3>1, <3>2, <3>3, Zenon
    <3>5. QED BY <1>4, <3>1, <3>4, Zenon
  <2>2. Event(Self, r) \in Retained(r)
    <3>1. r <= emitted.birth
      BY <1>3, StoreBounds
    <3>2. ~OutsideWindow(Event(Self, r), r)
      BY Inside, StoreBounds
    <3>3. QED BY <1>1, <3>1, <3>2, OwnRetained, Zenon
  <2>3. QED BY <1>4, <2>1, <2>2, Zenon DEF WindowLogged, Window
<1>11. files # {} => WindowLogged(l)'
  BY <1>5, <1>6, <1>7, WindowKept, StoreBounds
<1>12. PendingLogged(l)'
  <2> SUFFICES ASSUME NEW s \in Round, s > l, accepting'[s] \in {"signed", "file", "reconnect"}, s # r
               PROVE  WindowLogged(s)'
    BY <1>10, Zenon DEF PendingLogged
  <2>1. WindowLogged(s)
    BY <1>1, <1>7, Zenon DEF PendingLogged
  <2>2. QED BY <1>5, <2>1, WindowKept, StoreBounds
<1>13. OrderedLogged(l)'
  <2> SUFFICES ASSUME NEW e \in DOMAIN eventLog'.events, NEW j \in Round, j >= l,
                      j <= eventLog'.events[e]
               PROVE  Event(Self, j) \in DOMAIN eventLog'.events
    BY Zenon DEF OrderedLogged
  <2>1. CASE e \in DOMAIN eventLog.events /\ eventLog'.events[e] = eventLog.events[e]
    BY <1>4, <1>7, <2>1, Zenon DEF OrderedLogged
  <2>2. CASE eventLog'.events[e] <= r
    <3>1. eventLog'.events[e] \in 0..MaxBirth
      BY Zenon DEF StoreTypeOK, IsLog
    <3>2. j <= b
      BY <1>3, <2>2, <3>1, StoreBounds
    <3>3. QED BY <1>8, <3>2, Zenon
  <2>3. QED BY <1>4, <2>1, <2>2, Zenon
<1>14. \A m \in Member : \/ have'[m] = IF m = New THEN OpRound + 1 ELSE 0
                         \/ Event(m, have'[m]) \in Retained(r)
  BY TransferredHave, Zenon
<1>15. GraphKnown'
  <2> SUFFICES ASSUME NEW e \in Member \X Round, e[1] \in RosterAt(e[2]), e[2] <= have'[e[1]],
                      ~OutsideWindow(e, r)
               PROVE  e \in DOMAIN eventLog'.events
    BY <1>1, <1>5, Zenon DEF GraphKnown
  <2>1. have'[e[1]] # IF e[1] = New THEN OpRound + 1 ELSE 0
    BY Rosters, StoreBounds
  <2>2. Event(e[1], have'[e[1]]) \in Retained(r)
    BY <1>14, <2>1, Zenon
  <2>3. /\ e[1] \in RosterAt(r) /\ have'[e[1]] \in Round
        /\ have'[e[1]] <= IF e[1] = Self THEN b ELSE r + 1
    BY <1>3, <2>2, Zenon DEF Retained, Event
  <2>4. e[2] <= IF e[1] = Self THEN b ELSE r + 1
    BY <2>3, StoreBounds
  <2>5. QED BY <1>4, <1>9, <2>3, <2>4, Zenon
<1>16. OwnKnown(l)'
  <2> SUFFICES ASSUME NEW j \in Round, j >= l, j <= have'[Self] PROVE Event(Self, j) \in DOMAIN eventLog'.events
    BY <1>5, Zenon DEF OwnKnown
  <2>1. have'[Self] # 0
    BY StoreBounds
  <2>2. Event(Self, have'[Self]) \in Retained(r)
    BY <1>14, <2>1, Members, Zenon
  <2>3. have'[Self] \in Round /\ have'[Self] <= b
    BY <1>3, <2>2, Zenon DEF Retained, Event
  <2>4. j <= b
    BY <2>3, StoreBounds
  <2>5. QED BY <1>8, <2>4, Zenon
<1>17. QED BY <1>1, <1>6, <1>11, <1>12, <1>13, <1>15, <1>16, Zenon DEF LogInv

\* A killed process leaves no gap in the log.
LEMMA LogStopped ==
    ASSUME StoreTypeOK, LogInv, Crash
    PROVE  LogInv'
<1> SUFFICES ASSUME Calm' PROVE LogInv'
  BY Zenon DEF LogInv
<1>1. /\ ~up' /\ UNCHANGED <<files, eventLog>> /\ mishaps' = mishaps \cup StopsAmid
      /\ have' = [m \in Member |-> IF m = New THEN OpRound + 1 ELSE 0]
      /\ \A r \in Round : accepting'[r] = "no"
  BY Zenon DEF Crash, Forgotten, onDisk
<1>2. Calm /\ "gap" \notin StopsAmid
  BY <1>1, Zenon DEF Calm
<1>3. PICK l \in 0..MaxBirth : l = Largest(files)
  BY LargestOf, Zenon DEF StoreTypeOK
<1>4. Gaps(l)' = {} /\ Largest(files') = l
  BY <1>1, <1>2, <1>3, Zenon DEF StopsAmid, Gaps
<1>5. (files # {} => WindowLogged(l)) /\ OrderedLogged(l)
  BY <1>2, <1>3, Zenon DEF LogInv
<1>6. (files # {} => WindowLogged(l)') /\ OrderedLogged(l)'
  BY <1>1, <1>5, Zenon DEF WindowLogged, Window, OrderedLogged
<1>7. PendingLogged(l)' /\ EmptyGraph'
  BY <1>1, Zenon DEF PendingLogged, EmptyGraph
<1>8. QED BY <1>1, <1>4, <1>6, <1>7, Zenon DEF LogInv

\* A restart has the graph of the log, which has no gap in the window.
LEMMA LogRestored ==
    ASSUME StoreTypeOK, StoreTypeOK', Stopped, LogInv, Restore
    PROVE  LogInv'
<1> SUFFICES ASSUME Calm' PROVE LogInv'
  BY Zenon DEF LogInv
<1>1. PICK l \in 0..MaxBirth : l = Largest(files)
  BY LargestOf, Zenon DEF StoreTypeOK
<1>2. /\ ~up /\ up' /\ UNCHANGED <<files, unlogged, mishaps, accepting>> /\ processed' = l
      /\ have' = [m \in Member |-> Max({have[m], LastReplayed(m)})]
      /\ eventLog' = SetRosterHistory(eventLog, RosterAt(l))
  BY <1>1, Zenon DEF Restore, FromCheckpoint
<1>3. eventLog'.events = eventLog.events
  <2>1. RosterAt(l) \in {Founders, Member} /\ IsLog(eventLog)
    BY Rosters DEF StoreTypeOK
  <2>2. QED BY <1>2, <2>1, LogRosterSet, Zenon
<1>4. Calm /\ Largest(files') = l /\ Known' = DOMAIN eventLog.events
  BY <1>1, <1>2, <1>3, Zenon DEF Calm, Known, Stopped
<1>5. /\ files # {} => WindowLogged(l)
      /\ PendingLogged(l) /\ OrderedLogged(l) /\ Gaps(l) = {} /\ EmptyGraph
  BY <1>1, <1>2, <1>4, Zenon DEF LogInv
<1>6. \A r : WindowLogged(r)' <=> WindowLogged(r)
  BY <1>3, Zenon DEF WindowLogged, Window
<1>7. (files # {} => WindowLogged(l)') /\ PendingLogged(l)' /\ OrderedLogged(l)'
  BY <1>2, <1>3, <1>5, <1>6, Zenon DEF PendingLogged, OrderedLogged
<1>8. ASSUME NEW e \in Member \X Round, e[1] \in RosterAt(e[2]), e[2] <= have'[e[1]], ~OutsideWindow(e, l)
      PROVE  e \in DOMAIN eventLog.events
  <2>1. PICK m \in Member, i \in Round : e = <<m, i>>
    OBVIOUS
  <2>2. PICK k \in 0..MaxBirth : k = LastReplayed(m) /\ (k # 0 => <<m, k>> \in DOMAIN eventLog.events)
    BY LastReplayedOf, Zenon DEF StoreTypeOK, Event
  <2>3. i <= k
    <3>1. have[m] \in Nat /\ k \in Nat /\ i \in Nat \ {0}
      <4>1. have[m] \in Nat
        BY Zenon DEF StoreTypeOK
      <4>2. QED BY <2>2, <4>1, StoreBounds
    <3>2. have'[m] \in {have[m], k}
      <4>1. have'[m] = Max({have[m], k})
        BY <1>2, <2>2, Zenon
      <4>2. {have[m], k} \subseteq 0..have[m] + k /\ have[m] + k \in Nat /\ {have[m], k} # {}
        BY <3>1
      <4>3. QED BY <4>1, <4>2, MaxOf, Zenon
    <3>3. i <= have'[m] /\ m \in RosterAt(i)
      BY <1>8, <2>1, Zenon
    <3>4. ~(i <= have[m])
      BY <1>5, <3>1, <3>3, Rosters, StoreBounds DEF EmptyGraph
    <3>5. QED BY <3>2, <3>3, <3>4, Zenon
  <2>4. <<m, k>> \in DOMAIN eventLog.events
    BY <2>2, <2>3, StoreBounds
  <2>5. CASE i = k
    BY <2>1, <2>4, <2>5, Zenon
  <2>6. CASE i # k
    <3>1. k > i
      BY <2>3, <2>6, StoreBounds
    <3>2. \E f \in DOMAIN eventLog.events : f[1] = e[1] /\ f[2] > e[2]
      BY <2>1, <2>4, <3>1, Zenon
    <3>3. QED BY <1>5, <1>8, <3>2, Zenon DEF Gaps
  <2>7. QED BY <2>5, <2>6, Zenon
<1>9. GraphKnown'
  BY <1>2, <1>4, <1>8, Zenon DEF GraphKnown
<1>10. OwnKnown(l)'
  <2> SUFFICES ASSUME NEW j \in Round, j >= l, j <= have'[Self] PROVE Event(Self, j) \in DOMAIN eventLog.events
    BY <1>4, Zenon DEF OwnKnown
  <2>1. ~OutsideWindow(Event(Self, j), l)
    BY Inside, StoreBounds
  <2>2. Self \in RosterAt(j)
    BY Rosters, StoreBounds
  <2>3. Event(Self, j) \in Member \X Round /\ Event(Self, j)[1] = Self /\ Event(Self, j)[2] = j
    BY Members, Zenon DEF Event
  <2>4. QED BY <1>8, <2>1, <2>2, <2>3, Zenon
<1>11. QED BY <1>2, <1>4, <1>7, <1>9, <1>10, Zenon DEF LogInv

\* The orders in the log are numbers.
LEMMA OrdersCompare ==
    ASSUME StoreTypeOK
    PROVE  \A e \in DOMAIN eventLog.events : eventLog.events[e] >= eventLog.events[e]
<1>1. IsLog(eventLog)
  BY Zenon DEF StoreTypeOK
<1>2. \A e \in DOMAIN eventLog.events : eventLog.events[e] \in Int
  BY <1>1, StoreBounds DEF IsLog
<1>3. QED BY <1>2

\* Every step keeps the windows in the log.
LEMMA StepLog ==
    ASSUME StoreInv, LogInv, [StoreNext]_storeVars
    PROVE  LogInv'
<1>0. StoreTypeOK /\ StoreTypeOK' /\ Stopped /\ Behind /\ SnapInv /\ ChainInv
  BY StepType, Zenon DEF StoreInv
<1>1. CASE UNCHANGED storeVars
  <2>1. UNCHANGED <<up, have, processed, files, accepting, eventLog, unlogged, mishaps>>
    BY <1>1, Zenon DEF storeVars, memory, onDisk
  <2>2. Largest(files)' = Largest(files) /\ Known' = Known
    BY <2>1, Zenon DEF Largest, Known
  <2>3. \A r : (WindowLogged(r)' <=> WindowLogged(r)) /\ Gaps(r)' = Gaps(r)
    BY <2>1, Zenon DEF WindowLogged, Window, Gaps
  <2>4. \A l : /\ PendingLogged(l)' <=> PendingLogged(l)
               /\ OrderedLogged(l)' <=> OrderedLogged(l)
               /\ OwnKnown(l)' <=> OwnKnown(l)
    BY <2>1, <2>2, <2>3, Zenon DEF PendingLogged, OrderedLogged, OwnKnown
  <2>5. (GraphKnown' <=> GraphKnown) /\ (EmptyGraph' <=> EmptyGraph)
    BY <2>1, <2>2, Zenon DEF GraphKnown, EmptyGraph
  <2>6. QED BY <2>1, <2>2, <2>3, <2>4, <2>5, Zenon DEF LogInv, Calm
<1>2. ASSUME NEW m \in Member, InsertEvent(m) PROVE LogInv'
  BY <1>0, <1>2, LogBorn, Zenon DEF InsertEvent, onDisk
<1>3. ASSUME NEW clock \in Clock, CreateOwn(clock) PROVE LogInv'
  BY <1>0, <1>3, LogBorn, Members, Zenon DEF CreateOwn, onDisk
<1>4. ASSUME up, up', UNCHANGED <<have, processed, files, mishaps>>,
             DOMAIN eventLog.events \subseteq DOMAIN eventLog'.events, Known \subseteq Known',
             \A e \in DOMAIN eventLog.events : eventLog'.events[e] = eventLog.events[e],
             \A e \in DOMAIN eventLog'.events : e \in DOMAIN eventLog.events \/ eventLog'.events[e] = 0,
             \A r \in Round : accepting'[r] \in {"signed", "file", "reconnect"}
                                => accepting[r] \in {"signed", "file", "reconnect"}
      PROVE  LogInv'
  <2>1. \A e \in DOMAIN eventLog.events : eventLog.events[e] >= eventLog.events[e]
    BY <1>0, OrdersCompare, Zenon
  <2>2. LogGrows(0)
    BY <1>4, <2>1, Zenon DEF LogGrows
  <2>3. 0 <= processed /\ 0 <= Largest(files)
    BY <1>0, LargestOf DEF StoreTypeOK
  <2>4. QED BY <1>0, <1>4, <2>2, <2>3, LogFrame
<1>5. ASSUME NEW e \in unlogged, LogFreshInsert(e) PROVE LogInv'
  <2>1. /\ DOMAIN eventLog'.events = DOMAIN eventLog.events \cup {e}
        /\ \A f \in DOMAIN eventLog.events : eventLog'.events[f] = eventLog.events[f]
        /\ e \notin DOMAIN eventLog.events => eventLog'.events[e] = 0
    <3>1. e \in Member \X Round /\ IsLog(eventLog)
      BY <1>0, Zenon DEF StoreTypeOK
    <3>2. eventLog' = [eventLog EXCEPT !.events = Appended(@, e)]
      BY <1>5, Zenon DEF LogFreshInsert
    <3>3. QED BY <3>1, <3>2, LogAppended
  <2>2. up /\ UNCHANGED <<up, have, processed, files, mishaps, accepting>> /\ unlogged' = unlogged \ {e}
    BY <1>5, Zenon DEF LogFreshInsert
  <2>3. Known \subseteq Known'
    BY <2>1, <2>2, Zenon DEF Known
  <2>4. QED BY <1>4, <2>1, <2>2, <2>3, Zenon
<1>6. ASSUME NEW e \in unlogged, SkipLog(e) PROVE LogInv'
  BY <1>6, Zenon DEF SkipLog, LogInv, Calm
<1>7. CASE ProcessFinalizedRounds
  BY <1>0, <1>7, LogProcessed, Zenon
<1>8. ASSUME NEW r \in Round, AcceptSnapshot(r) \/ AcceptPrune(r) PROVE LogInv'
  <2>1. /\ up /\ UNCHANGED <<up, have, processed, files, mishaps, unlogged, eventLog>>
        /\ \A s \in Round : accepting'[s] \in {"signed", "file", "reconnect"}
                                => accepting[s] \in {"signed", "file", "reconnect"}
    BY <1>0, <1>8, Zenon DEF AcceptSnapshot, AcceptPrune, At, StoreTypeOK
  <2>2. QED BY <1>4, <2>1, Zenon DEF Known
<1>9. ASSUME NEW r \in Round, AcceptFile(r) PROVE LogInv'
  <2>1. CASE "file" \in mishaps'
    BY <2>1, Zenon DEF LogInv, Calm
  <2>2. CASE files' = PersistCheckpoint(r) /\ mishaps' = mishaps
    <3>1. /\ up /\ UNCHANGED <<up, have, unlogged, processed, eventLog>> /\ accepting[r] = "file"
          /\ \A s \in Round : accepting'[s] = IF s = r THEN "prune" ELSE accepting[s]
      BY <1>0, <1>9, Zenon DEF AcceptFile, At, StoreTypeOK
    <3>2. QED BY <1>0, <2>2, <3>1, LogFile, Zenon
  <2>3. QED BY <1>9, <2>1, <2>2, Zenon DEF AcceptFile
<1>10. ASSUME NEW r \in Round, ReconnectFile(r) PROVE LogInv'
  <2>1. /\ up /\ UNCHANGED <<up, have, unlogged, processed, eventLog>> /\ accepting[r] = "reconnect"
        /\ mishaps \subseteq mishaps' /\ files' = PersistCheckpoint(r)
        /\ \A s \in Round : accepting'[s] = IF s = r THEN "done" ELSE accepting[s]
    BY <1>0, <1>10, Zenon DEF ReconnectFile, At, StoreTypeOK
  <2>2. QED BY <1>0, <2>1, LogFile, Zenon
<1>11. ASSUME NEW r \in Round, AcceptLog(r) PROVE LogInv'
  <2>1. /\ up /\ UNCHANGED <<up, have, unlogged, processed, files, mishaps>> /\ accepting[r] = "log"
        /\ \A s \in Round : accepting'[s] = IF s = r THEN "done" ELSE accepting[s]
    BY <1>0, <1>11, Zenon DEF AcceptLog, At, StoreTypeOK
  <2>2. /\ DOMAIN eventLog'.events = {e \in DOMAIN eventLog.events : ~OutsideWindow(e, r)}
        /\ \A e \in DOMAIN eventLog'.events : eventLog'.events[e] = eventLog.events[e]
    BY <1>0, <1>11, Trimmed, Zenon
  <2>3. r <= processed
    BY <1>0, <2>1, Zenon DEF Behind
  <2>4. Calm => r <= Largest(files)
    BY <1>0, <2>1, Zenon DEF SnapInv, Calm
  <2>5. \A e \in DOMAIN eventLog.events : eventLog.events[e] >= eventLog.events[e]
    BY <1>0, OrdersCompare, Zenon
  <2>6. LogGrows(r)
    BY <2>2, <2>5, Zenon DEF LogGrows
  <2>7. \A e \in Known : ~OutsideWindow(e, r) => e \in Known'
    BY <2>1, <2>2, Zenon DEF Known
  <2>8. r \in Int
    BY StoreBounds
  <2>9. QED BY <1>0, <2>1, <2>2, <2>3, <2>4, <2>6, <2>7, <2>8, LogFrame, Zenon
<1>12. CASE Crash
  BY <1>0, <1>12, LogStopped, Zenon
<1>13. CASE PowerCut
  BY <1>13, Zenon DEF PowerCut, LogInv, Calm
<1>14. CASE Restore
  BY <1>0, <1>14, LogRestored, Zenon
<1>15. CASE StartAnew
  BY <1>0, <1>15, Zenon DEF StartAnew, Stopped, LogInv, Calm
<1>16. ASSUME NEW r \in Round, Reconnect(r) PROVE LogInv'
  BY <1>0, <1>16, LogTransferred, Zenon
<1>17. QED
  BY <1>1, <1>2, <1>3, <1>5, <1>6, <1>7, <1>8, <1>9, <1>10, <1>11, <1>12, <1>13, <1>14, <1>15, <1>16, Zenon
  DEF StoreNext

------------------------------------------------------------------------------
(* The theorem.                                                              *)

\* The log has finitely many events.
LEMMA LogFinite ==
    ASSUME IsLog(eventLog)
    PROVE  IsFiniteSet(DOMAIN eventLog.events)
<1>1. IsFiniteSet(Member)
  BY StoreAssumption, FS_AddElement, Zenon DEF Member, Founders
<1>2. IsFiniteSet(Round)
  BY StoreBounds, FS_Interval
<1>3. IsFiniteSet(Member \X Round)
  BY <1>1, <1>2, FS_Product, Zenon
<1>4. QED BY <1>3, FS_Subset, Zenon DEF IsLog

\* Own events of different rounds are different events.
LEMMA OwnCounted ==
    ASSUME IsLog(eventLog), NEW r \in 0..MaxBirth, NEW d \in 0..MaxBirth, r <= d,
           \A j \in r + 1..d : Event(Self, j) \in DOMAIN eventLog.events
    PROVE  d - r <= Cardinality(DOMAIN eventLog.events)
<1> DEFINE f == [j \in r + 1..d |-> Event(Self, j)]
           D == DOMAIN eventLog.events
<1>1. f \in Injection(r + 1..d, D)
  <2>1. f \in [r + 1..d -> D]
    BY Zenon
  <2>2. \A i, j \in r + 1..d : f[i] = f[j] => i = j
    BY Zenon DEF Event
  <2>3. QED BY <2>1, <2>2, Zenon DEF Injection, IsInjective
<1>2. IsFiniteSet(D)
  BY LogFinite, Zenon
<1>3. Cardinality(r + 1..d) <= Cardinality(D)
  <2> HIDE DEF f, D
  <2>1. QED BY <1>1, <1>2, FS_Injection, Zenon
<1>4. Cardinality(r + 1..d) = d - r
  <2>1. Cardinality(r + 1..d) = IF r + 1 > d THEN 0 ELSE d - (r + 1) + 1
    BY FS_Interval, StoreBounds
  <2>2. QED BY <2>1, StoreBounds
<1>5. QED BY <1>3, <1>4, Zenon

\* The decided round that replay_response finds is bounded by the log.
LEMMA ReplayBounded ==
    ASSUME StoreTypeOK, NEW l \in Round, WindowLogged(l), OrderedLogged(l)
    PROVE  DecidedBounded(l)
<1> DEFINE T == {l} \cup Range(eventLog.events)
           B == {e[2] : e \in DOMAIN eventLog.events}
<1>1. \A e \in DOMAIN eventLog.events : e[2] \in 0..MaxBirth /\ eventLog.events[e] \in 0..MaxBirth
  BY StoreBounds DEF StoreTypeOK, IsLog
<1>2. T \subseteq 0..MaxBirth /\ T # {} /\ MaxBirth \in Nat
  BY <1>1, StoreBounds DEF Range
<1>3. PICK d \in T : d = ReplayedThrough(l) /\ \A x \in T : x <= d
  <2>1. ReplayedThrough(l) = Max(T)
    BY Zenon DEF ReplayedThrough
  <2> HIDE DEF T
  <2>2. QED BY <1>2, <2>1, MaxOf, Zenon
<1>4. d \in Round /\ l <= d
  BY <1>2, <1>3, StoreBounds
<1>5. ASSUME NEW j \in Round, j >= l, j <= d PROVE Event(Self, j) \in DOMAIN eventLog.events
  <2>1. CASE d = l
    BY <1>5, <2>1, StoreBounds DEF WindowLogged
  <2>2. CASE d # l
    <3>1. PICK e \in DOMAIN eventLog.events : d = eventLog.events[e]
      BY <2>2, Zenon DEF Range
    <3>2. QED BY <1>5, <3>1, Zenon DEF OrderedLogged
  <2>3. QED BY <2>1, <2>2, Zenon
<1>6. d <= Max(B)
  <2>1. d \in B
    <3>1. Event(Self, d) \in DOMAIN eventLog.events
      BY <1>4, <1>5, StoreBounds
    <3>2. QED BY <3>1 DEF Event
  <2>2. B \subseteq 0..MaxBirth /\ B # {}
    BY <1>1, <2>1, Zenon
  <2> HIDE DEF B
  <2>3. QED BY <2>1, <2>2, MaxOf, StoreBounds, Zenon
<1>7. d - l <= Cardinality(DOMAIN eventLog.events)
  <2>1. \A j \in l + 1..d : Event(Self, j) \in DOMAIN eventLog.events
    BY <1>4, <1>5, StoreBounds
  <2>2. l \in 0..MaxBirth /\ d \in 0..MaxBirth /\ IsLog(eventLog)
    BY <1>4, StoreBounds DEF StoreTypeOK
  <2>3. QED BY <1>4, <2>1, <2>2, OwnCounted, Zenon
<1>8. QED BY <1>3, <1>6, <1>7, Zenon DEF DecidedBounded

RestartInv == StoreInv /\ RosterInv /\ LogInv

\* A new node has an empty log.
LEMMA InitRestart == StoreInit => RestartInv
<1> SUFFICES ASSUME StoreInit PROVE RestartInv
  BY Zenon
<1>1. StoreInv
  BY InitInv, Zenon
<1>2. /\ up /\ processed = 0 /\ roster = Founders /\ files = {} /\ unlogged = {}
      /\ eventLog.events = <<>> /\ eventLog.roster = Founders
      /\ \A r \in Round : accepting[r] = "no"
      /\ \A m \in Member : have[m] = IF m = New THEN OpRound + 1 ELSE 0
  BY Zenon DEF StoreInit
<1>3. Known = {} /\ DOMAIN eventLog.events = {}
  BY <1>2 DEF Known
<1>4. RosterInv
  BY <1>2, <1>3, Members, StoreBounds DEF RosterInv
<1>5. PendingLogged(Largest(files)) /\ OrderedLogged(Largest(files))
  BY <1>2, <1>3, Zenon DEF PendingLogged, OrderedLogged
<1>6. GraphKnown
  <2> SUFFICES ASSUME NEW e \in Member \X Round, e[1] \in RosterAt(e[2]), e[2] <= have[e[1]]
               PROVE  FALSE
    BY Zenon DEF GraphKnown
  <2>1. QED BY <1>2, Rosters, StoreBounds
<1>7. OwnKnown(Largest(files))
  BY <1>2, Members, StoreBounds DEF OwnKnown
<1>8. QED BY <1>1, <1>2, <1>4, <1>5, <1>6, <1>7, Zenon DEF RestartInv, LogInv

\* The invariants hold in every state.
THEOREM LogsKeep == StoreSpec => []RestartInv
<1>1. ASSUME RestartInv, [StoreNext]_storeVars PROVE RestartInv'
  BY <1>1, StepInv, StepRoster, StepLog, Zenon DEF RestartInv
<1>2. QED BY <1>1, InitRestart, PTL DEF StoreSpec

\* accept_checkpoint, apply_checkpoint and latest_for_restart_with_log: at
\* whatever write the process is killed, the next start finds the snapshot of the
\* last checkpoint file, verifies every event of the log, stays below the bound
\* on the decided round and recomputes the window that the checkpoint commits to.
THEOREM RestartsAccepted == StoreSpec => []RestartAccepted
<1>1. ASSUME RestartInv, files # {}, Calm, "joined" \notin StopsAmid PROVE Restorable
  <2>1. StoreTypeOK /\ SnapshotPresent /\ RosterInv /\ LogInv
    BY <1>1, Zenon DEF RestartInv, StoreInv
  <2>2. PICK l \in Round : l = Largest(files)
    BY <1>1, <2>1, LargestOf, Zenon DEF StoreTypeOK
  <2>3. VerifyPersisted(l)
    BY <1>1, <2>1, <2>2, Zenon DEF SnapshotPresent, VerifyPersisted, Calm
  <2>4. ReplayVerified
    BY <1>1, <2>1, Zenon DEF RosterInv, Known, ReplayVerified
  <2>5. SignedByRoster(l)
    BY <1>1, <2>2, Zenon DEF StopsAmid, SignedByRoster
  <2>6. WindowLogged(l) /\ OrderedLogged(l)
    BY <1>1, <2>1, <2>2, Zenon DEF LogInv
  <2>7. DecidedBounded(l)
    BY <2>1, <2>6, ReplayBounded, Zenon
  <2>8. WindowMatches(l)
    BY <2>6, Zenon DEF WindowLogged, WindowMatches
  <2>9. QED BY <2>2, <2>3, <2>4, <2>5, <2>7, <2>8, Zenon DEF Restorable
<1>2. RestartInv => RestartAccepted
  BY <1>1, Zenon DEF RestartAccepted, Calm
<1>3. QED BY <1>2, LogsKeep, PTL

------------------------------------------------------------------------------
(* Daemons on one data directory.                                           *)

DaemonPlace == {"off", "check", "create", "stamp", "lock", "open", "bind", "socket", "serve",
          "drained", "flushed", "removed"}

\* Between AcquireLock and the end of run_node.
Locked == {"open", "bind", "socket", "serve", "drained", "flushed", "removed"}

\* Past check_or_init_data_dir.
Checked == {"lock"} \cup Locked

DaemonTypeOK ==
    /\ at \in [Process -> DaemonPlace]
    /\ stop \in [Process -> BOOLEAN]
    /\ kills \in Nat

\* The lock file has one holder: every process past AcquireLock is that holder.
LockHeld == \A p \in Process : at[p] \in Locked => holder = p

\* Every process past check_or_init_data_dir has a format that was stamped, and
\* so do the stamp, once written, and the stores.
StampsKnown ==
    /\ \A p \in Process : at[p] \in Checked => FormatOf(p) \in stamps
    /\ None \notin stamps
    /\ format \in {None, Empty} \cup stamps
    /\ data \in {None} \cup stamps
    /\ \A p \in Process : at[p] \in Locked \ {"open"} => data # None

\* The inductive invariant: the holder of the lock alone moves the socket file.
DaemonInv == DaemonTypeOK /\ LockHeld /\ SocketReaches /\ StampsKnown

\* A directory no daemon was started on.
LEMMA DaemonInitInv == DaemonInit => DaemonInv
BY DEF DaemonInit, DaemonInv, DaemonTypeOK, LockHeld, SocketReaches, StampsKnown, DaemonPlace, Locked,
       Checked, Empty

\* What ends a process ends its hold on the directory and on nothing else.
LEMMA EndsInv ==
    ASSUME DaemonInv, NEW p \in Process, Ends(p), UNCHANGED <<format, socket, stamps>>,
           data' = data \/ (at[p] = "open" /\ data' \in stamps), kills' \in Nat
    PROVE  DaemonInv'
<1> USE DEF DaemonInv
<1>1. DaemonTypeOK'
  BY Zenon DEF DaemonTypeOK, Ends, Go, DaemonPlace
<1>2. at' = [at EXCEPT ![p] = "off"]
  BY Zenon DEF Ends, Go
<1>3. LockHeld'
  BY <1>2, DaemonAssumption, Zenon DEF DaemonTypeOK, LockHeld, Locked, Ends
<1>4. SocketReaches'
  BY <1>2, Zenon DEF DaemonTypeOK, SocketReaches
<1>5. StampsKnown'
  BY <1>2, DaemonAssumption, Zenon DEF DaemonTypeOK, StampsKnown, Locked, Checked
<1>6. QED BY <1>1, <1>3, <1>4, <1>5, Zenon

\* A step of a process that gives nothing up: it moves on, and with the lock held
\* it may have opened the stores, bound its port and taken the socket.
LEMMA WorksInv ==
    ASSUME DaemonInv, NEW p \in Process, Works(p)
    PROVE  DaemonInv'
<1> USE DEF DaemonInv
<1>1. CASE Start(p)
  BY <1>1, Zenon DEF Start, Go, DaemonTypeOK, LockHeld, SocketReaches, StampsKnown, DaemonPlace, Locked, Checked
<1>2. CASE CheckFormat(p)
  <2>1. CASE Ends(p)
    BY <1>2, <2>1, EndsInv, Zenon DEF CheckFormat, DaemonTypeOK
  <2>2. CASE format = FormatOf(p) /\ Go(p, "lock") /\ UNCHANGED <<stop, holder, port>>
    <3>1. FormatOf(p) \in stamps
      BY <2>2, DaemonAssumption, Zenon DEF StampsKnown, Empty
    <3>2. QED
      BY <1>2, <2>2, <3>1, Zenon
      DEF CheckFormat, Go, DaemonTypeOK, LockHeld, SocketReaches, StampsKnown, DaemonPlace, Locked, Checked
  <2>3. CASE format = None /\ Go(p, "create") /\ UNCHANGED <<stop, holder, port>>
    BY <1>2, <2>3, Zenon
    DEF CheckFormat, Go, DaemonTypeOK, LockHeld, SocketReaches, StampsKnown, DaemonPlace, Locked, Checked
  <2>4. QED BY <1>2, <2>1, <2>2, <2>3, Zenon DEF CheckFormat
<1>3. CASE CreateStamp(p)
  BY <1>3, Zenon
  DEF CreateStamp, Go, DaemonTypeOK, LockHeld, SocketReaches, StampsKnown, DaemonPlace, Locked, Checked
<1>4. CASE StampFormat(p)
  BY <1>4, DaemonAssumption, Zenon
  DEF StampFormat, Go, DaemonTypeOK, LockHeld, SocketReaches, StampsKnown, DaemonPlace, Locked, Checked
<1>5. CASE AcquireLock(p)
  <2>1. CASE Ends(p)
    BY <1>5, <2>1, EndsInv, Zenon DEF AcquireLock, DaemonTypeOK
  <2>2. CASE holder = None /\ holder' = p /\ Go(p, "open") /\ UNCHANGED <<stop, port>>
    BY <1>5, <2>2, DaemonAssumption, Zenon
    DEF AcquireLock, Go, DaemonTypeOK, LockHeld, SocketReaches, StampsKnown, DaemonPlace, Locked, Checked
  <2>3. QED BY <1>5, <2>1, <2>2, Zenon DEF AcquireLock
<1>6. CASE BindPorts(p)
  <2>1. CASE Ends(p)
    BY <1>6, <2>1, EndsInv, Zenon DEF BindPorts, DaemonTypeOK
  <2>2. CASE port = None /\ port' = p /\ Go(p, "socket") /\ UNCHANGED <<stop, holder>>
    BY <1>6, <2>2, Zenon
    DEF BindPorts, Go, DaemonTypeOK, LockHeld, SocketReaches, StampsKnown, DaemonPlace, Locked, Checked
  <2>3. QED BY <1>6, <2>1, <2>2, Zenon DEF BindPorts
<1>7. CASE BindSocket(p)
  <2>1. \A q \in Process \ {p} : at[q] \notin Locked
    BY <1>7, DaemonAssumption, Zenon DEF BindSocket, LockHeld, Locked
  <2>2. QED
    BY <1>7, <2>1, Zenon
    DEF BindSocket, TakesSocket, Go, DaemonTypeOK, LockHeld, SocketReaches, StampsKnown, DaemonPlace,
        Locked, Checked
<1>8. CASE Drain(p)
  BY <1>8, Zenon DEF Drain, Go, DaemonTypeOK, LockHeld, SocketReaches, StampsKnown, DaemonPlace, Locked, Checked
<1>9. CASE FlushStreams(p)
  BY <1>9, Zenon
  DEF FlushStreams, Go, DaemonTypeOK, LockHeld, SocketReaches, StampsKnown, DaemonPlace, Locked, Checked
<1>10. CASE RemoveSocket(p)
  <2>1. \A q \in Process \ {p} : at[q] \notin Locked
    BY <1>10, DaemonAssumption, Zenon DEF RemoveSocket, LockHeld, Locked
  <2>2. QED
    BY <1>10, <2>1, Zenon
    DEF RemoveSocket, Go, DaemonTypeOK, LockHeld, SocketReaches, StampsKnown, DaemonPlace, Locked, Checked
<1>11. CASE Exit(p)
  BY <1>11, EndsInv, Zenon DEF Exit, DaemonTypeOK
<1>12. CASE OpenStores(p)
  <2>1. FormatOf(p) \in stamps
    BY <1>12, Zenon DEF OpenStores, StampsKnown, Locked, Checked
  <2>2. CASE Ends(p)
    BY <1>12, <2>1, <2>2, EndsInv, Zenon DEF OpenStores, DaemonTypeOK
  <2>3. CASE Go(p, "bind") /\ UNCHANGED <<stop, holder, port>>
    BY <1>12, <2>1, <2>3, DaemonAssumption, Zenon
    DEF OpenStores, Go, DaemonTypeOK, LockHeld, SocketReaches, StampsKnown, DaemonPlace, Locked, Checked
  <2>4. QED BY <1>12, <2>2, <2>3, Zenon DEF OpenStores
<1>13. QED
  BY <1>1, <1>2, <1>3, <1>4, <1>5, <1>6, <1>7, <1>8, <1>9, <1>10, <1>11, <1>12 DEF Works

\* Every step preserves the inductive invariant.
LEMMA DaemonStepInv == DaemonInv /\ [DaemonNext]_daemonVars => DaemonInv'
<1> SUFFICES ASSUME DaemonInv, [DaemonNext]_daemonVars PROVE DaemonInv'
  BY Zenon
<1>1. ASSUME NEW p \in Process, Signal(p) PROVE DaemonInv'
  BY <1>1, Zenon
  DEF Signal, DaemonInv, DaemonTypeOK, LockHeld, SocketReaches, StampsKnown, DaemonPlace, Locked, Checked
<1>2. ASSUME NEW p \in Process, Kill(p) PROVE DaemonInv'
  BY <1>2, EndsInv DEF Kill, DaemonInv, DaemonTypeOK
<1>3. CASE UNCHANGED daemonVars
  BY <1>3, Zenon DEF daemonVars, DaemonInv, DaemonTypeOK, LockHeld, SocketReaches, StampsKnown
<1>4. QED BY <1>1, <1>2, <1>3, WorksInv, Zenon DEF DaemonNext

\* The inductive invariant holds throughout.
LEMMA DaemonInvariance == DaemonSpec => []DaemonInv
BY DaemonInitInv, DaemonStepInv, PTL DEF DaemonSpec

\* From BindSocket to RemoveSocket the socket file leads to the daemon that bound
\* it: bind replaces and shutdown removes it blindly, and only the holder of the
\* lock, which one process at a time is, does either.
THEOREM SocketLeadsToServer == DaemonSpec => []SocketReaches
<1>1. DaemonInv => SocketReaches
  BY Zenon DEF DaemonInv
<1>2. QED BY <1>1, DaemonInvariance, PTL

\* The stores are open only in a process of their format, however many binaries
\* start on the directory, as long as those that stamped it had one format.
THEOREM StoresHaveFormat == DaemonSpec => []FormatKept
<1>1. DaemonInv => FormatKept
  <2> SUFFICES ASSUME DaemonInv, \A f, g \in stamps : f = g,
                      NEW p \in Process, at[p] \in {"bind", "socket", "serve"}
               PROVE  FormatOf(p) = data
    BY Zenon DEF FormatKept
  <2>1. FormatOf(p) \in stamps /\ data \in stamps
    BY Zenon DEF DaemonInv, StampsKnown, Locked, Checked
  <2>2. QED BY <2>1, Zenon
<1>2. QED BY <1>1, DaemonInvariance, PTL
==============================================================================
