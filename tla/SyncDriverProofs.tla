-------------------------- MODULE SyncDriverProofs --------------------------
(***************************************************************************)
(* The sync driver with any number of peers, tasks, payloads, events and   *)
(* reconnects, whatever fails and when: the node does not fork its own     *)
(* chain, and no payload is lost that was not counted.                     *)
(***************************************************************************)
EXTENDS SyncDriver, BasicLemmas, FiniteSetTheorems

Event == (Peer \cup {Me}) \X Nat

EventRecord == [self_parent : Event \cup {None}, other_parent : Event \cup {None}, txs : Seq(Nat)]

Task == [at : {"idle", "connect", "exchange", "insert", "create", "push", "log"},
         shard : Seq(Nat), delta : Seq(Event), fresh : Seq(Event),
         self_parent : Event \cup {None}, other_parent : Event \cup {None}]

DriverTypeOK ==
    /\ peers \subseteq Peer
    /\ submitted \in Nat /\ pending \in Seq(Nat) /\ pending_dropped \in Nat
    /\ DOMAIN events \subseteq Event /\ IsFiniteSet(DOMAIN events)
    /\ events \in [DOMAIN events -> EventRecord]
    /\ graph \in Seq(Event) /\ network \in Seq(Event)
    /\ task \in [Peer -> Task]
    /\ \A p \in Peer : task[p].at = "push" => task[p].fresh # <<>>

\* The own events of a graph.
Own(g) == {e \in Range(g) : e[1] = Me}

\* Own events are numbered in the order they are created.
Numbered ==
    \E k \in Nat : {f \in DOMAIN events : f[1] = Me} = {<<Me, i>> : i \in 1..k}

\* A graph has own events in the order of their numbers.
Ascending(g) ==
    \A i, j \in DOMAIN g : i < j /\ g[i][1] = Me /\ g[j][1] = Me => g[i][2] < g[j][2]

\* Each own event the node holds has for its self-parent the one it holds with
\* the next lower number, if there is one.
Follows(e, H) ==
    LET p == events[e].self_parent
    IN IF p = None THEN \A f \in H : f[2] >= e[2]
       ELSE p \in H /\ p[2] < e[2] /\ \A f \in H : f[2] < e[2] => f[2] <= p[2]

\* What the peers hold of the own chain is where it begins.
SharedFirst ==
    /\ Own(network) \subseteq Own(graph)
    /\ \A e \in Own(network), f \in Own(graph) : f[2] < e[2] => f \in Own(network)

\* A task has nothing of the own chain to insert, and the own event it creates
\* goes on top of the last one.
OnChain(t) ==
    /\ Own(t.delta) \subseteq Own(graph)
    /\ t.at = "idle" => t = Idle
    /\ t.at = "create" => t.self_parent = LatestBy(graph, Me)
    /\ t.at = "push" => t.fresh[Len(t.fresh)] \in Own(graph)

\* One task at a time creates an own event.
TasksOnChain ==
    /\ \A p \in Peer : OnChain(task[p])
    /\ \A p, q \in Peer : task[p].at = "create" /\ task[q].at = "create" => p = q

GraphInv ==
    /\ Numbered
    /\ Own(graph) \subseteq DOMAIN events
    /\ Ascending(graph) /\ Ascending(network)
    /\ \A e \in Own(graph) : Follows(e, Own(graph))
    /\ SharedFirst

\* The inductive invariant for the own chain.
ChainInv == DriverTypeOK /\ GraphInv /\ TasksOnChain

\* The payloads in events.
Placed == UNION {Held(e) : e \in DOMAIN events}

\* What a task holds after its event was inserted is in that event; and the
\* inductive invariant for the queue.
QueueInv ==
    /\ DriverTypeOK
    /\ \A p \in Peer : task[p].at = "idle" => task[p] = Idle
    /\ \A p \in Peer : task[p].at \in {"push", "log"} => Range(task[p].shard) \subseteq Placed
    /\ \A e \in DOMAIN events : e[1] # Me => events[e].txs = <<>>
    /\ NothingLost

------------------------------------------------------------------------------
(* The operators of the model.                                              *)

\* The smaller and the larger of two numbers.
LEMMA MinMaxTwo ==
    ASSUME NEW a \in Int, NEW b \in Int
    PROVE  /\ Min({a, b}) = IF a <= b THEN a ELSE b
           /\ Max({a, b}) = IF a <= b THEN b ELSE a
<1>1. \E x \in {a, b} : \A y \in {a, b} : x <= y
  OBVIOUS
<1>2. \E x \in {a, b} : \A y \in {a, b} : x >= y
  OBVIOUS
<1>3. QED BY <1>1, <1>2 DEF Min, Max

LEMMA LatestType ==
    ASSUME NEW g \in Seq(Event), NEW m
    PROVE  LatestBy(g, m) \in Event \cup {None}
<1> DEFINE I == {i \in DOMAIN g : g[i][1] = m}
<1>1. CASE I = {}
  BY <1>1 DEF LatestBy
<1>2. CASE I # {}
  <2>0. Len(g) \in Nat /\ I \subseteq 0..Len(g)
    OBVIOUS
  <2>1. Max(I) \in I
    <3> HIDE DEF I
    <3>1. QED BY <2>0, <1>2, MaxOf, Zenon
  <2>2. g[Max(I)] \in Event
    BY <2>1
  <2>3. QED BY <1>2, <2>2 DEF LatestBy
<1>3. QED BY <1>1, <1>2

\* A part of a sequence of payloads.
LEMMA PartOf ==
    ASSUME NEW s \in Seq(Nat), NEW a \in 0..Len(s), NEW b \in 0..Len(s)
    PROVE  /\ SubSeq(s, a + 1, b) \in Seq(Nat)
           /\ a <= b => Len(SubSeq(s, a + 1, b)) = b - a
           /\ Range(SubSeq(s, a + 1, b)) = {s[i] : i \in a+1..b}
<1>0. Len(s) \in Nat /\ a \in Nat /\ b \in Nat
  OBVIOUS
<1>1. SubSeq(s, a + 1, b) \in Seq(Nat) /\ (a <= b => Len(SubSeq(s, a + 1, b)) = b - a)
  BY <1>0
<1>2. CASE b < a + 1
  <2>1. SubSeq(s, a + 1, b) = <<>> /\ a+1..b = {}
    BY <1>0, <1>2
  <2>2. Range(SubSeq(s, a + 1, b)) = {}
    BY <2>1 DEF Range
  <2>3. QED BY <1>1, <2>1, <2>2, Zenon
<1>3. CASE a < b
  <2>1. PICK t : t = SubSeq(s, a + 1, b)
    BY Zenon
  <2>2. DOMAIN t = 1..(b - a) /\ \A i \in 1..(b - a) : t[i] = s[a + i]
    <3>1. Len(t) = b - a /\ t \in Seq(Nat)
      BY <2>1, <1>0, <1>1, <1>3
    <3>2. \A i \in 1..(b - a) : t[i] = s[(a + 1) + i - 1]
      BY <2>1, <1>0, <1>3
    <3>3. \A i \in 1..(b - a) : (a + 1) + i - 1 = a + i
      BY <1>0
    <3>4. QED BY <3>1, <3>2, <3>3
  <2>3. \A i \in a+1..b : i - a \in 1..(b - a) /\ t[i - a] = s[i]
    BY <2>2, <1>0
  <2>4. \A i \in 1..(b - a) : a + i \in a+1..b
    BY <1>0
  <2>5. Range(t) = {s[i] : i \in a+1..b}
    <3>1. \A x : x \in Range(t) => x \in {s[i] : i \in a+1..b}
      BY <2>2, <2>4, Zenon DEF Range
    <3>2. ASSUME NEW i \in a+1..b PROVE s[i] \in Range(t)
      <4>1. PICK j \in DOMAIN t : t[j] = s[i]
        BY <2>2, <2>3, Zenon
      <4>2. QED BY <4>1 DEF Range
    <3>3. QED BY <3>1, <3>2, Zenon
  <2>6. QED BY <1>1, <2>1, <2>5
<1>4. QED BY <1>0, <1>2, <1>3

\* requeue_pending_transactions cuts off some at the front of what it gets.
LEMMA RequeueCuts ==
    ASSUME NEW q \in Seq(Nat), NEW txs \in Seq(Nat)
    PROVE  \E c \in 0..Len(txs) : Requeue(q, txs) = SubSeq(txs, c + 1, Len(txs)) \o q
<1> DEFINE room == Max({0, MaxPending - Len(q)})
           kept == Min({room, Len(txs)})
<1>1. room \in Nat
  <2>1. 0 \in Int /\ MaxPending - Len(q) \in Int
    BY DriverAssumption
  <2>2. room = IF 0 <= MaxPending - Len(q) THEN MaxPending - Len(q) ELSE 0
    BY <2>1, MinMaxTwo, Zenon
  <2>3. QED BY <2>1, <2>2
<1>2. kept \in 0..Len(txs)
  <2> HIDE DEF room
  <2>1. room \in Int /\ Len(txs) \in Int /\ Len(txs) \in Nat
    BY <1>1
  <2>2. kept = IF room <= Len(txs) THEN room ELSE Len(txs)
    BY <2>1, MinMaxTwo, Zenon
  <2>3. QED BY <1>1, <2>1, <2>2
<1>3. Requeue(q, txs) = SubSeq(txs, (Len(txs) - kept) + 1, Len(txs)) \o q
  BY DEF Requeue
<1> HIDE DEF kept
<1>4. Len(txs) - kept \in 0..Len(txs)
  BY <1>2
<1>5. QED BY <1>3, <1>4, Zenon

\* Where the shards of a tick end.
ShardEnd(txs, n, j) == Min({j * ((Len(txs) + n - 1) \div n), Len(txs)})

LEMMA ShardEnds ==
    ASSUME NEW txs \in Seq(Nat), NEW n \in Nat \ {0}
    PROVE  /\ \A j \in Nat : ShardEnd(txs, n, j) \in 0..Len(txs)
           /\ ShardEnd(txs, n, 0) = 0 /\ ShardEnd(txs, n, n) = Len(txs)
           /\ \A i \in 1..n : Shard(txs, n, i) = SubSeq(txs, ShardEnd(txs, n, i - 1) + 1, ShardEnd(txs, n, i))
<1> DEFINE q == (Len(txs) + n - 1) \div n
<1>0. Len(txs) \in Nat
  OBVIOUS
<1>1. q \in Nat /\ n * q >= Len(txs)
  <2>1. \A L \in Nat : ((L + n - 1) \div n) \in Nat /\ n * ((L + n - 1) \div n) >= L
    OBVIOUS
  <2>2. QED BY <2>1, <1>0
<1>2. \A i \in 1..n : Shard(txs, n, i) = SubSeq(txs, ShardEnd(txs, n, i - 1) + 1, ShardEnd(txs, n, i))
  BY DEF Shard, ShardEnd
<1>3. \A j \in Nat : ShardEnd(txs, n, j) = Min({j * q, Len(txs)})
  BY DEF ShardEnd
<1> HIDE DEF q
<1> DEFINE P(j) == j * q
<1>4. \A j \in Nat : P(j) \in Nat
  BY <1>1
<1>5. \A j \in Nat : ShardEnd(txs, n, j) = IF P(j) <= Len(txs) THEN P(j) ELSE Len(txs)
  <2>1. ASSUME NEW j \in Nat PROVE Min({j * q, Len(txs)}) = IF j * q <= Len(txs) THEN j * q ELSE Len(txs)
    <3>1. j * q \in Int /\ Len(txs) \in Int
      BY <1>0, <1>4
    <3>2. QED BY <3>1, MinMaxTwo, Zenon
  <2>2. QED BY <2>1, <1>3, Zenon
<1>6. P(0) = 0 /\ P(n) >= Len(txs)
  BY <1>1
<1> HIDE DEF P
<1>7. \A j \in Nat : ShardEnd(txs, n, j) \in 0..Len(txs)
  <2> TAKE j \in Nat
  <2>1. P(j) \in Nat
    BY <1>4
  <2>2. ShardEnd(txs, n, j) = IF P(j) <= Len(txs) THEN P(j) ELSE Len(txs)
    BY <1>5
  <2>3. QED BY <2>1, <2>2, <1>0
<1>8. ShardEnd(txs, n, 0) = 0 /\ ShardEnd(txs, n, n) = Len(txs)
  BY <1>0, <1>4, <1>5, <1>6
<1>9. QED BY <1>2, <1>7, <1>8, Zenon

\* The types, whatever is submitted, exchanged, created or fails.
LEMMA DriverTypeInit == Init => DriverTypeOK
<1> SUFFICES ASSUME Init PROVE DriverTypeOK
  OBVIOUS
<1>1. peers \subseteq Peer
  BY DriverAssumption DEF Init
<1>2. DOMAIN events = {} /\ IsFiniteSet(DOMAIN events) /\ events \in [DOMAIN events -> EventRecord]
  BY FS_EmptySet DEF Init
<1>3. Idle \in Task
  BY DEF Idle, Task
<1>4. Idle.at = "idle"
  BY DEF Idle
<1>5. QED BY <1>1, <1>2, <1>3, <1>4 DEF Init, DriverTypeOK

\* A round that fails or is blocked.
LEMMA GiveBackType ==
    ASSUME DriverTypeOK, NEW p \in Peer, GiveBack(p)
    PROVE  submitted' \in Nat /\ pending' \in Seq(Nat) /\ pending_dropped' \in Nat
<1>1. pending \in Seq(Nat) /\ task[p].shard \in Seq(Nat) /\ submitted \in Nat /\ pending_dropped \in Nat
  BY DEF DriverTypeOK, Task
<1>2. PICK c \in 0..Len(task[p].shard) :
         Requeue(pending, task[p].shard) = SubSeq(task[p].shard, c + 1, Len(task[p].shard)) \o pending
  BY <1>1, RequeueCuts, Zenon
<1>3. PICK kept \in Seq(Nat) : /\ kept = SubSeq(task[p].shard, c + 1, Len(task[p].shard))
                               /\ Len(kept) = Len(task[p].shard) - c
  <2>1. Len(task[p].shard) \in 0..Len(task[p].shard) /\ c <= Len(task[p].shard)
    BY <1>1
  <2>2. QED BY <1>1, <2>1, PartOf, Zenon
<1>4. pending' = kept \o pending
  BY <1>2, <1>3 DEF GiveBack
<1>5. pending' \in Seq(Nat) /\ Len(pending') = Len(kept) + Len(pending)
  BY <1>1, <1>4
<1>6. pending_dropped' = pending_dropped + Len(pending) + Len(task[p].shard) - Len(pending')
  BY DEF GiveBack
<1>7. pending_dropped' = pending_dropped + c
  BY <1>1, <1>3, <1>5, <1>6
<1>8. c \in Nat /\ submitted' = submitted
  BY <1>1 DEF GiveBack
<1>9. QED BY <1>1, <1>5, <1>7, <1>8

\* A new event in the table of events.
LEMMA CreateType ==
    ASSUME DriverTypeOK, NEW e \in Event, NEW ev \in EventRecord,
           events' = [f \in DOMAIN events \cup {e} |-> IF f = e THEN ev ELSE events[f]]
    PROVE  /\ DOMAIN events' \subseteq Event /\ IsFiniteSet(DOMAIN events')
           /\ events' \in [DOMAIN events' -> EventRecord]
<1>1. DOMAIN events' = DOMAIN events \cup {e}
  OBVIOUS
<1>2. IsFiniteSet(DOMAIN events \cup {e})
  BY FS_AddElement, Zenon DEF DriverTypeOK
<1>3. QED BY <1>1, <1>2 DEF DriverTypeOK

LEMMA DriverTypeStep ==
    ASSUME DriverTypeOK, [Next]_vars
    PROVE  DriverTypeOK'
<1> USE DEF queue, world, flags
<1>1. CASE UNCHANGED vars
  BY <1>1 DEF vars, DriverTypeOK
<1> SUFFICES ASSUME Step, UNCHANGED peers PROVE DriverTypeOK'
  BY <1>1 DEF Next
<1>2. CASE SubmitTransaction
  <2>1. submitted' \in Nat /\ pending_dropped' \in Nat /\ pending' \in Seq(Nat)
    <3>1. submitted' = submitted + 1 /\ submitted + 1 \in Nat
      BY <1>2 DEF SubmitTransaction, DriverTypeOK
    <3>2. CASE Len(pending) >= MaxPending
      BY <1>2, <3>1, <3>2 DEF SubmitTransaction, DriverTypeOK
    <3>3. CASE ~(Len(pending) >= MaxPending)
      <4>1. pending' = Append(pending, submitted') /\ pending_dropped' = pending_dropped
        BY <1>2, <3>3, Zenon DEF SubmitTransaction
      <4>2. QED BY <3>1, <4>1 DEF DriverTypeOK
    <3>4. QED BY <3>2, <3>3
  <2>2. QED BY <1>2, <2>1 DEF SubmitTransaction, DriverTypeOK
<1>3. ASSUME NEW n \in 1..K(Size), NEW picked \in [1..n -> peers], Tick(picked) PROVE DriverTypeOK'
  <2> DEFINE drained == SubSeq(pending, 1, Min({TxPerSync, Len(pending)}))
  <2>0. Len(picked) = n /\ n \in Nat \ {0}
    OBVIOUS
  <2>1. Min({TxPerSync, Len(pending)}) \in 0..Len(pending)
    <3>1. TxPerSync \in Int /\ Len(pending) \in Int /\ TxPerSync \in Nat /\ Len(pending) \in Nat
      BY DriverAssumption DEF DriverTypeOK
    <3>2. Min({TxPerSync, Len(pending)}) = IF TxPerSync <= Len(pending) THEN TxPerSync ELSE Len(pending)
      BY <3>1, MinMaxTwo, Zenon
    <3>3. QED BY <3>1, <3>2
  <2>2. drained \in Seq(Nat) /\ Len(drained) \in 0..Len(pending)
    <3>1. 0 \in 0..Len(pending) /\ pending \in Seq(Nat)
      BY DEF DriverTypeOK
    <3>2. PICK b \in 0..Len(pending) : b = Min({TxPerSync, Len(pending)})
      BY <2>1
    <3>3. SubSeq(pending, 0 + 1, b) \in Seq(Nat) /\ Len(SubSeq(pending, 0 + 1, b)) = b - 0
      <4>1. 0 <= b
        BY <3>1
      <4>2. QED BY <3>1, <4>1, PartOf
    <3>4. drained = SubSeq(pending, 0 + 1, b) /\ b - 0 = b
      BY <3>2
    <3>5. QED BY <3>2, <3>3, <3>4, Zenon
  <2>3. pending' = SubSeq(pending, Len(drained) + 1, Len(pending))
    BY <1>3, Zenon DEF Tick
  <2>4. pending' \in Seq(Nat)
    <3>1. Len(pending) \in 0..Len(pending) /\ pending \in Seq(Nat)
      BY DEF DriverTypeOK
    <3> HIDE DEF drained
    <3>2. QED BY <3>1, <2>2, <2>3, PartOf, Zenon
  <2>5. ASSUME NEW p \in Range(picked)
        PROVE  Shard(drained, Len(picked), CHOOSE i \in 1..Len(picked) : picked[i] = p) \in Seq(Nat)
    <3>1. PICK i : i = CHOOSE k \in 1..n : picked[k] = p
      OBVIOUS
    <3>2. i \in 1..n
      BY <3>1 DEF Range
    <3> HIDE DEF drained
    <3>3. /\ Shard(drained, n, i) = SubSeq(drained, ShardEnd(drained, n, i - 1) + 1, ShardEnd(drained, n, i))
          /\ ShardEnd(drained, n, i - 1) \in 0..Len(drained) /\ ShardEnd(drained, n, i) \in 0..Len(drained)
      <4>1. i - 1 \in Nat /\ i \in Nat
        BY <3>2
      <4>2. QED BY <2>0, <2>2, <3>2, <4>1, ShardEnds, Zenon
    <3>4. Shard(drained, n, i) \in Seq(Nat)
      BY <3>3, <2>2, PartOf
    <3>5. QED BY <3>1, <3>4, <2>0, Zenon
  <2>6. task' = [p \in Peer |->
                   IF p \notin Range(picked) THEN Idle
                   ELSE [Idle EXCEPT
                           !.at = IF K(Size) = 1 THEN "exchange" ELSE "connect",
                           !.shard = Shard(drained, Len(picked), CHOOSE i \in 1..Len(picked) : picked[i] = p)]]
    BY <1>3, Zenon DEF Tick
  <2>7. task' \in [Peer -> Task] /\ \A p \in Peer : task'[p].at # "push"
    <3> HIDE DEF drained
    <3>1. Idle \in Task /\ Idle.at = "idle"
      BY DEF Idle, Task
    <3>2. ASSUME NEW p \in Peer PROVE task'[p] \in Task /\ task'[p].at # "push"
      <4>1. CASE p \notin Range(picked)
        BY <2>6, <3>1, <4>1, Zenon
      <4>2. CASE p \in Range(picked)
        <5>1. PICK sh \in Seq(Nat) :
                 sh = Shard(drained, Len(picked), CHOOSE i \in 1..Len(picked) : picked[i] = p)
          BY <2>5, <4>2, Zenon
        <5>2. task'[p] = [Idle EXCEPT !.at = IF K(Size) = 1 THEN "exchange" ELSE "connect", !.shard = sh]
          BY <2>6, <4>2, <5>1, Zenon
        <5>3. PICK t \in Task : t = Idle
          BY <3>1
        <5>4. PICK c \in {"exchange", "connect"} : c = IF K(Size) = 1 THEN "exchange" ELSE "connect"
          OBVIOUS
        <5>5. task'[p] = [t EXCEPT !.at = c, !.shard = sh]
          BY <5>2, <5>3, <5>4
        <5>6. QED BY <5>5, Zenon DEF Task
      <4>3. QED BY <4>1, <4>2, Zenon
    <3>3. QED BY <2>6, <3>2, Zenon
  <2>8. QED BY <1>3, <2>4, <2>7, Zenon DEF Tick, DriverTypeOK
<1>4. ASSUME NEW p \in peers,
             \/ Connect(p) \/ ReceiveDelta(p) \/ InsertNext(p) \/ Blocked(p)
             \/ ReadParents(p) \/ InsertOwn(p) \/ PushBack(p) \/ LogFresh(p) \/ Fail(p)
      PROVE  DriverTypeOK'
  <2>0. p \in Peer /\ task[p] \in Task
    BY DEF DriverTypeOK
  <2>1. CASE Connect(p)
    BY <2>0, <2>1, Zenon DEF Connect, DriverTypeOK, Task
  <2>2. CASE ReceiveDelta(p)
    <3>1. PICK recent : task' = [task EXCEPT ![p].at = "insert",
                                             ![p].delta = Without(network, Range(graph) \cup recent)]
      BY <2>2, Zenon DEF ReceiveDelta
    <3>2. Without(network, Range(graph) \cup recent) \in Seq(Event)
      BY WithoutKeeps DEF DriverTypeOK
    <3>3. task' \in [Peer -> Task] /\ task'[p].at = "insert" /\ \A q \in Peer : q # p => task'[q] = task[q]
      BY <2>0, <3>1, <3>2, Zenon DEF DriverTypeOK, Task
    <3>4. QED BY <2>2, <3>3 DEF ReceiveDelta, DriverTypeOK
  <2>3. CASE InsertNext(p)
    <3>1. Head(task[p].delta) \in Event /\ Tail(task[p].delta) \in Seq(Event)
      BY <2>0, <2>3 DEF InsertNext, Task
    <3>2. /\ task' \in [Peer -> Task] /\ task'[p].at = "insert" /\ \A q \in Peer : q # p => task'[q] = task[q]
          /\ graph' \in Seq(Event)
      <4>1. CASE Head(task[p].delta) \in Range(graph)
        <5>1. task' = [task EXCEPT ![p].delta = Tail(@)] /\ graph' = graph /\ task[p].at = "insert"
          BY <2>3, <4>1 DEF InsertNext
        <5>2. QED BY <2>0, <3>1, <5>1, Zenon DEF DriverTypeOK, Task
      <4>2. CASE Head(task[p].delta) \notin Range(graph)
        <5>1. PICK e \in Event : e = Head(task[p].delta)
          BY <3>1
        <5>2. /\ task' = [task EXCEPT ![p].delta = Tail(@), ![p].fresh = Append(@, e)]
              /\ graph' = Append(graph, e) /\ task[p].at = "insert"
          BY <2>3, <4>2, <5>1, Zenon DEF InsertNext
        <5>3. Append(task[p].fresh, e) \in Seq(Event) /\ Append(graph, e) \in Seq(Event)
          BY <2>0 DEF DriverTypeOK, Task
        <5>4. [task[p] EXCEPT !.delta = Tail(@), !.fresh = Append(@, e)] \in Task
          BY <2>0, <3>1, <5>3, Zenon DEF Task
        <5>5. task' = [task EXCEPT ![p] = [task[p] EXCEPT !.delta = Tail(@), !.fresh = Append(@, e)]]
          BY <5>2, Zenon
        <5>6. task'[p].at = "insert"
          BY <2>0, <5>2 DEF DriverTypeOK, Task
        <5>7. QED BY <2>0, <5>2, <5>3, <5>4, <5>5, <5>6 DEF DriverTypeOK
      <4>3. QED BY <4>1, <4>2
    <3>3. QED BY <2>3, <3>2, Zenon DEF InsertNext, DriverTypeOK
  <2>4. CASE Blocked(p)
    <3>1. submitted' \in Nat /\ pending' \in Seq(Nat) /\ pending_dropped' \in Nat
      BY <2>0, <2>4, GiveBackType DEF Blocked
    <3>2. task' \in [Peer -> Task] /\ task'[p].at = "log" /\ \A q \in Peer : q # p => task'[q] = task[q]
      <4>1. task' = [task EXCEPT ![p] = [task[p] EXCEPT !.at = "log", !.shard = <<>>]]
        BY <2>4, Zenon DEF Blocked
      <4>2a. <<>> \in Seq(Nat)
        OBVIOUS
      <4>2. PICK none \in Seq(Nat) : none = <<>>
        BY <4>2a, Zenon
      <4>3. /\ [task[p] EXCEPT !.at = "log", !.shard = none] \in Task
            /\ [task[p] EXCEPT !.at = "log", !.shard = none].at = "log"
        BY <2>0, Zenon DEF Task
      <4>4. QED BY <2>0, <4>1, <4>2, <4>3 DEF DriverTypeOK
    <3>3. QED BY <2>4, <3>1, <3>2 DEF Blocked, DriverTypeOK
  <2>5. CASE ReadParents(p)
    <3>1. LatestBy(graph, Me) \in Event \cup {None} /\ LatestBy(graph, p) \in Event \cup {None}
      BY LatestType DEF DriverTypeOK
    <3>2. task' \in [Peer -> Task] /\ task'[p].at = "create" /\ \A q \in Peer : q # p => task'[q] = task[q]
      BY <2>0, <2>5, <3>1, Zenon DEF ReadParents, DriverTypeOK, Task
    <3>3. QED BY <2>5, <3>2 DEF ReadParents, DriverTypeOK
  <2>6. CASE InsertOwn(p)
    <3> DEFINE e == <<Me, Cardinality({f \in DOMAIN events : f[1] = Me}) + 1>>
               ev == [self_parent |-> task[p].self_parent, other_parent |-> task[p].other_parent,
                      txs |-> task[p].shard]
    <3>1. e \in Event
      <4>1. Cardinality({f \in DOMAIN events : f[1] = Me}) \in Nat
        BY FS_Subset, FS_CardinalityType DEF DriverTypeOK
      <4>2. QED BY <4>1 DEF Event
    <3>2. ev \in EventRecord
      BY <2>0 DEF Task, EventRecord
    <3>3. /\ events' = [f \in DOMAIN events \cup {e} |-> IF f = e THEN ev ELSE events[f]]
          /\ graph' = Append(graph, e)
          /\ task' = [task EXCEPT ![p].at = "push", ![p].fresh = Append(@, e)]
      BY <2>6 DEF InsertOwn
    <3> HIDE DEF e, ev
    <3>4. /\ DOMAIN events' \subseteq Event /\ IsFiniteSet(DOMAIN events')
          /\ events' \in [DOMAIN events' -> EventRecord]
      BY <3>1, <3>2, <3>3, CreateType, Zenon
    <3>5. task' \in [Peer -> Task] /\ task'[p].fresh # <<>> /\ \A q \in Peer : q # p => task'[q] = task[q]
      <4>1. task' = [task EXCEPT ![p] = [task[p] EXCEPT !.at = "push", !.fresh = Append(@, e)]]
        BY <3>3, Zenon
      <4>2. Append(task[p].fresh, e) \in Seq(Event) /\ Append(task[p].fresh, e) # <<>>
        BY <2>0, <3>1 DEF Task
      <4>3. /\ [task[p] EXCEPT !.at = "push", !.fresh = Append(@, e)] \in Task
            /\ [task[p] EXCEPT !.at = "push", !.fresh = Append(@, e)].fresh # <<>>
        BY <2>0, <4>2, Zenon DEF Task
      <4>4. QED BY <2>0, <4>1, <4>3 DEF DriverTypeOK
    <3>6. graph' \in Seq(Event)
      BY <3>1, <3>3 DEF DriverTypeOK
    <3>7. QED BY <2>6, <3>4, <3>5, <3>6, Zenon DEF InsertOwn, DriverTypeOK
  <2>7. CASE PushBack(p)
    <3>1. task[p].fresh[Len(task[p].fresh)] \in Event
      <4>1. task[p].fresh # <<>> /\ task[p].fresh \in Seq(Event)
        BY <2>0, <2>7, Zenon DEF PushBack, DriverTypeOK, Task
      <4>2. QED BY <4>1
    <3>2. network' \in Seq(Event)
      <4>1. PICK e \in Event : e = task[p].fresh[Len(task[p].fresh)]
        BY <3>1
      <4>2. network' = network \/ network' = Append(network, e)
        BY <2>7, <4>1 DEF PushBack
      <4>3. network \in Seq(Event)
        BY DEF DriverTypeOK
      <4>4. CASE network' = network
        BY <4>3, <4>4
      <4>5. CASE network' = Append(network, e)
        BY <4>3, <4>5
      <4>6. QED BY <4>2, <4>4, <4>5
    <3>3. task' \in [Peer -> Task] /\ task'[p].at = "log" /\ \A q \in Peer : q # p => task'[q] = task[q]
      BY <2>0, <2>7, Zenon DEF PushBack, DriverTypeOK, Task
    <3>4. QED BY <2>7, <3>2, <3>3 DEF PushBack, DriverTypeOK
  <2>8. CASE LogFresh(p)
    <3>1. task' \in [Peer -> Task] /\ task'[p].at = "idle" /\ \A q \in Peer : q # p => task'[q] = task[q]
      BY <2>0, <2>8 DEF LogFresh, DriverTypeOK, Task, Idle
    <3>2. QED BY <2>8, <3>1 DEF LogFresh, DriverTypeOK
  <2>9. CASE Fail(p)
    <3>1. submitted' \in Nat /\ pending' \in Seq(Nat) /\ pending_dropped' \in Nat
      BY <2>0, <2>9, GiveBackType DEF Fail
    <3>2. task' \in [Peer -> Task] /\ task'[p].at = "idle" /\ \A q \in Peer : q # p => task'[q] = task[q]
      BY <2>0, <2>9 DEF Fail, DriverTypeOK, Task, Idle
    <3>3. QED BY <2>9, <3>1, <3>2 DEF Fail, DriverTypeOK
  <2>10. QED BY <1>4, <2>1, <2>2, <2>3, <2>4, <2>5, <2>6, <2>7, <2>8, <2>9, Zenon
<1>5. ASSUME NEW e \in Range(network), InboundInsert(e) PROVE DriverTypeOK'
  <2>1. e \in Event
    BY DEF DriverTypeOK, Range
  <2>2. graph' \in Seq(Event)
    BY <1>5, <2>1 DEF InboundInsert, DriverTypeOK
  <2>3. QED BY <1>5, <2>2 DEF InboundInsert, DriverTypeOK
<1>6. ASSUME NEW e \in inbound, InboundLog(e) PROVE DriverTypeOK'
  BY <1>6 DEF InboundLog, DriverTypeOK
<1>7. CASE ServeDelta
  <2>1. Without(graph, Range(network)) \in Seq(Event)
    BY WithoutKeeps DEF DriverTypeOK
  <2>2. network' \in Seq(Event)
    BY <1>7, <2>1 DEF ServeDelta, DriverTypeOK
  <2>3. QED BY <1>7, <2>2 DEF ServeDelta, DriverTypeOK
<1>8. CASE ApplyCheckpoint
  BY <1>8, Zenon DEF ApplyCheckpoint, DriverTypeOK
<1>9. ASSUME NEW p \in peers, NEW m \in peers \cup {Me}, PeerCreates(p, m) PROVE DriverTypeOK'
  <2> DEFINE e == <<p, Cardinality({f \in DOMAIN events : f[1] # Me}) + 1>>
             ev == [self_parent |-> LatestBy(network, p), other_parent |-> LatestBy(network, m), txs |-> <<>>]
  <2>1. e \in Event
    <3>1. Cardinality({f \in DOMAIN events : f[1] # Me}) \in Nat
      BY FS_Subset, FS_CardinalityType DEF DriverTypeOK
    <3>2. QED BY <3>1 DEF Event, DriverTypeOK
  <2>2. ev \in EventRecord
    BY LatestType DEF DriverTypeOK, EventRecord
  <2>3. /\ events' = [f \in DOMAIN events \cup {e} |-> IF f = e THEN ev ELSE events[f]]
        /\ network' = Append(network, e)
    BY <1>9 DEF PeerCreates
  <2> HIDE DEF e, ev
  <2>4. /\ DOMAIN events' \subseteq Event /\ IsFiniteSet(DOMAIN events')
        /\ events' \in [DOMAIN events' -> EventRecord]
    BY <2>1, <2>2, <2>3, CreateType, Zenon
  <2>5. network' \in Seq(Event)
    BY <2>1, <2>3 DEF DriverTypeOK
  <2>6. QED BY <1>9, <2>4, <2>5 DEF PeerCreates, DriverTypeOK
<1>10. QED BY <1>2, <1>3, <1>4, <1>5, <1>6, <1>7, <1>8, <1>9 DEF Step

------------------------------------------------------------------------------
(* The own chain.                                                           *)

\* The number the next own event gets: the count of those there are, plus one.
LEMMA OwnCount ==
    ASSUME NEW k \in Nat
    PROVE  Cardinality({<<Me, i>> : i \in 1..k}) = k
<1> DEFINE S == {<<Me, i>> : i \in 1..k}
           f == [i \in 1..k |-> <<Me, i>>]
<1>1. f \in Bijection(1..k, S)
  <2>1. f \in [1..k -> S]
    OBVIOUS
  <2>2. \A a, b \in 1..k : f[a] = f[b] => a = b
    OBVIOUS
  <2>3. \A t \in S : \E s \in 1..k : f[s] = t
    OBVIOUS
  <2> HIDE DEF f, S
  <2>4. QED BY <2>1, <2>2, <2>3 DEF Bijection, Injection, Surjection, IsInjective
<1>2. ExistsBijection(1..k, S)
  BY <1>1 DEF ExistsBijection
<1>3. IsFiniteSet(1..k) /\ Cardinality(1..k) = k
  BY FS_Interval
<1> HIDE DEF S
<1>4. Cardinality(S) = k
  BY <1>2, <1>3, FS_Bijection
<1>5. QED BY <1>4 DEF S

\* latest_event_by of this node, in a graph whose own events ascend.
LEMMA LatestOwn ==
    ASSUME NEW g \in Seq(Event), Ascending(g)
    PROVE  IF Own(g) = {} THEN LatestBy(g, Me) = None
           ELSE LatestBy(g, Me) \in Own(g) /\ \A f \in Own(g) : f[2] <= LatestBy(g, Me)[2]
<1> DEFINE I == {i \in DOMAIN g : g[i][1] = Me}
<1>0. DOMAIN g = 1..Len(g) /\ Len(g) \in Nat
  OBVIOUS
<1>1. CASE I = {}
  BY <1>1 DEF Own, Range, LatestBy
<1>2. CASE I # {}
  <2>1. I \subseteq 0..Len(g)
    BY <1>0
  <2>2. Max(I) \in I /\ \A i \in I : i <= Max(I)
    <3> HIDE DEF I
    <3>1. QED BY <1>0, <1>2, <2>1, MaxOf, Zenon
  <2>3. LatestBy(g, Me) = g[Max(I)]
    BY <1>2 DEF LatestBy
  <2>4. g[Max(I)] \in Own(g)
    BY <2>2, Zenon DEF Own, Range
  <2>5. ASSUME NEW f \in Own(g) PROVE f[2] <= g[Max(I)][2]
    <3>1. PICK i \in I : g[i] = f
      BY DEF Own, Range
    <3>2. i = Max(I) \/ i < Max(I)
      <4>1. i <= Max(I)
        BY <2>2
      <4>2. i \in Nat /\ Max(I) \in Nat
        BY <2>1, <2>2
      <4>3. QED BY <4>1, <4>2
    <3>3. g[i] \in Event /\ g[Max(I)] \in Event
      BY <2>2
    <3>4. CASE i = Max(I)
      BY <3>1, <3>3, <3>4 DEF Event
    <3>5. CASE i < Max(I)
      <4>1. g[i][2] < g[Max(I)][2]
        BY <3>5, <2>2 DEF Ascending
      <4>2. QED BY <4>1, <3>1, <3>3 DEF Event
    <3>6. QED BY <3>2, <3>4, <3>5
  <2>6. QED BY <2>3, <2>4, <2>5
<1>3. QED BY <1>1, <1>2

\* An event of another member does not touch what a graph has of the own chain.
LEMMA AppendOther ==
    ASSUME NEW g \in Seq(Event), NEW e \in Event, e[1] # Me
    PROVE  /\ Own(Append(g, e)) = Own(g)
           /\ Ascending(g) => Ascending(Append(g, e))
           /\ LatestBy(Append(g, e), Me) = LatestBy(g, Me)
<1>1. PICK h : h = Append(g, e)
  BY Zenon
<1>2. /\ Len(g) \in Nat /\ DOMAIN g = 1..Len(g) /\ DOMAIN h = 1..Len(g)+1
      /\ h[Len(g)+1] = e /\ \A i \in 1..Len(g) : h[i] = g[i]
  BY <1>1
<1>3. Own(h) = Own(g)
  BY <1>2 DEF Own, Range
<1>4. Ascending(g) => Ascending(h)
  BY <1>2 DEF Ascending
<1>5. {i \in DOMAIN h : h[i][1] = Me} = {i \in DOMAIN g : g[i][1] = Me}
  BY <1>2
<1>6. LatestBy(h, Me) = LatestBy(g, Me)
  <2>1. CASE {i \in DOMAIN g : g[i][1] = Me} = {}
    BY <2>1, <1>5 DEF LatestBy
  <2>2. CASE {i \in DOMAIN g : g[i][1] = Me} # {}
    <3> DEFINE I == {i \in DOMAIN g : g[i][1] = Me}
    <3>1. I \subseteq 0..Len(g)
      BY <1>2
    <3>2. Max(I) \in I
      <4> HIDE DEF I
      <4>1. QED BY <1>2, <2>2, <3>1, MaxOf, Zenon DEF I
    <3>3. h[Max(I)] = g[Max(I)]
      BY <3>2, <1>2
    <3>4. QED BY <3>3, <2>2, <1>5, Zenon DEF LatestBy
  <2>3. QED BY <2>1, <2>2
<1>7. QED BY <1>1, <1>3, <1>4, <1>6

\* An own event with a higher number than those of the graph.
LEMMA AppendOwn ==
    ASSUME NEW g \in Seq(Event), NEW e \in Event, e[1] = Me, \A f \in Own(g) : f[2] < e[2]
    PROVE  /\ Own(Append(g, e)) = Own(g) \cup {e}
           /\ Ascending(g) => Ascending(Append(g, e))
<1>1. PICK h : h = Append(g, e)
  BY Zenon
<1>2. /\ Len(g) \in Nat /\ DOMAIN g = 1..Len(g) /\ DOMAIN h = 1..Len(g)+1
      /\ h[Len(g)+1] = e /\ \A i \in 1..Len(g) : h[i] = g[i]
  BY <1>1
<1>3. Own(h) = Own(g) \cup {e}
  BY <1>2 DEF Own, Range
<1>4. ASSUME Ascending(g), NEW i \in DOMAIN h, NEW j \in DOMAIN h, i < j, h[i][1] = Me, h[j][1] = Me
      PROVE  h[i][2] < h[j][2]
  <2>1. i \in 1..Len(g)
    BY <1>2, <1>4
  <2>2. CASE j = Len(g) + 1
    <3>1. h[i] \in Own(g)
      BY <2>1, <1>2, <1>4, Zenon DEF Own, Range
    <3>2. QED BY <3>1, <2>2, <1>2
  <2>3. CASE j # Len(g) + 1
    BY <2>1, <2>3, <1>2, <1>4 DEF Ascending
  <2>4. QED BY <2>2, <2>3
<1>5. QED BY <1>1, <1>3, <1>4 DEF Ascending

\* What a peer takes of this node's graph goes on with the own chain where what
\* it has of it ends.
LEMMA AppendRest ==
    ASSUME DriverTypeOK, Ascending(graph), Ascending(network), SharedFirst
    PROVE  /\ Own(network \o Without(graph, Range(network))) = Own(graph)
           /\ Ascending(network \o Without(graph, Range(network)))
<1>0. graph \in Seq(Event) /\ network \in Seq(Event)
  BY DEF DriverTypeOK
<1>1. PICK w \in Seq(Event) : w = Without(graph, Range(network)) /\ KeptOf(w, graph, Range(network), Len(graph))
  BY <1>0, WithoutKeeps
<1>2. PICK h : h = network \o w
  BY Zenon
<1>3. /\ Len(network) \in Nat /\ Len(w) \in Nat
      /\ DOMAIN network = 1..Len(network) /\ DOMAIN w = 1..Len(w) /\ DOMAIN h = 1..(Len(network) + Len(w))
      /\ \A i \in 1..Len(network) : h[i] = network[i]
      /\ \A i \in 1..Len(w) : h[Len(network) + i] = w[i]
  BY <1>0, <1>2
<1>4. \A i \in DOMAIN h : \/ i \in 1..Len(network) /\ h[i] = network[i]
                          \/ i - Len(network) \in 1..Len(w) /\ h[i] = w[i - Len(network)]
  <2> TAKE i \in DOMAIN h
  <2>1. CASE i <= Len(network)
    BY <2>1, <1>3
  <2>2. CASE i > Len(network)
    <3>1. i - Len(network) \in 1..Len(w) /\ Len(network) + (i - Len(network)) = i
      BY <2>2, <1>3
    <3>2. QED BY <3>1, <1>3
  <2>3. QED BY <2>1, <2>2, <1>3
<1>5. Range(w) = Range(graph) \ Range(network)
  BY <1>0, <1>1, WithoutRange
<1>6. Range(h) = Range(network) \cup Range(w)
  <2>1. \A x \in Range(h) : x \in Range(network) \cup Range(w)
    BY <1>3, <1>4 DEF Range
  <2>2. \A x \in Range(network) : x \in Range(h)
    <3>1. \A i \in 1..Len(network) : i \in DOMAIN h
      BY <1>3
    <3>2. QED BY <3>1, <1>3 DEF Range
  <2>3. \A x \in Range(w) : x \in Range(h)
    <3>1. \A i \in 1..Len(w) : Len(network) + i \in DOMAIN h
      BY <1>3
    <3>2. QED BY <3>1, <1>3 DEF Range
  <2>4. QED BY <2>1, <2>2, <2>3
<1>7. Own(h) = Own(graph)
  BY <1>5, <1>6 DEF Own, SharedFirst
<1>8. ASSUME NEW i \in DOMAIN h, NEW j \in DOMAIN h, i < j, h[i][1] = Me, h[j][1] = Me
      PROVE  h[i][2] < h[j][2]
  <2>1. CASE j \in 1..Len(network)
    <3>1. i \in 1..Len(network)
      BY <2>1, <1>3, <1>8
    <3>2. QED BY <2>1, <3>1, <1>3, <1>8 DEF Ascending
  <2>2. CASE i \in 1..Len(network) /\ j - Len(network) \in 1..Len(w) /\ h[j] = w[j - Len(network)]
    <3>1. h[i] \in Own(network)
      BY <2>2, <1>3, <1>8, Zenon DEF Own, Range
    <3>2. h[j] \in Own(graph) /\ h[j] \notin Own(network)
      BY <2>2, <1>3, <1>5, <1>8, Zenon DEF Own, Range
    <3>3. ~(h[j][2] < h[i][2]) /\ h[i] # h[j]
      BY <3>1, <3>2 DEF SharedFirst
    <3>4. h[i] \in Event /\ h[j] \in Event
      BY <3>1, <3>2, <1>0 DEF Own, Range
    <3>5. QED BY <3>3, <3>4, <1>8 DEF Event
  <2>3. CASE /\ i - Len(network) \in 1..Len(w) /\ h[i] = w[i - Len(network)]
             /\ j - Len(network) \in 1..Len(w) /\ h[j] = w[j - Len(network)]
    <3>1. i - Len(network) < j - Len(network)
      BY <1>3, <1>8
    <3>2. PICK a \in 1..Len(graph), b \in 1..Len(graph) : a < b /\ graph[a] = h[i] /\ graph[b] = h[j]
      <4>1. PICK x \in 1..Len(w), y \in 1..Len(w) : x < y /\ w[x] = h[i] /\ w[y] = h[j]
        BY <2>3, <3>1, Zenon
      <4>2. PICK a \in 1..Len(graph), b \in 1..Len(graph) : a < b /\ graph[a] = w[x] /\ graph[b] = w[y]
        BY <1>1, <4>1, Zenon DEF KeptOf
      <4>3. QED BY <4>1, <4>2, Zenon
    <3>3. a \in DOMAIN graph /\ b \in DOMAIN graph
      BY <1>0
    <3>4. QED BY <3>2, <3>3, <1>8 DEF Ascending
  <2>4. QED BY <2>1, <2>2, <2>3, <1>4, Zenon
<1>9. Ascending(h)
  BY <1>8 DEF Ascending
<1>10. QED BY <1>1, <1>2, <1>7, <1>9, Zenon

LEMMA NoOwn == Own(<<>>) = {}
BY DEF Own, Range

\* The graphs and the events stay as they are.
LEMMA GraphSame ==
    ASSUME GraphInv, UNCHANGED <<events, graph, network>>
    PROVE  GraphInv'
<1>1. Own(graph)' = Own(graph) /\ Own(network)' = Own(network)
  BY DEF Own
<1>2. Numbered'
  BY Zenon DEF Numbered, GraphInv
<1>3. Ascending(graph)' /\ Ascending(network)'
  BY DEF Ascending, GraphInv
<1>4. (\A e \in Own(graph) : Follows(e, Own(graph)))'
  BY <1>1, Zenon DEF Follows, GraphInv
<1>5. SharedFirst'
  BY <1>1, Zenon DEF SharedFirst, GraphInv
<1>6. QED BY <1>1, <1>2, <1>3, <1>4, <1>5 DEF GraphInv

\* One task moves on, while the own chain stays as it is.
LEMMA TaskMoves ==
    ASSUME TasksOnChain, NEW p \in Peer, \A q \in Peer : q # p => task'[q] = task[q],
           Own(graph') = Own(graph), LatestBy(graph', Me) = LatestBy(graph, Me),
           OnChain(task[p])',
           task'[p].at = "create" => task[p].at = "create" \/ \A q \in Peer : task[q].at # "create"
    PROVE  TasksOnChain'
<1>1. \A q \in Peer : q # p => OnChain(task[q])'
  BY DEF TasksOnChain, OnChain
<1>2. \A q \in Peer : OnChain(task[q])'
  BY <1>1
<1>3. ASSUME NEW q \in Peer, NEW r \in Peer, task'[q].at = "create", task'[r].at = "create" PROVE q = r
  BY <1>3 DEF TasksOnChain
<1>4. QED BY <1>2, <1>3, Zenon DEF TasksOnChain

\* The tasks stay, and so does the own chain.
LEMMA TasksSame ==
    ASSUME TasksOnChain, task' = task, Own(graph') = Own(graph), LatestBy(graph', Me) = LatestBy(graph, Me)
    PROVE  TasksOnChain'
BY DEF TasksOnChain, OnChain

\* An event of another member enters the live graph.
LEMMA GraphOther ==
    ASSUME DriverTypeOK, GraphInv, NEW e \in Event, e[1] # Me, graph' = Append(graph, e),
           UNCHANGED <<events, network>>
    PROVE  GraphInv' /\ Own(graph') = Own(graph) /\ LatestBy(graph', Me) = LatestBy(graph, Me)
<1>1. Own(graph') = Own(graph) /\ LatestBy(graph', Me) = LatestBy(graph, Me) /\ Ascending(graph')
  BY AppendOther DEF DriverTypeOK, GraphInv
<1>2. Own(graph)' = Own(graph) /\ Own(network)' = Own(network)
  BY <1>1 DEF Own
<1>3. Numbered'
  BY Zenon DEF Numbered, GraphInv
<1>4. Ascending(graph)' /\ Ascending(network)'
  BY <1>1 DEF Ascending, GraphInv
<1>5. (\A f \in Own(graph) : Follows(f, Own(graph)))'
  BY <1>2 DEF Follows, GraphInv
<1>6. SharedFirst'
  BY <1>2 DEF SharedFirst, GraphInv
<1>7. QED BY <1>1, <1>2, <1>3, <1>4, <1>5, <1>6 DEF GraphInv

\* insert_own_event: the next number, on top of the last own event.
LEMMA OwnEventInserted ==
    ASSUME ChainInv, NEW p \in Peer, InsertOwn(p)
    PROVE  GraphInv' /\ TasksOnChain'
<1> DEFINE e == <<Me, Cardinality({f \in DOMAIN events : f[1] = Me}) + 1>>
           ev == [self_parent |-> task[p].self_parent, other_parent |-> task[p].other_parent,
                  txs |-> task[p].shard]
<1>1. PICK k \in Nat : {f \in DOMAIN events : f[1] = Me} = {<<Me, i>> : i \in 1..k}
  BY DEF ChainInv, GraphInv, Numbered
<1>2. e = <<Me, k + 1>>
  BY <1>1, OwnCount
<1>3. /\ events' = [f \in DOMAIN events \cup {e} |-> IF f = e THEN ev ELSE events[f]]
      /\ graph' = Append(graph, e) /\ UNCHANGED network
      /\ task' = [task EXCEPT ![p].at = "push", ![p].fresh = Append(@, e)]
      /\ task[p].at = "create"
  BY DEF InsertOwn, world
<1>3a. ev.self_parent = task[p].self_parent
  OBVIOUS
<1> HIDE DEF e, ev
<1>4. e \in Event /\ e[1] = Me /\ e[2] = k + 1
  BY <1>2 DEF Event
<1>5. DriverTypeOK /\ GraphInv /\ TasksOnChain /\ graph \in Seq(Event) /\ task \in [Peer -> Task]
  BY DEF ChainInv, DriverTypeOK
<1>6. \A f \in DOMAIN events : f[1] = Me => f[2] \in 1..k
  BY <1>1
<1>7. \A f \in Own(graph) : f[2] < e[2] /\ f # e /\ f \in DOMAIN events /\ f[2] \in 1..k
  BY <1>4, <1>5, <1>6 DEF GraphInv, Own
<1>8. Own(graph') = Own(graph) \cup {e} /\ Ascending(graph')
  BY <1>3, <1>4, <1>5, <1>7, AppendOwn, Zenon DEF GraphInv
<1>9. DOMAIN events' = DOMAIN events \cup {e} /\ events'[e] = ev /\ \A f \in DOMAIN events : f # e => events'[f] = events[f]
  BY <1>3
<1>10. Numbered'
  <2>1. {f \in DOMAIN events' : f[1] = Me} = {<<Me, i>> : i \in 1..k} \cup {e}
    BY <1>1, <1>4, <1>9, Zenon
  <2>2. {<<Me, i>> : i \in 1..k} \cup {e} = {<<Me, i>> : i \in 1..k+1}
    <3>1. 1..k+1 = 1..k \cup {k + 1}
      OBVIOUS
    <3>2. QED BY <3>1, <1>2
  <2>3. QED BY <2>1, <2>2 DEF Numbered
<1>11. Own(graph') \subseteq DOMAIN events'
  BY <1>7, <1>8, <1>9
<1>12. ASSUME NEW f \in Own(graph') PROVE Follows(f, Own(graph))'
  <2>1. CASE f = e
    <3>1. events'[f].self_parent = LatestBy(graph, Me)
      BY <2>1, <1>3, <1>3a, <1>5, <1>9, Zenon DEF TasksOnChain, OnChain
    <3>2. CASE Own(graph) = {}
      <4>1. LatestBy(graph, Me) = None
        BY <3>2, <1>5, LatestOwn, Zenon DEF GraphInv
      <4>2. QED BY <4>1, <3>1, <3>2, <2>1, <1>4, <1>8 DEF Follows
    <3>3. CASE Own(graph) # {}
      <4>1. LatestBy(graph, Me) \in Own(graph) /\ \A g \in Own(graph) : g[2] <= LatestBy(graph, Me)[2]
        BY <3>3, <1>5, LatestOwn DEF GraphInv
      <4>2. LatestBy(graph, Me) # None
        BY <4>1, <1>5, DriverAssumption DEF Own, Range, Event
      <4>3. \A g \in Own(graph') : g[2] < e[2] => g[2] <= LatestBy(graph, Me)[2]
        BY <4>1, <1>4, <1>8
      <4>4. QED BY <4>1, <4>2, <4>3, <3>1, <2>1, <1>7, <1>8, Zenon DEF Follows
    <3>4. QED BY <3>2, <3>3
  <2>2. CASE f \in Own(graph)
    <3>1. Follows(f, Own(graph)) /\ events'[f] = events[f]
      BY <2>2, <1>5, <1>7, <1>9, Zenon DEF GraphInv
    <3>2. f[2] < e[2] /\ f[2] \in Nat /\ e[2] \in Nat
      BY <2>2, <1>4, <1>7
    <3>3. QED BY <3>1, <3>2, <1>8 DEF Follows
  <2>3. QED BY <2>1, <2>2, <1>8
<1>13. SharedFirst'
  <2>1. Own(network') = Own(network) /\ Own(network) \subseteq Own(graph)
    BY <1>3, <1>5, Zenon DEF Own, GraphInv, SharedFirst
  <2>2. ASSUME NEW g \in Own(network), NEW f \in Own(graph'), f[2] < g[2] PROVE f \in Own(network)
    <3>1. g \in Own(graph) /\ g[2] < e[2] /\ g[2] \in Nat /\ e[2] \in Nat
      BY <2>1, <1>4, <1>7
    <3>2. f # e
      BY <3>1, <2>2
    <3>3. QED BY <3>2, <2>2, <1>5, <1>8, Zenon DEF GraphInv, SharedFirst
  <2>3. QED BY <2>1, <2>2, <1>8 DEF SharedFirst
<1>14. GraphInv'
  BY <1>3, <1>5, <1>8, <1>10, <1>11, <1>12, <1>13, Zenon DEF GraphInv, Ascending
<1>15. TasksOnChain'
  <2>1. \A q \in Peer : q # p => task'[q] = task[q]
    BY <1>3, <1>5
  <2>2. /\ task'[p].at = "push" /\ task'[p].delta = task[p].delta
        /\ task'[p].fresh = Append(task[p].fresh, e) /\ task[p].fresh \in Seq(Event)
    BY <1>3, <1>5 DEF Task
  <2>3. task'[p].fresh[Len(task'[p].fresh)] = e
    BY <2>2, <1>4
  <2>4. \A q \in Peer : q # p => task[q].at # "create"
    BY <1>3, <1>5 DEF TasksOnChain
  <2>5. \A q \in Peer : OnChain(task[q])
    BY <1>5, Zenon DEF TasksOnChain
  <2>6. OnChain(task[p])'
    BY <2>2, <2>3, <2>5, <1>8, Zenon DEF OnChain
  <2>7. \A q \in Peer : q # p => OnChain(task[q])'
    BY <2>1, <2>4, <2>5, <1>8, Zenon DEF OnChain
  <2>8. \A q \in Peer : task'[q].at # "create"
    BY <2>1, <2>2, <2>4
  <2>9. QED BY <2>6, <2>7, <2>8 DEF TasksOnChain
<1>16. QED BY <1>14, <1>15

\* A push-back that arrives: the peer had all that is below it.
LEMMA PushedBack ==
    ASSUME ChainInv, NEW p \in Peer, PushBack(p)
    PROVE  GraphInv' /\ TasksOnChain'
<1> DEFINE e == task[p].fresh[Len(task[p].fresh)]
<1>1. DriverTypeOK /\ GraphInv /\ TasksOnChain /\ graph \in Seq(Event) /\ network \in Seq(Event)
      /\ task \in [Peer -> Task]
  BY DEF ChainInv, DriverTypeOK
<1>2. /\ network' = network \/ (network' = Append(network, e) /\ Insertable(network, e))
      /\ task' = [task EXCEPT ![p].at = "log"] /\ task[p].at = "push"
      /\ UNCHANGED <<events, graph>>
  BY DEF PushBack
<1>3. e \in Own(graph)
  BY <1>1, <1>2 DEF TasksOnChain, OnChain
<1> HIDE DEF e
<1>4. TasksOnChain'
  <2>1. \A q \in Peer : q # p => task'[q] = task[q]
    BY <1>1, <1>2
  <2>2. task'[p].at = "log" /\ task'[p].delta = task[p].delta
    BY <1>1, <1>2 DEF Task
  <2>3. OnChain(task[p])'
    BY <2>2, <1>1, <1>2 DEF OnChain, TasksOnChain
  <2>4. QED BY <1>1, <1>2, <2>1, <2>2, <2>3, TaskMoves
<1>5. CASE network' = network
  <2>1. GraphInv'
    BY <1>1, <1>2, <1>5, GraphSame
  <2>2. QED BY <1>4, <2>1
<1>6. CASE network' = Append(network, e) /\ Insertable(network, e)
  <2>1. e \in Event /\ e[1] = Me /\ e \notin Own(network)
    BY <1>1, <1>3, <1>6 DEF Own, Range, Insertable
  <2>2. \A f \in Own(graph) : f \in Event /\ f[1] = Me
    BY <1>1 DEF Own, Range
  <2>3. Own(network) \subseteq Own(graph)
    BY <1>1 DEF GraphInv, SharedFirst
  <2>4. ASSUME NEW f \in Own(network) PROVE f[2] < e[2]
    <3>1. ~(e[2] < f[2])
      BY <2>1, <1>1, <1>3 DEF GraphInv, SharedFirst
    <3>2. f # e /\ f \in Event /\ f[1] = Me
      BY <2>1, <2>2, <2>3, Zenon
    <3>3. QED BY <3>1, <3>2, <2>1 DEF Event
  <2>5. Own(network') = Own(network) \cup {e} /\ Ascending(network')
    BY <1>1, <1>6, <2>1, <2>4, AppendOwn, Zenon DEF GraphInv
  <2>6. ASSUME NEW f \in Own(graph), f[2] < e[2] PROVE f \in Own(network)
    <3> DEFINE sp == events[e].self_parent
    <3>1. Follows(e, Own(graph))
      BY <1>1, <1>3 DEF GraphInv
    <3>2. sp # None
      <4>1. sp = None => f[2] >= e[2]
        BY <3>1 DEF Follows
      <4>2. f[2] \in Nat /\ e[2] \in Nat
        BY <2>1, <2>2, Zenon DEF Event
      <4>3. QED BY <4>1, <4>2, <2>6
    <3>3. sp \in Own(graph) /\ f[2] <= sp[2]
      BY <3>1, <3>2, <2>6, Zenon DEF Follows
    <3>4. sp \in Range(network)
      BY <1>6, <3>2 DEF Insertable, Parents
    <3>5. sp \in Own(network)
      BY <3>3, <3>4 DEF Own
    <3>6. f = sp \/ f[2] < sp[2]
      BY <2>2, <3>3 DEF Event
    <3>7. QED BY <3>5, <3>6, <1>1 DEF GraphInv, SharedFirst
  <2>7. SharedFirst'
    <3>1. \A g \in Own(network) \cup {e}, f \in Own(graph) : f[2] < g[2] => f \in Own(network)
      BY <2>6, <1>1 DEF GraphInv, SharedFirst
    <3>2. Own(graph)' = Own(graph)
      BY <1>2 DEF Own
    <3>3. QED BY <3>1, <3>2, <2>3, <2>5, <1>3, Zenon DEF SharedFirst
  <2>8. GraphInv'
    <3>1. Own(graph)' = Own(graph)
      BY <1>2 DEF Own
    <3>2. Numbered'
      BY <1>1, <1>2 DEF Numbered, GraphInv
    <3>3. (\A f \in Own(graph) : Follows(f, Own(graph)))'
      BY <1>1, <1>2, <3>1 DEF Follows, GraphInv
    <3>4. Ascending(graph)'
      BY <1>1, <1>2 DEF Ascending, GraphInv
    <3>5. QED BY <1>1, <1>2, <2>5, <2>7, <3>1, <3>2, <3>3, <3>4 DEF GraphInv
  <2>9. QED BY <1>4, <2>8
<1>7. QED BY <1>2, <1>5, <1>6

\* Nothing was created.
LEMMA ChainInit == Init => ChainInv
<1> SUFFICES ASSUME Init PROVE ChainInv
  OBVIOUS
<1>1. DriverTypeOK
  BY DriverTypeInit
<1>2. Own(graph) = {} /\ Own(network) = {} /\ DOMAIN events = {}
  BY NoOwn DEF Init
<1>3. Numbered
  <2>1. {f \in DOMAIN events : f[1] = Me} = {<<Me, i>> : i \in 1..0}
    BY <1>2
  <2>2. QED BY <2>1 DEF Numbered
<1>4. Ascending(graph) /\ Ascending(network)
  BY DEF Init, Ascending
<1>5. GraphInv
  BY <1>2, <1>3, <1>4 DEF GraphInv, SharedFirst
<1>6. \A p \in Peer : task[p] = Idle
  BY DEF Init
<1>7. Idle.at = "idle" /\ Idle.delta = <<>>
  BY DEF Idle
<1>8. TasksOnChain
  BY <1>6, <1>7, NoOwn, Zenon DEF TasksOnChain, OnChain
<1>9. QED BY <1>1, <1>5, <1>8 DEF ChainInv

\* Every step keeps the own chain in order.
LEMMA ChainStep ==
    ASSUME ChainInv, [Next]_vars
    PROVE  ChainInv'
<1> USE DEF queue, world, flags
<1>0. /\ DriverTypeOK /\ GraphInv /\ TasksOnChain /\ graph \in Seq(Event) /\ network \in Seq(Event)
      /\ task \in [Peer -> Task] /\ peers \subseteq Peer
  BY DEF ChainInv, DriverTypeOK
<1>t. DriverTypeOK'
  BY <1>0, DriverTypeStep
<1> SUFFICES GraphInv' /\ TasksOnChain'
  BY <1>t DEF ChainInv
<1>1. ASSUME UNCHANGED <<events, graph, network, task>> PROVE GraphInv' /\ TasksOnChain'
  BY <1>0, <1>1, GraphSame, TasksSame
<1>2. CASE UNCHANGED vars
  BY <1>1, <1>2 DEF vars
<1>3. CASE SubmitTransaction
  BY <1>1, <1>3 DEF SubmitTransaction
<1>4. ASSUME NEW n \in 1..K(Size), NEW picked \in [1..n -> peers], Tick(picked) PROVE GraphInv' /\ TasksOnChain'
  <2>1. GraphInv'
    BY <1>0, <1>4, GraphSame, Zenon DEF Tick
  <2>2. ASSUME NEW p \in Peer
        PROVE  task'[p] = Idle \/ (task'[p].at \in {"exchange", "connect"} /\ task'[p].delta = <<>>)
    <3>1. \/ task'[p] = Idle
          \/ \E sh : task'[p] = [Idle EXCEPT !.at = IF K(Size) = 1 THEN "exchange" ELSE "connect", !.shard = sh]
      BY <1>4, Zenon DEF Tick
    <3>2. QED BY <3>1, Zenon DEF Idle
  <2>3. Idle.at = "idle" /\ Idle.delta = <<>>
    BY Zenon DEF Idle
  <2>4. TasksOnChain'
    BY <2>2, <2>3, NoOwn DEF TasksOnChain, OnChain
  <2>5. QED BY <2>1, <2>4, Zenon
<1>5. ASSUME NEW p \in peers,
             \/ Connect(p) \/ ReceiveDelta(p) \/ InsertNext(p) \/ Blocked(p)
             \/ ReadParents(p) \/ InsertOwn(p) \/ PushBack(p) \/ LogFresh(p) \/ Fail(p)
      PROVE  GraphInv' /\ TasksOnChain'
  <2>0. p \in Peer /\ task[p] \in Task /\ OnChain(task[p])
    BY <1>0, Zenon DEF TasksOnChain
  <2>00. ASSUME UNCHANGED <<events, graph, network>>, \A q \in Peer : q # p => task'[q] = task[q],
                OnChain(task[p])',
                task'[p].at = "create" => \A q \in Peer : task[q].at # "create"
         PROVE  GraphInv' /\ TasksOnChain'
    BY <1>0, <2>0, <2>00, GraphSame, TaskMoves
  <2>1. CASE Connect(p)
    <3>1. task' = [task EXCEPT ![p].at = "exchange"] /\ UNCHANGED <<events, graph, network>>
      BY <2>1 DEF Connect
    <3>2. task'[p].at = "exchange" /\ task'[p].delta = task[p].delta /\ \A q \in Peer : q # p => task'[q] = task[q]
      BY <3>1, <2>0, <1>0 DEF Task
    <3>3. OnChain(task[p])'
      BY <3>1, <3>2, <2>0, Zenon DEF OnChain
    <3>4. QED BY <3>1, <3>2, <3>3, <2>00
  <2>2. CASE ReceiveDelta(p)
    <3>1. PICK recent : task' = [task EXCEPT ![p].at = "insert",
                                             ![p].delta = Without(network, Range(graph) \cup recent)]
      BY <2>2, Zenon DEF ReceiveDelta
    <3>2. UNCHANGED <<events, graph, network>>
      BY <2>2 DEF ReceiveDelta
    <3>3. /\ task'[p].at = "insert" /\ task'[p].delta = Without(network, Range(graph) \cup recent)
          /\ \A q \in Peer : q # p => task'[q] = task[q]
      BY <3>1, <2>0, <1>0 DEF Task
    <3>4. Range(task'[p].delta) = Range(network) \ (Range(graph) \cup recent)
      BY <3>3, <1>0, WithoutRange
    <3>5. Own(task'[p].delta) = {}
      BY <3>4, <1>0, Zenon DEF Own, GraphInv, SharedFirst
    <3>6. OnChain(task[p])'
      BY <3>3, <3>5, Zenon DEF OnChain
    <3>7. QED BY <3>2, <3>3, <3>6, <2>00
  <2>3. CASE InsertNext(p)
    <3> DEFINE e == Head(task[p].delta)
    <3>1. task[p].delta \in Seq(Event) /\ task[p].delta # <<>> /\ task[p].at = "insert"
      BY <2>0, <2>3 DEF InsertNext, Task
    <3>2. e \in Range(task[p].delta) /\ Range(Tail(task[p].delta)) \subseteq Range(task[p].delta) /\ e \in Event
      BY <3>1 DEF Range
    <3>3. Own(Tail(task[p].delta)) \subseteq Own(graph)
      BY <3>2, <2>0, Zenon DEF Own, OnChain
    <3>4. e[1] = Me => e \in Range(graph)
      BY <3>2, <2>0 DEF Own, OnChain
    <3>5. CASE e \in Range(graph)
      <4>1. task' = [task EXCEPT ![p].delta = Tail(@)] /\ UNCHANGED <<events, graph, network>>
        BY <2>3, <3>5 DEF InsertNext
      <4>2. /\ task'[p].at = "insert" /\ task'[p].delta = Tail(task[p].delta)
            /\ \A q \in Peer : q # p => task'[q] = task[q]
        BY <4>1, <3>1, <2>0, <1>0 DEF Task
      <4>3. OnChain(task[p])'
        BY <4>1, <4>2, <3>3, Zenon DEF OnChain
      <4>4. QED BY <4>1, <4>2, <4>3, <2>00
    <3>6. CASE e \notin Range(graph)
      <4>1. /\ task' = [task EXCEPT ![p].delta = Tail(@), ![p].fresh = Append(@, e)]
            /\ graph' = Append(graph, e) /\ UNCHANGED <<events, network>>
        BY <2>3, <3>6, Zenon DEF InsertNext
      <4>2. /\ task'[p].at = "insert" /\ task'[p].delta = Tail(task[p].delta)
            /\ \A q \in Peer : q # p => task'[q] = task[q]
        BY <4>1, <3>1, <2>0, <1>0 DEF Task
      <4> HIDE DEF e
      <4>3. GraphInv' /\ Own(graph') = Own(graph) /\ LatestBy(graph', Me) = LatestBy(graph, Me)
        BY <4>1, <3>2, <3>4, <3>6, <1>0, GraphOther, Zenon
      <4>4. OnChain(task[p])'
        BY <4>2, <4>3, <3>3 DEF OnChain
      <4>5. QED BY <4>2, <4>3, <4>4, <2>0, <1>0, TaskMoves, Zenon
    <3>7. QED BY <3>5, <3>6
  <2>4. CASE Blocked(p)
    <3>1. task' = [task EXCEPT ![p].at = "log", ![p].shard = <<>>] /\ UNCHANGED <<events, graph, network>>
      BY <2>4 DEF Blocked
    <3>2. task'[p].at = "log" /\ task'[p].delta = task[p].delta /\ \A q \in Peer : q # p => task'[q] = task[q]
      BY <3>1, <2>0, <1>0 DEF Task
    <3>3. OnChain(task[p])'
      BY <3>1, <3>2, <2>0, Zenon DEF OnChain
    <3>4. QED BY <3>1, <3>2, <3>3, <2>00, Zenon
  <2>5. CASE ReadParents(p)
    <3>1. /\ task' = [task EXCEPT ![p].at = "create", ![p].self_parent = LatestBy(graph, Me),
                                  ![p].other_parent = LatestBy(graph, p)]
          /\ \A q \in Peer : task[q].at # "create"
          /\ UNCHANGED <<events, graph, network>>
      BY <2>5 DEF ReadParents
    <3>2. /\ task'[p].at = "create" /\ task'[p].delta = task[p].delta
          /\ task'[p].self_parent = LatestBy(graph, Me) /\ \A q \in Peer : q # p => task'[q] = task[q]
      BY <3>1, <2>0, <1>0 DEF Task
    <3>3. OnChain(task[p])'
      BY <3>1, <3>2, <2>0, Zenon DEF OnChain
    <3>4. QED BY <3>1, <3>2, <3>3, <2>00, Zenon
  <2>6. CASE InsertOwn(p)
    BY <2>0, <2>6, OwnEventInserted
  <2>7. CASE PushBack(p)
    BY <2>0, <2>7, PushedBack, Zenon
  <2>8. CASE LogFresh(p) \/ Fail(p)
    <3>1. task' = [task EXCEPT ![p] = Idle] /\ UNCHANGED <<events, graph, network>>
      BY <2>8 DEF LogFresh, Fail
    <3>2. task'[p] = Idle /\ \A q \in Peer : q # p => task'[q] = task[q]
      BY <3>1, <2>0, <1>0
    <3>3. Idle.at = "idle" /\ Idle.delta = <<>>
      BY Zenon DEF Idle
    <3>4. OnChain(task[p])'
      BY <3>2, <3>3, NoOwn DEF OnChain
    <3>5. QED BY <3>1, <3>2, <3>3, <3>4, <2>00
  <2>9. QED BY <1>5, <2>1, <2>2, <2>3, <2>4, <2>5, <2>6, <2>7, <2>8
<1>6. ASSUME NEW e \in Range(network), InboundInsert(e) PROVE GraphInv' /\ TasksOnChain'
  <2>1. e \in Event
    BY <1>0 DEF Range
  <2>2. e[1] # Me /\ graph' = Append(graph, e) /\ UNCHANGED <<events, network, task>>
    BY <1>6 DEF InboundInsert
  <2>3. GraphInv' /\ Own(graph') = Own(graph) /\ LatestBy(graph', Me) = LatestBy(graph, Me)
    BY <1>0, <2>1, <2>2, GraphOther, Zenon
  <2>4. QED BY <1>0, <2>2, <2>3, TasksSame, Zenon
<1>7. ASSUME NEW e \in inbound, InboundLog(e) PROVE GraphInv' /\ TasksOnChain'
  BY <1>1, <1>7, Zenon DEF InboundLog
<1>8. CASE ServeDelta
  <2>1. network' = network \o Without(graph, Range(network)) /\ UNCHANGED <<events, graph, task>>
    BY <1>8, Zenon DEF ServeDelta
  <2>2. Own(network') = Own(graph) /\ Ascending(network')
    BY <2>1, <1>0, AppendRest, Zenon DEF GraphInv
  <2>3. Own(graph)' = Own(graph) /\ Own(network)' = Own(graph)
    BY <2>1, <2>2, Zenon DEF Own
  <2>4. Numbered' /\ Ascending(graph)' /\ Ascending(network)'
    BY <2>1, <2>2, <1>0, Zenon DEF GraphInv, Numbered, Ascending
  <2>5. (\A f \in Own(graph) : Follows(f, Own(graph)))'
    BY <2>1, <2>3, <1>0 DEF GraphInv, Follows
  <2>6. GraphInv'
    BY <2>1, <2>3, <2>4, <2>5, <1>0, Zenon DEF GraphInv, SharedFirst
  <2>7. QED BY <2>1, <2>6, <1>0, TasksSame, Zenon
<1>9. CASE ApplyCheckpoint
  <2>1. graph' = network /\ UNCHANGED <<events, network, task>> /\ Busy = {}
    BY <1>9, Zenon DEF ApplyCheckpoint
  <2>2. \A p \in Peer : task[p] = Idle
    BY <2>1, <1>0, Zenon DEF Busy, TasksOnChain, OnChain
  <2>3. Idle.at = "idle" /\ Idle.delta = <<>>
    BY Zenon DEF Idle
  <2>4. TasksOnChain'
    BY <2>1, <2>2, <2>3, NoOwn, Zenon DEF TasksOnChain, OnChain
  <2>5. Own(graph)' = Own(network) /\ Own(network)' = Own(network) /\ Own(network) \subseteq Own(graph)
    BY <2>1, <1>0, Zenon DEF Own, GraphInv, SharedFirst
  <2>6. ASSUME NEW f \in Own(network) PROVE Follows(f, Own(graph))'
    <3>1. Follows(f, Own(graph))
      BY <2>5, <1>0, Zenon DEF GraphInv
    <3>2. events[f].self_parent # None => events[f].self_parent \in Own(network)
      BY <3>1, <1>0, Zenon DEF Follows, GraphInv, SharedFirst
    <3>3. QED BY <3>1, <3>2, <2>1, <2>5 DEF Follows
  <2>7. Numbered' /\ Ascending(graph)' /\ Ascending(network)'
    BY <2>1, <1>0, Zenon DEF GraphInv, Numbered, Ascending
  <2>8. Own(graph)' \subseteq DOMAIN events'
    BY <2>1, <2>5, <1>0 DEF GraphInv
  <2>9. GraphInv'
    BY <2>5, <2>6, <2>7, <2>8 DEF GraphInv, SharedFirst
  <2>10. QED BY <2>4, <2>9, Zenon
<1>10. ASSUME NEW p \in peers, NEW m \in peers \cup {Me}, PeerCreates(p, m) PROVE GraphInv' /\ TasksOnChain'
  <2>1. PICK i, ev : /\ events' = [f \in DOMAIN events \cup {<<p, i>>} |-> IF f = <<p, i>> THEN ev ELSE events[f]]
                     /\ network' = Append(network, <<p, i>>)
    BY <1>10, Zenon DEF PeerCreates
  <2>2. PICK e : e = <<p, i>>
    BY Zenon
  <2>3. e[1] # Me
    BY <2>2, <1>0, DriverAssumption
  <2>4. e \in Event
    <3>1. network' \in Seq(Event) /\ network'[Len(network) + 1] = e /\ Len(network') = Len(network) + 1
      BY <1>t, <1>0, <2>1, <2>2 DEF DriverTypeOK
    <3>2. QED BY <3>1, <1>0
  <2>5. UNCHANGED <<graph, task>>
    BY <1>10, Zenon DEF PeerCreates
  <2>6. Own(network') = Own(network) /\ Ascending(network')
    BY <1>0, <2>1, <2>2, <2>3, <2>4, AppendOther, Zenon DEF GraphInv
  <2>7. Own(graph)' = Own(graph) /\ Own(network)' = Own(network)
    BY <2>5, <2>6, Zenon DEF Own
  <2>8. DOMAIN events' = DOMAIN events \cup {e} /\ \A f \in DOMAIN events : f[1] = Me => events'[f] = events[f]
    BY <2>1, <2>2, <2>3, Zenon
  <2>9. Numbered'
    <3>1. {f \in DOMAIN events' : f[1] = Me} = {f \in DOMAIN events : f[1] = Me}
      BY <2>3, <2>8
    <3>2. QED BY <3>1, <1>0, Zenon DEF GraphInv, Numbered
  <2>10. ASSUME NEW f \in Own(graph) PROVE Follows(f, Own(graph))'
    <3>1. Follows(f, Own(graph)) /\ events'[f] = events[f]
      BY <2>8, <1>0, Zenon DEF GraphInv, Own
    <3>2. QED BY <3>1, <2>7 DEF Follows
  <2>11. Ascending(graph)'
    BY <2>5, <1>0, Zenon DEF GraphInv, Ascending
  <2>12. GraphInv'
    BY <2>6, <2>7, <2>8, <2>9, <2>10, <2>11, <1>0, Zenon DEF GraphInv, SharedFirst
  <2>13. QED BY <2>12, <2>5, <1>0, TasksSame, Zenon
<1>11. QED BY <1>2, <1>3, <1>4, <1>5, <1>6, <1>7, <1>8, <1>9, <1>10, Zenon DEF Next, Step

\* Two own events that are held have different self-parents.
LEMMA ChainNoFork == ChainInv => NoSelfFork
<1> SUFFICES ASSUME ChainInv, NEW e \in Own(graph), NEW f \in Own(graph), e # f,
                    events[e].self_parent = events[f].self_parent
             PROVE  FALSE
  BY DEF ChainInv, GraphInv, SharedFirst, NoSelfFork, Own
<1>1. e \in Event /\ f \in Event /\ e[1] = Me /\ f[1] = Me
  BY DEF ChainInv, DriverTypeOK, Own, Range
<1>2. e[2] \in Nat /\ f[2] \in Nat /\ e[2] # f[2]
  BY <1>1 DEF Event
<1>3. Follows(e, Own(graph)) /\ Follows(f, Own(graph))
  BY Zenon DEF ChainInv, GraphInv
<1>4. ASSUME NEW a \in Own(graph), NEW b \in Own(graph), Follows(a, Own(graph)), Follows(b, Own(graph)),
             a[2] \in Nat, b[2] \in Nat, a[2] < b[2], events[a].self_parent = events[b].self_parent
      PROVE  FALSE
  <2> DEFINE p == events[a].self_parent
  <2>1. p # None
    BY <1>4 DEF Follows
  <2>2. p \in Own(graph) /\ p[2] < a[2] /\ a[2] <= p[2]
    BY <1>4, <2>1, Zenon DEF Follows
  <2>3. p[2] \in Nat
    <3>1. p \in Event
      BY <2>2 DEF ChainInv, DriverTypeOK, Own, Range
    <3>2. QED BY <3>1, Zenon DEF Event
  <2>4. QED BY <2>2, <2>3, <1>4
<1>5. QED BY <1>2, <1>3, <1>4

\* Whatever the tasks of a tick, the inbound handlers and the reconnects do,
\* and wherever a round fails, create_own_event never gives two events that
\* this node or a peer holds the same self-parent.
THEOREM OwnChainNotForked == Spec => []NoSelfFork
<1>1. Init => ChainInv
  BY ChainInit
<1>2. ChainInv /\ [Next]_vars => ChainInv'
  BY ChainStep
<1>3. ChainInv => NoSelfFork
  BY ChainNoFork, Zenon
<1>4. QED BY <1>1, <1>2, <1>3, PTL DEF Spec

------------------------------------------------------------------------------
(* The queue.                                                               *)

\* The payloads that wait, are on their way into an event, or are in one.
Kept == Range(pending) \cup InFlight \cup Placed

\* Of n payloads, d more are missing.
LEMMA MoreMissing ==
    ASSUME NEW n \in Nat, NEW e \in Nat, NEW d \in Nat, NEW A, NEW B, NEW X,
           IsFiniteSet(X), Cardinality(X) <= d, Cardinality((1..n) \ A) <= e, A \subseteq B \cup X
    PROVE  Cardinality((1..n) \ B) <= e + d
<1>1. IsFiniteSet(1..n)
  BY FS_Interval
<1>2. IsFiniteSet((1..n) \ A) /\ IsFiniteSet((1..n) \ B)
  BY <1>1, FS_Subset, Zenon
<1>3. IsFiniteSet(((1..n) \ A) \cup X) /\ Cardinality(((1..n) \ A) \cup X) <= Cardinality((1..n) \ A) + Cardinality(X)
  <2>1. IsFiniteSet(((1..n) \ A) \cap X)
    BY <1>2, FS_Subset
  <2>2. Cardinality(((1..n) \ A) \cap X) \in Nat /\ Cardinality((1..n) \ A) \in Nat /\ Cardinality(X) \in Nat
    BY <1>2, <2>1, FS_CardinalityType
  <2>3. Cardinality(((1..n) \ A) \cup X)
          = Cardinality((1..n) \ A) + Cardinality(X) - Cardinality(((1..n) \ A) \cap X)
    BY <1>2, FS_Union, Zenon
  <2>4. IsFiniteSet(((1..n) \ A) \cup X)
    BY <1>2, FS_Union, Zenon
  <2>5. QED BY <2>2, <2>3, <2>4
<1>4. (1..n) \ B \in SUBSET (((1..n) \ A) \cup X)
  OBVIOUS
<1>5. Cardinality((1..n) \ B) <= Cardinality(((1..n) \ A) \cup X)
  BY <1>3, <1>4, FS_Subset, Zenon
<1>6. /\ Cardinality((1..n) \ B) \in Nat /\ Cardinality(((1..n) \ A) \cup X) \in Nat
      /\ Cardinality((1..n) \ A) \in Nat /\ Cardinality(X) \in Nat
  BY <1>2, <1>3, FS_CardinalityType
<1>7. QED BY <1>3, <1>5, <1>6

\* A step that loses none.
LEMMA NoneMissing ==
    ASSUME DriverTypeOK, NothingLost, submitted' = submitted, pending_dropped' = pending_dropped,
           Kept \subseteq Kept'
    PROVE  NothingLost'
<1>1. Cardinality((1..submitted) \ Kept) <= pending_dropped
  BY DEF NothingLost, Kept, Placed
<1>2. submitted \in Nat /\ pending_dropped \in Nat /\ 0 \in Nat
  BY DEF DriverTypeOK
<1>3. IsFiniteSet({}) /\ Cardinality({}) <= 0
  BY FS_EmptySet
<1>4. Kept \subseteq Kept' \cup {}
  OBVIOUS
<1>5. Cardinality((1..submitted) \ Kept') <= pending_dropped + 0
  BY <1>1, <1>2, <1>3, <1>4, MoreMissing, Zenon
<1>6. Cardinality((1..submitted') \ Kept') <= pending_dropped'
  BY <1>2, <1>5
<1>7. QED BY <1>6 DEF NothingLost, Kept, Placed

\* A round gives its payload back: what finds no room is counted.
LEMMA GivenBack ==
    ASSUME DriverTypeOK, NothingLost, NEW p \in Peer, GiveBack(p), UNCHANGED events,
           \A q \in Peer : q # p => task'[q] = task[q]
    PROVE  NothingLost'
<1> DEFINE txs == task[p].shard
<1>1. /\ pending \in Seq(Nat) /\ txs \in Seq(Nat) /\ submitted \in Nat /\ pending_dropped \in Nat
      /\ task \in [Peer -> Task]
  BY DEF DriverTypeOK, Task
<1>2. PICK c \in 0..Len(txs) : Requeue(pending, txs) = SubSeq(txs, c + 1, Len(txs)) \o pending
  BY <1>1, RequeueCuts, Zenon
<1>3. PICK kept \in Seq(Nat) : /\ kept = SubSeq(txs, c + 1, Len(txs)) /\ Len(kept) = Len(txs) - c
                               /\ Range(kept) = {txs[i] : i \in c+1..Len(txs)}
  <2>1. Len(txs) \in 0..Len(txs) /\ c <= Len(txs)
    BY <1>1
  <2> HIDE DEF txs
  <2>2. QED BY <1>1, <2>1, PartOf, Zenon
<1>4. pending' = kept \o pending
  BY <1>2, <1>3, Zenon DEF GiveBack
<1>5. /\ Len(pending') = Len(kept) + Len(pending) /\ Range(pending') = Range(kept) \cup Range(pending)
      /\ Len(pending) \in Nat /\ Len(txs) \in Nat /\ c \in Nat
  <2> HIDE DEF txs
  <2>1. Len(kept) \in Nat /\ Len(pending) \in Nat /\ Len(txs) \in Nat /\ c \in Nat
    BY <1>1
  <2>2. /\ Len(pending') = Len(kept) + Len(pending)
        /\ \A i \in 1..Len(kept) : pending'[i] = kept[i]
        /\ \A i \in 1..Len(pending) : pending'[Len(kept) + i] = pending[i]
        /\ \A i \in 1..(Len(kept) + Len(pending)) :
              \/ i \in 1..Len(kept) /\ pending'[i] = kept[i]
              \/ i - Len(kept) \in 1..Len(pending) /\ pending'[i] = pending[i - Len(kept)]
        /\ DOMAIN pending' = 1..(Len(kept) + Len(pending))
    BY <1>1, <1>4, <2>1
  <2>3. DOMAIN kept = 1..Len(kept) /\ DOMAIN pending = 1..Len(pending)
    BY <1>1
  <2>4. \A x \in Range(pending') : x \in Range(kept) \cup Range(pending)
    <3>1. ASSUME NEW i \in DOMAIN pending' PROVE pending'[i] \in Range(kept) \cup Range(pending)
      <4>1. \/ i \in DOMAIN kept /\ pending'[i] = kept[i]
            \/ \E j \in DOMAIN pending : pending'[i] = pending[j]
        BY <2>2, <2>3, Zenon
      <4>2. QED BY <4>1 DEF Range
    <3>2. QED BY <3>1 DEF Range
  <2>5. \A x \in Range(kept) : x \in Range(pending')
    <3>1. \A i \in 1..Len(kept) : i \in DOMAIN pending'
      BY <2>1, <2>2
    <3>2. QED BY <3>1, <2>2, <2>3 DEF Range
  <2>6. \A x \in Range(pending) : x \in Range(pending')
    <3>1. \A i \in 1..Len(pending) : Len(kept) + i \in DOMAIN pending'
      BY <2>1, <2>2
    <3>2. \A i \in 1..Len(pending) : pending[i] \in Range(pending')
      BY <3>1, <2>2, Zenon DEF Range
    <3>3. QED BY <3>2, <2>3, Zenon DEF Range
  <2>7. QED BY <2>1, <2>2, <2>4, <2>5, <2>6, Zenon
<1>6. pending_dropped' = pending_dropped + c /\ submitted' = submitted
  <2>1. pending_dropped' = pending_dropped + Len(pending) + Len(txs) - Len(pending') /\ submitted' = submitted
    BY DEF GiveBack
  <2> HIDE DEF txs
  <2>2. QED BY <2>1, <1>1, <1>3, <1>5
<1> DEFINE cut == {txs[i] : i \in 1..c}
<1>7. IsFiniteSet(cut) /\ Cardinality(cut) <= c
  <2> DEFINE f == [i \in 1..c |-> txs[i]]
  <2>1. f \in Surjection(1..c, cut)
    BY Zenon DEF Surjection
  <2>2. IsFiniteSet(1..c) /\ Cardinality(1..c) = c
    <3>1. 1 \in Int /\ c \in Int /\ c - 1 + 1 = c /\ (1 > c => c = 0)
      BY <1>5
    <3>2. QED BY <3>1, FS_Interval, Zenon
  <2> HIDE DEF f, cut
  <2>3. QED BY <2>1, <2>2, FS_Surjection
<1>8. Range(txs) \subseteq cut \cup Range(kept)
  <2>1. DOMAIN txs = 1..Len(txs)
    BY <1>1
  <2>2. \A i \in 1..Len(txs) : i \in 1..c \/ i \in c+1..Len(txs)
    BY <1>5
  <2> HIDE DEF txs
  <2>3. QED BY <2>1, <2>2, <1>3, Zenon DEF Range
<1>9. Kept \subseteq Kept' \cup cut
  <2> HIDE DEF cut
  <2>1. Placed' = Placed
    BY DEF Placed, Held
  <2>2. InFlight \subseteq InFlight' \cup Range(txs)
    BY Zenon DEF InFlight
  <2>3. QED BY <2>1, <2>2, <1>5, <1>8, Zenon DEF Kept
<1>10. Cardinality((1..submitted) \ Kept) <= pending_dropped
  BY Zenon DEF NothingLost, Kept, Placed
<1> HIDE DEF cut
<1>11. Cardinality((1..submitted) \ Kept') <= pending_dropped + c
  BY <1>1, <1>5, <1>7, <1>9, <1>10, MoreMissing, Zenon
<1>12. QED BY <1>6, <1>11 DEF NothingLost, Kept, Placed

\* Every payload of a tick is in one of its shards.
LEMMA ShardsCover ==
    ASSUME NEW txs \in Seq(Nat), NEW n \in Nat \ {0}, NEW i \in 1..Len(txs)
    PROVE  \E k \in 1..n : txs[i] \in Range(Shard(txs, n, k))
<1> DEFINE T == {j \in 1..n : i <= ShardEnd(txs, n, j)}
<1>0. Len(txs) \in Nat /\ \A j \in Nat : ShardEnd(txs, n, j) \in Nat /\ ShardEnd(txs, n, j) \in 0..Len(txs)
  <2>1. \A j \in Nat : ShardEnd(txs, n, j) \in 0..Len(txs)
    BY ShardEnds, Zenon
  <2>2. QED BY <2>1
<1>1. n \in T
  <2>1. ShardEnd(txs, n, n) = Len(txs)
    BY ShardEnds, Zenon
  <2>2. QED BY <2>1
<1>2. PICK k \in T : \A j \in T : k <= j
  <2>1. T \subseteq Nat
    OBVIOUS
  <2> HIDE DEF T
  <2>2. QED BY <1>1, <2>1, LeastOf, Zenon
<1>3. k \in 1..n /\ k - 1 \in Nat /\ k \in Nat /\ i <= ShardEnd(txs, n, k)
  OBVIOUS
<1>4. ShardEnd(txs, n, k - 1) < i
  <2>1. CASE k = 1
    <3>1. ShardEnd(txs, n, 0) = 0
      BY ShardEnds, Zenon
    <3>2. QED BY <2>1, <3>1
  <2>2. CASE k # 1
    <3>1. k - 1 \in 1..n /\ k - 1 \notin T
      BY <1>2, <1>3, <2>2
    <3>2. ~(i <= ShardEnd(txs, n, k - 1))
      BY <3>1, Zenon
    <3>3. QED BY <3>2, <1>0, <1>3
  <2>3. QED BY <2>1, <2>2
<1>5. Shard(txs, n, k) = SubSeq(txs, ShardEnd(txs, n, k - 1) + 1, ShardEnd(txs, n, k))
  BY <1>3, ShardEnds
<1>6. PICK a \in 0..Len(txs), b \in 0..Len(txs) : a = ShardEnd(txs, n, k - 1) /\ b = ShardEnd(txs, n, k)
  BY <1>0, <1>3, Zenon
<1>7. Range(SubSeq(txs, a + 1, b)) = {txs[j] : j \in a+1..b}
  BY PartOf, Zenon
<1>8. i \in a+1..b
  BY <1>0, <1>3, <1>4, <1>6
<1>9. QED BY <1>3, <1>5, <1>6, <1>7, <1>8, Zenon

\* A tick takes payloads from the queue into the tasks, and forgets none.
LEMMA TickForgetsNone ==
    ASSUME DriverTypeOK, NEW n \in Nat \ {0}, NEW picked \in [1..n -> peers], Tick(picked)
    PROVE  Range(pending) \subseteq Range(pending') \cup InFlight'
<1> DEFINE m == Min({TxPerSync, Len(pending)})
           drained == SubSeq(pending, 1, m)
<1>0. /\ Len(picked) = n /\ pending \in Seq(Nat) /\ Len(pending) \in Nat /\ peers \subseteq Peer
      /\ DOMAIN pending = 1..Len(pending)
  BY DEF DriverTypeOK
<1>1. m \in 0..Len(pending)
  <2>1. TxPerSync \in Int /\ Len(pending) \in Int /\ TxPerSync \in Nat
    BY <1>0, DriverAssumption
  <2>2. m = IF TxPerSync <= Len(pending) THEN TxPerSync ELSE Len(pending)
    BY <2>1, MinMaxTwo, Zenon
  <2>3. QED BY <1>0, <2>1, <2>2
<1>2. drained \in Seq(Nat) /\ Len(drained) = m /\ \A i \in 1..m : drained[i] = pending[i]
  <2> HIDE DEF m
  <2>1. 1..m \subseteq DOMAIN pending /\ m \in Nat
    BY <1>0, <1>1
  <2>2. QED BY <1>0, <2>1
<1>3. pending' = SubSeq(pending, Len(drained) + 1, Len(pending))
  BY Zenon DEF Tick
<1>4. Range(pending') = {pending[i] : i \in m+1..Len(pending)}
  <2>1. Len(pending) \in 0..Len(pending)
    BY <1>0
  <2> HIDE DEF m, drained
  <2>2. QED BY <1>0, <1>1, <1>2, <1>3, <2>1, PartOf, Zenon
<1>5. task' = [p \in Peer |->
                 IF p \notin Range(picked) THEN Idle
                 ELSE [Idle EXCEPT
                         !.at = IF K(Size) = 1 THEN "exchange" ELSE "connect",
                         !.shard = Shard(drained, Len(picked), CHOOSE i \in 1..Len(picked) : picked[i] = p)]]
  BY Zenon DEF Tick
<1>6. IsInjective(picked)
  BY Zenon DEF Tick
<1> HIDE DEF m, drained
<1>7. ASSUME NEW k \in 1..n PROVE Range(Shard(drained, n, k)) \subseteq InFlight'
  <2>1. picked[k] \in Peer /\ picked[k] \in Range(picked)
    BY <1>0 DEF Range
  <2>2. PICK p \in Peer : p = picked[k] /\ p \in Range(picked)
    BY <2>1
  <2>3. \A i \in 1..n : picked[i] = p => i = k
    BY <1>6, <2>2, Zenon DEF IsInjective
  <2>4. (CHOOSE i \in 1..n : picked[i] = p) = k
    BY <2>2, <2>3, Zenon
  <2>5. task'[p] = [Idle EXCEPT !.at = IF K(Size) = 1 THEN "exchange" ELSE "connect",
                                !.shard = Shard(drained, n, k)]
    BY <1>0, <1>5, <2>2, <2>4, Zenon
  <2>6. task'[p].shard = Shard(drained, n, k)
    BY <2>5 DEF Idle
  <2>7. QED BY <2>6 DEF InFlight
<1>8. ASSUME NEW i \in 1..Len(pending) PROVE pending[i] \in Range(pending') \cup InFlight'
  <2>1. CASE i > m
    BY <1>0, <1>1, <1>4, <2>1
  <2>2. CASE ~(i > m)
    <3>1. i \in 1..Len(drained) /\ drained[i] = pending[i]
      BY <1>0, <1>1, <1>2, <2>2
    <3>2. PICK k \in 1..n : drained[i] \in Range(Shard(drained, n, k))
      BY <1>2, <3>1, ShardsCover, Zenon
    <3>3. QED BY <1>7, <3>1, <3>2, Zenon
  <2>3. QED BY <2>1, <2>2, Zenon
<1>9. QED BY <1>0, <1>8, Zenon DEF Range

\* An event is created in a place no payload is in.
LEMMA PlacedGrows ==
    ASSUME NEW e, NEW ev,
           events' = [f \in DOMAIN events \cup {e} |-> IF f = e THEN ev ELSE events[f]],
           e \in DOMAIN events => Held(e) = {}
    PROVE  Placed \subseteq Placed' /\ Range(ev.txs) \subseteq Placed'
<1>1. DOMAIN events' = DOMAIN events \cup {e} /\ events'[e] = ev
      /\ \A f \in DOMAIN events : f # e => events'[f] = events[f]
  OBVIOUS
<1>2. Held(e)' = Range(ev.txs) /\ \A f \in DOMAIN events : f # e => Held(f)' = Held(f)
  BY <1>1 DEF Held
<1>3. Range(ev.txs) \subseteq Placed'
  BY <1>1, <1>2 DEF Placed
<1>4. ASSUME NEW f \in DOMAIN events, NEW x \in Held(f) PROVE x \in Placed'
  <2>1. f # e
    BY <1>4
  <2>2. x \in Held(f)' /\ f \in DOMAIN events'
    BY <1>1, <1>2, <1>4, <2>1, Zenon
  <2>3. QED BY <2>2 DEF Placed
<1>5. QED BY <1>3, <1>4 DEF Placed

LEMMA QueueInit == Init => QueueInv
<1> SUFFICES ASSUME Init PROVE QueueInv
  OBVIOUS
<1>1. DriverTypeOK
  BY DriverTypeInit
<1>2. \A p \in Peer : task[p] = Idle /\ task[p].at = "idle"
  BY DEF Init, Idle
<1>3. submitted = 0 /\ pending_dropped = 0 /\ DOMAIN events = {}
  BY DEF Init
<1>4. NothingLost
  <2> DEFINE S == Range(pending) \cup InFlight \cup UNION {Held(e) : e \in DOMAIN events}
  <2>1. (1..submitted) \ S = {}
    <3> HIDE DEF S
    <3>1. QED BY <1>3
  <2>2. Cardinality({}) = 0
    BY FS_EmptySet
  <2>3. Cardinality((1..submitted) \ S) <= pending_dropped
    <3> HIDE DEF S
    <3>1. QED BY <1>3, <2>1, <2>2
  <2>4. QED BY <2>3 DEF NothingLost
<1>5. QED BY <1>1, <1>2, <1>3, <1>4, Zenon DEF QueueInv

\* The tasks, and where their payloads are.
TasksPlaced ==
    /\ \A p \in Peer : task[p].at = "idle" => task[p] = Idle
    /\ \A p \in Peer : task[p].at \in {"push", "log"} => Range(task[p].shard) \subseteq Placed
    /\ \A e \in DOMAIN events : e[1] # Me => events[e].txs = <<>>

\* One task moves on, with its payload.
LEMMA TaskKeeps ==
    ASSUME DriverTypeOK, TasksPlaced, NothingLost, NEW p \in Peer, NEW t, task' = [task EXCEPT ![p] = t],
           t.at # "idle", t.shard = task[p].shard,
           t.at \in {"push", "log"} => Range(t.shard) \subseteq Placed,
           UNCHANGED queue, UNCHANGED events
    PROVE  TasksPlaced' /\ NothingLost'
<1>1. task \in [Peer -> Task]
  BY DEF DriverTypeOK
<1>2. task'[p] = t /\ \A q \in Peer : q # p => task'[q] = task[q]
  BY <1>1
<1>3. Placed' = Placed
  BY Zenon DEF Placed, Held
<1>4. TasksPlaced'
  BY <1>2, <1>3 DEF TasksPlaced
<1>5. \A q \in Peer : task'[q].shard = task[q].shard
  BY <1>2
<1>6. InFlight' = InFlight
  BY <1>5 DEF InFlight
<1>7. Kept' = Kept
  BY <1>3, <1>6, Zenon DEF Kept, queue
<1>8. QED BY <1>4, <1>7, NoneMissing DEF queue

\* Nothing of the queue moves.
LEMMA QueueSame ==
    ASSUME DriverTypeOK, TasksPlaced, NothingLost, UNCHANGED queue, UNCHANGED <<task, events>>
    PROVE  TasksPlaced' /\ NothingLost'
<1>1. Placed' = Placed /\ InFlight' = InFlight
  BY DEF Placed, Held, InFlight
<1>2. QED BY <1>1, Zenon DEF TasksPlaced, NothingLost, Placed, queue

\* A round ends without an event, its payload back in the queue.
LEMMA RoundEnds ==
    ASSUME DriverTypeOK, TasksPlaced, NothingLost, NEW p \in Peer, NEW t, task' = [task EXCEPT ![p] = t],
           t = Idle \/ (t.at = "log" /\ t.shard = <<>>), GiveBack(p), UNCHANGED events
    PROVE  TasksPlaced' /\ NothingLost'
<1>1. task \in [Peer -> Task]
  BY DEF DriverTypeOK
<1>2. task'[p] = t /\ \A q \in Peer : q # p => task'[q] = task[q]
  BY <1>1, Zenon
<1>3. Placed' = Placed
  BY Zenon DEF Placed, Held
<1>4. Idle.shard = <<>> /\ Range(<<>>) = {} /\ Idle.at = "idle"
  BY DEF Idle, Range
<1>5. TasksPlaced'
  BY <1>2, <1>3, <1>4, Zenon DEF TasksPlaced
<1>6. QED BY <1>2, <1>5, GivenBack

LEMMA QueueStep ==
    ASSUME ChainInv, QueueInv, [Next]_vars
    PROVE  QueueInv'
<1> USE DEF queue, world, flags
<1>0. /\ DriverTypeOK /\ TasksPlaced /\ NothingLost /\ task \in [Peer -> Task] /\ peers \subseteq Peer
      /\ submitted \in Nat /\ pending_dropped \in Nat /\ pending \in Seq(Nat)
  BY DEF QueueInv, TasksPlaced, DriverTypeOK
<1>t. DriverTypeOK'
  BY <1>0, DriverTypeStep, Zenon
<1> SUFFICES TasksPlaced' /\ NothingLost'
  BY <1>t, Zenon DEF QueueInv, TasksPlaced
<1>1. ASSUME UNCHANGED queue, UNCHANGED <<task, events>> PROVE TasksPlaced' /\ NothingLost'
  BY <1>0, <1>1, QueueSame
<1>2. CASE UNCHANGED vars
  BY <1>1, <1>2 DEF vars
<1>3. CASE SubmitTransaction
  <2>1. submitted' = submitted + 1 /\ UNCHANGED <<task, events>>
    BY <1>3, Zenon DEF SubmitTransaction
  <2>2. Placed' = Placed /\ InFlight' = InFlight /\ TasksPlaced'
    BY <2>1, <1>0, Zenon DEF Placed, Held, InFlight, TasksPlaced
  <2>3. Cardinality((1..submitted) \ Kept) <= pending_dropped
    BY <1>0 DEF NothingLost, Kept, Placed
  <2>4. CASE Len(pending) >= MaxPending
    <3>1. pending_dropped' = pending_dropped + 1 /\ UNCHANGED pending
      BY <1>3, <2>4 DEF SubmitTransaction
    <3>2. Kept' = Kept
      BY <2>2, <3>1 DEF Kept
    <3>3. IsFiniteSet({submitted + 1}) /\ Cardinality({submitted + 1}) <= 1 /\ 1 \in Nat
      <4>1. IsFiniteSet({submitted + 1}) /\ Cardinality({submitted + 1}) = 1
        BY FS_Singleton, Zenon
      <4>2. QED BY <4>1
    <3>4. (1..submitted) \ (Kept \cup {submitted + 1}) = (1..submitted) \ Kept
      BY <1>0
    <3>5. (1..submitted + 1) \ (Kept \cup {submitted + 1}) = (1..submitted) \ Kept
      BY <1>0
    <3>6. submitted + 1 \in Nat /\ Kept \cup {submitted + 1} \subseteq Kept \cup {submitted + 1}
      BY <1>0
    <3>7. Cardinality((1..submitted + 1) \ Kept) <= pending_dropped + 1
      <4>0. PICK n \in Nat : n = submitted + 1
        BY <3>6
      <4>1. PICK A, X : A = Kept \cup {submitted + 1} /\ X = {submitted + 1}
        BY Zenon
      <4>2. Cardinality((1..n) \ A) <= pending_dropped /\ A \subseteq Kept \cup X
            /\ IsFiniteSet(X) /\ Cardinality(X) <= 1
        BY <2>3, <3>3, <3>5, <4>0, <4>1
      <4>3. Cardinality((1..n) \ Kept) <= pending_dropped + 1
        BY <1>0, <3>3, <4>2, MoreMissing, Zenon
      <4>4. QED BY <4>0, <4>3
    <3>8. QED BY <2>1, <2>2, <3>1, <3>2, <3>7, Zenon DEF NothingLost, Kept, Placed
  <2>5. CASE ~(Len(pending) >= MaxPending)
    <3>1. pending' = Append(pending, submitted') /\ UNCHANGED pending_dropped
      BY <1>3, <2>5 DEF SubmitTransaction
    <3>2. Range(pending') = Range(pending) \cup {submitted + 1}
      <4>1. PICK x \in Nat : x = submitted + 1
        BY <1>0
      <4>2. pending' = Append(pending, x) /\ Len(pending) \in Nat
        BY <1>0, <2>1, <3>1, <4>1
      <4>3. /\ DOMAIN pending' = 1..Len(pending) + 1 /\ DOMAIN pending = 1..Len(pending)
            /\ \A i \in 1..Len(pending) : pending'[i] = pending[i]
            /\ pending'[Len(pending) + 1] = x
        BY <1>0, <4>2
      <4>4. \A i \in 1..Len(pending) + 1 : i \in 1..Len(pending) \/ i = Len(pending) + 1
        BY <4>2
      <4>5. Len(pending) + 1 \in 1..Len(pending) + 1 /\ 1..Len(pending) \subseteq 1..Len(pending) + 1
        BY <4>2
      <4>6. \A y \in Range(pending') : y \in Range(pending) \cup {x}
        BY <4>3, <4>4, Zenon DEF Range
      <4>7. \A y \in Range(pending) \cup {x} : y \in Range(pending')
        BY <4>3, <4>5 DEF Range
      <4>8. QED BY <4>1, <4>6, <4>7
    <3>3. Kept' = Kept \cup {submitted + 1}
      BY <2>2, <3>2, Zenon DEF Kept
    <3>4. (1..submitted + 1) \ (Kept \cup {submitted + 1}) = (1..submitted) \ Kept
      <4> HIDE DEF Kept
      <4>1. QED BY <1>0
    <3>5. Cardinality((1..submitted') \ Kept') <= pending_dropped'
      BY <2>1, <2>3, <3>1, <3>3, <3>4, Zenon
    <3>6. QED BY <2>2, <3>5 DEF NothingLost, Kept, Placed
  <2>6. QED BY <2>4, <2>5
<1>4. ASSUME NEW n \in 1..K(Size), NEW picked \in [1..n -> peers], Tick(picked) PROVE TasksPlaced' /\ NothingLost'
  <2>0. n \in Nat \ {0}
    OBVIOUS
  <2>1. Range(pending) \subseteq Range(pending') \cup InFlight'
    BY <1>0, <1>4, <2>0, TickForgetsNone, Zenon
  <2>2. Busy = {} /\ UNCHANGED <<submitted, pending_dropped, events>>
    BY <1>4, Zenon DEF Tick
  <2>3. InFlight = {}
    <3>1. \A p \in Peer : task[p] = Idle
      BY <1>0, <2>2, Zenon DEF Busy, TasksPlaced
    <3>2. Idle.shard = <<>> /\ Range(<<>>) = {}
      BY DEF Idle, Range
    <3>3. QED BY <3>1, <3>2, Zenon DEF InFlight
  <2>4. Placed' = Placed
    BY <2>2, Zenon DEF Placed, Held
  <2>5. \A p \in Peer : task'[p] = Idle \/ task'[p].at \in {"exchange", "connect"}
    <3> DEFINE sh(p) == Shard(SubSeq(pending, 1, Min({TxPerSync, Len(pending)})), Len(picked),
                              CHOOSE i \in 1..Len(picked) : picked[i] = p)
    <3>1. task' = [p \in Peer |->
                     IF p \notin Range(picked) THEN Idle
                     ELSE [Idle EXCEPT !.at = IF K(Size) = 1 THEN "exchange" ELSE "connect", !.shard = sh(p)]]
      BY <1>4, Zenon DEF Tick
    <3> HIDE DEF sh
    <3>2. QED BY <3>1, Zenon DEF Idle
  <2>6. TasksPlaced'
    <3>1. Idle.at = "idle"
      BY DEF Idle
    <3>2. QED BY <1>0, <2>2, <2>5, <3>1, Zenon DEF TasksPlaced
  <2>7. Kept \subseteq Kept'
    BY <2>1, <2>3, <2>4, Zenon DEF Kept
  <2>8. QED BY <1>0, <2>2, <2>6, <2>7, NoneMissing
<1>5. ASSUME NEW p \in peers,
             \/ Connect(p) \/ ReceiveDelta(p) \/ InsertNext(p) \/ Blocked(p)
             \/ ReadParents(p) \/ InsertOwn(p) \/ PushBack(p) \/ LogFresh(p) \/ Fail(p)
      PROVE  TasksPlaced' /\ NothingLost'
  <2>0. p \in Peer /\ task[p] \in Task
    BY <1>0, Zenon
  <2>1. CASE Connect(p)
    <3>1. task' = [task EXCEPT ![p] = [task[p] EXCEPT !.at = "exchange"]]
      BY <2>1 DEF Connect
    <3>a. PICK t : t = [task[p] EXCEPT !.at = "exchange"]
      BY Zenon
    <3>b. task' = [task EXCEPT ![p] = t] /\ UNCHANGED queue /\ UNCHANGED events
      BY <2>1, <3>1, <3>a DEF Connect
    <3>c. t.at = "exchange" /\ t.shard = task[p].shard
      BY <2>0, <3>a DEF Task
    <3>2. QED BY <1>0, <2>0, <3>b, <3>c, TaskKeeps, Zenon
  <2>2. CASE ReceiveDelta(p)
    <3>1. PICK delta : task' = [task EXCEPT ![p] = [task[p] EXCEPT !.at = "insert", !.delta = delta]]
      BY <2>2, Zenon DEF ReceiveDelta
    <3>a. PICK t : t = [task[p] EXCEPT !.at = "insert", !.delta = delta]
      OBVIOUS
    <3>b. task' = [task EXCEPT ![p] = t] /\ UNCHANGED queue /\ UNCHANGED events
      BY <2>2, <3>1, <3>a, Zenon DEF ReceiveDelta
    <3>c. t.at = "insert" /\ t.shard = task[p].shard
      BY <2>0, <3>a DEF Task
    <3>2. QED BY <1>0, <2>0, <3>b, <3>c, TaskKeeps, Zenon
  <2>3. CASE InsertNext(p)
    <3>1. task[p].at = "insert" /\ UNCHANGED queue /\ UNCHANGED events
      BY <2>3 DEF InsertNext
    <3>2. PICK delta, fresh : task' = [task EXCEPT ![p] = [task[p] EXCEPT !.delta = delta, !.fresh = fresh]]
      <4>1. CASE Head(task[p].delta) \in Range(graph)
        <5>1. task' = [task EXCEPT ![p] = [task[p] EXCEPT !.delta = Tail(task[p].delta)]]
          BY <2>3, <4>1 DEF InsertNext
        <5>2. [task[p] EXCEPT !.delta = Tail(task[p].delta)]
                = [task[p] EXCEPT !.delta = Tail(task[p].delta), !.fresh = task[p].fresh]
          BY <2>0, Zenon DEF Task
        <5>3. QED BY <5>1, <5>2, Zenon
      <4>2. CASE Head(task[p].delta) \notin Range(graph)
        <5>1. task' = [task EXCEPT ![p] = [task[p] EXCEPT !.delta = Tail(task[p].delta),
                                              !.fresh = Append(task[p].fresh, Head(task[p].delta))]]
          BY <2>3, <4>2, Zenon DEF InsertNext
        <5>2. QED BY <5>1, Zenon
      <4>3. QED BY <4>1, <4>2, Zenon
    <3>3. PICK t : t = [task[p] EXCEPT !.delta = delta, !.fresh = fresh]
      OBVIOUS
    <3>4. task' = [task EXCEPT ![p] = t] /\ t.at = "insert" /\ t.shard = task[p].shard
      BY <2>0, <3>1, <3>2, <3>3 DEF Task
    <3>5. QED BY <1>0, <2>0, <3>1, <3>4, TaskKeeps, Zenon
  <2>4. CASE Blocked(p)
    <3>1. task' = [task EXCEPT ![p] = [task[p] EXCEPT !.at = "log", !.shard = <<>>]]
      BY <2>4, Zenon DEF Blocked
    <3>2. QED BY <1>0, <2>0, <2>4, <3>1, RoundEnds, Zenon DEF Blocked, Task
  <2>5. CASE ReadParents(p)
    <3>1. PICK sp, op : task' = [task EXCEPT ![p] = [task[p] EXCEPT !.at = "create", !.self_parent = sp,
                                                                       !.other_parent = op]]
      BY <2>5, Zenon DEF ReadParents
    <3>a. PICK t : t = [task[p] EXCEPT !.at = "create", !.self_parent = sp, !.other_parent = op]
      OBVIOUS
    <3>b. task' = [task EXCEPT ![p] = t] /\ UNCHANGED queue /\ UNCHANGED events
      BY <2>5, <3>1, <3>a, Zenon DEF ReadParents
    <3>c. t.at = "create" /\ t.shard = task[p].shard
      BY <2>0, <3>a DEF Task
    <3>2. QED BY <1>0, <2>0, <3>b, <3>c, TaskKeeps, Zenon
  <2>6. CASE InsertOwn(p)
    <3> DEFINE e == <<Me, Cardinality({f \in DOMAIN events : f[1] = Me}) + 1>>
               ev == [self_parent |-> task[p].self_parent, other_parent |-> task[p].other_parent,
                      txs |-> task[p].shard]
    <3>1. PICK k \in Nat : {f \in DOMAIN events : f[1] = Me} = {<<Me, i>> : i \in 1..k}
      BY Zenon DEF ChainInv, GraphInv, Numbered
    <3>2. e = <<Me, k + 1>>
      BY <3>1, OwnCount, Zenon
    <3>3. /\ events' = [f \in DOMAIN events \cup {e} |-> IF f = e THEN ev ELSE events[f]]
          /\ task' = [task EXCEPT ![p] = [task[p] EXCEPT !.at = "push", !.fresh = Append(task[p].fresh, e)]]
          /\ UNCHANGED queue
      BY <2>6, Zenon DEF InsertOwn
    <3>4. ev.txs = task[p].shard
      OBVIOUS
    <3> HIDE DEF e, ev
    <3>5. e \notin DOMAIN events /\ e[1] = Me
      BY <3>1, <3>2
    <3>6. Placed \subseteq Placed' /\ Range(ev.txs) \subseteq Placed'
      BY <3>3, <3>5, PlacedGrows
    <3>7. /\ task'[p].at = "push" /\ task'[p].shard = task[p].shard
          /\ \A q \in Peer : q # p => task'[q] = task[q]
      BY <1>0, <2>0, <3>3, Zenon DEF Task
    <3>8. TasksPlaced'
      <4>1. \A q \in Peer : task'[q].at = "idle" => task'[q] = Idle
        BY <1>0, <3>7, Zenon DEF TasksPlaced
      <4>2. \A q \in Peer : task'[q].at \in {"push", "log"} => Range(task'[q].shard) \subseteq Placed'
        BY <1>0, <3>4, <3>6, <3>7, Zenon DEF TasksPlaced
      <4>3. \A f \in DOMAIN events' : f[1] # Me => events'[f].txs = <<>>
        BY <1>0, <3>3, <3>5, Zenon DEF TasksPlaced
      <4>4. QED BY <4>1, <4>2, <4>3, Zenon DEF TasksPlaced
    <3>9. InFlight' = InFlight
      <4>1. \A q \in Peer : task'[q].shard = task[q].shard
        BY <3>7
      <4>2. QED BY <4>1, Zenon DEF InFlight
    <3>10. Kept \subseteq Kept'
      BY <3>3, <3>6, <3>9, Zenon DEF Kept
    <3>11. QED BY <1>0, <3>3, <3>8, <3>10, NoneMissing
  <2>7. CASE PushBack(p)
    <3>1. task' = [task EXCEPT ![p] = [task[p] EXCEPT !.at = "log"]] /\ task[p].at = "push"
      BY <2>7 DEF PushBack
    <3>2. Range(task[p].shard) \subseteq Placed
      BY <1>0, <2>0, <3>1 DEF TasksPlaced
    <3>a. PICK t : t = [task[p] EXCEPT !.at = "log"]
      BY Zenon
    <3>b. task' = [task EXCEPT ![p] = t] /\ UNCHANGED queue /\ UNCHANGED events
      BY <2>7, <3>1, <3>a DEF PushBack
    <3>c. t.at = "log" /\ t.shard = task[p].shard
      BY <2>0, <3>a DEF Task
    <3>3. QED BY <1>0, <2>0, <3>2, <3>b, <3>c, TaskKeeps, Zenon
  <2>8. CASE LogFresh(p)
    <3>1. task' = [task EXCEPT ![p] = Idle] /\ task[p].at = "log" /\ UNCHANGED queue /\ UNCHANGED events
      BY <2>8, Zenon DEF LogFresh
    <3>2. Range(task[p].shard) \subseteq Placed /\ Placed' = Placed
      BY <1>0, <2>0, <3>1, Zenon DEF TasksPlaced, Placed, Held
    <3>3. task'[p] = Idle /\ \A q \in Peer : q # p => task'[q] = task[q]
      BY <1>0, <2>0, <3>1, Zenon
    <3>4. TasksPlaced'
      <4>1. Idle.at = "idle"
        BY DEF Idle
      <4>2. QED BY <1>0, <3>1, <3>2, <3>3, <4>1, Zenon DEF TasksPlaced
    <3>5. InFlight \subseteq InFlight' \cup Range(task[p].shard)
      BY <3>3, Zenon DEF InFlight
    <3>6. Kept \subseteq Kept'
      BY <3>1, <3>2, <3>5, Zenon DEF Kept
    <3>7. QED BY <1>0, <3>1, <3>4, <3>6, NoneMissing
  <2>9. CASE Fail(p)
    <3>1. task' = [task EXCEPT ![p] = Idle] /\ GiveBack(p) /\ UNCHANGED events
      BY <2>9 DEF Fail
    <3>2. QED BY <1>0, <2>0, <3>1, RoundEnds, Zenon
  <2>10. QED BY <1>5, <2>1, <2>2, <2>3, <2>4, <2>5, <2>6, <2>7, <2>8, <2>9, Zenon
<1>6. ASSUME NEW e, InboundInsert(e) \/ InboundLog(e) PROVE TasksPlaced' /\ NothingLost'
  BY <1>1, <1>6 DEF InboundInsert, InboundLog
<1>7. CASE ServeDelta \/ ApplyCheckpoint
  BY <1>1, <1>7, Zenon DEF ServeDelta, ApplyCheckpoint
<1>8. ASSUME NEW p \in peers, NEW m, PeerCreates(p, m) PROVE TasksPlaced' /\ NothingLost'
  <2> DEFINE e == <<p, Cardinality({f \in DOMAIN events : f[1] # Me}) + 1>>
             ev == [self_parent |-> LatestBy(network, p), other_parent |-> LatestBy(network, m),
                    txs |-> <<>>]
  <2>1. /\ events' = [f \in DOMAIN events \cup {e} |-> IF f = e THEN ev ELSE events[f]]
        /\ UNCHANGED queue /\ UNCHANGED task
    BY <1>8, Zenon DEF PeerCreates
  <2>2. ev.txs = <<>> /\ e[1] = p /\ p # Me /\ Range(<<>>) = {}
    <3>1. p # Me
      BY <1>0, DriverAssumption
    <3>2. Range(<<>>) = {}
      BY DEF Range
    <3>3. ev.txs = <<>> /\ e[1] = p
      OBVIOUS
    <3>4. QED BY <3>1, <3>2, <3>3
  <2> HIDE DEF e, ev
  <2>3. e \in DOMAIN events => Held(e) = {}
    BY <1>0, <2>2, Zenon DEF TasksPlaced, Held
  <2>4. Placed \subseteq Placed'
    BY <2>1, <2>3, PlacedGrows, Zenon
  <2>5. TasksPlaced'
    <3>1. \A f \in DOMAIN events' : f[1] # Me => events'[f].txs = <<>>
      BY <1>0, <2>1, <2>2, Zenon DEF TasksPlaced
    <3>2. QED BY <1>0, <2>1, <2>4, <3>1, Zenon DEF TasksPlaced
  <2>6. InFlight' = InFlight
    BY <2>1, Zenon DEF InFlight
  <2>7. Kept \subseteq Kept'
    BY <2>1, <2>4, <2>6 DEF Kept
  <2>8. QED BY <1>0, <2>1, <2>5, <2>7, NoneMissing, Zenon
<1>9. QED BY <1>2, <1>3, <1>4, <1>5, <1>6, <1>7, <1>8, Zenon DEF Next, Step

\* No payload is lost: with any number of peers, tasks and payloads, and rounds
\* that fail, time out or are blocked at any point, every payload
\* submit_transaction was given waits, is on its way into an event, is in one,
\* or is counted in pending_dropped.
THEOREM PayloadsAccountedFor == Spec => []NothingLost
<1>1. Init => ChainInv /\ QueueInv
  BY ChainInit, QueueInit, Zenon
<1>2. (ChainInv /\ QueueInv) /\ [Next]_vars => (ChainInv /\ QueueInv)'
  BY ChainStep, QueueStep, Zenon
<1>3. QueueInv => NothingLost
  BY DEF QueueInv
<1>4. QED BY <1>1, <1>2, <1>3, PTL DEF Spec
=============================================================================
