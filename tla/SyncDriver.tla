----------------------------- MODULE SyncDriver -----------------------------
(***************************************************************************)
(* The sync driver of one node (run_until_stopped in gossip/src/node.rs)   *)
(* with its queue of transactions, the tasks of one tick that exchange a   *)
(* delta each and create an own event (gossip/src/sync.rs), the handler of *)
(* inbound events, and the durable event log (storage/src/event_log.rs).   *)
(*                                                                         *)
(* The peers are one external graph, `network', that grows on its own; the *)
(* filter for likely duplicates (gossip/src/frontier.rs) that a peer puts  *)
(* before its answers is modelled, by what it may still remember.          *)
(***************************************************************************)
EXTENDS Integers, Sequences, FiniteSets, FiniteSetsExt, Functions, Filters

CONSTANTS
    Me,             \* this node
    Peer,           \* those who may be the other members
    Clusters,       \* the sets of other members looked at
    K(_),           \* effective_k: syncs of one tick, by the number of peers
    TxPerSync,      \* TX_PER_SYNC
    MaxPending,     \* MAX_PENDING_TRANSACTIONS
    None,
    MaxSubmitted(_),\* bound: payloads submitted, by the number of peers
    MaxOwn(_),      \* bound: own events
    MaxRemote(_),   \* bound: events of the peers
    MaxReconnects(_)\* bound: checkpoints applied

ASSUME DriverAssumption ==
    /\ Clusters \subseteq SUBSET Peer /\ Me \notin Peer
    /\ \A c \in Clusters : K(Cardinality(c)) \in 1..Cardinality(c)
    /\ TxPerSync \in Nat \ {0} /\ MaxPending \in Nat \ {0}
    /\ None \notin ((Peer \cup {Me}) \X Nat)

VARIABLES
    peers,           \* the other members
    submitted,       \* how many payloads submit_transaction was given: 1, 2, ...
    pending,         \* pending_transactions
    pending_dropped, \* the metric: payloads refused or cut off
    events,          \* every event created: its parents and payload
    graph,           \* the live hashgraph, in the order of insertion
    log,             \* the event log, in the order of by_seq
    network,         \* what the peers hold, in the order of insertion
    sent,            \* sent[p]: what the DedupState of p has for this node
    task,            \* task[p]: the sync with p in this tick
    inbound,         \* events inserted by inbound handlers, not yet logged
    needs_reconnect,
    reconnects       \* how often a checkpoint was applied

queue == <<submitted, pending, pending_dropped>>
world == <<network, sent>>
flags == <<needs_reconnect, reconnects>>
vars == <<peers, queue, events, graph, log, world, task, inbound, flags>>

Idle == [at |-> "idle", shard |-> <<>>, delta |-> <<>>, fresh |-> <<>>,
         self_parent |-> None, other_parent |-> None]

Size == Cardinality(peers)

Busy == {p \in Peer : task[p].at # "idle"}

\* latest_event_by, of a graph given by its order of insertion.
LatestBy(g, m) ==
    LET own == {i \in DOMAIN g : g[i][1] = m}
    IN IF own = {} THEN None ELSE g[Max(own)]

Parents(e) == {events[e].self_parent, events[e].other_parent} \ {None}

Insertable(g, e) == e \notin Range(g) /\ Parents(e) \subseteq Range(g)

\* A variant that appends whatever it is given.
LoggedAgain(l, fresh) == l \o fresh

\* EventLog::append: an event that is logged is not logged again.
Logged(l, fresh) == l \o Without(fresh, Range(l))

\* requeue_pending_transactions: back to the front, the last ones first, as
\* far as the queue has room.
Requeue(q, txs) ==
    LET room == Max({0, MaxPending - Len(q)})
        kept == Min({room, Len(txs)})
    IN SubSeq(txs, Len(txs) - kept + 1, Len(txs)) \o q

Init ==
    /\ peers \in Clusters
    /\ submitted = 0 /\ pending = <<>> /\ pending_dropped = 0
    /\ events = [e \in {} |-> None]
    /\ graph = <<>> /\ log = <<>> /\ network = <<>>
    /\ sent = [p \in Peer |-> {}]
    /\ task = [p \in Peer |-> Idle]
    /\ inbound = {}
    /\ needs_reconnect = FALSE /\ reconnects = 0

------------------------------------------------------------------------------
\* submit_transaction.
SubmitTransaction ==
    /\ submitted < MaxSubmitted(Size)
    /\ submitted' = submitted + 1
    /\ IF Len(pending) >= MaxPending
       THEN pending_dropped' = pending_dropped + 1 /\ UNCHANGED pending
       ELSE pending' = Append(pending, submitted') /\ UNCHANGED pending_dropped
    /\ UNCHANGED <<events, graph, log, world, task, inbound, flags>>

\* A variant that rounds the size of a shard down.
ShardFloor(txs, n, i) ==
    LET chunk == Len(txs) \div n
    IN SubSeq(txs, (i - 1) * chunk + 1, i * chunk)

\* The payloads of one tick, split evenly over n tasks, the last ones short.
Shard(txs, n, i) ==
    LET chunk == (Len(txs) + n - 1) \div n
        upTo(j) == Min({j * chunk, Len(txs)})
    IN SubSeq(txs, upTo(i - 1) + 1, upTo(i))

\* A tick: drain_pending_transactions and one task for each peer picked, of whom
\* there are fewer than the fanout while others are in back-off.  With a fanout
\* of one the connection is there before the queue is drained.
Tick(picked) ==
    LET n == Len(picked)
        drained == SubSeq(pending, 1, Min({TxPerSync, Len(pending)}))
    IN /\ Busy = {} /\ ~needs_reconnect
       /\ IsInjective(picked)
       /\ pending' = SubSeq(pending, Len(drained) + 1, Len(pending))
       /\ task' = [p \in Peer |->
                     IF p \notin Range(picked) THEN Idle
                     ELSE [Idle EXCEPT
                             !.at = IF K(Size) = 1 THEN "exchange" ELSE "connect",
                             !.shard = Shard(drained, n, CHOOSE i \in 1..n : picked[i] = p)]]
       /\ UNCHANGED <<submitted, pending_dropped, events, graph, log, world, inbound, flags>>

GiveBack(p) ==
    /\ pending' = Requeue(pending, task[p].shard)
    /\ pending_dropped' = pending_dropped + Len(pending) + Len(task[p].shard) - Len(pending')
    /\ UNCHANGED submitted

Connect(p) ==
    /\ task[p].at = "connect"
    /\ task' = [task EXCEPT ![p].at = "exchange"]
    /\ UNCHANGED <<queue, events, graph, log, world, inbound, flags>>

\* exchange_delta up to the answer: the peer sends what this node's summary
\* lacks, short of what it sent it a moment ago (delta_events_filtered).
ReceiveDelta(p) ==
    \E recent \in SUBSET sent[p] :
        LET delta == Without(network, Range(graph) \cup recent)
        IN /\ task[p].at = "exchange"
           /\ task' = [task EXCEPT ![p].at = "insert", ![p].delta = delta]
           /\ sent' = [sent EXCEPT ![p] = @ \cup Range(delta)]
           /\ UNCHANGED <<queue, events, graph, log, network, inbound, flags>>

\* insert_verified for the next event of the delta; one that is there already
\* is passed over.
InsertNext(p) ==
    /\ task[p].at = "insert" /\ task[p].delta # <<>>
    /\ LET e == Head(task[p].delta) IN
          IF e \in Range(graph)
          THEN /\ task' = [task EXCEPT ![p].delta = Tail(@)]
               /\ UNCHANGED graph
          ELSE /\ Insertable(graph, e)
               /\ task' = [task EXCEPT ![p].delta = Tail(@), ![p].fresh = Append(@, e)]
               /\ graph' = Append(graph, e)
    /\ UNCHANGED <<queue, events, log, world, inbound, flags>>

\* A variant that forgets the payload when the delta was blocked.
BlockedForgets(p) ==
    /\ task[p].at = "insert" /\ task[p].delta # <<>>
    /\ Head(task[p].delta) \notin Range(graph) /\ ~Insertable(graph, Head(task[p].delta))
    /\ needs_reconnect' = TRUE
    /\ task' = [task EXCEPT ![p].at = "log", ![p].shard = <<>>]
    /\ UNCHANGED <<queue, events, graph, log, world, inbound, reconnects>>

\* The first MissingParent blocks the rest: no own event, the payload goes
\* back to the queue and the node asks for a reconnect.
Blocked(p) ==
    /\ task[p].at = "insert" /\ task[p].delta # <<>>
    /\ Head(task[p].delta) \notin Range(graph) /\ ~Insertable(graph, Head(task[p].delta))
    /\ GiveBack(p)
    /\ needs_reconnect' = TRUE
    /\ task' = [task EXCEPT ![p].at = "log", ![p].shard = <<>>]
    /\ UNCHANGED <<events, graph, log, world, inbound, reconnects>>

\* A variant in which the tasks of a tick create their events unserialized.
ReadParentsUnlocked(p) ==
    /\ task[p].at = "insert" /\ task[p].delta = <<>>
    /\ task' = [task EXCEPT ![p].at = "create", ![p].self_parent = LatestBy(graph, Me),
                            ![p].other_parent = LatestBy(graph, p)]
    /\ UNCHANGED <<queue, events, graph, log, world, inbound, flags>>

\* create_own_event reads both parents under own_event_lock ...
ReadParents(p) ==
    /\ task[p].at = "insert" /\ task[p].delta = <<>>
    /\ \A q \in Peer : task[q].at # "create"
    /\ task' = [task EXCEPT ![p].at = "create", ![p].self_parent = LatestBy(graph, Me),
                            ![p].other_parent = LatestBy(graph, p)]
    /\ UNCHANGED <<queue, events, graph, log, world, inbound, flags>>

\* ... signs the event and inserts it (insert_own_event).
InsertOwn(p) ==
    LET e == <<Me, Cardinality({f \in DOMAIN events : f[1] = Me}) + 1>>
        ev == [self_parent |-> task[p].self_parent, other_parent |-> task[p].other_parent,
               txs |-> task[p].shard]
    IN /\ task[p].at = "create" /\ e[2] <= MaxOwn(Size)
       /\ events' = [f \in DOMAIN events \cup {e} |-> IF f = e THEN ev ELSE events[f]]
       /\ graph' = Append(graph, e)
       /\ task' = [task EXCEPT ![p].at = "push", ![p].fresh = Append(@, e)]
       /\ UNCHANGED <<queue, log, world, inbound, flags>>

\* The push-back arrives, and the peer keeps it if it has the parents; or
\* send_frame fails, which the round survives.
PushBack(p) ==
    LET e == task[p].fresh[Len(task[p].fresh)]
    IN /\ task[p].at = "push"
       /\ network' \in {network} \cup (IF Insertable(network, e) THEN {Append(network, e)} ELSE {})
       /\ task' = [task EXCEPT ![p].at = "log"]
       /\ UNCHANGED <<queue, events, graph, log, sent, inbound, flags>>

\* log_fresh_inserts, for a round that came to its end.
LogFresh(p) ==
    /\ task[p].at = "log"
    /\ log' = Logged(log, task[p].fresh)
    /\ task' = [task EXCEPT ![p] = Idle]
    /\ UNCHANGED <<queue, events, graph, world, inbound, flags>>

\* A round that fails: no connection, an error in the exchange, or the timeout
\* around all of it, which also cuts off a push-back that does not get through.
Fail(p) ==
    /\ task[p].at \in {"connect", "exchange", "insert", "create", "push"}
    /\ GiveBack(p)
    /\ task' = [task EXCEPT ![p] = Idle]
    /\ UNCHANGED <<events, graph, log, world, inbound, flags>>

------------------------------------------------------------------------------
\* handle_inbound, an event its creator pushes: inserted, and then logged,
\* before the next frame of that connection is read.
InboundInsert(e) ==
    /\ e[1] # Me /\ \A f \in inbound : f[1] # e[1]
    /\ Insertable(graph, e)
    /\ graph' = Append(graph, e)
    /\ inbound' = inbound \cup {e}
    /\ UNCHANGED <<queue, events, log, world, task, flags>>

InboundLog(e) ==
    /\ log' = Logged(log, <<e>>)
    /\ inbound' = inbound \ {e}
    /\ UNCHANGED <<queue, events, graph, world, task, flags>>

\* handle_inbound, a request: the peers take what they lack of this graph.
ServeDelta ==
    /\ network' = network \o Without(graph, Range(network))
    /\ UNCHANGED <<queue, events, graph, log, sent, task, inbound, flags>>

\* apply_checkpoint: the graph becomes the one of the teacher; what it retains
\* is logged in the order it arrives in, which is any.
ApplyCheckpoint ==
    /\ Busy = {} /\ needs_reconnect /\ reconnects < MaxReconnects(Size)
    /\ graph' = network
    /\ \E served \in Bijection(1..Len(network), Range(network)) : log' = Logged(log, served)
    /\ needs_reconnect' = FALSE /\ reconnects' = reconnects + 1
    /\ UNCHANGED <<queue, events, world, task, inbound>>

\* A peer creates an event on top of its last and of what it holds of another.
PeerCreates(p, m) ==
    LET i == Cardinality({f \in DOMAIN events : f[1] # Me})
        e == <<p, i + 1>>
        ev == [self_parent |-> LatestBy(network, p), other_parent |-> LatestBy(network, m),
               txs |-> <<>>]
    IN /\ i < MaxRemote(Size) /\ m # p
       /\ events' = [f \in DOMAIN events \cup {e} |-> IF f = e THEN ev ELSE events[f]]
       /\ network' = Append(network, e)
       /\ UNCHANGED <<queue, graph, log, sent, task, inbound, flags>>

Step ==
    \/ SubmitTransaction
    \/ \E n \in 1..K(Size) : \E picked \in [1..n -> peers] : Tick(picked)
    \/ \E p \in peers :
          \/ Connect(p) \/ ReceiveDelta(p) \/ InsertNext(p) \/ Blocked(p)
          \/ ReadParents(p) \/ InsertOwn(p) \/ PushBack(p) \/ LogFresh(p) \/ Fail(p)
    \/ \E e \in Range(network) : InboundInsert(e)
    \/ \E e \in inbound : InboundLog(e)
    \/ ServeDelta \/ ApplyCheckpoint
    \/ \E p \in peers, m \in peers \cup {Me} : PeerCreates(p, m)

Next == Step /\ UNCHANGED peers

Spec == Init /\ [][Next]_vars

------------------------------------------------------------------------------
Held(e) == Range(events[e].txs)

InFlight == UNION {Range(task[p].shard) : p \in Peer}

\* The graph, the log and the peers hold events with all their parents, each
\* once; the queue keeps to its limit; and an event an inbound handler has
\* still to log is in the graph until a checkpoint replaces it.
TypeOK ==
    /\ Len(pending) <= MaxPending
    /\ IsInjective(graph) /\ IsInjective(log) /\ IsInjective(network)
    /\ Range(log) \cup Range(network) \cup Range(graph) \subseteq DOMAIN events
    /\ \A i \in DOMAIN graph : Parents(graph[i]) \subseteq Range(SubSeq(graph, 1, i - 1))
    /\ reconnects = 0 => inbound \subseteq Range(graph)

\* A payload that was submitted is waiting, on its way into an event, or was
\* put into one; the ones that are not are counted in pending_dropped.  A round
\* that fails, times out or is blocked, before or after others of its tick,
\* loses none.
NothingLost ==
    Cardinality((1..submitted) \ (Range(pending) \cup InFlight \cup UNION {Held(e) : e \in DOMAIN events}))
        <= pending_dropped

\* This node never forks its own chain: of its events that it or a peer holds,
\* created by different tasks of a tick, in different ticks or around a
\* reconnect, no two have the same self-parent.  (One that a reconnect drops
\* before a peer got it is held by nobody, and the next one takes its place.)
NoSelfFork ==
    \A e, f \in Range(graph) \cup Range(network) :
        e[1] = Me /\ f[1] = Me /\ e # f => events[e].self_parent # events[f].self_parent

\* requeue_pending_transactions: "Payloads whose event was already inserted
\* must NOT be passed here": a payload of an inserted event is never waiting
\* to be put into another one.
NotRequeuedWhenInserted ==
    \A e \in Range(graph) : Held(e) \cap Range(pending) = {}

\* log_fresh_inserts: "the log and the live graph stay in lockstep": with no
\* round and no inbound event under way, every event of the graph is logged.
Lockstep ==
    Busy = {} /\ inbound = {} => Range(graph) \subseteq Range(log)

\* EventLog: the log "preserves insertion order -- which is topological order":
\* no event is logged after one of its children.
LogTopological ==
    \A i, j \in DOMAIN log : i < j => log[j] \notin Parents(log[i])

\* delta_events: "a receiver inserting in order never hits MissingParent".
DeltaInsertable ==
    \A p \in Peer :
        task[p].at = "insert" /\ task[p].delta # <<>> /\ Head(task[p].delta) \notin Range(graph)
            => Insertable(graph, Head(task[p].delta))

\* SyncOutcome: an own event whose push-back failed "stays in the local graph,
\* so the next delta to any peer redelivers it": no own event is left that
\* neither this node nor a peer holds.
OwnEventsKept ==
    \A e \in DOMAIN events : e[1] = Me => e \in Range(graph) \cup Range(network)
=============================================================================
