----------------------------- MODULE PeerManager -----------------------------
(***************************************************************************)
(* Whom a node syncs with, and over which connection.                      *)
(*                                                                         *)
(* The peer table with its scores and back-off (peer_manager.rs in         *)
(* protocol/gossip/src), the pool of outbound connections and the connect  *)
(* and retry logic of the sync driver (run_until_stopped in node.rs,       *)
(* TcpTransport in transport.rs).  What a sync exchanges is in SyncDriver. *)
(*                                                                         *)
(* A score orders the eligible peers, and one pick in ten ignores it, so   *)
(* every choice of eligible peers is possible; which of them are eligible  *)
(* depends on the back-off alone.  Time is counted from the last failure.  *)
(***************************************************************************)
EXTENDS Integers, Sequences, FiniteSets, SequencesExt

CONSTANTS
    Peer,               \* nodes that may become peers
    Genesis,            \* peers of the cluster file
    Modes,              \* fanout modes: k for Fixed(k), and 0, which parse refuses, for Auto
    BackoffBase,        \* BACKOFF_BASE, 100 ms in the code
    BackoffCeiling,     \* BACKOFF_CEILING, 2 s
    StreakTtl,          \* FAILURE_STREAK_TTL, 10 s
    MaxExp,             \* largest exponent of the back-off, 5
    SmallRoster, SmallCapacity, LargeRoster, LargeCapacity   \* outbound_capacity: 6, 10, 100, 30

ASSUME PeerAssumption ==
    /\ Genesis \subseteq Peer
    /\ SmallCapacity \in 1..LargeCapacity /\ SmallRoster < LargeRoster

VARIABLES
    mode,       \* FanoutMode of this node
    known,      \* the peer table
    reach,      \* of each node: "up"; "down"; "mute", connected to and not answering
    backoff,    \* time left of backoff_until
    streak,     \* consecutive_failures, counted up to MaxExp
    since,      \* time since last_failure, up to StreakTtl + 1
    pool,       \* the pooled transports, least recently used first
    conn,       \* the stream of a peer's transport: "none", "open", or "stale"
    task         \* the sync with a peer: "idle", "lookup", "connect", "exchange", "reopen", "retry"

peerTable == <<mode, known>>
score == <<backoff, streak, since>>
peerVars == <<peerTable, reach, score, pool, conn, task>>

\* FanoutMode::effective_k: the ratio is in thousandths; its fractions are exact.
effective_k(m, n_peers) ==
    LET n == n_peers + 1
        ratio == IF n <= 10 THEN 600 ELSE IF n >= 30 THEN 300 ELSE 600 - (n - 10) * 15
        k_max == IF n <= 6 THEN 4 ELSE IF n >= 100 THEN 12 ELSE 17
        k == (n * ratio + 999) \div 1000
        upper == Min({k_max, n_peers})
    IN IF m # 0 THEN Max({1, Min({m, n_peers})})
       ELSE IF n_peers <= 1 THEN 1
       ELSE Max({Min({2, upper}), Min({k, upper})})

outbound_capacity(n) ==
    IF n <= SmallRoster THEN SmallCapacity
    ELSE IF n >= LargeRoster THEN LargeCapacity
    ELSE SmallCapacity + ((n - SmallRoster) * (LargeCapacity - SmallCapacity)) \div (LargeRoster - SmallRoster)

Fanout == effective_k(mode, Cardinality(known))

Eligible == {p \in known : backoff[p] = 0}

\* soonest_recovering_peer.
SoonestRecovering == {p \in known : \A q \in known : backoff[p] <= backoff[q]}

\* random_peer and pick_k: as many eligible peers as the fanout, or all of them;
\* with none eligible the one that recovers soonest is probed.
Picks(k) ==
    IF Eligible = {} THEN {{p} : p \in SoonestRecovering}
    ELSE {S \in SUBSET Eligible : Cardinality(S) = Min({k, Cardinality(Eligible)})}

PeerInit ==
    /\ mode \in Modes /\ known = Genesis
    /\ reach = [p \in Peer |-> "up"]
    /\ backoff = [p \in Peer |-> 0] /\ streak = [p \in Peer |-> 0]
    /\ since = [p \in Peer |-> StreakTtl + 1]
    /\ pool = <<>> /\ conn = [p \in Peer |-> "none"] /\ task = [p \in Peer |-> "idle"]

------------------------------------------------------------------------------
\* record_success.
RecordSuccess(p) ==
    /\ streak' = [streak EXCEPT ![p] = 0]
    /\ backoff' = [backoff EXCEPT ![p] = 0]
    /\ UNCHANGED since

\* record_failure: the delay doubles with each failure of a streak that is not
\* stale, up to the ceiling.
RecordFailure(p) ==
    LET failures == IF since[p] > StreakTtl THEN 1 ELSE streak[p] + 1
        exp == Min({failures, MaxExp})
    IN /\ streak' = [streak EXCEPT ![p] = exp]
       /\ since' = [since EXCEPT ![p] = 0]
       /\ backoff' = [backoff EXCEPT ![p] = Min({BackoffBase * 2 ^ exp, BackoffCeiling})]

\* add_peer_from_key, for a member whose admission is activated.
AddPeer(p) ==
    /\ p \notin known
    /\ known' = known \cup {p}
    /\ UNCHANGED <<mode, reach, score, pool, conn, task>>

\* A tick of the driver: the pool follows the size of the roster, and a task
\* starts for each peer picked.  All tasks of the last tick have ended.
Tick(S) ==
    LET cap == outbound_capacity(Cardinality(known))
    IN /\ \A p \in Peer : task[p] = "idle"
       /\ S \in Picks(Fanout)
       /\ task' = [p \in Peer |-> IF p \in S THEN "lookup" ELSE "idle"]
       /\ pool' = SubSeq(pool, Max({1, Len(pool) - cap + 1}), Len(pool))
       /\ UNCHANGED <<peerTable, reach, score, conn>>

\* The pooled transport, or a new one in its place, for which the least
\* recently used one goes.
Lookup(p) ==
    LET cap == outbound_capacity(Cardinality(known))
        others == SelectSeq(pool, LAMBDA q : q # p)
        fresh == p \notin Range(pool)
        stream == IF fresh THEN "none" ELSE conn[p]
    IN /\ task[p] = "lookup"
       /\ pool' = Append(IF fresh /\ Len(pool) >= cap THEN Tail(others) ELSE others, p)
       /\ conn' = [conn EXCEPT ![p] = stream]
       /\ task' = [task EXCEPT ![p] = IF stream = "none" THEN "connect" ELSE "exchange"]
       /\ UNCHANGED <<peerTable, reach, score>>

\* A variant that goes on with the connection a round has failed on.
SyncFailsKeeping(p) ==
    /\ RecordFailure(p)
    /\ task' = [task EXCEPT ![p] = "idle"]
    /\ UNCHANGED <<peerTable, reach, pool, conn>>

\* A round that failed or timed out: the peer is charged, and the next round
\* with it opens a connection of its own.
SyncFails(p) ==
    /\ RecordFailure(p)
    /\ conn' = [conn EXCEPT ![p] = "none"]
    /\ task' = [task EXCEPT ![p] = "idle"]
    /\ UNCHANGED <<peerTable, reach, pool>>

\* TcpTransport::connect, once it has come through.
Opens(p) == reach[p] = "up" /\ conn' = [conn EXCEPT ![p] = "open"]

Connect(p) ==
    /\ task[p] = "connect"
    /\ IF reach[p] = "up"
       THEN /\ Opens(p)
            /\ task' = [task EXCEPT ![p] = "exchange"]
            /\ UNCHANGED <<peerTable, reach, score, pool>>
       ELSE SyncFails(p)

\* An exchange that comes to its end.
Synced(p) ==
    /\ task[p] \in {"exchange", "retry"} /\ conn[p] = "open" /\ reach[p] = "up"
    /\ RecordSuccess(p)
    /\ task' = [task EXCEPT ![p] = "idle"]
    /\ UNCHANGED <<peerTable, reach, pool, conn>>

\* An exchange on a stream whose other end is gone fails as stale
\* (is_transport_stale) and is tried once more on a new connection, or it hangs
\* until the timeout like one with a peer that does not answer.
Stale(p) ==
    /\ task[p] = "exchange" /\ conn[p] = "stale"
    /\ conn' = [conn EXCEPT ![p] = "none"]
    /\ task' = [task EXCEPT ![p] = "reopen"]
    /\ UNCHANGED <<peerTable, reach, score, pool>>

TimesOut(p) ==
    /\ task[p] \in {"exchange", "retry"} /\ (conn[p] = "stale" \/ reach[p] # "up")
    /\ SyncFails(p)

\* The second connection.  With a fanout of one no timeout is around it: a peer
\* that does not answer holds the driver up.
Reopen(p) ==
    /\ task[p] = "reopen"
    /\ \/ /\ Opens(p)
          /\ task' = [task EXCEPT ![p] = "retry"]
          /\ UNCHANGED <<peerTable, reach, score, pool>>
       \/ reach[p] = "down" /\ SyncFails(p)
       \/ reach[p] = "mute" /\ Fanout > 1 /\ SyncFails(p)

------------------------------------------------------------------------------
\* Time passes.
Pass ==
    LET less(n) == Max({0, n - 1})
    IN /\ backoff' = [p \in Peer |-> less(backoff[p])]
       /\ since' = [p \in Peer |-> Min({since[p] + 1, StreakTtl + 1})]
       /\ UNCHANGED <<peerTable, reach, streak, pool, conn, task>>

\* A peer stops, hangs, or comes back; one that stopped has lost its connections.
PeerChanges(p, r) ==
    /\ reach[p] # r
    /\ reach' = [reach EXCEPT ![p] = r]
    /\ conn' = [conn EXCEPT ![p] = IF r = "down" /\ @ = "open" THEN "stale" ELSE @]
    /\ UNCHANGED <<peerTable, score, pool, task>>

TaskStep(p) ==
    Lookup(p) \/ Connect(p) \/ Synced(p) \/ Stale(p) \/ TimesOut(p) \/ Reopen(p)

PeerNext ==
    \/ \E S \in SUBSET known : Tick(S)
    \/ \E p \in Peer : TaskStep(p) \/ AddPeer(p) \/ \E r \in {"up", "down", "mute"} : PeerChanges(p, r)
    \/ Pass

\* The driver ticks and its tasks run; time passes; and a peer that can be
\* picked again and again is picked at some time, as one pick in ten is random.
PeerFairness ==
    /\ WF_peerVars(Pass)
    /\ \A p \in Peer :
          /\ WF_peerVars(TaskStep(p))
          /\ SF_peerVars(\E S \in SUBSET known : p \in S /\ Tick(S))

------------------------------------------------------------------------------
\* BACKOFF_CEILING: "a peer must never be quarantined for long, and a probe is
\* always allowed".  A peer that is up for good is synced with again and again,
\* whatever failures it is charged with, whatever became of the connection in
\* the pool and however the other peers behave -- except that with a fanout of
\* one, where the second connect has no timeout, they must stop hanging.
SyncedAgain ==
    \A p \in Peer :
        (/\ <>[](p \in known /\ reach[p] = "up")
         /\ []<>(Fanout > 1) \/ \A q \in Peer : <>[](reach[q] # "mute"))
            => []<><<Synced(p)>>_peerVars
=============================================================================
