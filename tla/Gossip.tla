------------------------------- MODULE Gossip -------------------------------
(***************************************************************************)
(* Nodes that create events and pass them on (protocol/gossip/src/sync.rs) *)
(* and build a hashgraph each, and the activation of a member that joins   *)
(* (process_finalized_rounds in protocol/gossip/src/node.rs).              *)
(*                                                                         *)
(* A delta is sorted parents first and inserted one event at a time, each  *)
(* under the lock of the graph; a timeout may cut it off.  So what a node  *)
(* receives next is any event some peer holds and it lacks whose parents   *)
(* it has.                                                                 *)
(***************************************************************************)
EXTENDS Hashgraph

CONSTANTS
    Replica,         \* the nodes whose graphs are followed
    Genesis,         \* the roster of round 1
    Histories,       \* what may have been created before the first step
    MaxEvents,       \* bound: events in all
    MaxChain(_),     \* bound: events of each node
    Timestamp(_, _), \* next_timestamp: strictly increasing along a chain
    AddOps           \* hash of an event -> the node its Add operation admits

ASSUME TimestampAssumption ==
    \A m \in Genesis : \A s \in 1..MaxEvents : Timestamp(m, s) < Timestamp(m, s + 1)

VARIABLES
    dag,     \* every event created so far: its parents and timestamp
    graph,   \* graph[n]: the hashgraph of replica n
    synced   \* synced[n]: the driver of n has synced and not yet processed

vars == <<dag, graph, synced>>

Init ==
    /\ dag \in Histories
    /\ graph = [n \in Replica |-> NewGraph(Genesis)]
    /\ synced = [n \in Replica |-> FALSE]

\* run_sync, step 3: an own event on top of the node's last and of what it
\* knows of the peer, inserted at once.
CreateEvent(n, peer) ==
    LET g == graph[n]
        selfParent == LatestEventBy(g, n)
        e == <<n, IF selfParent = None THEN 1 ELSE seq(selfParent) + 1>>
        ev == [selfParent |-> selfParent, otherParent |-> LatestEventBy(g, peer),
               timestamp |-> Timestamp(n, seq(e))]
    IN /\ ~synced[n]
       /\ Cardinality(DOMAIN dag) < MaxEvents /\ seq(e) <= MaxChain(n)
       /\ e \notin DOMAIN dag
       /\ CanInsert(g, e, ev)
       /\ dag' = dag @@ (e :> ev)
       /\ graph' = [graph EXCEPT ![n] = Insert(g, e, ev)]
       /\ synced' = [synced EXCEPT ![n] = TRUE]

\* delta_events: a peer sends what lies above the node's newest event of each
\* creator.
AboveFrontier(g, e) ==
    LET latest == LatestEventBy(g, creator(e)) IN latest # None => seq(e) > seq(latest)

\* insert_verified, for an event of a delta or a push-back.
Receive(n, e) ==
    /\ creator(e) # n
    /\ e \in DOMAIN dag
    /\ AboveFrontier(graph[n], e)
    /\ CanInsert(graph[n], e, dag[e])
    /\ graph' = [graph EXCEPT ![n] = Insert(@, e, dag[e])]
    /\ UNCHANGED <<dag, synced>>

\* An Add ordered in round rr is due once round rr + 1 is decided here.
Due(g) ==
    {e \in DOMAIN AddOps \cap Stored(g) :
        /\ g.events[e].received > 0
        /\ g.events[e].received + 1 \in g.decided
        /\ AddOps[e] \notin g.members}

\* A variant that admits the member after the round the node has reached.
ActivateNow(g, e) == AddMember(g, AddOps[e], g.highest)

Activate(g, e) == AddMember(g, AddOps[e], g.events[e].received + 1)

\* process_finalized_rounds, phase C; the driver calls it after every sync.
ProcessFinalizedRounds(n) ==
    /\ synced[n] \/ Due(graph[n]) # {}
    /\ graph' = [graph EXCEPT ![n] = FoldSet(LAMBDA e, g : Activate(g, e), @, Due(@))]
    /\ synced' = [synced EXCEPT ![n] = FALSE]
    /\ UNCHANGED dag

Next ==
    \/ \E n \in Replica, peer \in Genesis : n # peer /\ CreateEvent(n, peer)
    \/ \E n \in Replica : \E e \in DOMAIN dag : Receive(n, e)
    \/ \E n \in Replica : ProcessFinalizedRounds(n)

Spec == Init /\ [][Next]_vars

------------------------------------------------------------------------------
\* Every stored event has its parents stored, a row that is as wide as the
\* membership and names stored events only, and an order once it is received;
\* rounds are ordered as far as they are decided without a gap.
TypeOK ==
    \A n \in Replica : LET g == graph[n] IN
        /\ Stored(g) \subseteq DOMAIN dag
        /\ g.next \notin g.decided /\ 1..(g.next - 1) \subseteq g.decided
        /\ \A e \in Stored(g) :
              /\ {dag[e].selfParent, dag[e].otherParent} \subseteq Stored(g) \cup {None}
              /\ DOMAIN g.events[e].row = g.members
              /\ \A m \in g.members : g.events[e].row[m] > 0 => <<m, g.events[e].row[m]>> \in Stored(g)
              /\ g.events[e].received \in 0..(g.next - 1)
              /\ g.events[e].fame # "undecided" => g.events[e].witness

\* finalize_round: "exactly what makes a mid-stream join safe": two nodes that
\* hold the same event put it in the same round and agree whether it is a
\* witness, through a join as well.
RoundsAgree ==
    \A n, m \in Replica : \A e \in Stored(graph[n]) \cap Stored(graph[m]) :
        /\ Round(graph[n], e) = Round(graph[m], e)
        /\ graph[n].events[e].witness = graph[m].events[e].witness

\* Up to the round from which a larger roster is in force on either of them, two
\* nodes agree on the round and the witness status of an event, whatever order
\* they received their events in and whichever of them admits the member first.
RoundsAgreeToJoin ==
    \A n, m \in Replica : \A e \in Stored(graph[n]) \cap Stored(graph[m]) :
        LET joins == (DOMAIN graph[n].roster \cup DOMAIN graph[m].roster) \ {1}
        IN (\A s \in joins : Round(graph[n], e) <= s) =>
              /\ Round(graph[n], e) = Round(graph[m], e)
              /\ graph[n].events[e].witness = graph[m].events[e].witness

\* A member is admitted from the same round on by every node, however far each
\* has come when it activates the operation.
JoinsAgree ==
    \A n, m \in Replica :
        graph[n].members = graph[m].members => graph[n].roster = graph[m].roster

\* The roster of a decided round never changes again: no decided round's fame
\* is recomputed, and no checkpoint of it signed, under another denominator.
DecidedRosterFixed ==
    [][\A n \in Replica : \A r \in graph[n].decided :
          RosterForRound(graph'[n], r) = RosterForRound(graph[n], r)]_vars
=============================================================================
