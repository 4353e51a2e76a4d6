------------------------------ MODULE Retention ------------------------------
(***************************************************************************)
(* What a node keeps of its graph, and what a reconnect makes of it.       *)
(*                                                                         *)
(* Accepting a checkpoint drops the history below its signed window        *)
(* (accept_checkpoint in protocol/gossip/src/node.rs, prune_before_round   *)
(* in protocol/consensus/src/hashgraph.rs).  A learner is served the       *)
(* highest accepted checkpoint and all that the teacher has kept; it       *)
(* checks every record and rebuilds its graph from them (apply_checkpoint, *)
(* insert_accepted).  The learner's own graph is discarded, so the new one *)
(* is a function of the teacher's: Restore follows one node that has it.   *)
(* A row is by member here and by index in the code, where the indices of  *)
(* teacher and learner agree if members join in ascending order of id.     *)
(***************************************************************************)
EXTENDS Gossip

CONSTANT SignedWindowRounds  \* SIGNED_WINDOW_ROUNDS = RETENTION_ROUNDS, 16 in the code

VARIABLE accepted   \* accepted[n]: round, window and rosters of the highest accepted checkpoint

retentionVars == <<vars, accepted>>

ParentsIn(d, S) == UNION {{d[e].selfParent, d[e].otherParent} : e \in S} \ {None}

\* RosterHistory::prune_before: the snapshots from a round on, and the one that
\* is in force there.
SnapshotsFrom(roster, from) ==
    {s \in DOMAIN roster : s >= from \/ \A t \in DOMAIN roster : t < from => t <= s}

\* A variant that does not keep the parents of what is live.
PruneBorder(g, d, threshold) ==
    LET live == {e \in Stored(g) : g.events[e].received = 0 \/ g.events[e].received >= threshold}
    IN [g EXCEPT !.events = Restrict(@, live)]

\* prune_before_round: events received before the threshold go, unless they are
\* a parent of one that stays.
PruneBeforeRound(g, d, threshold) ==
    LET live == {e \in Stored(g) : g.events[e].received = 0 \/ g.events[e].received >= threshold}
        kept == live \cup (Stored(g) \cap ParentsIn(d, live))
    IN IF live = Stored(g) THEN g
       ELSE [g EXCEPT !.events = Restrict(@, kept),
                      !.yes = {v \in @ : v[1] \in kept},
                      !.no = {v \in @ : v[1] \in kept},
                      !.roster = Restrict(@, SnapshotsFrom(@, threshold))]

\* compute_window_root: a commitment to the events received in the window, in
\* consensus order, with their round, order and row.
WindowRoot(g, r) ==
    [s \in Max({1, r - SignedWindowRounds})..r |->
        LET order == ConsensusOrder(g, s)
            leaf(e) == [event |-> e, round |-> Round(g, e), received |-> s, time |-> g.events[e].time,
                        row |-> Restrict(g.events[e].row, RosterForRound(g, r))]
        IN [i \in DOMAIN order |-> leaf(order[i])]]

\* canonical_roster_history: the rosters in force from the start of the window to r.
CanonicalRoster(roster, r) ==
    Restrict(roster, {s \in SnapshotsFrom(roster, r - SignedWindowRounds) : s <= r})

\* accept_checkpoint, for a decided round: the window its payload commits to is
\* that of the rounds ordered so far, which do not change any more.  To accept a
\* round below the highest prunes nothing and is left out.
AcceptCheckpoint(n, r) ==
    LET g == graph[n] IN
    /\ accepted[n].round < r /\ r < g.next
    /\ accepted' = [accepted EXCEPT ![n] =
          [round |-> r, window |-> WindowRoot(g, r), roster |-> CanonicalRoster(g.roster, r)]]
    /\ graph' = [graph EXCEPT ![n] = PruneBeforeRound(@, dag, Max({0, r - SignedWindowRounds}))]
    /\ UNCHANGED <<dag, synced>>

------------------------------------------------------------------------------
HighestDecidedRound(g) == Max({0} \cup g.decided)

\* from_checkpoint: an empty graph that counts the rounds up to r as decided.
FromCheckpoint(r, roster) ==
    LET registry == roster[Max({s \in DOMAIN roster : s <= r})]
    IN [NewGraph(registry) EXCEPT !.decided = 1..r, !.next = r + 1, !.highest = r, !.roster = roster]

\* A variant that derives every row from the parents that are there.
AcceptsRetainedExact(g, held, d, e, decidedRound) ==
    LET present == {d[e].selfParent, d[e].otherParent} \cap DOMAIN held
    IN \A m \in g.members \ {creator(e)} :
          held[e].row[m] = Max({0} \cup {held[p].row[m] : p \in present})

\* insert_accepted, its checks: held is the transfer, of which the parents of e
\* are inserted before e.  The row of an event whose parents are all there is
\* derived again; if one was pruned, the others' rows are a floor.
AcceptsRetained(g, held, d, e, decidedRound) ==
    LET record == held[e]
        declared == {d[e].selfParent, d[e].otherParent} \ {None}
        present == declared \cap DOMAIN held
        floor(m) == Max({0} \cup {held[p].row[m] : p \in present})
    IN /\ creator(e) \in g.members
       /\ DOMAIN record.row \subseteq g.members
       /\ d[e].selfParent \in present => seq(e) = seq(d[e].selfParent) + 1
       /\ d[e].selfParent = None => seq(e) = 1
       /\ record.row[creator(e)] = seq(e)
       /\ \A m \in DOMAIN record.row \ {creator(e)} :
             IF present = declared /\ declared # {}
             THEN record.row[m] = floor(m)
             ELSE record.row[m] >= floor(m)
       /\ record.round >= Max({1} \cup {held[p].round : p \in present})
       /\ record.received > 0 => record.received \in record.round..decidedRound

\* insert_accepted, of every record: order and round are the teacher's; which
\* events are witnesses, and their fame and votes, is not transferred.
InsertRetained(g, held) ==
    [g EXCEPT !.events =
        [e \in DOMAIN held |->
            [held[e] EXCEPT !.witness = FALSE, !.fame = "undecided",
                            !.row = @ @@ [m \in g.members |-> 0]]]]

\* mark_decided_through.
MarkDecidedThrough(g, r) ==
    OrderDecidedRounds([g EXCEPT !.decided = @ \cup (g.next..r)])

\* handle_reconnect_inbound: what teacher n serves with its highest checkpoint.
Served(n) ==
    LET g == graph[n]
    IN [roster |-> CanonicalRoster(g.roster, accepted[n].round),
        decidedRound |-> HighestDecidedRound(g), retained |-> g.events]

\* The graph that apply_checkpoint builds from what n serves.
Scratch(n) ==
    LET base == FromCheckpoint(accepted[n].round, Served(n).roster)
    IN MarkDecidedThrough(InsertRetained(base, Served(n).retained), Served(n).decidedRound)

\* The checks of apply_checkpoint on the graph; those on the state are in Finalize.
AcceptsTransfer(n) ==
    LET r == accepted[n].round
        s == Served(n)
        held == s.retained
        base == FromCheckpoint(r, s.roster)
    IN /\ s.roster = accepted[n].roster
       /\ s.decidedRound \in r..Max({held[e].round : e \in DOMAIN held})
       /\ s.decidedRound - r <= Cardinality(DOMAIN held)
       /\ \A e \in DOMAIN held : AcceptsRetained(base, held, dag, e, s.decidedRound)
       /\ WindowRoot(Scratch(n), r) = accepted[n].window

\* A node whose graph is the one a learner of n has built.
Restore(n) ==
    /\ accepted[n].round > 0
    /\ AcceptsTransfer(n)
    /\ graph' = [graph EXCEPT ![n] = Scratch(n)]
    /\ UNCHANGED <<dag, synced, accepted>>

RetentionInit == Init /\ accepted = [n \in Replica |-> [round |-> 0, window |-> <<>>, roster |-> <<>>]]

RetentionNext ==
    \/ Next /\ UNCHANGED accepted
    \/ \E n \in Replica : \E r \in 1..graph[n].next : AcceptCheckpoint(n, r)

RetentionSpec == RetentionInit /\ [][RetentionNext]_retentionVars

RestoreSpec == RetentionInit /\ [][RetentionNext \/ \E n \in Replica : Restore(n)]_retentionVars

------------------------------------------------------------------------------
\* prune_before_round: "recent inserts and delta-syncs never hit a
\* `MissingParent`".  A parent of an event that is still to come, once received,
\* is never pruned: not even one that its creator's peers ordered long ago.
ParentsKept ==
    \A n \in Replica : LET g == graph[n] IN
        \A e \in DOMAIN dag : AboveFrontier(g, e) =>
            \A p \in ParentsIn(dag, {e}) : AboveFrontier(g, p) \/ p \in Stored(g)

\* From its first accepted checkpoint on, whatever a node has pruned and however
\* far it has come since, a learner accepts what apply_checkpoint gets from it:
\* each record passes the checks of insert_accepted, the window is the one the
\* checkpoint commits to, and the learner orders next what its teacher does.
TransferAccepted ==
    \A n \in Replica : accepted[n].round > 0 =>
        /\ AcceptsTransfer(n)
        /\ Scratch(n).next = graph[n].next
=============================================================================
