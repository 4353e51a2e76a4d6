------------------------------ MODULE Delivery ------------------------------
(***************************************************************************)
(* A node that receives the events of a finished history in every order    *)
(* that has parents first, and prunes below each checkpoint it accepts,    *)
(* compared at each point with what the history means as a whole.  Two     *)
(* nodes agree because each agrees with that.                              *)
(***************************************************************************)
EXTENDS Retention

R == INSTANCE HashgraphReference

Truth == R!Table([d \in Histories |-> 
    R!Meaning(d, Genesis, CoinRoundFrequency, {e \in DOMAIN d : Coin(e)})])

------------------------------------------------------------------------------
\* insert puts an event in the round it has in the whole history, and makes it
\* a witness exactly if it is one there, whichever of its contemporaries the
\* node already has.
RoundsAsDefined ==
    LET truth == Truth[dag] IN
    \A n \in Replica : \A e \in Stored(graph[n]) :
        /\ Round(graph[n], e) = truth.round[e]
        /\ graph[n].events[e].witness <=> e \in truth.witnesses[Round(graph[n], e)]

\* try_eager_decide and vote_of only ever decide what all the witnesses of the
\* round the node has reached, and of every later round, vote in the end: those
\* that this node has yet to see included.
DecisionsBind ==
    LET truth == Truth[dag] IN
    \A n \in Replica : \A w \in Stored(graph[n]) :
        LET r == Round(graph[n], w)
            votes == truth.votes[r]
        IN Fame(graph[n], w) # "undecided" =>
             \A k \in (graph[n].highest - r)..Len(votes) :
                 \A y \in truth.witnesses[r + k] :
                     <<y, w>> \in votes[k] <=> Fame(graph[n], w) = "famous"

\* As long as an election is open, every witness above the candidate has its
\* vote recorded, and it is the vote the whole history gives it: the memo and
\* the backfill of vote_as_witness leave no gap behind a late candidate.
VotesComplete ==
    LET truth == Truth[dag] IN
    \A n \in Replica : LET g == graph[n] IN
        \A w \in UndecidedWitnesses(g), y \in Stored(g) :
            g.events[y].witness /\ Round(g, y) > Round(g, w) =>
                LET yes == <<y, w>> \in truth.votes[Round(g, w)][Round(g, y) - Round(g, w)]
                IN <<y, w>> \in (IF yes THEN g.yes \ g.no ELSE g.no \ g.yes)

\* Once a node has ordered a round, the events received in it, their consensus
\* timestamps and the sequence they are executed in are those of the whole
\* history, down to the signed window of the last checkpoint: nothing that
\* arrives later could have changed them, and pruning has taken none away.
OrderAsDefined ==
    LET truth == Truth[dag] IN
    \A n \in Replica : \A r \in Max({1, accepted[n].round - SignedWindowRounds})..(graph[n].next - 1) :
        LET order == ConsensusOrder(graph[n], r)
            time == truth.time
        IN /\ Range(order) = {e \in DOMAIN dag : truth.received[e] = r}
           /\ \A i \in DOMAIN order : graph[n].events[order[i]].time = time[order[i]]
           /\ \A i, j \in DOMAIN order : i < j =>
                 \/ time[order[i]] < time[order[j]]
                 \/ time[order[i]] = time[order[j]] /\ HashLess(order[i], order[j])

\* from_checkpoint "initialises a `Hashgraph` as if the history up to
\* `checkpoint` has already been processed": a graph rebuilt from a transfer
\* gives the events it inserts afterwards the rounds of the whole history.
RestoredRounds ==
    \A n \in Replica : \A e \in Stored(graph[n]) : Round(graph[n], e) = Truth[dag].round[e]

\* docs/JKain_Consensus_Spec.md calls the decision of vote_of "final,
\* irreversible": whatever each node has received so far, no two nodes decide
\* an election differently.
FameAgrees ==
    \A n, p \in Replica : \A w \in Stored(graph[n]) \cap Stored(graph[p]) :
        {Fame(graph[n], w), Fame(graph[p], w)} # {"famous", "notFamous"}
=============================================================================
