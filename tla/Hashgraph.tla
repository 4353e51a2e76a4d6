------------------------------ MODULE Hashgraph ------------------------------
(***************************************************************************)
(* One node's hashgraph: rounds and witnesses, virtual voting and the      *)
(* consensus order (protocol/consensus/src/hashgraph.rs, ancestry.rs,      *)
(* round.rs, fame.rs, order.rs; RosterHistory in protocol/crypto/src/      *)
(* roster.rs).  Everything here is an operator on a graph, a record        *)
(*                                                                         *)
(*   events    the stored EventRecords, by hash                            *)
(*   yes, no   the votes the voters hold: pairs <<voter, candidate>>       *)
(*   decided   fully_decided_rounds                                        *)
(*   next      next_round_to_order                                         *)
(*   members   the keys of member_index                                    *)
(*   roster    roster_history, by activation round                         *)
(*                                                                         *)
(* Insert is the whole of Hashgraph::insert; it runs under the lock of the *)
(* graph and is one step of the modules that use it.                       *)
(*                                                                         *)
(* A node creates one event per sequence number, so the hash of an event   *)
(* is <<creator, seq>>: the branches of the code for a creator with known  *)
(* forks are left out.  The index maps of the code (witnesses_by_round,    *)
(* undecided_witnesses, by_creator_seq, latest_by_creator) are derived     *)
(* from events.  Retention has pruning and the transfer of a graph.        *)
(***************************************************************************)
EXTENDS Integers, Sequences, FiniteSets, FiniteSetsExt, SequencesExt, TLC

CONSTANTS
    CoinRoundFrequency, \* COIN_ROUND_FREQUENCY
    Coin(_)             \* coin_round_vote: a bit of the voter's signature

None == <<>>

creator(e) == e[1]
seq(e) == e[2]

\* The byte order of hashes; the signature tie-break is folded into it.
HashLess(x, y) == creator(x) < creator(y) \/ (creator(x) = creator(y) /\ seq(x) < seq(y))

NewGraph(registry) ==
    [events |-> <<>>, yes |-> {}, no |-> {}, decided |-> {}, next |-> 1, highest |-> 0,
     members |-> registry, roster |-> [r \in {1} |-> registry]]

Round(g, e) == g.events[e].round
Fame(g, e) == g.events[e].fame
Stored(g) == DOMAIN g.events

RosterForRound(g, r) == g.roster[Max({s \in DOMAIN g.roster : s <= r})]
MemberCountAtRound(g, r) == Cardinality(RosterForRound(g, r))
Supermajority(count, total) == count * 3 > total * 2

WitnessesOfRound(g, r) == {e \in Stored(g) : g.events[e].witness /\ Round(g, e) = r}
UndecidedWitnesses(g) == {e \in Stored(g) : g.events[e].witness /\ Fame(g, e) = "undecided"}

\* latest_event_by, or None.
LatestEventBy(g, m) ==
    LET own == {e \in Stored(g) : creator(e) = m}
    IN IF own = {} THEN None ELSE <<m, Max({seq(e) : e \in own})>>

------------------------------------------------------------------------------
(* ancestry.rs *)

\* x can see y: without forks, exactly when y is an ancestor of x.
See(g, x, y) == seq(y) <= g.events[x].row[creator(y)]

\* A variant that walks from the newest event of m, below x or not.
MemberChainReachesLatest(g, m, upToSeq, y) ==
    \E e \in Stored(g) : upToSeq > 0 /\ creator(e) = m /\ See(g, e, y)

\* member_chain_reaches: some event of m's chain up to up_to_seq sees y.
MemberChainReaches(g, m, upToSeq, y) ==
    \E s \in 1..upToSeq : <<m, s>> \in Stored(g) /\ See(g, <<m, s>>, y)

StronglySeeAt(g, x, y, rosterRound) ==
    LET row == g.events[x].row IN
    /\ See(g, x, y)
    /\ Supermajority(Cardinality({m \in g.members : MemberChainReaches(g, m, row[m], y)}),
                     MemberCountAtRound(g, rosterRound))

StronglySee(g, x, y) == StronglySeeAt(g, x, y, Round(g, y))

------------------------------------------------------------------------------
(* order.rs *)

\* The famous witnesses of a round.
FamousWitnesses(g, r) == {w \in WitnessesOfRound(g, r) : Fame(g, w) = "famous"}

\* The lowest event of m's chain, below witness w, that sees x; None if none does.
ChainFirstSees(g, w, m, x) ==
    LET seeing == {s \in 1..g.events[w].row[m] : See(g, <<m, s>>, x)}
    IN IF seeing = {} THEN None ELSE <<m, Min(seeing)>>

\* first_seen_timestamp: the earliest of those, by sequence number and hash.
FirstSeenTimestamp(g, w, x) ==
    LET firsts == {ChainFirstSees(g, w, m, x) : m \in g.members} \ {None}
        before(e, f) == seq(e) < seq(f) \/ (seq(e) = seq(f) /\ HashLess(e, f))
        earliest == CHOOSE e \in firsts : \A f \in firsts \ {e} : before(e, f)
    IN g.events[earliest].timestamp

\* median_timestamp: the mean of the two middle values of an even number.
MedianTimestamp(times) ==
    LET sorted == SortSeq(times, LAMBDA s, t : s < t)
        mid == Len(sorted) \div 2
    IN IF Len(sorted) % 2 = 1
       THEN sorted[mid + 1]
       ELSE (sorted[mid] + sorted[mid + 1]) \div 2

\* assign_order: every event not yet ordered that all famous witnesses of the
\* round see is received in it.
AssignOrder(g, r) ==
    LET famous == FamousWitnesses(g, r)
        received == {e \in Stored(g) : /\ g.events[e].received = 0
                                       /\ \A w \in famous : See(g, w, e)}
        witnesses == SetToSeq(famous)
        time(e) == MedianTimestamp([i \in 1..Len(witnesses) |-> FirstSeenTimestamp(g, witnesses[i], e)])
    IN IF famous = {} THEN g
       ELSE [g EXCEPT !.events =
               [e \in received |-> [@[e] EXCEPT !.received = r, !.time = time(e)]] @@ @]

\* consensus_order: a round's events by consensus timestamp, then by hash.
ConsensusOrder(g, r) ==
    SortSeq(FoldSet(LAMBDA e, s : Append(s, e), <<>>, {e \in Stored(g) : g.events[e].received = r}),
        LAMBDA x, y : \/ g.events[x].time < g.events[y].time
                      \/ g.events[x].time = g.events[y].time /\ HashLess(x, y))

\* order_decided_rounds: rounds are ordered in sequence, each once.
RECURSIVE OrderDecidedRounds(_)
OrderDecidedRounds(g) ==
    IF g.next \in g.decided
    THEN OrderDecidedRounds(AssignOrder([g EXCEPT !.next = @ + 1], g.next))
    ELSE g

\* round_view_complete: every member of the round's roster has an event past it.
RoundViewComplete(g, r) ==
    \A m \in RosterForRound(g, r) :
        LET latest == LatestEventBy(g, m) IN latest # None /\ Round(g, latest) > r

\* A variant that does not wait for the open elections of the round.
NoteRoundDecidedEarly(g, r) ==
    IF ~RoundViewComplete(g, r)
    THEN g
    ELSE OrderDecidedRounds([g EXCEPT !.decided = @ \cup {r}])

NoteRoundDecidedIfComplete(g, r) ==
    IF \/ \E w \in UndecidedWitnesses(g) : Round(g, w) = r
       \/ ~RoundViewComplete(g, r)
    THEN g
    ELSE OrderDecidedRounds([g EXCEPT !.decided = @ \cup {r}])

------------------------------------------------------------------------------
(* fame.rs *)

DecideFame(g, w, status) ==
    NoteRoundDecidedIfComplete([g EXCEPT !.events[w].fame = status], Round(g, w))

RecordVote(g, y, w, vote) ==
    IF vote THEN [g EXCEPT !.yes = @ \cup {<<y, w>>}] ELSE [g EXCEPT !.no = @ \cup {<<y, w>>}]

VoteStatus(vote) == IF vote THEN "famous" ELSE "notFamous"

\* A variant that goes with the majority of the votes.
TryEagerDecideMajority(g, w) ==
    LET r == Round(g, w)
        voters == WitnessesOfRound(g, r + 1)
        total == MemberCountAtRound(g, r + 2)
        yes == {v \in voters : <<v, w>> \in g.yes}
        no == {v \in voters : <<v, w>> \in g.no}
        open == /\ Fame(g, w) = "undecided"
                /\ g.highest >= r + 2
                /\ MemberCountAtRound(g, r + 1) = total
                /\ voters = yes \cup no
    IN CASE open /\ Cardinality(yes) > Cardinality(no) -> DecideFame(g, w, "famous")
         [] open /\ Cardinality(no) > Cardinality(yes) -> DecideFame(g, w, "notFamous")
         [] OTHER -> g

\* try_eager_decide: the round after w's has a supermajority of witnesses, each
\* has voted on w, and a supermajority voted the same way.
TryEagerDecide(g, w) ==
    LET r == Round(g, w)
        voters == WitnessesOfRound(g, r + 1)
        total == MemberCountAtRound(g, r + 2)
        yes == {v \in voters : <<v, w>> \in g.yes}
        no == {v \in voters : <<v, w>> \in g.no}
        open == /\ Fame(g, w) = "undecided"
                /\ g.highest >= r + 2
                /\ MemberCountAtRound(g, r + 1) = total
                /\ voters = yes \cup no
    IN CASE open /\ Supermajority(Cardinality(yes), total) -> DecideFame(g, w, "famous")
         [] open /\ Supermajority(Cardinality(no), total) -> DecideFame(g, w, "notFamous")
         [] OTHER -> g

\* vote_of: the graph after witness y has voted on candidate w.  The votes of
\* the witnesses y strongly sees one round below are computed on demand; if one
\* of them decides the election, y no longer votes.
RECURSIVE VoteOf(_, _, _)
VoteOf(g, y, w) ==
    LET below == {s \in WitnessesOfRound(g, Round(g, y) - 1) : StronglySee(g, y, s)}
        h == FoldSet(LAMBDA s, acc : VoteOf(acc, s, w), g, below)
        yes == Cardinality({s \in below : <<s, w>> \in h.yes})
        no == Cardinality({s \in below : <<s, w>> \in h.no})
        vote == yes >= no
        decisive == Supermajority(IF vote THEN yes ELSE no, MemberCountAtRound(g, Round(g, y)))
        coinRound == (Round(g, y) - Round(g, w)) % CoinRoundFrequency = 0
    IN IF Fame(g, w) # "undecided" \/ <<y, w>> \in g.yes \cup g.no THEN g
       ELSE IF Round(g, y) = Round(g, w) + 1 THEN RecordVote(g, y, w, See(g, y, w))
       ELSE IF Fame(h, w) # "undecided" THEN h
       ELSE IF decisive THEN DecideFame(h, w, VoteStatus(vote))
       ELSE RecordVote(h, y, w, IF coinRound THEN Coin(y) ELSE vote)

\* vote_as_witness, the eager pass: y votes on every open election below it.
VoteOnCandidates(g, y) ==
    FoldSet(LAMBDA w, acc : TryEagerDecide(VoteOf(acc, y, w), w), g,
            {w \in UndecidedWitnesses(g) : Round(g, w) < Round(g, y)})

\* A variant without the backfill.
VoteAsWitnessEagerOnly(g, y) == VoteOnCandidates(g, y)

\* vote_as_witness, the backfill: the witnesses above a late y vote on it.
Backfill(g, y) ==
    LET voters(r) == WitnessesOfRound(g, r)
        step(acc, r) == TryEagerDecide(FoldSet(LAMBDA v, a : VoteOf(a, v, y), acc, voters(r)), y)
        rounds == [i \in 1..(g.highest - Round(g, y)) |-> Round(g, y) + i]
    IN TryEagerDecide(FoldLeft(step, g, rounds), y)

VoteAsWitness(g, y) == Backfill(VoteOnCandidates(g, y), y)

------------------------------------------------------------------------------
(* round.rs and hashgraph.rs *)

\* The checks of insert, in an honest history: known creator, parents stored.
CanInsert(g, e, ev) ==
    /\ e \notin Stored(g)
    /\ creator(e) \in g.members
    /\ {ev.selfParent, ev.otherParent} \ {None} \subseteq Stored(g)

\* ancestor_seqs: the elementwise maximum of the parents' rows, then the
\* event's own slot.
AncestorSeqs(g, e, ev) ==
    LET rowOf(p) == IF p = None THEN [m \in g.members |-> 0] ELSE g.events[p].row
    IN [m \in g.members |->
           IF m = creator(e) THEN seq(e)
           ELSE Max({rowOf(ev.selfParent)[m], rowOf(ev.otherParent)[m]})]

\* A variant that starts from the self-parent alone.
BaseRoundOfSelf(g, ev) == IF ev.selfParent = None THEN 1 ELSE Round(g, ev.selfParent)

\* base_round: the higher round of the two parents, 1 without parents.
BaseRound(g, ev) ==
    Max({1} \cup {Round(g, p) : p \in {ev.selfParent, ev.otherParent} \ {None}})

\* finalize_round: the event moves past its base round if it strongly sees a
\* supermajority of that round's witnesses; it is a witness if its self-parent
\* is in a lower round.
FinalizeRound(g, e, ev) ==
    LET base == Round(g, e)
        seen == {w \in WitnessesOfRound(g, base) : StronglySeeAt(g, e, w, base)}
        final == IF Supermajority(Cardinality(seen), MemberCountAtRound(g, base))
                 THEN base + 1 ELSE base
        witness == ev.selfParent = None \/ final > Round(g, ev.selfParent)
    IN [g EXCEPT !.events[e].round = final, !.events[e].witness = witness,
                 !.highest = IF witness THEN Max({@, final}) ELSE @]

\* The new record, at its provisional round.
Store(g, e, ev) ==
    LET record == [timestamp |-> ev.timestamp, row |-> AncestorSeqs(g, e, ev),
                   round |-> BaseRound(g, ev), witness |-> FALSE, fame |-> "undecided",
                   received |-> 0, time |-> 0]
    IN [g EXCEPT !.events = @ @@ (e :> record)]

\* Hashgraph::insert.
Insert(g, e, ev) ==
    LET placed == FinalizeRound(Store(g, e, ev), e, ev)
        voted == IF placed.events[e].witness THEN VoteAsWitness(placed, e) ELSE placed
    IN NoteRoundDecidedIfComplete(voted, voted.next)

\* A variant that forgets the stored rows.
AddMemberNarrow(g, m, activationRound) ==
    LET registry == RosterForRound(g, activationRound) \cup {m} IN
    [g EXCEPT !.members = @ \cup {m}, !.roster = (activationRound + 1 :> registry) @@ @]

\* Hashgraph::add_member: rows grow by a zero slot, and the larger roster is in
\* force from the round after the activation round.
AddMember(g, m, activationRound) ==
    LET registry == RosterForRound(g, activationRound) \cup {m} IN
    [g EXCEPT !.members = @ \cup {m},
              !.events = [e \in DOMAIN @ |-> [@[e] EXCEPT !.row = @ @@ (m :> 0)]],
              !.roster = (activationRound + 1 :> registry) @@ @]
==============================================================================
