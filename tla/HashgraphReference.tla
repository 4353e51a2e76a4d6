-------------------------- MODULE HashgraphReference --------------------------
(***************************************************************************)
(* What rounds, fame and order mean for a complete history, by definition: *)
(* from the parent relation alone, level by level, without sequence rows,  *)
(* memoised votes, the eager tally or any order of arrival.  The module    *)
(* Delivery compares the incremental algorithm of Hashgraph with it.       *)
(*                                                                         *)
(* d is a history (hash -> parents and timestamp), M its fixed roster;     *)
(* every freq-th round of an election is a coin round, and heads are the   *)
(* events whose signature votes yes there.                                 *)
(***************************************************************************)
EXTENDS Integers, Sequences, FiniteSets, FiniteSetsExt, SequencesExt, TLC

\* The function itself; TLC evaluates it here, once, and not at each use.
Table(f) == f @@ <<>>

Most(S, M) == Cardinality(S) * 3 > Cardinality(M) * 2

ParentsOf(d, e) == {d[e].selfParent, d[e].otherParent} \cap DOMAIN d

\* Every event's ancestors, itself included: the events are added in an order
\* that has parents first.
RECURSIVE Closure(_, _)
Closure(d, anc) ==
    LET ready == {e \in DOMAIN d \ DOMAIN anc : ParentsOf(d, e) \subseteq DOMAIN anc}
    IN IF ready = {} THEN anc
       ELSE Closure(d, anc @@ [e \in ready |-> {e} \cup UNION {anc[p] : p \in ParentsOf(d, e)}])

Ancestors(d) == Closure(d, <<>>)

\* anc is Ancestors(d): x reaches y through the events of most members.
StronglyReaches(anc, M, x, y) ==
    y \in anc[x] /\ Most({z[1] : z \in {v \in anc[x] : y \in anc[v]}}, M)

\* The events of a creator that come first among the events of S.
Firsts(d, S) == {e \in S : d[e].selfParent \notin S}

\* levels[r]: the events of round r or a later one.  An event is past round r
\* when it or an ancestor strongly reaches most of the first events of level r.
RECURSIVE LevelsFrom(_, _, _, _)
LevelsFrom(d, anc, M, levels) ==
    LET S == levels[Len(levels)]
        firsts == Firsts(d, S)
        bump == {z \in S : Most({w \in firsts : StronglyReaches(anc, M, z, w)}, M)}
        above == {e \in S : anc[e] \cap bump # {}}
    IN IF above = {} THEN levels ELSE LevelsFrom(d, anc, M, Append(levels, above))

\* votes[k]: the yes votes <<y, w>> of round-(r + k) witnesses on those of round
\* r.  In a coin round, who strongly reaches no clear majority tosses the coin.
RECURSIVE VotesFrom(_, _, _, _, _, _, _)
VotesFrom(anc, M, wits, freq, heads, r, votes) ==
    LET k == Len(votes) + 1
        all(y) == {s \in wits[r + k - 1] : StronglyReaches(anc, M, y, s)}
        yes(y, w) == {s \in all(y) : <<s, w>> \in votes[k - 1]}
        clear(y, w) == Most(yes(y, w), M) \/ Most(all(y) \ yes(y, w), M)
        cast == {p \in wits[r + k] \X wits[r] :
                    IF k = 1 THEN p[2] \in anc[p[1]]
                    ELSE IF k % freq = 0 /\ ~clear(p[1], p[2]) THEN p[1] \in heads
                    ELSE 2 * Cardinality(yes(p[1], p[2])) >= Cardinality(all(p[1]))}
    IN IF r + k \notin DOMAIN wits THEN votes
       ELSE VotesFrom(anc, M, wits, freq, heads, r, Append(votes, cast))

\* A witness is famous when the witnesses of the last round all vote for it;
\* the last round has to be two rounds up, or more.
Famous(wits, votes, r) ==
    LET k == Len(votes[r]) IN
    {w \in wits[r] : k >= 2 /\ \A y \in wits[r + k] : <<y, w>> \in votes[r][k]}

\* The first round all of whose famous witnesses have e below them, or 0.
ReceivedRound(anc, famous, e) ==
    LET sees == {r \in DOMAIN famous : famous[r] # {} /\ \A w \in famous[r] : e \in anc[w]}
    IN IF sees = {} THEN 0 ELSE Min(sees)

\* The earliest event below w that has x below it, by sequence number and hash.
FirstSight(anc, w, x) ==
    LET sights == {z \in anc[w] : x \in anc[z]}
        lowest == {z \in sights : \A v \in sights : z[2] <= v[2]}
    IN CHOOSE z \in lowest : \A v \in lowest : z[1] <= v[1]

\* The mean of the two middle elements of a bag of times (one and the same
\* element when its size is odd), the bag given by its indices.
MiddleTime(times) ==
    LET rank(i) == Cardinality({j \in DOMAIN times : times[j] < times[i] \/ (times[j] = times[i] /\ j < i)})
        at(k) == times[CHOOSE i \in DOMAIN times : rank(i) = k]
        n == Len(times)
    IN (at((n - 1) \div 2) + at(n \div 2)) \div 2

\* The middle of the times at which the famous witnesses of round r first saw e.
ConsensusTime(d, anc, famous, r, e) ==
    LET ws == SetToSeq(famous[r])
    IN MiddleTime([i \in DOMAIN ws |-> d[FirstSight(anc, ws[i], e)].timestamp])

\* The same as tables: over the events of a history, or over its rounds.
Rounds(d, levels) ==
    Table([e \in DOMAIN d |-> Cardinality({r \in DOMAIN levels : e \in levels[r]})])

Witnesses(d, levels) ==
    Table([r \in DOMAIN levels |-> {e \in Firsts(d, levels[r]) : r = Len(levels) \/ e \notin levels[r + 1]}])

Votes(anc, M, wits, freq, heads) ==
    Table([r \in DOMAIN wits |-> VotesFrom(anc, M, wits, freq, heads, r, <<>>)])

FamousWitnesses(wits, votes) == Table([r \in DOMAIN wits |-> Famous(wits, votes, r)])

ReceivedRounds(d, anc, famous) == Table([e \in DOMAIN d |-> ReceivedRound(anc, famous, e)])

ConsensusTimes(d, anc, famous, received) ==
    Table([e \in DOMAIN d |->
        IF received[e] = 0 THEN 0 ELSE ConsensusTime(d, anc, famous, received[e], e)])

\* The whole meaning of a history.
Meaning(d, M, freq, heads) ==
    LET anc == Ancestors(d)
        levels == LevelsFrom(d, anc, M, <<DOMAIN d>>)
        wits == Witnesses(d, levels)
        votes == Votes(anc, M, wits, freq, heads)
        famous == FamousWitnesses(wits, votes)
        received == ReceivedRounds(d, anc, famous)
    IN [round |-> Rounds(d, levels), witnesses |-> wits, votes |-> votes, famous |-> famous,
        received |-> received, time |-> ConsensusTimes(d, anc, famous, received)]
=============================================================================
