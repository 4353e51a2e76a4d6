------------------------------ MODULE MCDelivery ------------------------------
EXTENDS Delivery

MCCoin(e) == (creator(e) + seq(e)) % 2 = 0
MCTimestamp(m, s) == 10 * s + 7 * m
NoOps == <<>>
NoHistory == {<<>>}

\* No bound but MaxEvents.
AnyChain(n) == MaxEvents

\* The first event of node 1 carries the operation that admits node 3.
JoinOps == [e \in {<<1, 1>>} |-> 3]

\* The history in which the syncs of a schedule happen one after the other; 23
\* is node 2 syncing with node 3 and then creating an event.  known[n] is the
\* number of events of each creator that n has.
RunSchedule(schedule) ==
    LET step(s, sync) ==
            LET n == sync \div 10
                p == sync % 10
                got == [m \in 1..4 |-> Max({s.known[n][m], s.known[p][m]})]
                e == <<n, got[n] + 1>>
                last(m) == IF got[m] = 0 THEN None ELSE <<m, got[m]>>
                ev == [selfParent |-> last(n), otherParent |-> last(p),
                       timestamp |-> MCTimestamp(n, got[n] + 1)]
            IN [known |-> [s.known EXCEPT ![n] = [got EXCEPT ![n] = @ + 1]],
                dag |-> s.dag @@ (e :> ev)]
    IN FoldLeft(step, [known |-> [n \in 1..4 |-> [m \in 1..4 |-> 0]], dag |-> <<>>], schedule).dag

\* Node 4 lags; two witnesses of its are found not famous one round late.
Lagging ==
    <<21, 31, 32, 21, 12, 23, 12, 43, 32, 34, 23, 42, 32, 12, 43, 13, 21, 32,
      23, 31, 21, 21, 31, 32, 42, 13, 32, 34, 23, 32, 21, 24, 43, 14, 13, 21>>

\* Node 4 hears of the others twice only.
Remote ==
    <<32, 34, 43, 31, 12, 32, 12, 23, 23, 21, 13, 32, 32, 13, 32, 21, 21, 42,
      24, 23, 31, 12, 21, 32, 12, 23, 12, 42, 21, 12, 12, 23, 21, 42, 24, 32>>

\* Nodes 1 and 2 gossip mostly with each other, and so do 3 and 4.
Halves ==
    <<41, 43, 12, 34, 21, 24, 34, 12, 31, 42, 32, 41, 14, 31, 12, 43, 14, 23,
      43, 41, 34, 12, 24, 12, 42, 34, 23, 32, 24, 43, 24, 34, 14, 21, 34, 31>>

\* All witnesses are famous, two of them by votes that were split at first.
SplitYes ==
    <<31, 43, 41, 32, 13, 24, 23, 32, 12, 21, 43, 24, 12, 32, 12, 41, 34, 13,
      13, 24, 42, 34, 21, 32, 24, 13, 21, 13, 21, 21, 31, 24, 12, 42, 24, 41>>

\* A candidate on which the votes are still split two rounds up.
SplitTwice ==
    <<31, 23, 12, 31, 42, 21, 23, 34, 12, 42, 34, 14, 21, 21, 12, 42, 42, 13,
      42, 42, 32, 23, 12, 14, 31, 32, 42, 32, 23, 41>>

\* Node 4 is silent for many rounds.  Node 1 then puts an event on top of its
\* first one, while the others hear of its next.
Silent ==
    <<41, 14, 24, 34, 13, 23, 13, 32, 23, 32, 23, 31, 23, 13, 23, 31, 12, 21,
      32, 13, 23, 13, 31, 12, 31, 13, 32, 21, 32, 13, 14, 42, 24, 34, 23, 42>>

\* An election that is open three rounds up, where every witness tosses a coin.
Tossed ==
    <<23, 14, 42, 34, 24, 41, 32, 14, 21, 21, 42, 34, 31, 13, 14, 43, 23, 14,
      21, 32, 43, 24, 32, 13, 41, 24, 32, 12>>

MCHistories ==
    {RunSchedule(s) : s \in {Lagging, Remote, Halves, SplitYes, SplitTwice, Silent, Tossed}}

\* One witness sees a clear majority in a coin round; the others toss a coin.
HalfTossed ==
    <<34, 13, 24, 41, 14, 31, 13, 21, 42, 14, 34, 41, 24, 12, 41, 34, 13, 41,
      34, 21>>

OneHistory == {RunSchedule(HalfTossed)}
MCHeads(e) == TRUE
=============================================================================
