------------------------------ MODULE MCGossip ------------------------------
EXTENDS Gossip

\* The middle bit of a signature: some voters say yes, some no.
MCCoin(e) == (creator(e) + seq(e)) % 2 = 0

\* Clocks of the nodes run apart.
MCTimestamp(m, s) == 10 * s + 7 * m

\* No bound but MaxEvents, and one that lets no node run far ahead.
AnyChain(n) == MaxEvents
ShortChain(n) == IF n = 1 THEN 5 ELSE 4

NoHistory == {<<>>}
NoOps == <<>>

\* The first event of node 1 carries the operation that admits node 3.
JoinOps == [e \in {<<1, 1>>} |-> 3]
=============================================================================
