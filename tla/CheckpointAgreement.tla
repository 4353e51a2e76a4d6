------------------------- MODULE CheckpointAgreement -------------------------
(***************************************************************************)
(* What signed checkpoints promise the cluster, with every mechanism taken *)
(* out: a member signs at most one payload per round, and a round's        *)
(* checkpoint is accepted once more than two thirds of the members on the  *)
(* roster of that round have signed the same payload.  Module Checkpoint   *)
(* describes how a node collects those signatures and implements this      *)
(* specification.                                                          *)
(*                                                                         *)
(* A payload stands for CheckpointPayload::signing_bytes: two payloads are *)
(* equal exactly when their signing bytes are.  Signatures are             *)
(* unforgeable, so "m signed <<r, p>>" is a fact about m.  A faulty member *)
(* may have signed anything, so it counts towards every quorum.            *)
(***************************************************************************)
EXTENDS Integers, FiniteSets

CONSTANTS
    Member,     \* every node that is ever on a roster
    Faulty,     \* the members that do not follow the protocol
    Round,      \* consensus rounds
    Payload,    \* checkpoint payloads (signing bytes)
    Roster      \* Roster[r]: the members active at round r

Correct == Member \ Faulty

\* More than two thirds of the roster of round r.
Quorum(r, S) == Cardinality(S) * 3 > Cardinality(Roster[r]) * 2

ASSUME RosterAssumption ==
    /\ Faulty \subseteq Member
    /\ Round \subseteq Nat \ {0}
    /\ IsFiniteSet(Member)
    /\ Roster \in [Round -> SUBSET Member]
    /\ \A r \in Round : Cardinality(Faulty \cap Roster[r]) * 3 < Cardinality(Roster[r])

VARIABLES
    signed,     \* signed[m]: the <<round, payload>> pairs the correct member m has signed
    accepted    \* accepted[m]: the checkpoints the correct member m has accepted

vars == <<signed, accepted>>

\* The roster members whose signature on payload p for round r can exist.
Backers(r, p) == {m \in Roster[r] : m \in Faulty \/ <<r, p>> \in signed[m]}

TypeOK ==
    /\ signed \in [Correct -> SUBSET (Round \X Payload)]
    /\ accepted \in [Correct -> SUBSET (Round \X Payload)]

Init ==
    /\ signed = [m \in Correct |-> {}]
    /\ accepted = [m \in Correct |-> {}]

\* A variant in which a member that forgot its first signature signs again.
SignAgain(m, r, p) ==
    /\ signed' = [signed EXCEPT ![m] = @ \cup {<<r, p>>}]
    /\ UNCHANGED accepted

Sign(m, r, p) ==
    /\ \A q \in Payload : <<r, q>> \notin signed[m]
    /\ signed' = [signed EXCEPT ![m] = @ \cup {<<r, p>>}]
    /\ UNCHANGED accepted

Accept(m, r, p) ==
    /\ Quorum(r, Backers(r, p))
    /\ accepted' = [accepted EXCEPT ![m] = @ \cup {<<r, p>>}]
    /\ UNCHANGED signed

Next ==
    \E m \in Correct, r \in Round, p \in Payload : Sign(m, r, p) \/ Accept(m, r, p)

Spec == Init /\ [][Next]_vars

------------------------------------------------------------------------------

\* A correct member never signs two payloads for one round: produce_checkpoint
\* runs once per round and signs what it derived from decided history.
OneSignaturePerRound ==
    \A m \in Correct, r \in Round, p, q \in Payload :
        <<r, p>> \in signed[m] /\ <<r, q>> \in signed[m] => p = q

\* Every accepted checkpoint is backed by a quorum of its round's roster.
AcceptedBacked ==
    \A m \in Correct, r \in Round, p \in Payload :
        <<r, p>> \in accepted[m] => Quorum(r, Backers(r, p))

\* Agreement: no two correct members ever accept different checkpoints for one
\* round, whatever each of them derived (SignedCheckpoint::verify_with_registry
\* and CheckpointAccumulator::add_sig use the same > 2/3 rule).
Agreement ==
    \A m, n \in Correct, r \in Round, p, q \in Payload :
        <<r, p>> \in accepted[m] /\ <<r, q>> \in accepted[n] => p = q

Inv == TypeOK /\ OneSignaturePerRound /\ AcceptedBacked
==============================================================================
