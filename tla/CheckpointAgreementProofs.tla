---------------------- MODULE CheckpointAgreementProofs ----------------------
(***************************************************************************)
(* Agreement of accepted checkpoints, for every roster and every number of *)
(* faulty members below one third of each roster.                          *)
(***************************************************************************)
EXTENDS CheckpointAgreement, FiniteSetTheorems, TLAPS

\* Two quorums of one round's roster share a member that is not faulty: each
\* holds more than two thirds, so they share more than one third.
LEMMA QuorumsShareCorrect ==
    ASSUME NEW r \in Round,
           NEW S \in SUBSET Roster[r], NEW T \in SUBSET Roster[r],
           Quorum(r, S), Quorum(r, T)
    PROVE  \E m \in S \cap T : m \in Correct
<1> DEFINE R == Roster[r]
           F == Faulty \cap R
<1>1. /\ R \in SUBSET Member /\ IsFiniteSet(R)
      /\ Cardinality(R) \in Nat
  BY RosterAssumption, FS_Subset, FS_CardinalityType
<1>2. /\ IsFiniteSet(S) /\ IsFiniteSet(T) /\ IsFiniteSet(S \cap T) /\ IsFiniteSet(F)
      /\ IsFiniteSet(S \cup T)
  <2>1. S \subseteq R /\ T \subseteq R /\ S \cap T \subseteq R /\ F \subseteq R /\ S \cup T \subseteq R
    OBVIOUS
  <2>2. QED BY <1>1, <2>1, FS_Subset
<1>3. /\ Cardinality(S) \in Nat /\ Cardinality(T) \in Nat
      /\ Cardinality(S \cap T) \in Nat /\ Cardinality(F) \in Nat
      /\ Cardinality(S \cup T) \in Nat
  BY <1>2, FS_CardinalityType
<1>4. Cardinality(S \cup T) = Cardinality(S) + Cardinality(T) - Cardinality(S \cap T)
  BY <1>2, FS_Union
<1>5. Cardinality(S \cup T) <= Cardinality(R)
  <2>1. S \cup T \subseteq R
    OBVIOUS
  <2>2. QED BY <1>1, <2>1, FS_Subset
<1>6. Cardinality(F) * 3 < Cardinality(R)
  BY RosterAssumption
<1>7. Cardinality(S) * 3 > Cardinality(R) * 2 /\ Cardinality(T) * 3 > Cardinality(R) * 2
  BY DEF Quorum
<1>8. Cardinality(S \cap T) > Cardinality(F)
  BY <1>1, <1>3, <1>4, <1>5, <1>6, <1>7
<1>9. ~ (S \cap T \subseteq F)
  <2>1. SUFFICES ASSUME S \cap T \subseteq F PROVE FALSE
    OBVIOUS
  <2>2. Cardinality(S \cap T) <= Cardinality(F)
    BY <1>2, <2>1, FS_Subset
  <2>3. QED BY <2>2, <1>8, <1>3
<1>10. QED BY <1>1, <1>9 DEF Correct

\* A signature once given is never withdrawn, so a quorum once reached stays.
LEMMA BackersGrow ==
    ASSUME NEW r \in Round, NEW p \in Payload, TypeOK, TypeOK',
           \A m \in Correct : signed[m] \subseteq signed'[m],
           Quorum(r, Backers(r, p))
    PROVE  Quorum(r, Backers(r, p)')
<1> DEFINE B == Backers(r, p)
           C == {m \in Roster[r] : m \in Faulty \/ <<r, p>> \in signed'[m]}
<1>1. Roster[r] \in SUBSET Member /\ IsFiniteSet(Roster[r])
  BY RosterAssumption, FS_Subset
<1>2. B \subseteq C
  BY <1>1 DEF Backers, Correct
<1>3. IsFiniteSet(C)
  <2>1. C \subseteq Roster[r]
    OBVIOUS
  <2>2. QED BY <1>1, <2>1, FS_Subset
<1>4. IsFiniteSet(B) /\ Cardinality(B) <= Cardinality(C)
  BY <1>2, <1>3, FS_Subset
<1>5. Cardinality(B) \in Nat /\ Cardinality(C) \in Nat /\ Cardinality(Roster[r]) \in Nat
  BY <1>1, <1>3, <1>4, FS_CardinalityType
<1>6. Cardinality(C) * 3 > Cardinality(Roster[r]) * 2
  <2>1. Cardinality(B) * 3 > Cardinality(Roster[r]) * 2
    BY DEF Quorum
  <2>2. QED BY <2>1, <1>4, <1>5
<1>7. QED BY <1>6 DEF Backers, Quorum

\* Nothing is signed or accepted at genesis.
LEMMA InitInv == Init => Inv
BY DEF Init, Inv, TypeOK, OneSignaturePerRound, AcceptedBacked

\* Every step preserves the inductive invariant.
LEMMA StepInv == Inv /\ [Next]_vars => Inv'
<1> SUFFICES ASSUME Inv, [Next]_vars PROVE Inv'
  OBVIOUS
<1> USE DEF Inv
<1>1. ASSUME NEW m \in Correct, NEW r \in Round, NEW p \in Payload, Sign(m, r, p)
      PROVE  Inv'
  <2>1. TypeOK'
    BY <1>1 DEF Sign, TypeOK
  <2>2. OneSignaturePerRound'
    BY <1>1 DEF Sign, TypeOK, OneSignaturePerRound
  <2>3. AcceptedBacked'
    <3>1. \A x \in Correct : signed[x] \subseteq signed'[x]
      BY <1>1 DEF Sign, TypeOK
    <3>2. SUFFICES ASSUME NEW x \in Correct, NEW s \in Round, NEW q \in Payload,
                          <<s, q>> \in accepted'[x]
                   PROVE  Quorum(s, Backers(s, q)')
      BY DEF AcceptedBacked, Quorum
    <3>3. Quorum(s, Backers(s, q))
      BY <1>1, <3>2 DEF AcceptedBacked, Sign
    <3>4. QED BY <2>1, <3>1, <3>3, BackersGrow
  <2>4. QED BY <2>1, <2>2, <2>3
<1>2. ASSUME NEW m \in Correct, NEW r \in Round, NEW p \in Payload, Accept(m, r, p)
      PROVE  Inv'
  <2>1. TypeOK'
    BY <1>2 DEF Accept, TypeOK
  <2>2. OneSignaturePerRound'
    BY <1>2 DEF Accept, OneSignaturePerRound
  <2>3. AcceptedBacked'
    <3>1. SUFFICES ASSUME NEW x \in Correct, NEW s \in Round, NEW q \in Payload,
                          <<s, q>> \in accepted'[x]
                   PROVE  Quorum(s, Backers(s, q))'
      BY DEF AcceptedBacked
    <3>2. Quorum(s, Backers(s, q))
      <4>1. CASE <<s, q>> \in accepted[x]
        BY <4>1 DEF AcceptedBacked
      <4>2. CASE <<s, q>> \notin accepted[x]
        BY <1>2, <3>1, <4>2 DEF Accept, TypeOK
      <4>3. QED BY <4>1, <4>2
    <3>3. QED BY <1>2, <3>2 DEF Accept, Quorum, Backers
  <2>4. QED BY <2>1, <2>2, <2>3
<1>3. CASE UNCHANGED vars
  BY <1>3 DEF vars, TypeOK, OneSignaturePerRound, AcceptedBacked, Backers, Quorum
<1>4. QED BY <1>1, <1>2, <1>3 DEF Next

\* Two accepted checkpoints of a round share a correct signer, who signed once.
LEMMA InvAgreement == Inv => Agreement
<1> SUFFICES ASSUME Inv, NEW m \in Correct, NEW n \in Correct, NEW r \in Round,
                    NEW p \in Payload, NEW q \in Payload,
                    <<r, p>> \in accepted[m], <<r, q>> \in accepted[n]
             PROVE  p = q
  BY DEF Agreement
<1>1. Quorum(r, Backers(r, p)) /\ Quorum(r, Backers(r, q))
  BY DEF Inv, AcceptedBacked
<1>2. Backers(r, p) \in SUBSET Roster[r] /\ Backers(r, q) \in SUBSET Roster[r]
  BY DEF Backers
<1>3. PICK x \in Backers(r, p) \cap Backers(r, q) : x \in Correct
  BY <1>1, <1>2, QuorumsShareCorrect
<1>4. <<r, p>> \in signed[x] /\ <<r, q>> \in signed[x]
  BY <1>3 DEF Backers, Correct
<1>5. QED BY <1>3, <1>4 DEF Inv, OneSignaturePerRound

\* Safety of signed checkpoints: correct members never accept different
\* checkpoints for the same round.
THEOREM AgreementTheorem == Spec => []Agreement
<1>1. Spec => []Inv
  BY InitInv, StepInv, PTL DEF Spec
<1>2. QED BY <1>1, InvAgreement, PTL
==============================================================================
