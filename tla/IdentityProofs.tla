--------------------------- MODULE IdentityProofs ---------------------------
(***************************************************************************)
(* Identities, for every set of identifiers, keys and nodes: the registry  *)
(* that the executor keeps (Actors), its types, its log and its root, and  *)
(* the keys and the genesis that an operator provisions (Provisioning).    *)
(***************************************************************************)
EXTENDS Actors, Provisioning, TLAPS

\* A root actor comes with a document and never goes.
RootHasDocument == \A d \in Did : docs[d] = None => roots[d] = None

------------------------------------------------------------------------------
\* No record exists at genesis.
LEMMA InitType == Init => TypeOK /\ RootHasDocument
BY DEF Init, TypeOK, RootHasDocument

\* The root actor that an operation writes is a well-formed one.
LEMMA WriteType ==
    ASSUME TypeOK, NEW d \in Did, NEW r \in RootActor,
           Write(roots, [roots EXCEPT ![d] = r])
    PROVE  roots' \in [Did -> RootActor \cup {None}] /\ faults' \in Nat
BY FaultsAssumption DEF TypeOK, Write

\* The write of a root actor touches that one record, if it is made.
LEMMA Written ==
    ASSUME TypeOK, NEW d \in Did, NEW r \in RootActor,
           Write(roots, [roots EXCEPT ![d] = r])
    PROVE  /\ roots'[d] \in {roots[d], r}
           /\ \A e \in Did \ {d} : roots'[e] = roots[e]
BY DEF TypeOK, Write

\* What an update and a mint write.
Updated(d, doc) == [log |-> IF roots[d] = None THEN <<>> ELSE roots[d].log,
                    control_key |-> doc.control_key]
Minted(d, i, sub) == [log |-> Append(roots[d].log, [index |-> i, control_key |-> sub.control_key]),
                      control_key |-> roots[d].control_key]

\* An update keeps the log and takes the control key of the new document.
LEMMA UpdatedType ==
    ASSUME TypeOK, NEW d \in Did, NEW doc \in Document
    PROVE  Updated(d, doc) \in RootActor
BY NoneAssumption DEF TypeOK, Updated, RootActor, Document

\* A mint appends one leaf to the log it was proved against.
LEMMA MintWrites ==
    ASSUME TypeOK, NEW d \in Did, NEW i \in Index, NEW sub \in SubActor, NEW signer, NEW on,
           MintSubActor(d, i, sub, signer, on)
    PROVE  /\ roots[d] \in RootActor
           /\ Minted(d, i, sub) \in RootActor
           /\ Write(roots, [roots EXCEPT ![d] = Minted(d, i, sub)])
<1> DEFINE leaf == [index |-> i, control_key |-> sub.control_key]
<1>1. roots[d] \in RootActor /\ on = roots[d].log
  BY NoneAssumption DEF TypeOK, MintSubActor
<1>2. leaf \in Leaf
  BY DEF Leaf, SubActor
<1>3. roots[d].log \in Seq(Leaf) /\ roots[d].control_key \in Key
  BY <1>1 DEF RootActor
<1>4. Append(roots[d].log, leaf) \in Seq(Leaf)
  BY <1>2, <1>3
<1>5. Minted(d, i, sub) \in RootActor
  BY <1>3, <1>4 DEF RootActor, Minted
<1>6. Write(roots, [roots EXCEPT ![d] = Minted(d, i, sub)])
  BY <1>1 DEF MintSubActor, Minted
<1>7. QED BY <1>1, <1>5, <1>6

\* Every operation keeps the records well formed.
LEMMA StepType == TypeOK /\ [Next]_vars => TypeOK'
<1> SUFFICES ASSUME TypeOK, [Next]_vars PROVE TypeOK'
  OBVIOUS
<1> USE NoneAssumption
<1>1. ASSUME NEW d \in Did, NEW signer \in Key, NEW doc \in Document, CreateDid(d, doc, signer)
      PROVE  TypeOK'
  <2>1. [log |-> <<>>, control_key |-> doc.control_key] \in RootActor
    BY DEF RootActor, Document
  <2>2. roots' \in [Did -> RootActor \cup {None}] /\ faults' \in Nat
    BY <1>1, <2>1, WriteType DEF CreateDid
  <2>3. QED BY <1>1, <2>2 DEF TypeOK, CreateDid
<1>2. ASSUME NEW d \in Did, NEW signer \in Key, NEW doc \in Document, UpdateDid(d, doc, signer)
      PROVE  TypeOK'
  <2>1. roots' \in [Did -> RootActor \cup {None}] /\ faults' \in Nat
    <3>1. CASE doc.deactivated
      BY <1>2, <3>1 DEF UpdateDid, TypeOK
    <3>2. CASE ~doc.deactivated
      <4>1. Write(roots, [roots EXCEPT ![d] = Updated(d, doc)])
        BY <1>2, <3>2 DEF UpdateDid, Updated
      <4>2. QED BY <4>1, UpdatedType, WriteType
    <3>3. QED BY <3>1, <3>2
  <2>2. QED BY <1>2, <2>1 DEF TypeOK, UpdateDid
<1>3. ASSUME NEW d \in Did, NEW signer \in Key, NEW i \in Index, NEW sub \in SubActor,
             NEW on \in Logs(d), MintSubActor(d, i, sub, signer, on)
      PROVE  TypeOK'
  <2>1. roots' \in [Did -> RootActor \cup {None}] /\ faults' \in Nat
    BY <1>3, MintWrites, WriteType
  <2>2. QED BY <1>3, <2>1 DEF TypeOK, MintSubActor
<1>4. ASSUME NEW d \in Did, NEW signer \in Key, NEW i \in Index, NEW old \in Key, NEW new \in Key,
             Rebind(d, i, old, new, signer)
      PROVE  TypeOK'
  <2>1. subs[<<d, i>>] \in SubActor
    BY <1>4 DEF TypeOK, Rebind
  <2>2. [subs[<<d, i>>] EXCEPT !.operating_key = new] \in SubActor
    BY <2>1 DEF SubActor
  <2>3. QED BY <1>4, <2>2 DEF TypeOK, Rebind
<1>5. CASE UNCHANGED vars
  BY <1>5 DEF TypeOK, vars
<1>6. QED BY <1>1, <1>2, <1>3, <1>4, <1>5 DEF Next

\* Whatever is executed and whatever storage errors there are, the records stay
\* well formed.
THEOREM TypeCorrect == Spec => []TypeOK
<1>1. QED BY InitType, StepType, PTL DEF Spec

------------------------------------------------------------------------------
\* No operation leaves a root actor without a document.
LEMMA StepRootHasDocument ==
    TypeOK /\ RootHasDocument /\ [Next]_vars => RootHasDocument'
<1> SUFFICES ASSUME TypeOK, RootHasDocument, [Next]_vars PROVE RootHasDocument'
  OBVIOUS
<1> USE NoneAssumption
<1>1. ASSUME NEW d \in Did, NEW signer \in Key, NEW doc \in Document,
             CreateDid(d, doc, signer) \/ UpdateDid(d, doc, signer)
      PROVE  RootHasDocument'
  <2>1. docs' = [docs EXCEPT ![d] = doc] /\ doc # None
    BY <1>1 DEF CreateDid, UpdateDid
  <2>2. \A e \in Did \ {d} : roots'[e] = roots[e] /\ docs'[e] = docs[e]
    BY <1>1 DEF CreateDid, UpdateDid, Write, TypeOK
  <2>3. QED BY <2>1, <2>2 DEF RootHasDocument, TypeOK
<1>2. ASSUME NEW d \in Did, NEW signer \in Key, NEW i \in Index, NEW sub \in SubActor,
             NEW on \in Logs(d), MintSubActor(d, i, sub, signer, on)
      PROVE  RootHasDocument'
  <2>1. docs' = docs /\ docs[d] # None
    BY <1>2 DEF MintSubActor, Active
  <2>2. \A e \in Did \ {d} : roots'[e] = roots[e]
    BY <1>2 DEF MintSubActor, Write, TypeOK
  <2>3. QED BY <2>1, <2>2 DEF RootHasDocument
<1>3. ASSUME NEW d \in Did, NEW signer \in Key, NEW i \in Index, NEW old \in Key, NEW new \in Key,
             Rebind(d, i, old, new, signer)
      PROVE  RootHasDocument'
  BY <1>3 DEF Rebind, RootHasDocument
<1>4. CASE UNCHANGED vars
  BY <1>4 DEF RootHasDocument, vars
<1>5. QED BY <1>1, <1>2, <1>3, <1>4 DEF Next

\* What an operation on one identifier may do to the records: it needs the
\* identifier not to be retired, and its log, if it has one, to grow at the end.
Grows(d) ==
    roots[d] # None =>
      /\ roots'[d] # None
      /\ Len(roots[d].log) <= Len(roots'[d].log)
      /\ \A n \in DOMAIN roots[d].log : roots'[d].log[n] = roots[d].log[n]

Untouched(d) ==
    /\ docs'[d] = docs[d] /\ roots'[d] = roots[d]
    /\ \A i \in Index : subs'[<<d, i>>] = subs[<<d, i>>]

\* A log that is left alone has grown, by nothing.
LEMMA UntouchedGrows ==
    ASSUME TypeOK, NEW d \in Did, Untouched(d)
    PROVE  Grows(d)
BY NoneAssumption DEF TypeOK, Untouched, Grows, RootActor

\* Every step lets each log grow at its end only, and leaves a retired
\* identifier alone.
LEMMA StepShape ==
    ASSUME TypeOK, RootHasDocument, [Next]_vars, NEW e \in Did
    PROVE  /\ Grows(e)
           /\ docs[e] # None /\ docs[e].deactivated => Untouched(e)
<1> USE NoneAssumption
<1>1. ASSUME NEW d \in Did, NEW signer \in Key, NEW doc \in Document, CreateDid(d, doc, signer)
      PROVE  (e # d => Untouched(e)) /\ (e = d => Grows(e) /\ docs[e] = None)
  BY <1>1 DEF CreateDid, Write, TypeOK, Untouched, Grows, RootHasDocument
<1>2. ASSUME NEW d \in Did, NEW signer \in Key, NEW doc \in Document, UpdateDid(d, doc, signer)
      PROVE  (e # d => Untouched(e)) /\ (e = d => Grows(e) /\ Active(e))
  <2>1. e # d => Untouched(e)
    BY <1>2 DEF UpdateDid, Write, TypeOK, Untouched
  <2>2. roots[d] # None => roots'[d] # None /\ roots'[d].log = roots[d].log
    <3>1. CASE doc.deactivated
      BY <1>2, <3>1 DEF UpdateDid
    <3>2. CASE ~doc.deactivated
      <4>1. Write(roots, [roots EXCEPT ![d] = Updated(d, doc)])
        BY <1>2, <3>2 DEF UpdateDid, Updated
      <4>2. roots'[d] \in {roots[d], Updated(d, doc)} /\ Updated(d, doc) # None
        BY <4>1, UpdatedType, Written
      <4>3. roots[d] # None => Updated(d, doc).log = roots[d].log
        BY DEF Updated
      <4>4. QED BY <4>2, <4>3
    <3>3. QED BY <3>1, <3>2
  <2>3. roots[d] # None => roots[d].log \in Seq(Leaf)
    BY DEF TypeOK, RootActor
  <2>4. QED BY <1>2, <2>1, <2>2, <2>3 DEF UpdateDid, Grows
<1>3. ASSUME NEW d \in Did, NEW signer \in Key, NEW i \in Index, NEW sub \in SubActor,
             NEW on \in Logs(d), MintSubActor(d, i, sub, signer, on)
      PROVE  (e # d => Untouched(e)) /\ (e = d => Grows(e) /\ Active(e))
  <2>1. e # d => Untouched(e)
    BY <1>3 DEF MintSubActor, Write, TypeOK, Untouched
  <2>2. roots'[d] \in {roots[d], Minted(d, i, sub)} /\ Minted(d, i, sub) # None
    BY <1>3, MintWrites, Written
  <2>3. roots[d].log \in Seq(Leaf) /\ [index |-> i, control_key |-> sub.control_key] \in Leaf
    BY <1>3, MintWrites DEF RootActor, Leaf, SubActor
  <2>4. /\ Len(roots[d].log) <= Len(Minted(d, i, sub).log)
        /\ \A n \in DOMAIN roots[d].log : Minted(d, i, sub).log[n] = roots[d].log[n]
    BY <2>3 DEF Minted
  <2>5. Grows(d)
    BY <2>2, <2>3, <2>4 DEF Grows
  <2>6. QED BY <1>3, <2>1, <2>5 DEF MintSubActor
<1>4. ASSUME NEW d \in Did, NEW signer \in Key, NEW i \in Index, NEW old \in Key, NEW new \in Key,
             Rebind(d, i, old, new, signer)
      PROVE  (e # d => Untouched(e)) /\ (e = d => Grows(e) /\ Active(e))
  <2>1. e # d => Untouched(e)
    BY <1>4 DEF Rebind, TypeOK, Untouched
  <2>2. Grows(d)
    BY <1>4 DEF Rebind, Grows, TypeOK, RootActor
  <2>3. QED BY <1>4, <2>1, <2>2 DEF Rebind
<1>5. CASE UNCHANGED vars
  BY <1>5, UntouchedGrows DEF vars, Untouched
<1>6. QED BY <1>1, <1>2, <1>3, <1>4, <1>5, UntouchedGrows DEF Next, Active

\* A root actor's log is append-only, whatever storage errors there are.
THEOREM LogAppendOnly == Spec => AppendOnly
<1>1. TypeOK /\ RootHasDocument /\ [Next]_vars =>
        [\A d \in Did : roots[d] # None =>
           /\ roots'[d] # None
           /\ Len(roots[d].log) <= Len(roots'[d].log)
           /\ \A n \in DOMAIN roots[d].log : roots'[d].log[n] = roots[d].log[n]]_vars
  BY StepShape DEF Grows
<1>2. QED BY <1>1, InitType, StepType, StepRootHasDocument, PTL DEF Spec, AppendOnly

\* A deactivated identifier is retired for good, whatever storage errors there
\* are.
THEOREM RetiredForGood == Spec => Retired
<1>1. TypeOK /\ RootHasDocument /\ [Next]_vars =>
        [\A d \in Did : docs[d] # None /\ docs[d].deactivated =>
           /\ docs'[d] = docs[d] /\ roots'[d] = roots[d]
           /\ \A i \in Index : subs'[<<d, i>>] = subs[<<d, i>>]]_vars
  BY StepShape DEF Untouched
<1>2. QED BY <1>1, InitType, StepType, StepRootHasDocument, PTL DEF Spec, Retired

------------------------------------------------------------------------------
\* The invariant that the steps preserve; the last two conjuncts hold until a
\* storage error strikes.
Inv == TypeOK /\ RootHasDocument /\ Committed /\ ControlMirrors

Mirrors(d) == Active(d) => roots[d] # None /\ roots[d].control_key = docs[d].control_key

\* What a well-formed log holds.
LEMMA LogType ==
    ASSUME TypeOK, NEW d \in Did, roots[d] # None
    PROVE  /\ roots[d].log \in Seq(Leaf)
           /\ \A n \in DOMAIN roots[d].log : roots[d].log[n].index \in Index
<1>1. roots[d].log \in Seq(Leaf)
  BY DEF TypeOK, RootActor
<1>2. \A n \in DOMAIN roots[d].log : roots[d].log[n] \in Leaf
  BY <1>1
<1>3. \A l \in Leaf : l.index \in Index
  BY DEF Leaf
<1>4. QED BY <1>1, <1>2, <1>3

\* An identifier that is left alone keeps its commitment and its control key.
LEMMA UntouchedKeeps ==
    ASSUME TypeOK, NEW d \in Did, Untouched(d), CommittedAt(d), Mirrors(d)
    PROVE  CommittedAt(d)' /\ Mirrors(d)'
<1>1. roots'[d] = roots[d] /\ \A i \in Index : subs'[<<d, i>>] = subs[<<d, i>>]
  BY DEF Untouched
<1>2. CommittedAt(d)'
  <2>1. CASE roots[d] = None
    BY <1>1, <2>1 DEF CommittedAt
  <2>2. CASE roots[d] # None
    <3>1. \A n \in DOMAIN roots[d].log :
             subs'[<<d, roots[d].log[n].index>>] = subs[<<d, roots[d].log[n].index>>]
      BY <1>1, <2>2, LogType
    <3>2. QED BY <1>1, <2>2, <3>1 DEF CommittedAt
  <2>3. QED BY <2>1, <2>2
<1>3. QED BY <1>2 DEF Untouched, Mirrors, Active

\* A new identifier commits to no sub-actor, and has none.
LEMMA CreateKeeps ==
    ASSUME TypeOK, RootHasDocument, faults' = 0, NEW d \in Did, NEW doc \in Document, NEW signer,
           CommittedAt(d), CreateDid(d, doc, signer)
    PROVE  CommittedAt(d)' /\ Mirrors(d)'
<1>1. roots' = [roots EXCEPT ![d] = [log |-> <<>>, control_key |-> doc.control_key]]
  BY DEF CreateDid, Write, TypeOK
<1>2. \A i \in Index : subs[<<d, i>>] = None
  BY DEF CreateDid, RootHasDocument, CommittedAt
<1>3. roots'[d] = [log |-> <<>>, control_key |-> doc.control_key]
  BY <1>1 DEF TypeOK
<1>4. roots'[d] \in RootActor
  BY <1>3 DEF RootActor, Document
<1>5. CommittedAt(d)'
  BY <1>2, <1>3, <1>4, NoneAssumption DEF CommittedAt, CreateDid
<1>6. Mirrors(d)'
  BY <1>3, <1>4, NoneAssumption DEF Mirrors, Active, CreateDid, TypeOK
<1>7. QED BY <1>5, <1>6

\* An update changes neither the log nor a sub-actor.
LEMMA UpdateKeeps ==
    ASSUME TypeOK, faults' = 0, NEW d \in Did, NEW doc \in Document, NEW signer,
           CommittedAt(d), Mirrors(d), UpdateDid(d, doc, signer)
    PROVE  CommittedAt(d)' /\ Mirrors(d)'
<1>1. docs'[d] = doc /\ subs' = subs /\ roots[d] # None
  BY DEF UpdateDid, TypeOK, Mirrors
<1>2. CASE doc.deactivated
  <2>1. roots' = roots
    BY <1>2 DEF UpdateDid
  <2>2. QED BY <1>1, <1>2, <2>1 DEF CommittedAt, Mirrors, Active
<1>3. CASE ~doc.deactivated
  <2>1. roots' = [roots EXCEPT ![d] = Updated(d, doc)]
    BY <1>3 DEF UpdateDid, Updated, Write, TypeOK
  <2>2. roots'[d] = Updated(d, doc) /\ Updated(d, doc) # None
    BY <2>1, UpdatedType, NoneAssumption DEF TypeOK
  <2>3. roots'[d].log = roots[d].log /\ roots'[d].control_key = doc.control_key
    BY <1>1, <2>2 DEF Updated
  <2>4. CommittedAt(d)'
    BY <1>1, <2>2, <2>3 DEF CommittedAt
  <2>5. QED BY <1>1, <2>2, <2>3, <2>4 DEF Mirrors
<1>4. QED BY <1>2, <1>3

\* A mint adds a slot that had no sub-actor and hence no leaf.
LEMMA MintKeeps ==
    ASSUME TypeOK, faults' = 0, NEW d \in Did, NEW i \in Index, NEW sub \in SubActor,
           NEW signer, NEW on,
           CommittedAt(d), Mirrors(d), MintSubActor(d, i, sub, signer, on)
    PROVE  CommittedAt(d)' /\ Mirrors(d)'
<1> DEFINE leaf == [index |-> i, control_key |-> sub.control_key]
           log == roots[d].log
<1>1. roots'[d] = Minted(d, i, sub) /\ roots'[d] # None /\ roots[d] # None
  <2>1. roots' = [roots EXCEPT ![d] = Minted(d, i, sub)]
    BY MintWrites DEF Write, TypeOK
  <2>2. QED BY <2>1, MintWrites, NoneAssumption DEF TypeOK
<1>2. roots'[d].log = Append(log, leaf) /\ roots'[d].control_key = roots[d].control_key
  BY <1>1 DEF Minted
<1>3. log \in Seq(Leaf) /\ leaf \in Leaf /\ \A n \in DOMAIN log : log[n].index \in Index
  BY <1>1, LogType DEF Leaf, SubActor
<1>4. /\ subs[<<d, i>>] = None /\ subs'[<<d, i>>] = sub /\ sub # None
      /\ \A j \in Index \ {i} : subs'[<<d, j>>] = subs[<<d, j>>]
  BY NoneAssumption DEF MintSubActor, TypeOK
<1>5. \A n \in DOMAIN log : log[n].index # i
  BY <1>1, <1>4 DEF CommittedAt
<1>6. /\ DOMAIN roots'[d].log = 1..Len(log) + 1 /\ DOMAIN log = 1..Len(log) /\ Len(log) \in Nat
      /\ roots'[d].log[Len(log) + 1] = leaf
      /\ \A n \in DOMAIN log : roots'[d].log[n] = log[n]
  <2> HIDE DEF leaf, log
  <2>1. QED BY <1>2, <1>3
<1>7. \A j \in Index : subs'[<<d, j>>] # None =>
         \E n \in DOMAIN roots'[d].log : roots'[d].log[n].index = j
  <2>1. TAKE j \in Index
  <2>2. CASE j = i
    BY <1>6, <2>2
  <2>3. CASE j # i
    <3>1. subs[<<d, j>>] # None => \E n \in DOMAIN log : log[n].index = j
      BY <1>1 DEF CommittedAt
    <3>2. QED BY <1>4, <1>6, <2>3, <3>1
  <2>4. QED BY <2>2, <2>3
<1>8. ASSUME NEW n \in DOMAIN roots'[d].log
      PROVE  /\ subs'[<<d, roots'[d].log[n].index>>] # None
             /\ subs'[<<d, roots'[d].log[n].index>>].control_key = roots'[d].log[n].control_key
             /\ \A m \in DOMAIN roots'[d].log :
                  roots'[d].log[m].index = roots'[d].log[n].index => m = n
  <2>1. CASE n = Len(log) + 1
    <3>1. roots'[d].log[n] = leaf
      BY <1>6, <2>1
    <3>2. roots'[d].log[n].index = i /\ roots'[d].log[n].control_key = sub.control_key
      BY <3>1
    <3>3. ASSUME NEW m \in DOMAIN roots'[d].log, roots'[d].log[m].index = i
          PROVE  m = n
      <4>1. m \notin DOMAIN log
        BY <1>5, <1>6, <3>3
      <4>2. QED BY <1>6, <2>1, <4>1
    <3>4. QED BY <1>4, <3>2, <3>3
  <2>2. CASE n \in DOMAIN log
    <3>1. /\ subs[<<d, log[n].index>>] # None
          /\ subs[<<d, log[n].index>>].control_key = log[n].control_key
          /\ \A m \in DOMAIN log : log[m].index = log[n].index => m = n
      BY <1>1, <2>2 DEF CommittedAt
    <3>2. log[n].index \in Index \ {i}
      BY <1>3, <1>5, <2>2
    <3>3. roots'[d].log[n] = log[n] /\ subs'[<<d, log[n].index>>] = subs[<<d, log[n].index>>]
      BY <1>4, <1>6, <2>2, <3>2
    <3>4. ASSUME NEW m \in DOMAIN roots'[d].log, roots'[d].log[m].index = log[n].index
          PROVE  m = n
      <4>1. m # Len(log) + 1
        BY <1>6, <3>2, <3>4
      <4>2. m \in DOMAIN log
        BY <1>6, <4>1
      <4>3. QED BY <1>6, <3>1, <3>4, <4>2
    <3>5. QED BY <3>1, <3>3, <3>4
  <2>3. QED BY <1>6, <2>1, <2>2
<1>9. CommittedAt(d)'
  BY <1>1, <1>7, <1>8 DEF CommittedAt
<1>10. Mirrors(d)'
  BY <1>1, <1>2 DEF Mirrors, Active, MintSubActor
<1>11. QED BY <1>9, <1>10

\* A rebind changes the operating key, which no leaf holds.
LEMMA RebindKeeps ==
    ASSUME TypeOK, NEW d \in Did, NEW i \in Index, NEW old, NEW new \in Key, NEW signer,
           CommittedAt(d), Mirrors(d), Rebind(d, i, old, new, signer)
    PROVE  CommittedAt(d)' /\ Mirrors(d)'
<1>1. roots' = roots /\ docs' = docs /\ roots[d] # None
  BY DEF Rebind
<1>2. subs[<<d, i>>] \in SubActor
  BY DEF Rebind, TypeOK
<1>3. \A j \in Index : /\ subs'[<<d, j>>] = None <=> subs[<<d, j>>] = None
                      /\ subs'[<<d, j>>].control_key = subs[<<d, j>>].control_key
  <2>1. /\ subs'[<<d, i>>] = [subs[<<d, i>>] EXCEPT !.operating_key = new]
        /\ \A j \in Index \ {i} : subs'[<<d, j>>] = subs[<<d, j>>]
    BY DEF Rebind, TypeOK
  <2>2. /\ [subs[<<d, i>>] EXCEPT !.operating_key = new] \in SubActor
        /\ [subs[<<d, i>>] EXCEPT !.operating_key = new].control_key = subs[<<d, i>>].control_key
    BY <1>2 DEF SubActor
  <2>3. QED BY <1>2, <2>1, <2>2, NoneAssumption
<1>4. CommittedAt(d)'
  BY <1>1, <1>3, LogType DEF CommittedAt
<1>5. QED BY <1>1, <1>4 DEF Mirrors, Active

\* Storage errors are counted and never forgotten.
LEMMA FaultsGrow == TypeOK /\ [Next]_vars => (faults' = 0 => faults = 0)
<1> SUFFICES ASSUME faults \in Nat, [Next]_vars PROVE faults' = 0 => faults = 0
  BY DEF TypeOK
<1>1. ASSUME NEW d \in Did, NEW signer \in Key, NEW doc \in Document,
             CreateDid(d, doc, signer) \/ UpdateDid(d, doc, signer)
      PROVE  faults' = 0 => faults = 0
  BY <1>1 DEF CreateDid, UpdateDid, Write
<1>2. ASSUME NEW d \in Did, NEW signer \in Key, NEW i \in Index, NEW sub \in SubActor,
             NEW on \in Logs(d), MintSubActor(d, i, sub, signer, on)
      PROVE  faults' = 0 => faults = 0
  BY <1>2 DEF MintSubActor, Write
<1>3. ASSUME NEW d \in Did, NEW signer \in Key, NEW i \in Index, NEW old \in Key, NEW new \in Key,
             Rebind(d, i, old, new, signer)
      PROVE  faults' = 0 => faults = 0
  BY <1>3 DEF Rebind
<1>4. QED BY <1>1, <1>2, <1>3 DEF Next, vars

\* The invariant is inductive, one identifier at a time.
LEMMA StepInv == Inv /\ [Next]_vars => Inv'
<1> SUFFICES ASSUME Inv, [Next]_vars PROVE Inv'
  OBVIOUS
<1>1. TypeOK /\ RootHasDocument /\ (faults = 0 => \A e \in Did : CommittedAt(e) /\ Mirrors(e))
  BY DEF Inv, Committed, ControlMirrors, Mirrors
<1>2. TypeOK' /\ RootHasDocument'
  BY <1>1, StepType, StepRootHasDocument
<1>3. ASSUME faults' = 0, NEW e \in Did PROVE CommittedAt(e)' /\ Mirrors(e)'
  <2>0. \A x \in Did : CommittedAt(x) /\ Mirrors(x)
    BY <1>1, <1>3, FaultsGrow
  <2>1. Untouched(e) => CommittedAt(e)' /\ Mirrors(e)'
    BY <1>1, <2>0, UntouchedKeeps
  <2>2. ASSUME NEW d \in Did, NEW signer \in Key, NEW doc \in Document,
               CreateDid(d, doc, signer) \/ UpdateDid(d, doc, signer)
        PROVE  CommittedAt(e)' /\ Mirrors(e)'
    <3>1. e # d => Untouched(e)
      BY <1>1, <2>2 DEF CreateDid, UpdateDid, Write, TypeOK, Untouched
    <3>2. CommittedAt(d)' /\ Mirrors(d)'
      BY <1>1, <1>3, <2>0, <2>2, CreateKeeps, UpdateKeeps
    <3>3. QED BY <2>1, <3>1, <3>2
  <2>3. ASSUME NEW d \in Did, NEW signer \in Key, NEW i \in Index, NEW sub \in SubActor,
               NEW on \in Logs(d), MintSubActor(d, i, sub, signer, on)
        PROVE  CommittedAt(e)' /\ Mirrors(e)'
    <3>1. e # d => Untouched(e)
      BY <1>1, <2>3 DEF MintSubActor, Write, TypeOK, Untouched
    <3>2. CommittedAt(d)' /\ Mirrors(d)'
      BY <1>1, <1>3, <2>0, <2>3, MintKeeps
    <3>3. QED BY <2>1, <3>1, <3>2
  <2>4. ASSUME NEW d \in Did, NEW signer \in Key, NEW i \in Index, NEW old \in Key, NEW new \in Key,
               Rebind(d, i, old, new, signer)
        PROVE  CommittedAt(e)' /\ Mirrors(e)'
    <3>1. e # d => Untouched(e)
      BY <1>1, <2>4 DEF Rebind, TypeOK, Untouched
    <3>2. CommittedAt(d)' /\ Mirrors(d)'
      BY <1>1, <2>0, <2>4, RebindKeeps
    <3>3. QED BY <2>1, <3>1, <3>2
  <2>5. CASE UNCHANGED vars
    BY <2>1, <2>5 DEF vars, Untouched
  <2>6. QED BY <2>2, <2>3, <2>4, <2>5 DEF Next
<1>4. QED BY <1>2, <1>3 DEF Inv, Committed, ControlMirrors, Mirrors

\* Until a storage error strikes, a root actor commits to exactly its sub-actors
\* (apply_sub_actor_op) and has the control key of its document, as long as that
\* is not deactivated (apply_did_op).
THEOREM RootsCommit == Spec => [](Committed /\ ControlMirrors)
<1>1. Init => Inv
  <2>1. Init => Committed /\ ControlMirrors
    BY DEF Init, Committed, CommittedAt, ControlMirrors, Active
  <2>2. QED BY <2>1, InitType DEF Inv
<1>2. Inv => Committed /\ ControlMirrors
  BY DEF Inv
<1>3. QED BY <1>1, <1>2, StepInv, PTL DEF Spec

\* ControlMirrors on its own: the updates of apply_did_op keep the root actor's copy of
\* the control key in step with the document, until a storage error strikes.
THEOREM RootsMirrorControl == Spec => []ControlMirrors
<1>1. Committed /\ ControlMirrors => ControlMirrors
  OBVIOUS
<1>2. QED BY <1>1, RootsCommit, PTL

------------------------------------------------------------------------------
NodeKey == Nat \ {0}
Config == [Host -> NodeKey]
File == Config \cup {NoFile}
Step == {"none", "keygen", "assemble", "push", "start", "health", "done", "init", "kit", "member", "write"}

Job == [step : Step, at : 0..Len(Order), keys : Seq(NodeKey), force : BOOLEAN]

JobTypeOK ==
    /\ job \in Job
    /\ job.step # "none" => job.at # 0
    /\ job.step = "write" => job.keys # <<>>

ProvisioningTypeOK ==
    /\ disk \in [Host -> [secret : Nat, bls : Nat, cluster : File, checkpoints : File]]
    /\ enabled \in SUBSET Host
    /\ running \in [Host -> {NoFile} \cup [cluster : Config, restored : File]]
    /\ kit \in [secret : [Host -> Nat], bls : [Host -> Nat], cluster : File]
    /\ public \in File
    /\ newcomer \in [secret : Nat, bls : Nat, cluster : File, printed : Nat, admitted : Nat]
    /\ JobTypeOK
    /\ drawn \in Nat

\* The versions of cluster.toml that some file or daemon has.
Around ==
    {c \in Config :
        \/ c = public \/ c = kit.cluster
        \/ \E h \in Host : \/ c = disk[h].cluster \/ c = disk[h].checkpoints
                           \/ running[h] # NoFile /\ c = running[h].cluster}

\* No key has been seen that was not drawn.
KeysDrawn ==
    /\ \A h \in Host : disk[h].secret <= drawn /\ kit.secret[h] <= drawn
    /\ \A c \in Around, h \in Host : c[h] <= drawn

\* The secrets on the hosts belong to one genesis: all versions of cluster.toml
\* that any one of them matches are the same.
OneMatch ==
    \A c, d \in Around, g, h \in Host :
        c[g] = disk[g].secret /\ d[h] = disk[h].secret => c = d

\* Of all versions, the secrets in the output directory of init match none but
\* the one beside them.
KitMatch == \A c \in Around, h \in Host : c[h] = kit.secret[h] => c = kit.cluster

\* A daemon runs with the secrets it was started with, and restored a
\* checkpoint of its own cluster, if any.
Loaded ==
    \A h \in Host : running[h] # NoFile =>
        /\ h \in enabled /\ disk[h].secret = running[h].cluster[h]
        /\ running[h].restored \in {NoFile, running[h].cluster}

\* How many hosts the command in progress is done with.
Done == IF job.step \in {"assemble", "kit"} THEN Len(Order) ELSE job.at - 1

\* What a genesis has drawn so far no cluster.toml has yet; it is on the hosts,
\* or in the output directory, that it was drawn for, and nowhere else.
FreshKeys ==
    job.step \in {"keygen", "assemble", "init", "kit"} =>
        /\ Len(job.keys) = Done
        /\ \A i \in 1..Done : job.keys[i] <= drawn
        /\ \A i \in 1..Done, c \in Around, h \in Host : c[h] # job.keys[i]
FreshOnHosts ==
    job.step \in {"keygen", "assemble"} =>
        \A i \in 1..Done : /\ disk[Order[i]].secret = job.keys[i]
                           /\ \A h \in Host : kit.secret[h] # job.keys[i]
FreshInKit ==
    job.step \in {"init", "kit"} =>
        \A i \in 1..Done : /\ kit.secret[Order[i]] = job.keys[i]
                           /\ \A h \in Host : disk[h].secret # job.keys[i]
Fresh == FreshKeys /\ FreshOnHosts /\ FreshInKit

\* The inductive invariant for OneGenesis.
GenesisInv == ProvisioningTypeOK /\ KeysDrawn /\ OneMatch /\ KitMatch /\ Loaded /\ Fresh

\* The inductive invariant for AdmittedKeyKept: a key that was printed has its
\* seed on the disk, and nothing is written once a member was submitted.
MemberInv ==
    /\ newcomer.printed # 0 => newcomer.secret = newcomer.printed
    /\ job.step = "write" => newcomer.admitted = 0 /\ newcomer.printed = 0
    /\ AdmittedKeyKept

ProvisioningSpec == ProvisioningInit /\ [][ProvisioningNext]_provisioningVars

------------------------------------------------------------------------------
(* The hosts, and cluster.toml.                                              *)

\* The members are numbered, each once.
LEMMA Numbered ==
    /\ Len(Order) \in Nat \ {0} /\ DOMAIN Order = 1..Len(Order)
    /\ \A i \in 1..Len(Order) : Order[i] \in Host
    /\ \A h \in Host : \E i \in 1..Len(Order) : Order[i] = h
<1>1. Order \in Seq(Host) /\ Order # <<>>
  BY ProvisioningAssumption
<1>2. Len(Order) \in Nat /\ DOMAIN Order = 1..Len(Order)
  BY <1>1
<1>3. Len(Order) # 0
  BY <1>1, <1>2
<1>4. QED BY <1>2, <1>3 DEF Host

\* A cluster.toml is a file that is there.
LEMMA ConfigIsFile == NoFile \notin Config
<1>1. Host # {}
  BY Numbered
<1>2. DOMAIN NoFile = {}
  BY DEF NoFile
<1>3. QED BY <1>1, <1>2, Zenon DEF Config

\* assemble_config: each host gets the key that was drawn for it.
LEMMA AssembledKeys ==
    ASSUME NEW keys \in Seq(NodeKey), Len(keys) = Len(Order)
    PROVE  /\ Assembled(keys) \in Config
           /\ \A i \in 1..Len(Order) : Assembled(keys)[Order[i]] = keys[i]
<1> DEFINE index(h) == CHOOSE i \in DOMAIN Order : Order[i] = h
<1>1. \A h \in Host : index(h) \in 1..Len(Order) /\ Order[index(h)] = h
  BY Numbered, Zenon
<1>2. \A i \in 1..Len(Order) : index(Order[i]) = i
  BY <1>1, Numbered, ProvisioningAssumption, Zenon
<1>3. \A i \in 1..Len(Order) : keys[i] \in NodeKey
  BY Numbered
<1> HIDE DEF index
<1>4. Assembled(keys) = [h \in Host |-> keys[index(h)]]
  BY Zenon DEF Assembled, index
<1>5. Assembled(keys) \in Config
  BY <1>1, <1>3, <1>4, Zenon DEF Config
<1>6. \A i \in 1..Len(Order) : Assembled(keys)[Order[i]] = keys[i]
  <2> TAKE i \in 1..Len(Order)
  <2>1. Order[i] \in Host
    BY Numbered, Zenon
  <2>2. Assembled(keys)[Order[i]] = keys[index(Order[i])]
    BY <1>4, <2>1, Zenon
  <2>3. QED BY <1>2, <2>2, Zenon
<1>7. QED BY <1>5, <1>6

------------------------------------------------------------------------------
(* Types.                                                                    *)

\* Onward goes to the next host or to the next step.
LEMMA OnwardJob ==
    ASSUME JobTypeOK, job.step \notin {"none", "write"}, NEW keys \in Seq(NodeKey),
           NEW then \in Step \ {"none", "write"}, Onward(keys, then)
    PROVE  /\ JobTypeOK' /\ job'.keys = keys
           /\ \/ job.at < Len(Order) /\ job'.step = job.step /\ job'.at = job.at + 1
              \/ job.at = Len(Order) /\ job'.step = then /\ job'.at = 1
<1>1. job \in Job /\ Len(Order) \in Nat \ {0}
  BY Numbered, Zenon DEF JobTypeOK
<1>2. CASE job.at < Len(Order)
  <2>1. job' = [step |-> job.step, at |-> job.at + 1, keys |-> keys, force |-> job.force]
    BY <1>1, <1>2 DEF Onward, Job
  <2>2. job.at + 1 \in 0..Len(Order) /\ job.at + 1 # 0
    BY <1>1, <1>2 DEF Job
  <2>3. QED BY <1>1, <1>2, <2>1, <2>2 DEF Job, JobTypeOK
<1>3. CASE ~(job.at < Len(Order))
  <2>1. job' = [step |-> then, at |-> 1, keys |-> keys, force |-> job.force]
    BY <1>1, <1>3 DEF Onward, Job
  <2>2. job.at = Len(Order) /\ 1 \in 0..Len(Order)
    BY <1>1, <1>3 DEF Job
  <2>3. QED BY <1>1, <2>1, <2>2 DEF Job, JobTypeOK
<1>4. QED BY <1>2, <1>3

\* A command that has ended, or begins.
LEMMA JobTypes ==
    /\ job' = NoJob => JobTypeOK' /\ job'.step = "none"
    /\ \A s \in {"keygen", "init", "member"}, b \in BOOLEAN :
          job' = [step |-> s, at |-> 1, keys |-> <<>>, force |-> b] => JobTypeOK'
<1>1. Len(Order) \in Nat \ {0} /\ <<>> \in Seq(NodeKey)
  BY Numbered
<1>2. ASSUME job' = NoJob PROVE JobTypeOK' /\ job'.step = "none"
  BY <1>1, <1>2 DEF NoJob, Step, Job, JobTypeOK
<1>3. ASSUME NEW s \in {"keygen", "init", "member"}, NEW b \in BOOLEAN,
             job' = [step |-> s, at |-> 1, keys |-> <<>>, force |-> b]
      PROVE  JobTypeOK'
  BY <1>1, <1>3 DEF Step, Job, JobTypeOK
<1>4. QED BY <1>2, <1>3

\* Nothing was deployed, and nobody asked for anything.
LEMMA InitProvisioningType == ProvisioningInit => ProvisioningTypeOK
<1> SUFFICES ASSUME ProvisioningInit PROVE ProvisioningTypeOK
  OBVIOUS
<1>1. 0 \in Nat /\ NoFile \in File
  BY DEF File
<1>2. /\ disk \in [Host -> [secret : Nat, bls : Nat, cluster : File, checkpoints : File]]
      /\ kit \in [secret : [Host -> Nat], bls : [Host -> Nat], cluster : File]
      /\ newcomer \in [secret : Nat, bls : Nat, cluster : File, printed : Nat, admitted : Nat]
  BY <1>1 DEF ProvisioningInit
<1>3. /\ enabled \in SUBSET Host /\ public \in File /\ drawn \in Nat
      /\ running \in [Host -> {NoFile} \cup [cluster : Config, restored : File]]
  BY <1>1, Zenon DEF ProvisioningInit
<1>4. JobTypeOK
  BY Numbered DEF ProvisioningInit, NoJob, Step, Job, JobTypeOK
<1>5. QED BY <1>2, <1>3, <1>4, Zenon DEF ProvisioningTypeOK

\* The steps of genesis over ssh keep the types ...
LEMMA DeployType ==
    ASSUME ProvisioningTypeOK,
           KeygenRemote \/ AssembleConfig \/ PushConfig \/ StartService \/ AwaitClusterHealthy \/ DeployEnds,
           Fresh
    PROVE  ProvisioningTypeOK'
<1> DEFINE Disks == [Host -> [secret : Nat, bls : Nat, cluster : File, checkpoints : File]]
<1>0. /\ disk \in Disks /\ public \in File /\ drawn \in Nat /\ job \in Job /\ JobTypeOK /\ enabled \in SUBSET Host
      /\ (job.step # "none" => job.at \in 1..Len(Order) /\ Order[job.at] \in Host)
  BY Numbered DEF ProvisioningTypeOK, JobTypeOK, Job
<1>1. CASE KeygenRemote
  <2>1. CASE job' = NoJob /\ UNCHANGED <<disk, drawn>>
    BY <1>1, <2>1, JobTypes, Zenon DEF KeygenRemote, ProvisioningTypeOK
  <2>2. CASE ~(job' = NoJob /\ UNCHANGED <<disk, drawn>>)
    <3>1. PICK left \in Renamed(disk[Order[job.at]].secret, disk[Order[job.at]].bls, drawn') :
             /\ drawn' = drawn + 1
             /\ disk' = [disk EXCEPT ![Order[job.at]].secret = left[1], ![Order[job.at]].bls = left[2]]
             /\ job' = NoJob \/ Onward(Append(job.keys, drawn'), "assemble")
      BY <1>1, <2>2 DEF KeygenRemote, Fails, Draws
    <3>2. job.step = "keygen" /\ Order[job.at] \in Host
      BY <1>0, <1>1 DEF KeygenRemote
    <3>3. drawn' \in NodeKey /\ Append(job.keys, drawn') \in Seq(NodeKey) /\ "assemble" \in Step \ {"none", "write"}
      BY <1>0, <3>1 DEF NodeKey, Step, Job
    <3>4. left[1] \in Nat /\ left[2] \in Nat
      BY <1>0, <3>1, <3>2, <3>3 DEF Renamed, NodeKey
    <3>5. disk' \in Disks
      BY <1>0, <3>1, <3>2, <3>4
    <3>6. JobTypeOK'
      BY <1>0, <3>1, <3>2, <3>3, JobTypes, OnwardJob, Zenon
    <3>7. QED BY <1>1, <3>3, <3>5, <3>6 DEF KeygenRemote, ProvisioningTypeOK, NodeKey
  <2>3. QED BY <2>1, <2>2
<1>2. CASE AssembleConfig
  <2>1. job.keys \in Seq(NodeKey) /\ Len(job.keys) = Len(Order)
    BY <1>0, <1>2 DEF AssembleConfig, Fresh, FreshKeys, Done, Job
  <2>2. public' \in File
    BY <1>2, <2>1, AssembledKeys DEF AssembleConfig, File
  <2>3. JobTypeOK'
    BY <1>0, <1>2 DEF AssembleConfig, Step, JobTypeOK, Job
  <2>4. QED BY <1>2, <2>2, <2>3, Zenon DEF AssembleConfig, ProvisioningTypeOK
<1>3. CASE PushConfig
  <2>1. disk' \in Disks
    BY <1>0, <1>3 DEF PushConfig
  <2>2. job.step \notin {"none", "write"} /\ "start" \in Step \ {"none", "write"} /\ job.keys \in Seq(NodeKey)
    BY <1>0, <1>3 DEF PushConfig, Step, Job
  <2>3. JobTypeOK'
    BY <1>0, <1>3, <2>2, JobTypes, OnwardJob, Zenon DEF PushConfig, Fails
  <2>4. QED BY <1>3, <2>1, <2>3, Zenon DEF PushConfig, ProvisioningTypeOK
<1>4. CASE StartService
  <2>1. enabled' \in SUBSET Host
    BY <1>0, <1>4 DEF StartService
  <2>2. job.step \notin {"none", "write"} /\ "health" \in Step \ {"none", "write"} /\ job.keys \in Seq(NodeKey)
    BY <1>0, <1>4 DEF StartService, Step, Job
  <2>3. JobTypeOK'
    BY <1>0, <1>4, <2>2, JobTypes, OnwardJob, Zenon DEF StartService, Fails
  <2>4. QED BY <1>4, <2>1, <2>3, Zenon DEF StartService, ProvisioningTypeOK
<1>5. CASE AwaitClusterHealthy
  <2>1. job.step \notin {"none", "write"} /\ "done" \in Step \ {"none", "write"} /\ job.keys \in Seq(NodeKey)
    BY <1>0, <1>5 DEF AwaitClusterHealthy, Step, Job
  <2>2. JobTypeOK'
    BY <1>0, <1>5, <2>1, JobTypes, OnwardJob, Zenon DEF AwaitClusterHealthy, Fails
  <2>3. QED BY <1>5, <2>2, Zenon DEF AwaitClusterHealthy, ProvisioningTypeOK
<1>6. CASE DeployEnds
  BY <1>6, JobTypes, Zenon DEF DeployEnds, ProvisioningTypeOK
<1>7. QED BY <1>1, <1>2, <1>3, <1>4, <1>5, <1>6

\* ... so do init and member init ...
LEMMA KitType ==
    ASSUME ProvisioningTypeOK, InitMember \/ InitConfig \/ MemberInit \/ MemberWrites \/ AddMember, Fresh
    PROVE  ProvisioningTypeOK'
<1> DEFINE Kits == [secret : [Host -> Nat], bls : [Host -> Nat], cluster : File]
           Members == [secret : Nat, bls : Nat, cluster : File, printed : Nat, admitted : Nat]
<1>0. /\ kit \in Kits /\ newcomer \in Members /\ public \in File /\ drawn \in Nat /\ job \in Job /\ JobTypeOK
      /\ (job.step # "none" => job.at \in 1..Len(Order) /\ Order[job.at] \in Host)
  BY Numbered DEF ProvisioningTypeOK, JobTypeOK, Job
<1>1. CASE InitMember
  <2>1. CASE job' = NoJob /\ UNCHANGED <<kit, drawn>>
    BY <1>1, <2>1, JobTypes, Zenon DEF InitMember, ProvisioningTypeOK
  <2>2. CASE ~(job' = NoJob /\ UNCHANGED <<kit, drawn>>)
    <3>1. PICK left \in Recreated(kit.secret[Order[job.at]], kit.bls[Order[job.at]], drawn') :
             /\ drawn' = drawn + 1
             /\ kit' = [kit EXCEPT !.secret[Order[job.at]] = left[1], !.bls[Order[job.at]] = left[2]]
             /\ job' = NoJob \/ Onward(Append(job.keys, drawn'), "kit")
      BY <1>1, <2>2 DEF InitMember, Fails, Draws
    <3>2. job.step = "init" /\ Order[job.at] \in Host
      BY <1>0, <1>1 DEF InitMember
    <3>3. drawn' \in NodeKey /\ Append(job.keys, drawn') \in Seq(NodeKey) /\ "kit" \in Step \ {"none", "write"}
      BY <1>0, <3>1 DEF NodeKey, Step, Job
    <3>4. left[1] \in Nat /\ left[2] \in Nat
      <4>1. kit.secret[Order[job.at]] \in Nat /\ kit.bls[Order[job.at]] \in Nat /\ drawn' \in Nat
        BY <1>0, <3>2, <3>3 DEF NodeKey
      <4>2. QED BY <3>1, <4>1 DEF Recreated, Renamed
    <3>5. kit' \in Kits
      BY <1>0, <3>1, <3>2, <3>4
    <3>6. JobTypeOK'
      BY <1>0, <3>1, <3>2, <3>3, JobTypes, OnwardJob, Zenon
    <3>7. QED BY <1>1, <3>3, <3>5, <3>6 DEF InitMember, ProvisioningTypeOK, NodeKey
  <2>3. QED BY <2>1, <2>2
<1>2. CASE InitConfig
  <2>1. job.keys \in Seq(NodeKey) /\ Len(job.keys) = Len(Order)
    BY <1>0, <1>2 DEF InitConfig, Fresh, FreshKeys, Done, Job
  <2>2. kit' \in Kits
    BY <1>0, <1>2, <2>1, AssembledKeys DEF InitConfig, File
  <2>3. QED BY <1>2, <2>2, JobTypes, Zenon DEF InitConfig, ProvisioningTypeOK
<1>3. CASE MemberInit
  <2>1. CASE job' = NoJob /\ UNCHANGED <<newcomer, drawn>>
    BY <1>3, <2>1, JobTypes, Zenon DEF MemberInit, ProvisioningTypeOK
  <2>2. CASE ~(job' = NoJob /\ UNCHANGED <<newcomer, drawn>>)
    <3>1. /\ drawn' = drawn + 1 /\ newcomer' = [newcomer EXCEPT !.printed = 0]
          /\ job' = [job EXCEPT !.step = "write", !.keys = <<drawn'>>] /\ job.step = "member"
      BY <1>3, <2>2 DEF MemberInit, Fails, Draws
    <3>2. drawn' \in NodeKey
      BY <1>0, <3>1 DEF NodeKey
    <3>3. JobTypeOK'
      <4>1. job.at \in 0..Len(Order) /\ job.at # 0 /\ job.force \in BOOLEAN
        BY <1>0, <3>1 DEF JobTypeOK, Job
      <4>2. job' = [step |-> "write", at |-> job.at, keys |-> <<drawn'>>, force |-> job.force]
        BY <1>0, <3>1 DEF Job
      <4>3. <<drawn'>> \in Seq(NodeKey) /\ <<drawn'>> # <<>>
        BY <3>2
      <4>4. QED BY <4>1, <4>2, <4>3 DEF Step, JobTypeOK, Job
    <3>4. newcomer' \in Members
      BY <1>0, <3>1
    <3>5. drawn' \in Nat
      BY <3>2 DEF NodeKey
    <3>6. QED BY <1>3, <3>3, <3>4, <3>5, Zenon DEF MemberInit, ProvisioningTypeOK
  <2>3. QED BY <2>1, <2>2
<1>4. CASE MemberWrites
  <2> DEFINE key == job.keys[1]
  <2>1. PICK left \in Recreated(newcomer.secret, newcomer.bls, key), saved \in BOOLEAN, submits \in BOOLEAN,
             genesis \in {public, kit.cluster} \ {NoFile} :
             newcomer' = [newcomer EXCEPT !.secret = left[1], !.bls = left[2],
                                          !.cluster = IF saved THEN genesis ELSE @,
                                          !.printed = IF saved THEN key ELSE 0,
                                          !.admitted = IF submits THEN key ELSE 0]
    BY <1>4, Zenon DEF MemberWrites
  <2>2. key \in Nat
    <3>1. job.keys \in Seq(NodeKey) /\ job.keys # <<>>
      BY <1>0, <1>4 DEF MemberWrites, JobTypeOK, Job
    <3>2. job.keys[1] \in NodeKey
      BY <3>1
    <3>3. QED BY <3>2 DEF NodeKey
  <2>3. left[1] \in Nat /\ left[2] \in Nat /\ genesis \in File
    BY <1>0, <2>1, <2>2 DEF Recreated, Renamed
  <2>4. newcomer' \in Members
    BY <1>0, <2>1, <2>2, <2>3
  <2>5. QED BY <1>4, <2>4, JobTypes, Zenon DEF MemberWrites, Fails, ProvisioningTypeOK
<1>5. CASE AddMember
  <2>1. newcomer' \in Members
    BY <1>0, <1>5 DEF AddMember
  <2>2. JobTypeOK'
    BY <1>0, <1>5, Zenon DEF AddMember, JobTypeOK
  <2>3. QED BY <1>5, <2>1, <2>2, Zenon DEF AddMember, ProvisioningTypeOK
<1>6. QED BY <1>1, <1>2, <1>3, <1>4, <1>5

\* ... and so does what happens on a host.
LEMMA HostType ==
    ASSUME ProvisioningTypeOK, NEW h \in Host,
           \/ CopyToHost(h) \/ Run(h) \/ StoreCheckpoint(h) \/ CrashDaemon(h)
           \/ Disable(h) \/ RemoveSecrets(h) \/ WipeData(h)
    PROVE  ProvisioningTypeOK'
<1> DEFINE Disks == [Host -> [secret : Nat, bls : Nat, cluster : File, checkpoints : File]]
           Daemons == [Host -> {NoFile} \cup [cluster : Config, restored : File]]
<1>0. /\ disk \in Disks /\ running \in Daemons /\ enabled \in SUBSET Host /\ NoFile \in File
      /\ kit \in [secret : [Host -> Nat], bls : [Host -> Nat], cluster : File]
  BY Zenon DEF ProvisioningTypeOK, File
<1>1. CASE CopyToHost(h)
  <2>1. disk' \in Disks
    <3>1. PICK a \in Nat, b \in Nat, c \in File : a = kit.secret[h] /\ b = kit.bls[h] /\ c = kit.cluster
      BY <1>0
    <3>2. disk' = [disk EXCEPT ![h].secret = a, ![h].bls = b, ![h].cluster = c]
      BY <1>1, <3>1, Zenon DEF CopyToHost
    <3>3. disk \in Disks
      BY <1>0
    <3>4. QED BY <3>2, <3>3
  <2>2. enabled' \in SUBSET Host
    BY <1>0, <1>1, Zenon DEF CopyToHost
  <2>3. QED BY <1>1, <2>1, <2>2, Zenon DEF CopyToHost, ProvisioningTypeOK, JobTypeOK
<1>2. CASE Run(h)
  <2>1. running' = [running EXCEPT ![h] = [cluster |-> disk[h].cluster, restored |-> disk[h].checkpoints]]
    BY <1>2, Zenon DEF Run
  <2>2. disk[h].cluster \in Config /\ disk[h].checkpoints \in File
    BY <1>0, <1>2 DEF Run, IdentityMatches, File
  <2>3. [cluster |-> disk[h].cluster, restored |-> disk[h].checkpoints] \in [cluster : Config, restored : File]
    BY <2>2
  <2>4. running' \in Daemons
    BY <1>0, <2>1, <2>3, Zenon
  <2>5. QED BY <1>2, <2>4, Zenon DEF Run, ProvisioningTypeOK, JobTypeOK
<1>3. CASE StoreCheckpoint(h)
  <2>1. running[h] \in [cluster : Config, restored : File]
    BY <1>0, <1>3, Zenon DEF StoreCheckpoint
  <2>2. running[h].cluster \in File
    BY <2>1 DEF File
  <2>3. disk' \in Disks
    BY <1>0, <1>3, <2>2 DEF StoreCheckpoint
  <2>4. QED BY <1>3, <2>3, Zenon DEF StoreCheckpoint, ProvisioningTypeOK, JobTypeOK
<1>4. CASE CrashDaemon(h)
  <2>1. running' \in Daemons
    BY <1>0, <1>4, Zenon DEF CrashDaemon
  <2>2. QED BY <1>4, <2>1, Zenon DEF CrashDaemon, ProvisioningTypeOK, JobTypeOK
<1>5. CASE Disable(h)
  <2>1. running' \in Daemons /\ enabled' \in SUBSET Host
    BY <1>0, <1>5, Zenon DEF Disable
  <2>2. QED BY <1>5, <2>1, Zenon DEF Disable, ProvisioningTypeOK, JobTypeOK
<1>6. CASE RemoveSecrets(h)
  <2>1. disk' \in Disks
    <3>1. PICK none \in Nat : none = 0
      OBVIOUS
    <3>2. disk' = [disk EXCEPT ![h].secret = none, ![h].bls = none]
      BY <1>6, <3>1, Zenon DEF RemoveSecrets
    <3>3. disk \in Disks
      BY <1>0
    <3>4. QED BY <3>2, <3>3
  <2>2. QED BY <1>6, <2>1, Zenon DEF RemoveSecrets, ProvisioningTypeOK, JobTypeOK
<1>7. CASE WipeData(h)
  <2>1. disk' \in Disks
    BY <1>0, <1>7 DEF WipeData
  <2>2. QED BY <1>7, <2>1, Zenon DEF WipeData, ProvisioningTypeOK, JobTypeOK
<1>8. QED BY <1>1, <1>2, <1>3, <1>4, <1>5, <1>6, <1>7

\* Every step keeps the types.
LEMMA StepProvisioningType ==
    ASSUME ProvisioningTypeOK, Fresh, [ProvisioningNext]_provisioningVars
    PROVE  ProvisioningTypeOK'
<1>1. CASE UNCHANGED provisioningVars
  BY <1>1, Zenon DEF provisioningVars, ProvisioningTypeOK, JobTypeOK
<1>2. CASE /\ \E step \in {"keygen", "init", "member"} : Begin(step)
           /\ UNCHANGED <<disk, enabled, running, kit, public, newcomer, drawn>>
  BY <1>2, JobTypes, Zenon DEF Begin, ProvisioningTypeOK
<1>3. CASE Fails /\ UNCHANGED <<disk, enabled, running, kit, public, newcomer, drawn>>
  BY <1>3, JobTypes, Zenon DEF Fails, ProvisioningTypeOK
<1>4. QED BY <1>1, <1>2, <1>3, DeployType, KitType, HostType, Zenon DEF ProvisioningNext

------------------------------------------------------------------------------
(* One genesis.                                                              *)

\* A step that draws for no genesis, replaces no secret and spreads no other
\* cluster.toml than those around.
LEMMA QuietStep ==
    ASSUME ProvisioningTypeOK, KeysDrawn, OneMatch, KitMatch, Fresh,
           \A h \in Host : disk'[h].secret = disk[h].secret, kit' = kit, Around' \subseteq Around,
           drawn' \in {drawn, drawn + 1},
           \/ job' = job
           \/ job'.step \notin {"keygen", "assemble", "init", "kit"}
           \/ job'.step \in {"keygen", "init"} /\ job'.at = 1 /\ job'.keys = <<>>
    PROVE  KeysDrawn' /\ OneMatch' /\ KitMatch' /\ Fresh'
<1>1. OneMatch' /\ KitMatch'
  <2>1. ASSUME NEW c \in Around', NEW d \in Around', NEW g \in Host, NEW h \in Host,
               c[g] = disk'[g].secret, d[h] = disk'[h].secret
        PROVE  c = d
    BY <2>1 DEF OneMatch
  <2>2. ASSUME NEW c \in Around', NEW h \in Host, c[h] = kit'.secret[h] PROVE c = kit'.cluster
    BY <2>2 DEF KitMatch
  <2>3. QED BY <2>1, <2>2 DEF OneMatch, KitMatch
<1>2. KeysDrawn'
  <2>1. drawn \in Nat /\ drawn' \in Nat /\ drawn <= drawn'
    BY DEF ProvisioningTypeOK
  <2>2. \A h \in Host : disk[h].secret \in Nat /\ kit.secret[h] \in Nat
    BY DEF ProvisioningTypeOK
  <2>3. \A c \in Around, h \in Host : c[h] \in Nat
    BY DEF Around, Config, NodeKey
  <2>4. \A n \in Nat : n <= drawn => n <= drawn'
    BY <2>1
  <2>5. QED BY <2>2, <2>3, <2>4, Zenon DEF KeysDrawn
<1>3. ASSUME job' = job PROVE Fresh'
  <2>1. \A n \in Nat : n <= drawn => n <= drawn'
    BY DEF ProvisioningTypeOK
  <2>2. Done' = Done /\ (job.step \in {"keygen", "assemble", "init", "kit"} => Done \in 0..Len(Order))
    BY <1>3, Numbered DEF Done, ProvisioningTypeOK, JobTypeOK, Job
  <2>3. FreshKeys'
    <3>1. SUFFICES ASSUME job.step \in {"keygen", "assemble", "init", "kit"}
                   PROVE  /\ Len(job.keys) = Done
                          /\ \A i \in 1..Done : job.keys[i] <= drawn'
                          /\ \A i \in 1..Done, c \in Around', h \in Host : c[h] # job.keys[i]
      BY <1>3, <2>2, Zenon DEF FreshKeys
    <3>2. /\ Len(job.keys) = Done /\ \A i \in 1..Done : job.keys[i] <= drawn
          /\ \A i \in 1..Done, c \in Around, h \in Host : c[h] # job.keys[i]
      BY <3>1, Zenon DEF Fresh, FreshKeys
    <3>3. \A i \in 1..Done : job.keys[i] \in Nat
      BY <3>2 DEF ProvisioningTypeOK, JobTypeOK, Job, NodeKey
    <3>4. QED BY <2>1, <3>2, <3>3, Zenon
  <2>4. \A i \in 1..Done : job.step \in {"keygen", "assemble", "init", "kit"} => Order[i] \in Host
    BY <2>2, Numbered
  <2>5. FreshOnHosts'
    BY <1>3, <2>2, <2>4 DEF Fresh, FreshOnHosts
  <2>6. FreshInKit'
    BY <1>3, <2>2, <2>4 DEF Fresh, FreshInKit
  <2>7. QED BY <2>3, <2>5, <2>6 DEF Fresh
<1>4. ASSUME job'.step \notin {"keygen", "assemble", "init", "kit"} PROVE Fresh'
  BY <1>4 DEF Fresh, FreshKeys, FreshOnHosts, FreshInKit
<1>5. ASSUME job'.step \in {"keygen", "init"} /\ job'.at = 1 /\ job'.keys = <<>> PROVE Fresh'
  <2>1. Len(job'.keys) = 0 /\ Done' = 0 /\ 1..Done' = {}
    BY <1>5 DEF Done
  <2>2. QED BY <2>1, Zenon DEF Fresh, FreshKeys, FreshOnHosts, FreshInKit
<1>6. QED BY <1>1, <1>2, <1>3, <1>4, <1>5

\* What happens on a host spreads no other cluster.toml.
LEMMA AroundKept ==
    ASSUME ProvisioningTypeOK, ProvisioningTypeOK',
           UNCHANGED <<public, kit>>,
           \A g \in Host :
              /\ disk'[g].cluster \in {disk[g].cluster, public, kit.cluster, NoFile}
              /\ \/ disk'[g].checkpoints \in {disk[g].checkpoints, NoFile}
                 \/ running[g] # NoFile /\ disk'[g].checkpoints = running[g].cluster
              /\ \/ running'[g] \in {running[g], NoFile}
                 \/ running'[g].cluster = disk[g].cluster
    PROVE  Around' \subseteq Around
<1> SUFFICES ASSUME NEW c \in Config, c # NoFile, c \in Around' PROVE c \in Around
  BY ConfigIsFile, Zenon DEF Around
<1>1. CASE c = public \/ c = kit.cluster
  BY <1>1, Zenon DEF Around
<1>2. ASSUME NEW g \in Host, c = disk'[g].cluster PROVE c \in Around
  BY <1>2, Zenon DEF Around
<1>3. ASSUME NEW g \in Host, c = disk'[g].checkpoints PROVE c \in Around
  BY <1>3, Zenon DEF Around
<1>4. ASSUME NEW g \in Host, running'[g] # NoFile, c = running'[g].cluster PROVE c \in Around
  BY <1>4, Zenon DEF Around
<1>5. QED BY <1>1, <1>2, <1>3, <1>4, Zenon DEF Around

\* Daemons go on with what they have loaded while their secrets stay.
LEMMA LoadedKept ==
    ASSUME Loaded,
           \A g \in Host : running'[g] # NoFile => /\ running'[g] = running[g] /\ g \in enabled'
                                                   /\ disk'[g].secret = disk[g].secret
    PROVE  Loaded'
BY Zenon DEF Loaded

\* The keys of a cluster.toml that is around were drawn.
LEMMA AroundKeys ==
    ASSUME KeysDrawn, NEW c \in Around, NEW h \in Host
    PROVE  c[h] \in Nat /\ c[h] # 0 /\ c[h] <= drawn
<1>1. c[h] \in NodeKey
  BY Zenon DEF Around, Config
<1>2. QED BY <1>1 DEF KeysDrawn, NodeKey

\* Before the last host of a genesis comes the one before it.
LEMMA DoneNext ==
    ASSUME JobTypeOK, job.step \in {"keygen", "init"}, NEW then \in {"assemble", "kit"},
           NEW key \in NodeKey, Onward(Append(job.keys, key), then), Len(job.keys) = Done
    PROVE  /\ Done \in Nat /\ Done' = Done + 1 /\ Done + 1 = job.at /\ job.at \in 1..Len(Order)
           /\ job'.step \in {job.step, then}
           /\ Len(job'.keys) = Done + 1 /\ job'.keys[Done + 1] = key
           /\ \A i \in 1..Done : job'.keys[i] = job.keys[i]
<1>1. job.at \in 1..Len(Order) /\ job.keys \in Seq(NodeKey) /\ Len(Order) \in Nat
  BY Numbered DEF JobTypeOK, Job
<1>2. Done = job.at - 1
  BY DEF Done
<1>3. then \in Step \ {"none", "write"} /\ Append(job.keys, key) \in Seq(NodeKey)
  BY <1>1 DEF Step
<1>4. /\ job'.keys = Append(job.keys, key)
      /\ \/ job.at < Len(Order) /\ job'.step = job.step /\ job'.at = job.at + 1
         \/ job.at = Len(Order) /\ job'.step = then /\ job'.at = 1
  BY <1>3, OnwardJob
<1>5. Done' = job.at
  BY <1>1, <1>4 DEF Done
<1>6. Done \in Nat /\ Done + 1 = job.at
  BY <1>1, <1>2
<1>7. /\ Len(job'.keys) = Done + 1 /\ job'.keys[Done + 1] = key
      /\ \A i \in 1..Done : job'.keys[i] = job.keys[i]
  BY <1>1, <1>4, <1>6
<1>8. QED BY <1>1, <1>4, <1>5, <1>6, <1>7

\* KeygenRemote: the key of the next host is new, and replaces none.
LEMMA KeygenStep ==
    ASSUME GenesisInv, ProvisioningTypeOK', KeygenRemote
    PROVE  KeysDrawn' /\ OneMatch' /\ KitMatch' /\ Loaded' /\ Fresh'
<1> USE DEF GenesisInv
<1> DEFINE h == Order[job.at]
<1>1. UNCHANGED <<enabled, running, kit, public, newcomer>> /\ job.step = "keygen" /\ h \in Host
  BY Numbered DEF KeygenRemote, ProvisioningTypeOK, JobTypeOK, Job
<1>2. CASE job' = NoJob /\ UNCHANGED <<disk, drawn>>
  <2>1. Around' = Around
    BY <1>1, <1>2, Zenon DEF Around
  <2>2. Loaded'
    BY <1>1, <1>2, LoadedKept, Zenon DEF Loaded
  <2>3. job'.step = "none"
    BY <1>2, JobTypes
  <2>4. QED BY <1>1, <1>2, <2>1, <2>2, <2>3, QuietStep
<1>3. CASE ~(job' = NoJob /\ UNCHANGED <<disk, drawn>>)
  <2>1. PICK left \in Renamed(disk[h].secret, disk[h].bls, drawn') :
           /\ disk[h].secret = 0 /\ drawn' = drawn + 1
           /\ disk' = [disk EXCEPT ![h].secret = left[1], ![h].bls = left[2]]
           /\ \/ job' = NoJob
              \/ left = <<drawn', drawn'>> /\ Onward(Append(job.keys, drawn'), "assemble")
    BY <1>3 DEF KeygenRemote, Keygen, Fails, Draws
  <2>2. drawn \in Nat /\ drawn' \in NodeKey /\ drawn <= drawn' /\ drawn < drawn'
    BY <2>1 DEF ProvisioningTypeOK, NodeKey
  <2>3. left[1] \in {0, drawn'}
    BY <2>1 DEF Renamed
  <2>4. /\ disk'[h].secret = left[1]
        /\ \A g \in Host : g # h => disk'[g].secret = disk[g].secret
        /\ \A g \in Host : disk'[g].cluster = disk[g].cluster /\ disk'[g].checkpoints = disk[g].checkpoints
    BY <1>1, <2>1 DEF ProvisioningTypeOK
  <2>5. Around' = Around
    BY <1>1, <2>4, Zenon DEF Around
  <2>6. \A c \in Around, g \in Host : c[g] # 0 /\ c[g] # drawn' /\ c[g] <= drawn'
    <3> TAKE c \in Around, g \in Host
    <3>1. c[g] \in Nat /\ c[g] # 0 /\ c[g] <= drawn
      BY AroundKeys
    <3>2. QED BY <2>1, <2>2, <3>1
  <2>7. \A c \in Around, g \in Host : c[g] = disk'[g].secret => c[g] = disk[g].secret
    BY <2>3, <2>4, <2>6, Zenon
  <2>8. OneMatch' /\ KitMatch'
    <3>1. KitMatch'
      BY <1>1, <2>5, Zenon DEF KitMatch
    <3>2. ASSUME NEW c \in Around, NEW d \in Around, NEW g \in Host, NEW f \in Host,
                 c[g] = disk'[g].secret, d[f] = disk'[f].secret
          PROVE  c = d
      <4>1. c[g] = disk[g].secret /\ d[f] = disk[f].secret
        BY <2>7, <3>2
      <4>2. QED BY <4>1 DEF OneMatch
    <3>3. QED BY <2>5, <3>1, <3>2 DEF OneMatch
  <2>9. KeysDrawn'
    <3>1. \A g \in Host : disk'[g].secret <= drawn' /\ kit.secret[g] <= drawn'
      <4>1. \A g \in Host : disk[g].secret \in Nat /\ kit.secret[g] \in Nat
        BY DEF ProvisioningTypeOK
      <4>2. \A n \in Nat : n <= drawn => n <= drawn'
        BY <2>2 DEF NodeKey
      <4>3. left[1] <= drawn'
        BY <2>2, <2>3 DEF NodeKey
      <4>4. QED BY <2>4, <4>1, <4>2, <4>3, Zenon DEF KeysDrawn
    <3>2. QED BY <1>1, <2>5, <2>6, <3>1, Zenon DEF KeysDrawn
  <2>10. Loaded'
    <3>1. ASSUME NEW g \in Host, running[g] # NoFile PROVE g # h
      <4>1. running[g].cluster \in Around
        BY <3>1, Zenon DEF Around, ProvisioningTypeOK
      <4>2. disk[g].secret # 0
        BY <2>6, <3>1, <4>1, Zenon DEF Loaded
      <4>3. QED BY <2>1, <4>2
    <3>2. QED BY <1>1, <2>4, <3>1, LoadedKept, Zenon DEF Loaded
  <2>11. CASE job' = NoJob
    BY <2>8, <2>9, <2>10, <2>11, JobTypes, Zenon DEF Fresh, FreshKeys, FreshOnHosts, FreshInKit
  <2>12. CASE left = <<drawn', drawn'>> /\ Onward(Append(job.keys, drawn'), "assemble")
    <3>1. /\ Len(job.keys) = Done /\ \A i \in 1..Done : job.keys[i] <= drawn
          /\ \A i \in 1..Done, c \in Around, g \in Host : c[g] # job.keys[i]
      BY <1>1 DEF Fresh, FreshKeys
    <3>2. /\ Done \in Nat /\ Done' = Done + 1 /\ Done + 1 = job.at /\ job.at \in 1..Len(Order)
          /\ job'.step \in {"keygen", "assemble"}
          /\ Len(job'.keys) = Done + 1 /\ job'.keys[Done + 1] = drawn'
          /\ \A i \in 1..Done : job'.keys[i] = job.keys[i]
      BY <1>1, <2>2, <2>12, <3>1, DoneNext, Zenon DEF ProvisioningTypeOK
    <3>3. \A i \in 1..Done' : i \in 1..Done \/ i = Done + 1
      BY <3>2
    <3>4. FreshKeys'
      <4>1. \A i \in 1..Done : job.keys[i] \in Nat
        <5>1. job.keys \in Seq(NodeKey)
          BY DEF ProvisioningTypeOK, JobTypeOK, Job
        <5>2. QED BY <3>1, <5>1 DEF NodeKey
      <4>2. \A i \in 1..Done : job.keys[i] <= drawn'
        BY <2>2, <3>1, <4>1 DEF NodeKey
      <4>3. drawn' <= drawn'
        BY <2>2 DEF NodeKey
      <4>4. \A i \in 1..Done' : job'.keys[i] <= drawn'
        BY <3>2, <3>3, <4>2, <4>3, Zenon
      <4>5. \A i \in 1..Done', c \in Around, g \in Host : c[g] # job'.keys[i]
        <5> TAKE i \in 1..Done', c \in Around, g \in Host
        <5>1. CASE i \in 1..Done
          BY <3>1, <3>2, <5>1
        <5>2. CASE i = Done + 1
          BY <2>6, <3>2, <5>2
        <5>3. QED BY <3>3, <5>1, <5>2
      <4>6. QED BY <2>5, <3>2, <4>4, <4>5, Zenon DEF FreshKeys
    <3>5. FreshOnHosts'
      <4>1. \A i \in 1..Done : /\ disk[Order[i]].secret = job.keys[i]
                               /\ \A g \in Host : kit.secret[g] # job.keys[i]
        BY <1>1 DEF Fresh, FreshOnHosts
      <4>2. \A i \in 1..Done : Order[i] \in Host /\ Order[i] # h
        <5> TAKE i \in 1..Done
        <5>1. i \in 1..Len(Order) /\ i # job.at
          BY <3>2, Numbered
        <5>2. QED BY <3>2, <5>1, Numbered, ProvisioningAssumption, Zenon
      <4>3. \A g \in Host : kit.secret[g] # drawn'
        BY <2>2 DEF KeysDrawn, ProvisioningTypeOK
      <4>4. disk'[h].secret = drawn' /\ h = Order[Done + 1]
        BY <2>4, <2>12, <3>2
      <4>5. \A i \in 1..Done' : /\ disk'[Order[i]].secret = job'.keys[i]
                                 /\ \A g \in Host : kit.secret[g] # job'.keys[i]
        <5> TAKE i \in 1..Done'
        <5>1. CASE i \in 1..Done
          BY <2>4, <3>2, <4>1, <4>2, <5>1
        <5>2. CASE i = Done + 1
          BY <3>2, <4>3, <4>4, <5>2
        <5>3. QED BY <3>3, <5>1, <5>2
      <4>6. QED BY <1>1, <4>5, Zenon DEF FreshOnHosts
    <3>6. FreshInKit'
      BY <3>2 DEF FreshInKit
    <3>7. QED BY <2>8, <2>9, <2>10, <3>4, <3>5, <3>6 DEF Fresh
  <2>13. QED BY <2>1, <2>11, <2>12
<1>4. QED BY <1>2, <1>3

\* InitMember: what it leaves in the output directory is new, or gone, or old.
LEMMA InitMemberStep ==
    ASSUME GenesisInv, ProvisioningTypeOK', InitMember
    PROVE  KeysDrawn' /\ OneMatch' /\ KitMatch' /\ Loaded' /\ Fresh'
<1> USE DEF GenesisInv
<1> DEFINE h == Order[job.at]
<1>1. UNCHANGED <<disk, enabled, running, public, newcomer>> /\ job.step = "init" /\ h \in Host
  <2>1. UNCHANGED <<disk, enabled, running, public, newcomer>> /\ job.step = "init"
    BY Zenon DEF InitMember
  <2>2. job.at \in 1..Len(Order)
    BY <2>1, Numbered DEF ProvisioningTypeOK, JobTypeOK, Job
  <2>3. QED BY <2>1, <2>2, Numbered, Zenon
<1>2. Loaded'
  BY <1>1, LoadedKept, Zenon DEF Loaded
<1>3. CASE job' = NoJob /\ UNCHANGED <<kit, drawn>>
  <2>1. Around' = Around
    BY <1>1, <1>3, Zenon DEF Around
  <2>2. job'.step = "none"
    BY <1>3, JobTypes
  <2>3. QED BY <1>1, <1>2, <1>3, <2>1, <2>2, QuietStep
<1>4. CASE ~(job' = NoJob /\ UNCHANGED <<kit, drawn>>)
  <2>1. PICK left \in Recreated(kit.secret[h], kit.bls[h], drawn') :
           /\ drawn' = drawn + 1
           /\ kit' = [kit EXCEPT !.secret[h] = left[1], !.bls[h] = left[2]]
           /\ \/ job' = NoJob
              \/ left = <<drawn', drawn'>> /\ Onward(Append(job.keys, drawn'), "kit")
    BY <1>4 DEF InitMember, Fails, Draws
  <2>2. drawn \in Nat /\ drawn' \in NodeKey /\ drawn <= drawn' /\ drawn < drawn'
    BY <2>1 DEF ProvisioningTypeOK, NodeKey
  <2>3. left[1] \in {0, drawn', kit.secret[h]}
    BY <2>1 DEF Renamed, Recreated
  <2>4. /\ kit'.secret[h] = left[1] /\ kit'.cluster = kit.cluster
        /\ \A g \in Host : g # h => kit'.secret[g] = kit.secret[g]
    BY <1>1, <2>1 DEF ProvisioningTypeOK
  <2>5. Around' = Around
    BY <1>1, <2>4, Zenon DEF Around
  <2>6. \A c \in Around, g \in Host : c[g] # 0 /\ c[g] # drawn' /\ c[g] <= drawn'
    <3> TAKE c \in Around, g \in Host
    <3>1. c[g] \in Nat /\ c[g] # 0 /\ c[g] <= drawn
      BY AroundKeys
    <3>2. QED BY <2>1, <2>2, <3>1
  <2>7. \A c \in Around, g \in Host : c[g] = kit'.secret[g] => c[g] = kit.secret[g]
    BY <2>3, <2>4, <2>6, Zenon
  <2>8. OneMatch' /\ KitMatch'
    <3>1. OneMatch'
      BY <1>1, <2>5 DEF OneMatch
    <3>2. KitMatch'
      BY <2>4, <2>5, <2>7, Zenon DEF KitMatch
    <3>3. QED BY <3>1, <3>2
  <2>9. KeysDrawn'
    <3>1. \A g \in Host : disk[g].secret <= drawn' /\ kit'.secret[g] <= drawn'
      <4>1. \A g \in Host : disk[g].secret \in Nat /\ kit.secret[g] \in Nat
        BY DEF ProvisioningTypeOK
      <4>2. \A n \in Nat : n <= drawn => n <= drawn'
        BY <2>2 DEF NodeKey
      <4>3. 0 <= drawn' /\ drawn' <= drawn'
        BY <2>2 DEF NodeKey
      <4>4. QED BY <1>1, <2>3, <2>4, <4>1, <4>2, <4>3, Zenon DEF KeysDrawn
    <3>2. QED BY <1>1, <2>5, <2>6, <3>1, Zenon DEF KeysDrawn
  <2>10. CASE job' = NoJob
    BY <1>2, <2>8, <2>9, <2>10, JobTypes, Zenon DEF Fresh, FreshKeys, FreshOnHosts, FreshInKit
  <2>11. CASE left = <<drawn', drawn'>> /\ Onward(Append(job.keys, drawn'), "kit")
    <3>1. /\ Len(job.keys) = Done /\ \A i \in 1..Done : job.keys[i] <= drawn
          /\ \A i \in 1..Done, c \in Around, g \in Host : c[g] # job.keys[i]
      BY <1>1 DEF Fresh, FreshKeys
    <3>2. /\ Done \in Nat /\ Done' = Done + 1 /\ Done + 1 = job.at /\ job.at \in 1..Len(Order)
          /\ job'.step \in {"init", "kit"}
          /\ Len(job'.keys) = Done + 1 /\ job'.keys[Done + 1] = drawn'
          /\ \A i \in 1..Done : job'.keys[i] = job.keys[i]
      BY <1>1, <2>2, <2>11, <3>1, DoneNext, Zenon DEF ProvisioningTypeOK
    <3>3. \A i \in 1..Done' : i \in 1..Done \/ i = Done + 1
      BY <3>2
    <3>4. FreshKeys'
      <4>1. \A i \in 1..Done : job.keys[i] \in Nat
        <5>1. job.keys \in Seq(NodeKey)
          BY DEF ProvisioningTypeOK, JobTypeOK, Job
        <5>2. QED BY <3>1, <5>1 DEF NodeKey
      <4>2. \A i \in 1..Done : job.keys[i] <= drawn'
        BY <2>2, <3>1, <4>1 DEF NodeKey
      <4>3. drawn' <= drawn'
        BY <2>2 DEF NodeKey
      <4>4. \A i \in 1..Done' : job'.keys[i] <= drawn'
        BY <3>2, <3>3, <4>2, <4>3, Zenon
      <4>5. \A i \in 1..Done', c \in Around, g \in Host : c[g] # job'.keys[i]
        <5> TAKE i \in 1..Done', c \in Around, g \in Host
        <5>1. CASE i \in 1..Done
          BY <3>1, <3>2, <5>1
        <5>2. CASE i = Done + 1
          BY <2>6, <3>2, <5>2
        <5>3. QED BY <3>3, <5>1, <5>2
      <4>6. QED BY <2>5, <3>2, <4>4, <4>5, Zenon DEF FreshKeys
    <3>5. FreshInKit'
      <4>1. \A i \in 1..Done : /\ kit.secret[Order[i]] = job.keys[i]
                               /\ \A g \in Host : disk[g].secret # job.keys[i]
        BY <1>1 DEF Fresh, FreshInKit
      <4>2. \A i \in 1..Done : Order[i] \in Host /\ Order[i] # h
        <5> TAKE i \in 1..Done
        <5>1. i \in 1..Len(Order) /\ i # job.at
          BY <3>2, Numbered
        <5>2. QED BY <3>2, <5>1, Numbered, ProvisioningAssumption, Zenon
      <4>3. \A g \in Host : disk[g].secret # drawn'
        BY <2>2 DEF KeysDrawn, ProvisioningTypeOK
      <4>4. kit'.secret[h] = drawn' /\ h = Order[Done + 1]
        BY <2>4, <2>11, <3>2
      <4>5. \A i \in 1..Done' : /\ kit'.secret[Order[i]] = job'.keys[i]
                                 /\ \A g \in Host : disk[g].secret # job'.keys[i]
        <5> TAKE i \in 1..Done'
        <5>1. CASE i \in 1..Done
          BY <2>4, <3>2, <4>1, <4>2, <5>1
        <5>2. CASE i = Done + 1
          BY <3>2, <4>3, <4>4, <5>2
        <5>3. QED BY <3>3, <5>1, <5>2
      <4>6. QED BY <1>1, <4>5, Zenon DEF FreshInKit
    <3>6. FreshOnHosts'
      BY <3>2 DEF FreshOnHosts
    <3>7. QED BY <1>2, <2>8, <2>9, <3>4, <3>5, <3>6 DEF Fresh
  <2>12. QED BY <2>1, <2>10, <2>11
<1>5. QED BY <1>3, <1>4

\* A new cluster.toml, of keys that no other one has.
LEMMA NewConfig ==
    ASSUME GenesisInv, job.step \in {"assemble", "kit"}
    PROVE  /\ Assembled(job.keys) \in Config /\ Done = Len(Order)
           /\ \A i \in 1..Len(Order) : Assembled(job.keys)[Order[i]] = job.keys[i]
           /\ \A g \in Host : Assembled(job.keys)[g] <= drawn
           /\ \A c \in Around, g \in Host : c[g] # Assembled(job.keys)[g]
<1>1. Done = Len(Order) /\ Len(job.keys) = Len(Order)
  BY DEF GenesisInv, Fresh, FreshKeys, Done
<1>2. job.keys \in Seq(NodeKey)
  BY DEF GenesisInv, ProvisioningTypeOK, JobTypeOK, Job
<1>3. /\ Assembled(job.keys) \in Config
      /\ \A i \in 1..Len(Order) : Assembled(job.keys)[Order[i]] = job.keys[i]
  BY <1>1, <1>2, AssembledKeys
<1>4. /\ \A i \in 1..Len(Order) : job.keys[i] <= drawn
      /\ \A i \in 1..Len(Order), c \in Around, g \in Host : c[g] # job.keys[i]
  BY <1>1 DEF GenesisInv, Fresh, FreshKeys
<1>5. ASSUME NEW g \in Host PROVE \E i \in 1..Len(Order) : Assembled(job.keys)[g] = job.keys[i]
  BY <1>3, Numbered, Zenon
<1>6. ASSUME NEW g \in Host
      PROVE  Assembled(job.keys)[g] <= drawn /\ \A c \in Around : c[g] # Assembled(job.keys)[g]
  <2>1. PICK i \in 1..Len(Order) : Assembled(job.keys)[g] = job.keys[i]
    BY <1>5
  <2>2. QED BY <1>4, <2>1, Zenon
<1>7. QED BY <1>1, <1>3, <1>6

\* AssembleConfig: every host has its key of the new cluster.toml, so that none
\* of the others matches any more.
LEMMA AssembleStep ==
    ASSUME GenesisInv, ProvisioningTypeOK', AssembleConfig
    PROVE  KeysDrawn' /\ OneMatch' /\ KitMatch' /\ Loaded' /\ Fresh'
<1> USE DEF GenesisInv
<1> DEFINE new == Assembled(job.keys)
<1>1. /\ UNCHANGED <<disk, enabled, running, kit, newcomer, drawn>> /\ public' = new
      /\ job.step = "assemble" /\ job' = [job EXCEPT !.step = "push"]
  BY Zenon DEF AssembleConfig
<1>2. Loaded'
  BY <1>1, LoadedKept, Zenon DEF Loaded
<1>3. Around' \subseteq Around \cup {new}
  BY <1>1, Zenon DEF Around
<1>4. /\ \A g \in Host : new[g] <= drawn /\ \A c \in Around : c[g] # new[g]
      /\ \A i \in 1..Len(Order) : new[Order[i]] = job.keys[i]
  BY <1>1, NewConfig, Zenon
<1>5. \A g \in Host : disk[g].secret = new[g] /\ kit.secret[g] # new[g]
  <2>1. Done = Len(Order)
    BY <1>1, NewConfig, Zenon
  <2>2. \A i \in 1..Len(Order) : /\ disk[Order[i]].secret = job.keys[i]
                                 /\ \A g \in Host : kit.secret[g] # job.keys[i]
    BY <1>1, <2>1 DEF Fresh, FreshOnHosts
  <2>3. ASSUME NEW g \in Host PROVE \E i \in 1..Len(Order) : g = Order[i]
    BY Numbered, Zenon
  <2>4. QED BY <1>4, <2>2, <2>3
<1> HIDE DEF new
<1>6. KeysDrawn'
  BY <1>1, <1>3, <1>4, Zenon DEF KeysDrawn
<1>7. OneMatch'
  <2>1. \A c \in Around', g \in Host : c[g] = disk'[g].secret => c = new
    BY <1>1, <1>3, <1>4, <1>5, Zenon
  <2>2. QED BY <2>1, Zenon DEF OneMatch
<1>8. KitMatch'
  <2>1. \A c \in Around', g \in Host : c[g] = kit.secret[g] => c \in Around
    BY <1>3, <1>5, Zenon
  <2>2. QED BY <1>1, <2>1, Zenon DEF KitMatch
<1>9. Fresh'
  <2>1. job'.step = "push"
    BY <1>1 DEF ProvisioningTypeOK, JobTypeOK, Job
  <2>2. QED BY <2>1 DEF Fresh, FreshKeys, FreshOnHosts, FreshInKit
<1>10. QED BY <1>2, <1>6, <1>7, <1>8, <1>9

\* InitConfig: the new cluster.toml is beside its secrets, and on no host.
LEMMA InitConfigStep ==
    ASSUME GenesisInv, ProvisioningTypeOK', InitConfig
    PROVE  KeysDrawn' /\ OneMatch' /\ KitMatch' /\ Loaded' /\ Fresh'
<1> USE DEF GenesisInv
<1> DEFINE new == Assembled(job.keys)
<1>1. /\ UNCHANGED <<disk, enabled, running, public, newcomer, drawn>>
      /\ job.step = "kit" /\ job' = NoJob /\ kit' = [kit EXCEPT !.cluster = new]
  BY Zenon DEF InitConfig
<1>2. kit'.secret = kit.secret /\ kit'.cluster = new
  BY <1>1 DEF ProvisioningTypeOK
<1>3. Loaded'
  BY <1>1, LoadedKept, Zenon DEF Loaded
<1>4. Around' \subseteq Around \cup {new}
  BY <1>1, <1>2, Zenon DEF Around
<1>5. /\ \A g \in Host : new[g] <= drawn /\ \A c \in Around : c[g] # new[g]
      /\ \A i \in 1..Len(Order) : new[Order[i]] = job.keys[i]
  BY <1>1, NewConfig, Zenon
<1>6. \A g \in Host : kit.secret[g] = new[g] /\ disk[g].secret # new[g]
  <2>1. Done = Len(Order)
    BY <1>1, NewConfig, Zenon
  <2>2. \A i \in 1..Len(Order) : /\ kit.secret[Order[i]] = job.keys[i]
                                 /\ \A g \in Host : disk[g].secret # job.keys[i]
    BY <1>1, <2>1 DEF Fresh, FreshInKit
  <2>3. ASSUME NEW g \in Host PROVE \E i \in 1..Len(Order) : g = Order[i]
    BY Numbered, Zenon
  <2>4. QED BY <1>5, <2>2, <2>3
<1> HIDE DEF new
<1>7. KeysDrawn'
  BY <1>1, <1>2, <1>4, <1>5, Zenon DEF KeysDrawn
<1>8. OneMatch'
  <2>1. \A c \in Around', g \in Host : c[g] = disk'[g].secret => c \in Around /\ c[g] = disk[g].secret
    BY <1>1, <1>4, <1>6, Zenon
  <2>2. QED BY <2>1 DEF OneMatch
<1>9. KitMatch'
  <2>1. \A c \in Around', g \in Host : c[g] = kit'.secret[g] => c = new
    BY <1>2, <1>4, <1>5, <1>6, Zenon
  <2>2. QED BY <1>2, <2>1, Zenon DEF KitMatch
<1>10. Fresh'
  BY <1>1, JobTypes DEF Fresh, FreshKeys, FreshOnHosts, FreshInKit
<1>11. QED BY <1>3, <1>7, <1>8, <1>9, <1>10

\* CopyToHost: afterwards all secrets on the hosts are those of the output
\* directory, which match nothing but the cluster.toml beside them.
LEMMA CopyStep ==
    ASSUME GenesisInv, ProvisioningTypeOK', NEW h \in Host, CopyToHost(h)
    PROVE  KeysDrawn' /\ OneMatch' /\ KitMatch' /\ Loaded' /\ Fresh'
<1> USE DEF GenesisInv
<1>1. /\ UNCHANGED <<running, kit, public, newcomer, job, drawn>> /\ job = NoJob /\ h \notin enabled
      /\ enabled' = enabled \cup {h}
      /\ \A g \in Host : disk[g].secret \in {0, kit.secret[g]}
  BY Zenon DEF CopyToHost
<1>2. /\ disk'[h].secret = kit.secret[h] /\ disk'[h].cluster = kit.cluster
      /\ \A g \in Host : /\ g # h => disk'[g] = disk[g]
                         /\ disk'[g].checkpoints = disk[g].checkpoints
  BY DEF CopyToHost, ProvisioningTypeOK
<1>3. Around' \subseteq Around
  BY <1>1, <1>2, AroundKept, Zenon
<1>4. Loaded'
  BY <1>1, <1>2, LoadedKept, Zenon DEF Loaded
<1>5. KeysDrawn' /\ KitMatch'
  BY <1>1, <1>2, <1>3, Zenon DEF KeysDrawn, KitMatch
<1>6. OneMatch'
  <2>1. ASSUME NEW c \in Around, NEW g \in Host, c[g] = disk'[g].secret PROVE c = kit.cluster
    <3>1. c[g] # 0
      BY AroundKeys
    <3>2. disk'[g].secret \in {0, kit.secret[g]}
      BY <1>1, <1>2, Zenon
    <3>3. QED BY <2>1, <3>1, <3>2, Zenon DEF KitMatch
  <2>2. QED BY <1>3, <2>1, Zenon DEF OneMatch
<1>7. Fresh'
  BY <1>1, JobTypes DEF Fresh, FreshKeys, FreshOnHosts, FreshInKit
<1>8. QED BY <1>4, <1>5, <1>6, <1>7

\* RemoveSecrets: a host without secrets matches no cluster.toml.
LEMMA RemoveStep ==
    ASSUME GenesisInv, ProvisioningTypeOK', NEW h \in Host, RemoveSecrets(h)
    PROVE  KeysDrawn' /\ OneMatch' /\ KitMatch' /\ Loaded' /\ Fresh'
<1> USE DEF GenesisInv
<1>1. UNCHANGED <<enabled, running, kit, public, newcomer, job, drawn>> /\ job = NoJob /\ h \notin enabled
  BY Zenon DEF RemoveSecrets
<1>2. /\ disk'[h].secret = 0
      /\ \A g \in Host : /\ g # h => disk'[g] = disk[g]
                         /\ disk'[g].cluster = disk[g].cluster
                         /\ disk'[g].checkpoints = disk[g].checkpoints
  BY DEF RemoveSecrets, ProvisioningTypeOK
<1>3. Around' \subseteq Around
  BY <1>1, <1>2, AroundKept, Zenon
<1>4. Loaded'
  BY <1>1, <1>2, LoadedKept, Zenon DEF Loaded
<1>5. KeysDrawn'
  <2>1. 0 <= drawn
    BY DEF ProvisioningTypeOK
  <2>2. QED BY <1>1, <1>2, <1>3, <2>1, Zenon DEF KeysDrawn
<1>6. KitMatch'
  BY <1>1, <1>3, Zenon DEF KitMatch
<1>7. OneMatch'
  <2>1. ASSUME NEW c \in Around, NEW g \in Host, c[g] = disk'[g].secret PROVE c[g] = disk[g].secret
    <3>1. c[g] # 0
      BY AroundKeys
    <3>2. QED BY <1>2, <2>1, <3>1, Zenon
  <2>2. QED BY <1>3, <2>1 DEF OneMatch
<1>8. Fresh'
  BY <1>1, JobTypes DEF Fresh, FreshKeys, FreshOnHosts, FreshInKit
<1>9. QED BY <1>4, <1>5, <1>6, <1>7, <1>8

\* Run: the cluster.toml and the checkpoint that the secrets match are those of
\* one genesis.
LEMMA RunStep ==
    ASSUME GenesisInv, ProvisioningTypeOK', NEW h \in Host, Run(h)
    PROVE  KeysDrawn' /\ OneMatch' /\ KitMatch' /\ Loaded' /\ Fresh'
<1> USE DEF GenesisInv
<1>1. /\ UNCHANGED <<disk, enabled, kit, public, newcomer, job, drawn>> /\ h \in enabled
      /\ running' = [running EXCEPT ![h] = [cluster |-> disk[h].cluster, restored |-> disk[h].checkpoints]]
      /\ disk[h].cluster # NoFile /\ disk[h].secret = disk[h].cluster[h]
      /\ disk[h].checkpoints # NoFile => disk[h].checkpoints[h] = disk[h].secret
  BY Zenon DEF Run, Supervised, IdentityMatches, CheckOwnKey
<1>2. /\ running'[h].cluster = disk[h].cluster /\ running'[h].restored = disk[h].checkpoints
      /\ \A g \in Host : g # h => running'[g] = running[g]
  BY <1>1 DEF ProvisioningTypeOK
<1>3. Around' \subseteq Around
  BY <1>1, <1>2, AroundKept, Zenon
<1>4. disk[h].cluster \in Config /\ disk[h].checkpoints \in Config \cup {NoFile}
  BY <1>1 DEF ProvisioningTypeOK, File
<1>5. disk[h].checkpoints \in {NoFile, disk[h].cluster}
  <2>1. CASE disk[h].checkpoints # NoFile
    <3>1. disk[h].checkpoints \in Around /\ disk[h].cluster \in Around
      BY <1>4, <2>1, Zenon DEF Around
    <3>2. QED BY <1>1, <2>1, <3>1, Zenon DEF OneMatch
  <2>2. QED BY <2>1
<1>6. Loaded'
  BY <1>1, <1>2, <1>5, Zenon DEF Loaded
<1>7. QED BY <1>1, <1>3, <1>6, QuietStep

\* StoreCheckpoint, CrashDaemon, Disable and WipeData.
LEMMA DaemonStep ==
    ASSUME GenesisInv, ProvisioningTypeOK', NEW h \in Host,
           StoreCheckpoint(h) \/ CrashDaemon(h) \/ Disable(h) \/ WipeData(h)
    PROVE  KeysDrawn' /\ OneMatch' /\ KitMatch' /\ Loaded' /\ Fresh'
<1> USE DEF GenesisInv
<1>1. UNCHANGED <<kit, public, newcomer, job, drawn>>
  BY Zenon DEF StoreCheckpoint, CrashDaemon, Disable, WipeData
<1>2. \A g \in Host :
        /\ disk'[g].secret = disk[g].secret /\ disk'[g].cluster = disk[g].cluster
        /\ \/ disk'[g].checkpoints \in {disk[g].checkpoints, NoFile}
           \/ running[g] # NoFile /\ disk'[g].checkpoints = running[g].cluster
  <2>1. CASE StoreCheckpoint(h)
    BY <2>1 DEF StoreCheckpoint, ProvisioningTypeOK
  <2>2. CASE WipeData(h)
    BY <2>2 DEF WipeData, ProvisioningTypeOK
  <2>3. CASE disk' = disk
    BY <2>3
  <2>4. QED BY <2>1, <2>2, <2>3, Zenon DEF CrashDaemon, Disable
<1>3. \A g \in Host : running'[g] \in {running[g], NoFile} /\ (g \in enabled => g \in enabled' \/ running'[g] = NoFile)
  BY Zenon DEF StoreCheckpoint, CrashDaemon, Disable, WipeData, ProvisioningTypeOK
<1>4. Around' \subseteq Around
  BY <1>1, <1>2, <1>3, AroundKept, Zenon
<1>5. Loaded'
  BY <1>2, <1>3, LoadedKept, Zenon DEF Loaded
<1>6. QED BY <1>1, <1>2, <1>4, <1>5, QuietStep

\* A command that begins or fails, and the steps of deploy and of member init
\* that write no key to a host.
LEMMA CommandStep ==
    ASSUME GenesisInv, ProvisioningTypeOK',
           \/ /\ \E step \in {"keygen", "init", "member"} : Begin(step)
              /\ UNCHANGED <<disk, enabled, running, kit, public, newcomer, drawn>>
           \/ Fails /\ UNCHANGED <<disk, enabled, running, kit, public, newcomer, drawn>>
           \/ PushConfig \/ StartService \/ AwaitClusterHealthy \/ DeployEnds
           \/ MemberInit \/ MemberWrites \/ AddMember
    PROVE  KeysDrawn' /\ OneMatch' /\ KitMatch' /\ Loaded' /\ Fresh'
<1> USE DEF GenesisInv
<1>0. JobTypeOK /\ job \in Job /\ job.keys \in Seq(NodeKey)
  BY DEF ProvisioningTypeOK, JobTypeOK, Job
<1>1. UNCHANGED <<running, kit, public>> /\ drawn' \in {drawn, drawn + 1} /\ enabled \subseteq enabled'
  BY Zenon DEF PushConfig, StartService, AwaitClusterHealthy, DeployEnds, MemberInit, MemberWrites, AddMember, Draws
<1>2. \A g \in Host : /\ disk'[g].secret = disk[g].secret /\ disk'[g].checkpoints = disk[g].checkpoints
                      /\ disk'[g].cluster \in {disk[g].cluster, public}
  <2>1. CASE PushConfig
    BY <2>1 DEF PushConfig, ProvisioningTypeOK
  <2>2. CASE disk' = disk
    BY <2>2
  <2>3. QED BY <2>1, <2>2, Zenon DEF StartService, AwaitClusterHealthy, DeployEnds, MemberInit, MemberWrites, AddMember
<1>3. Around' \subseteq Around
  BY <1>1, <1>2, AroundKept, Zenon
<1>4. Loaded'
  BY <1>1, <1>2, LoadedKept, Zenon DEF Loaded
<1>5. \/ job' = job
      \/ job'.step \notin {"keygen", "assemble", "init", "kit"}
      \/ job'.step \in {"keygen", "init"} /\ job'.at = 1 /\ job'.keys = <<>>
  <2>1. ASSUME NEW step \in {"keygen", "init", "member"}, Begin(step)
        PROVE  \/ job'.step \notin {"keygen", "assemble", "init", "kit"}
               \/ job'.step \in {"keygen", "init"} /\ job'.at = 1 /\ job'.keys = <<>>
    BY <2>1 DEF Begin
  <2>2. CASE job' = NoJob
    <3>1. job'.step = "none"
      BY <2>2, JobTypes
    <3>2. QED BY <3>1
  <2>3. ASSUME job.step \in {"push", "start", "health"}, NEW then \in {"start", "health", "done"},
               Onward(job.keys, then)
        PROVE  job'.step \in {"push", "start", "health", "done"}
    <3>1. job.step \notin {"none", "write"} /\ then \in Step \ {"none", "write"}
      BY <2>3 DEF Step
    <3>2. job'.step \in {job.step, then}
      BY <1>0, <2>3, <3>1, OnwardJob
    <3>3. QED BY <2>3, <3>2
  <2>4. CASE job' = [job EXCEPT !.step = "write", !.keys = <<drawn'>>]
    BY <1>0, <2>4 DEF Job
  <2>5. CASE PushConfig \/ StartService \/ AwaitClusterHealthy
    BY <2>2, <2>3, <2>5 DEF PushConfig, StartService, AwaitClusterHealthy, Fails
  <2>6. QED BY <2>1, <2>2, <2>4, <2>5, Zenon DEF Fails, DeployEnds, MemberInit, MemberWrites, AddMember
<1>6. QED BY <1>1, <1>2, <1>3, <1>4, <1>5, QuietStep

\* Before anything was deployed.
LEMMA InitGenesis == ProvisioningInit => GenesisInv
<1> SUFFICES ASSUME ProvisioningInit PROVE GenesisInv
  OBVIOUS
<1>1. ProvisioningTypeOK
  BY InitProvisioningType
<1>2. /\ \A h \in Host : /\ disk[h].secret = 0 /\ kit.secret[h] = 0 /\ running[h] = NoFile
                         /\ disk[h].cluster = NoFile /\ disk[h].checkpoints = NoFile
      /\ public = NoFile /\ kit.cluster = NoFile /\ drawn = 0 /\ job.step = "none"
  BY DEF ProvisioningInit, NoJob
<1>3. Around = {}
  BY <1>2, ConfigIsFile, Zenon DEF Around
<1>4. KeysDrawn /\ OneMatch /\ KitMatch
  BY <1>2, <1>3 DEF KeysDrawn, OneMatch, KitMatch
<1>5. Loaded /\ Fresh
  BY <1>2 DEF Loaded, Fresh, FreshKeys, FreshOnHosts, FreshInKit
<1>6. QED BY <1>1, <1>4, <1>5 DEF GenesisInv

\* Every step keeps the secrets on the hosts to one genesis.
LEMMA StepGenesis ==
    ASSUME GenesisInv, [ProvisioningNext]_provisioningVars
    PROVE  GenesisInv'
<1>1. ProvisioningTypeOK'
  BY StepProvisioningType DEF GenesisInv
<1>2. CASE UNCHANGED provisioningVars
  <2>1. UNCHANGED <<disk, enabled, running, kit, public, job, drawn>>
    BY <1>2, Zenon DEF provisioningVars
  <2>2. Around' = Around
    BY <2>1, Zenon DEF Around
  <2>3. Loaded'
    BY <2>1, Zenon DEF Loaded, GenesisInv
  <2>4. KeysDrawn' /\ OneMatch' /\ KitMatch' /\ Fresh'
    BY <2>1, <2>2, QuietStep DEF GenesisInv
  <2>5. QED BY <1>1, <2>3, <2>4 DEF GenesisInv
<1>3. CASE ProvisioningNext
  <2>1. KeysDrawn' /\ OneMatch' /\ KitMatch' /\ Loaded' /\ Fresh'
    BY <1>1, <1>3, CommandStep, KeygenStep, AssembleStep, InitMemberStep, InitConfigStep, CopyStep, RunStep,
       DaemonStep, RemoveStep, Zenon DEF ProvisioningNext
  <2>2. QED BY <1>1, <2>1 DEF GenesisInv
<1>4. QED BY <1>2, <1>3

\* Whatever command was interrupted where, and run again how, the daemons that
\* run have loaded one cluster.toml, and restored no checkpoint of another.
THEOREM OneGenesisKept == ProvisioningSpec => []OneGenesis
<1>1. GenesisInv => OneGenesis
  <2> SUFFICES ASSUME GenesisInv, NEW g \in Host, NEW h \in Host, running[g] # NoFile, running[h] # NoFile
               PROVE  /\ running[g].cluster = running[h].cluster
                      /\ running[g].restored \in {NoFile, running[g].cluster}
    BY Zenon DEF OneGenesis
  <2>1. running[g].cluster \in Config /\ running[h].cluster \in Config
    BY DEF GenesisInv, ProvisioningTypeOK
  <2>2. running[g].cluster \in Around /\ running[h].cluster \in Around
    BY <2>1, Zenon DEF Around
  <2>3. running[g].cluster = running[h].cluster
    BY <2>2, Zenon DEF GenesisInv, OneMatch, Loaded
  <2>4. QED BY <2>3, Zenon DEF GenesisInv, Loaded
<1>2. QED BY <1>1, InitGenesis, StepGenesis, PTL DEF ProvisioningSpec

------------------------------------------------------------------------------
(* The member that is added.                                                 *)

\* Every step of member init and add-member keeps the secrets of a key that was
\* printed or submitted.
LEMMA StepMember ==
    ASSUME GenesisInv, MemberInv, [ProvisioningNext]_provisioningVars
    PROVE  MemberInv'
<1> DEFINE Members == [secret : Nat, bls : Nat, cluster : File, printed : Nat, admitted : Nat]
<1>0. newcomer \in Members /\ JobTypeOK /\ job \in Job
  BY DEF GenesisInv, ProvisioningTypeOK, JobTypeOK
<1>1. CASE MemberInit
  <2>1. CASE job' = NoJob /\ newcomer' = newcomer
    <3>1. job'.step = "none"
      BY <2>1, JobTypes
    <3>2. QED BY <2>1, <3>1 DEF MemberInv, AdmittedKeyKept
  <2>2. CASE ~(job' = NoJob /\ newcomer' = newcomer)
    <3>1. newcomer' = [newcomer EXCEPT !.printed = 0] /\ newcomer.admitted = 0
      BY <1>1, <2>2 DEF MemberInit, Fails
    <3>2. newcomer'.printed = 0 /\ newcomer'.admitted = 0
      BY <1>0, <3>1
    <3>3. QED BY <3>2 DEF MemberInv, AdmittedKeyKept
  <2>3. QED BY <2>1, <2>2
<1>2. CASE MemberWrites
  <2> DEFINE key == job.keys[1]
  <2>1. PICK left \in Recreated(newcomer.secret, newcomer.bls, key), saved \in BOOLEAN, submits \in BOOLEAN,
             genesis \in {public, kit.cluster} \ {NoFile} :
             /\ left # <<key, key>> => ~saved
             /\ ~saved => ~submits
             /\ newcomer' = [newcomer EXCEPT !.secret = left[1], !.bls = left[2],
                                             !.cluster = IF saved THEN genesis ELSE @,
                                             !.printed = IF saved THEN key ELSE 0,
                                             !.admitted = IF submits THEN key ELSE 0]
    BY <1>2, Zenon DEF MemberWrites
  <2>2. /\ newcomer'.secret = left[1] /\ newcomer'.bls = left[2]
        /\ newcomer'.printed = IF saved THEN key ELSE 0
        /\ newcomer'.admitted = IF submits THEN key ELSE 0
    BY <1>0, <2>1
  <2>3. saved => left[1] = key /\ left[2] = key
    BY <2>1
  <2>4. job'.step = "none"
    BY <1>2, JobTypes DEF MemberWrites, Fails
  <2>5. QED BY <2>1, <2>2, <2>3, <2>4 DEF MemberInv, AdmittedKeyKept
<1>3. CASE AddMember
  <2>1. /\ newcomer.printed # 0 /\ newcomer.bls = newcomer.printed /\ job = NoJob /\ job' = job
        /\ newcomer' = [newcomer EXCEPT !.admitted = newcomer.printed]
    BY <1>3, Zenon DEF AddMember
  <2>2. /\ newcomer'.admitted = newcomer.printed /\ newcomer'.printed = newcomer.printed
        /\ newcomer'.secret = newcomer.secret /\ newcomer'.bls = newcomer.bls
    BY <1>0, <2>1
  <2>3. job'.step = "none"
    BY <2>1, JobTypes
  <2>4. QED BY <2>1, <2>2, <2>3 DEF MemberInv, AdmittedKeyKept
<1>4. ASSUME newcomer' = newcomer, job'.step # "write" \/ job' = job PROVE MemberInv'
  BY <1>4, Zenon DEF MemberInv, AdmittedKeyKept
<1>5. ASSUME NEW keys \in Seq(NodeKey), NEW then \in Step \ {"none", "write"}, Onward(keys, then),
             job.step \notin {"none", "write"}
      PROVE  job'.step # "write"
  BY <1>0, <1>5, OnwardJob
<1>6. job' = NoJob => job'.step # "write"
  BY JobTypes
<1>7. CASE KeygenRemote \/ PushConfig \/ StartService \/ AwaitClusterHealthy \/ InitMember
  <2>1. newcomer' = newcomer /\ job.step \in {"keygen", "push", "start", "health", "init"}
    BY <1>7, Zenon DEF KeygenRemote, PushConfig, StartService, AwaitClusterHealthy, InitMember
  <2>2. \A k \in NodeKey : Append(job.keys, k) \in Seq(NodeKey)
    BY <1>0 DEF Job
  <2>3. drawn + 1 \in NodeKey
    BY DEF GenesisInv, ProvisioningTypeOK, NodeKey
  <2>4. \/ job' = NoJob
        \/ \E keys \in Seq(NodeKey), then \in {"assemble", "start", "health", "done", "kit"} : Onward(keys, then)
    <3>1. CASE KeygenRemote \/ InitMember
      BY <2>2, <2>3, <3>1, Zenon DEF KeygenRemote, InitMember, Fails, Draws
    <3>2. job.keys \in Seq(NodeKey)
      BY <1>0 DEF Job
    <3>3. CASE PushConfig \/ StartService \/ AwaitClusterHealthy
      BY <3>2, <3>3, Zenon DEF PushConfig, StartService, AwaitClusterHealthy, Fails
    <3>4. QED BY <1>7, <3>1, <3>3
  <2>5. /\ {"assemble", "start", "health", "done", "kit"} \subseteq Step \ {"none", "write"}
        /\ job.step \notin {"none", "write"}
    BY <2>1 DEF Step
  <2>6. job'.step # "write"
    BY <1>5, <1>6, <2>4, <2>5, Zenon
  <2>7. QED BY <1>4, <2>1, <2>6
<1>8. CASE AssembleConfig \/ DeployEnds \/ InitConfig
  <2>1. newcomer' = newcomer /\ (job' = NoJob \/ job' = [job EXCEPT !.step = "push"])
    BY <1>8, Zenon DEF AssembleConfig, DeployEnds, InitConfig
  <2>2. job'.step # "write"
    BY <1>0, <1>6, <2>1 DEF Job
  <2>3. QED BY <1>4, <2>1, <2>2
<1>9. ASSUME NEW step \in {"keygen", "init", "member"}, Begin(step) PROVE job'.step # "write"
  BY <1>9 DEF Begin
<1>10. CASE \E h \in Host : \/ CopyToHost(h) \/ Run(h) \/ StoreCheckpoint(h) \/ CrashDaemon(h)
                            \/ Disable(h) \/ RemoveSecrets(h) \/ WipeData(h)
  <2>1. newcomer' = newcomer /\ job' = job
    BY <1>10, Zenon DEF CopyToHost, Run, StoreCheckpoint, CrashDaemon, Disable, RemoveSecrets, WipeData
  <2>2. QED BY <1>4, <2>1
<1>11. CASE UNCHANGED provisioningVars
  BY <1>4, <1>11, Zenon DEF provisioningVars
<1>12. QED BY <1>1, <1>2, <1>3, <1>4, <1>6, <1>7, <1>8, <1>9, <1>10, <1>11, Zenon DEF ProvisioningNext, Fails

\* The key with which a cluster admits a member is one whose secrets the member
\* has, wherever member init was interrupted before.
THEOREM AdmittedKeysKept == ProvisioningSpec => []AdmittedKeyKept
<1>1. ProvisioningInit => MemberInv
  BY DEF ProvisioningInit, MemberInv, AdmittedKeyKept, NoJob
<1>2. MemberInv => AdmittedKeyKept
  BY DEF MemberInv
<1>3. QED BY <1>1, <1>2, InitGenesis, StepGenesis, StepMember, PTL DEF ProvisioningSpec
==============================================================================
