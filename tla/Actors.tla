------------------------------- MODULE Actors -------------------------------
(***************************************************************************)
(* The identity operations of executor/state/src/executor.rs: a DID        *)
(* document, the root actor that comes with it and commits to the set of   *)
(* its sub-actors, and the sub-actors with their operating keys.  Finalize *)
(* decides when and how often an operation is executed; this module says   *)
(* what it then does.                                                      *)
(*                                                                         *)
(* A signature is the key that made it.  A Merkle root and its leaf count  *)
(* are the sequence of leaves they commit to (the hashes are injective), so *)
(* the two proofs of a mint are the log they were made against.  An        *)
(* operation that a check refuses changes nothing and is no step.          *)
(***************************************************************************)
EXTENDS Integers, Sequences

CONSTANTS
    Did,
    Index,       \* the sub-actor slots (tag, index) of a root
    Key,
    None,
    MaxFaults    \* bound: storage errors between two writes of one operation

Document == [control_key : Key, methods : (SUBSET Key) \ {{}}, deactivated : BOOLEAN]
Leaf == [index : Index, control_key : Key]
RootActor == [log : Seq(Leaf), control_key : Key]
SubActor == [control_key : Key, operating_key : Key]

ASSUME NoneAssumption ==
    None \notin Document /\ None \notin RootActor /\ None \notin SubActor
ASSUME FaultsAssumption == MaxFaults \in Nat

VARIABLES
    docs,    \* did_state_key(d)
    roots,   \* actor_state_key(Root(d))
    subs,    \* actor_state_key(Sub(d, i))
    faults   \* how often a storage error struck

vars == <<docs, roots, subs, faults>>

Init ==
    /\ docs = [d \in Did |-> None]
    /\ roots = [d \in Did |-> None]
    /\ subs = [a \in Did \X Index |-> None]
    /\ faults = 0

Active(d) == docs[d] # None /\ ~docs[d].deactivated

\* The second write of an operation: it is made, or meets a storage error.
Write(record, value) ==
    \/ record' = value /\ UNCHANGED faults
    \/ faults < MaxFaults /\ faults' = faults + 1 /\ UNCHANGED record

------------------------------------------------------------------------------
\* apply_did_op, a creation: signed by a method of the new document.
CreateDid(d, doc, signer) ==
    /\ docs[d] = None /\ ~doc.deactivated
    /\ signer \in doc.methods
    /\ docs' = [docs EXCEPT ![d] = doc]
    /\ Write(roots, [roots EXCEPT ![d] = [log |-> <<>>, control_key |-> doc.control_key]])
    /\ UNCHANGED subs

\* A variant that leaves the control key of the root actor alone.
UpdateDidKeepsControl(d, doc, signer) ==
    /\ Active(d)
    /\ signer \in docs[d].methods
    /\ docs' = [docs EXCEPT ![d] = doc]
    /\ UNCHANGED <<roots, subs, faults>>

\* apply_did_op, an update: signed by a method of the document it replaces. A
\* deactivation leaves the root actor as it is.
UpdateDid(d, doc, signer) ==
    /\ Active(d)
    /\ signer \in docs[d].methods
    /\ docs' = [docs EXCEPT ![d] = doc]
    /\ IF doc.deactivated
       THEN UNCHANGED <<roots, faults>>
       ELSE Write(roots, [roots EXCEPT ![d] =
                [log |-> IF roots[d] = None THEN <<>> ELSE roots[d].log,
                 control_key |-> doc.control_key]])
    /\ UNCHANGED subs

\* A variant that does not look for the record of an earlier mint.
MintAgain(d, i, sub, signer, on) ==
    /\ Active(d) /\ roots[d] # None
    /\ signer \in docs[d].methods
    /\ on = roots[d].log
    /\ subs' = [subs EXCEPT ![<<d, i>>] = sub]
    /\ Write(roots, [roots EXCEPT ![d] =
                [log |-> Append(on, [index |-> i, control_key |-> sub.control_key]),
                 control_key |-> roots[d].control_key]])
    /\ UNCHANGED docs

\* A variant that puts the new leaf at index 0.
MintAtFront(d, i, sub, signer, on) ==
    /\ subs[<<d, i>>] = None
    /\ Active(d) /\ roots[d] # None
    /\ signer \in docs[d].methods
    /\ on = roots[d].log
    /\ subs' = [subs EXCEPT ![<<d, i>>] = sub]
    /\ Write(roots, [roots EXCEPT ![d].log =
                <<[index |-> i, control_key |-> sub.control_key]>> \o on])
    /\ UNCHANGED docs

\* A variant that keeps the leaf for a record.
MintLeafOnly(d, i, sub, signer, on) ==
    /\ subs[<<d, i>>] = None
    /\ Active(d) /\ roots[d] # None
    /\ signer \in docs[d].methods
    /\ on = roots[d].log
    /\ subs' = [subs EXCEPT ![<<d, i>>] = [control_key |-> sub.control_key]]
    /\ Write(roots, [roots EXCEPT ![d] =
                [log |-> Append(on, [index |-> i, control_key |-> sub.control_key]),
                 control_key |-> roots[d].control_key]])
    /\ UNCHANGED docs

\* apply_sub_actor_op: a mint, with the proofs that its leaf extends the log.
MintSubActor(d, i, sub, signer, on) ==
    /\ subs[<<d, i>>] = None
    /\ Active(d) /\ roots[d] # None
    /\ signer \in docs[d].methods
    /\ on = roots[d].log
    /\ subs' = [subs EXCEPT ![<<d, i>>] = sub]
    /\ Write(roots, [roots EXCEPT ![d] =
                [log |-> Append(on, [index |-> i, control_key |-> sub.control_key]),
                 control_key |-> roots[d].control_key]])
    /\ UNCHANGED docs

\* A variant that does not ask whether the identifier was retired.
RebindRetired(d, i, old, new, signer) ==
    /\ subs[<<d, i>>] # None /\ roots[d] # None
    /\ old = subs[<<d, i>>].operating_key
    /\ signer = roots[d].control_key
    /\ subs' = [subs EXCEPT ![<<d, i>>].operating_key = new]
    /\ UNCHANGED <<docs, roots, faults>>

\* apply_rebind_op: signed by the control key of the root actor, over the
\* operating key that it replaces.
Rebind(d, i, old, new, signer) ==
    /\ subs[<<d, i>>] # None
    /\ Active(d) /\ roots[d] # None
    /\ old = subs[<<d, i>>].operating_key
    /\ signer = roots[d].control_key
    /\ subs' = [subs EXCEPT ![<<d, i>>].operating_key = new]
    /\ UNCHANGED <<docs, roots, faults>>

\* The proofs of a mint were made against some log that the root actor had.
Logs(d) == IF roots[d] = None THEN {<<>>}
           ELSE {SubSeq(roots[d].log, 1, n) : n \in 0..Len(roots[d].log)}

Next ==
    \E d \in Did, signer \in Key :
      \/ \E doc \in Document : CreateDid(d, doc, signer) \/ UpdateDid(d, doc, signer)
      \/ \E i \in Index, sub \in SubActor, on \in Logs(d) : MintSubActor(d, i, sub, signer, on)
      \/ \E i \in Index, old, new \in Key : Rebind(d, i, old, new, signer)

Spec == Init /\ [][Next]_vars

------------------------------------------------------------------------------
\* Every record is well formed.
TypeOK ==
    /\ docs \in [Did -> Document \cup {None}]
    /\ roots \in [Did -> RootActor \cup {None}]
    /\ subs \in [Did \X Index -> SubActor \cup {None}]
    /\ faults \in Nat

\* The log of d's root actor holds the control keys of d's sub-actors, and of
\* nothing else, each once.
CommittedAt(d) ==
    /\ roots[d] = None => \A i \in Index : subs[<<d, i>>] = None
    /\ roots[d] # None =>
         /\ \A i \in Index : subs[<<d, i>>] # None =>
              \E n \in DOMAIN roots[d].log : roots[d].log[n].index = i
         /\ \A n \in DOMAIN roots[d].log :
              LET leaf == roots[d].log[n]
              IN /\ subs[<<d, leaf.index>>] # None
                 /\ subs[<<d, leaf.index>>].control_key = leaf.control_key
                 /\ \A m \in DOMAIN roots[d].log :
                      roots[d].log[m].index = leaf.index => m = n

\* Until a storage error strikes, root actors commit to exactly their sub-actors,
\* whatever updates, rebinds and refused operations lie between the mints.
Committed == faults = 0 => \A d \in Did : CommittedAt(d)

\* apply_sub_actor_op: "the sub-actor record and the updated root record are
\* written in the same validated transition", storage errors or not.
CommittedThroughFaults == \A d \in Did : CommittedAt(d)

\* RootActor: the "control_key mirrors the owning document's control key and is
\* replaced atomically on every DID rotation", up to the deactivation and until
\* a storage error strikes.
ControlMirrors ==
    faults = 0 => \A d \in Did : Active(d) => roots[d] # None /\ roots[d].control_key = docs[d].control_key

\* A root actor's log only ever grows at its end (merkle_log: "append-only").
AppendOnly ==
    [][\A d \in Did : roots[d] # None =>
         /\ roots'[d] # None
         /\ Len(roots[d].log) <= Len(roots'[d].log)
         /\ \A n \in DOMAIN roots[d].log : roots'[d].log[n] = roots[d].log[n]]_vars

\* Nothing of a deactivated identifier changes any more: its document, its root
\* actor and its sub-actors stay as the deactivation left them.
Retired ==
    [][\A d \in Did : docs[d] # None /\ docs[d].deactivated =>
         /\ docs'[d] = docs[d] /\ roots'[d] = roots[d]
         /\ \A i \in Index : subs'[<<d, i>>] = subs[<<d, i>>]]_vars
=============================================================================
