------------------------------ MODULE TxCodec ------------------------------
(***************************************************************************)
(* Transactions and the records of the state, as they are written and read *)
(* (executor/state/src/op.rs, did.rs, root_actor.rs, sub_actor.rs, state.rs *)
(* and protocol/crypto/src/roster.rs), and the bytes that are signed.      *)
(***************************************************************************)
EXTENDS Codec

CONSTANTS MaxMethods,   \* MAX_VERIFICATION_METHODS: 5
          Siblings      \* DEPTH of the state tree: 256

Keyed == Such(Raw(KeyLen), "point")
Short == Raw(U32)
Octet == Raw(1)
Sig == Raw(SigLen)

\* encode_addr, behind its length.
WriteAddr ==
    Framed(Choice(4 :> Struct(<<Raw(Ipv4Len), Raw(U16)>>) @@ 6 :> Struct(<<Raw(Ipv6Len), Raw(U16)>>)))

\* take_addr.
ReadAddr ==
    Framed(Choice(4 :> Struct(<<Raw(Ipv4Len), Raw(U16)>>) @@ 6 :> Struct(<<Raw(Ipv6Len), Raw(U16)>>)))

\* MembershipOp::encode: Add is 0, Remove is 1.
WriteMembershipOp ==
    Choice(0 :> Struct(<<Raw(U64), Raw(KeyLen), Raw(BlsKeyLen), Raw(BlsSigLen), WriteAddr, Option(WriteAddr)>>)
        @@ 1 :> Raw(U64))

\* MembershipOp::decode, take_optional_addr.
ReadMembershipOp ==
    Choice(0 :> Struct(<<Raw(U64), Keyed, Raw(BlsKeyLen), Raw(BlsSigLen), ReadAddr, Option(ReadAddr)>>)
        @@ 1 :> Raw(U64))

\* DidId::encode: network, alias, uuid.
WriteDidId == Struct(<<Blob(NoLimit), Blob(NoLimit), Raw(UuidLen)>>)

\* DidId::decode.
ReadDidId == Struct(<<Such(Blob(NoLimit), "text"), Such(Blob(NoLimit), "text"), Raw(UuidLen)>>)

\* DidDocument::encode: version 2, control key, methods, deactivated.
WriteDocument ==
    Struct(<<Choice(2 :> Absent), Raw(KeyLen),
             Many(Choice(1 :> Raw(KeyLen) @@ 2 :> Raw(KeyLen)), 1, 1..MaxMethods, 0, 0), Flag>>)

\* DidDocument::decode.
ReadDocument ==
    Such(Struct(<<Choice(2 :> Absent), Keyed,
                  Many(Choice(1 :> Keyed @@ 2 :> Raw(KeyLen)), 1, 1..MaxMethods, 0, 0), Flag>>), "signing")

\* DidOp::encode and DidOp::decode.
WriteDidOp == Struct(<<WriteDidId, WriteDocument, Sig, Octet, Flag>>)

ReadDidOp == Struct(<<ReadDidId, ReadDocument, Sig, Octet, Flag>>)

\* Tag::from_code.
Tags == Choice([code \in 0..3 |-> Absent])

\* ActorId::encode: a root is 0, a sub-actor is 1.
WriteActorId == Choice(0 :> WriteDidId @@ 1 :> Struct(<<WriteDidId, Tags, Short>>))

\* ActorId::decode.
ReadActorId == Choice(0 :> ReadDidId @@ 1 :> Struct(<<ReadDidId, Tags, Such(Short, "u31")>>))

\* RootActor::encode and RootActor::decode.
WriteRootActor == Struct(<<WriteDidId, Raw(HashLen), Raw(U64), Raw(KeyLen)>>)

ReadRootActor == Struct(<<ReadDidId, Raw(HashLen), Raw(U64), Keyed>>)

\* SubActor::encode; SubActor::decode takes no root.
WriteSubActor == Struct(<<WriteActorId, Raw(KeyLen), Raw(KeyLen)>>)

ReadSubActor == Struct(<<Such(ReadActorId, "sub"), Keyed, Keyed>>)

\* ConsistencyProof and InclusionProof: two counts and the hashes (read_hashes_from).
WriteProof == Struct(<<Raw(U64), Raw(U64), List(Raw(HashLen))>>)

ReadConsistencyProof == Struct(<<Raw(U64), Raw(U64), List(Raw(HashLen))>>)

ReadInclusionProof == Struct(<<Raw(U64), Raw(U64), List(Raw(HashLen))>>)

\* SubActorOp::encode and SubActorOp::decode.
WriteSubActorOp ==
    Struct(<<WriteDidId, Tags, Short, Raw(KeyLen), Raw(KeyLen), Raw(HashLen), WriteProof, WriteProof, Sig, Octet>>)

ReadSubActorOp ==
    Struct(<<ReadDidId, Tags, Such(Short, "u31"), Keyed, Keyed, Raw(HashLen),
             ReadConsistencyProof, ReadInclusionProof, Sig, Octet>>)

\* RebindOp::encode and RebindOp::decode.
WriteRebindOp == Struct(<<WriteActorId, Raw(KeyLen), Sig, Sig>>)

ReadRebindOp == Struct(<<ReadActorId, Keyed, Sig, Sig>>)

\* Op::encode, and the four payloads of node/src/control.rs that put an opcode
\* before the operation.
WriteTx ==
    Choice(0 :> Struct(<<Blob(NoLimit), Blob(NoLimit)>>) @@ 1 :> Blob(NoLimit)
        @@ 2 :> WriteMembershipOp @@ 3 :> WriteDidOp @@ 4 :> WriteSubActorOp @@ 5 :> WriteRebindOp)

\* DecodedOp::decode, reject_reserved_prefix.
ReadTx ==
    Choice(0 :> Struct(<<Such(Blob(NoLimit), "unreserved"), Blob(NoLimit)>>)
        @@ 1 :> Such(Blob(NoLimit), "unreserved")
        @@ 2 :> ReadMembershipOp @@ 3 :> ReadDidOp @@ 4 :> ReadSubActorOp @@ 5 :> ReadRebindOp)

\* MerkleProof::encode, and MerkleProof::decode, which wants DEPTH siblings.
WriteMerkleProof == Struct(<<Blob(NoLimit), Blob(NoLimit), List(Raw(HashLen))>>)

ReadMerkleProof ==
    Struct(<<Blob(NoLimit), Blob(NoLimit), Many(Raw(HashLen), U32, {Siblings}, 0, 0)>>)

\* State::to_bytes: the entries in ascending order of key.
WriteState == Table(Rest(Struct(<<Blob(NoLimit), Blob(NoLimit)>>)), TRUE)

\* State::from_bytes and root_of_bytes: no other order, no key twice.
ReadState == Table(Rest(Struct(<<Blob(NoLimit), Blob(NoLimit)>>)), TRUE)

------------------------------------------------------------------------------
\* The domain tags, none of which begins another.
Domain == [did |-> <<1>>, subactor |-> <<2>>, rebind |-> <<3>>, leaf |-> <<4>>]

\* signed_payload of DidOp.
DidPayload(op) == Domain.did \o Encode(WriteDidId, op[1]) \o Encode(WriteDocument, op[2])

\* SubActorOp::actor_id.
ActorIdOf(op) == <<1, <<op[1], op[2], op[3]>> >>

\* A variant that leaves out the operating key.
SubActorPayloadShort(op) ==
    Domain.subactor \o Encode(Framed(WriteActorId), ActorIdOf(op)) \o op[4]

\* signed_payload of SubActorOp: neither the root nor the proofs.
SubActorPayload(op) ==
    Domain.subactor \o Encode(Framed(WriteActorId), ActorIdOf(op)) \o op[4] \o op[5]

\* signed_payload of RebindOp, given the operating key in the state.
RebindPayload(op, old) == Domain.rebind \o Encode(Framed(WriteActorId), op[1]) \o old \o op[2]

\* subactor_leaf_data.
LeafData(id, control) == Domain.leaf \o Encode(Framed(WriteActorId), id) \o control

\* did_state_key and actor_state_key.
DidStateKey(id) == <<209>> \o Encode(WriteDidId, id)

ActorStateKey(id) == <<161>> \o Encode(WriteActorId, id)
=============================================================================
