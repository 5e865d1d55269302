--------------------------------- MODULE Codec ---------------------------------
(* The conversions between the application's types and the protobuf messages    *)
(* they are sent and stored as (ProtobufCodec and the Protobuf implementations  *)
(* of the types).  XProto encodes, XFromProto decodes.                          *)
(*                                                                              *)
(* A protobuf message is a record of its fields.  A field that holds a message  *)
(* or is declared optional may be Absent; bytes of a wrong length for what they *)
(* stand for are Malformed; a decoder that returns an error yields Failed, one  *)
(* that panics instead yields Panicked.                                         *)
(* Scalars (heights, sequence numbers, ids) are kept as they are.               *)
(*                                                                              *)
(* A round is Nil only where it is optional, as the valid round of a proposal;  *)
(* the encoders panic on a Nil round elsewhere, and consensus has a round       *)
(* before it sends anything.  No vote has an extension (ExtendVote is answered  *)
(* with None); the encoders of votes would leave it out.                        *)
EXTENDS Naturals, SequencesExt

CONSTANTS
  Absent, Malformed, Failed, Panicked, Nil,
  Addresses,
  MaxHeight, MaxRound   \* bounds on heights and rounds

Rounds == 0..MaxRound
Hash(data) == [hash |-> data]
Value(data) == [value |-> Hash(data), extensions |-> data]    \* Value::new

Whole(result, parts) == IF Failed \in parts THEN Failed ELSE result

(* Round::as_u32 and Round::from, on an optional field.                         *)
AsU32(round) == IF round = Nil THEN Absent ELSE round
RoundFromOrZero(field) == IF field = Absent THEN 0 ELSE field     \* mutant: unwrap_or_default
RoundFrom(field) == IF field = Absent THEN Nil ELSE field

AddressUnchecked(p) == p     \* mutant: the length is not checked
AddressFromProto(p) == IF p \in Addresses THEN p ELSE Failed
SignatureFromProto(p) == IF p \in {Absent, Malformed} THEN Failed ELSE p

(* The id of a value travels with its data; decoding does not hash it again.    *)
ValueProto(v) == [value |-> v.value, extensions |-> v.extensions]
ValueFromProto(p) == IF p = Absent THEN Failed
                     ELSE [value |-> p.value, extensions |-> p.extensions]

-------------------------------------------------------------------------------
(* Votes, proposals and proposal parts.  The bytes that are signed are those of *)
(* the protobuf message.                                                        *)

VoteProto(v) ==
  [vote_type |-> IF v.typ = "precommit" THEN 1 ELSE 0,
   height |-> v.height, round |-> v.round,
   value |-> IF v.value = Nil THEN Absent ELSE v.value,
   validator_address |-> v.validator_address]
VoteFromProto(p) ==
  LET address == AddressFromProto(p.validator_address) IN
  Whole([typ |-> IF p.vote_type = 1 THEN "precommit" ELSE "prevote",
         height |-> p.height, round |-> p.round,
         value |-> IF p.value = Absent THEN Nil ELSE p.value,
         validator_address |-> address], {address})

ProposalProto(v) ==
  [height |-> v.height, round |-> v.round, value |-> ValueProto(v.value),
   pol_round |-> AsU32(v.pol_round), validator_address |-> v.validator_address]
ProposalFromProto(p) ==
  LET value == ValueFromProto(p.value)
      address == AddressFromProto(p.validator_address)
  IN  Whole([height |-> p.height, round |-> p.round, value |-> value,
             pol_round |-> RoundFrom(p.pol_round), validator_address |-> address],
            {value, address})

PartProto(part) ==
  CASE part.type = "init" ->
         [init |-> [height |-> part.height, round |-> part.round, proposer |-> part.proposer]]
    [] part.type = "data" -> [data |-> [bytes |-> part.bytes]]
    [] part.type = "fin" -> [fin |-> [signature |-> part.signature]]
PartFromProto(p) ==
  CASE DOMAIN p = {"init"} ->
         LET proposer == AddressFromProto(p.init.proposer) IN
         Whole([type |-> "init", height |-> p.init.height, round |-> p.init.round,
                proposer |-> proposer], {proposer})
    [] DOMAIN p = {"data"} -> [type |-> "data", bytes |-> p.data.bytes]
    [] DOMAIN p = {"fin"} ->
         LET signature == SignatureFromProto(p.fin.signature) IN
         Whole([type |-> "fin", signature |-> signature], {signature})
    [] OTHER -> Failed

-------------------------------------------------------------------------------
(* Messages between nodes and rows of the store.                                *)

(* SignedConsensusMsg: a signed vote or a signed proposal.                      *)
SignedVoteProto(m) == [message |-> [vote |-> VoteProto(m.vote)], signature |-> m.signature]
SignedMessageProto(m) ==
  IF "vote" \in DOMAIN m THEN SignedVoteProto(m)
  ELSE [message |-> [proposal |-> ProposalProto(m.proposal)], signature |-> m.signature]
SignedMessageFromProto(p) ==
  LET signature == SignatureFromProto(p.signature) IN
  IF p.message = Absent THEN Failed
  ELSE IF "vote" \in DOMAIN p.message
  THEN LET vote == VoteFromProto(p.message.vote) IN
       Whole([vote |-> vote, signature |-> signature], {vote, signature})
  ELSE LET proposal == ProposalFromProto(p.message.proposal) IN
       Whole([proposal |-> proposal, signature |-> signature], {proposal, signature})

StreamMessageProto(m) ==
  [stream_id |-> m.stream_id, sequence |-> m.sequence,
   content |-> IF m.content.type = "end" THEN [fin |-> TRUE] ELSE [data |-> PartProto(m.content)]]
StreamMessageFromProto(p) ==
  LET content == IF p.content = Absent THEN Failed
                 ELSE IF "fin" \in DOMAIN p.content THEN [type |-> "end"]
                 ELSE PartFromProto(p.content.data)
  IN  Whole([stream_id |-> p.stream_id, sequence |-> p.sequence, content |-> content], {content})

ProposedValueProto(v) ==
  [height |-> v.height, round |-> v.round, valid_round |-> AsU32(v.valid_round),
   proposer |-> v.proposer, value |-> ValueProto(v.value), validity |-> v.validity]
ProposedValueFromProto(p) ==
  LET proposer == AddressFromProto(p.proposer)
      value == ValueFromProto(p.value)
  IN  Whole([height |-> p.height, round |-> p.round, valid_round |-> RoundFrom(p.valid_round),
             proposer |-> proposer, value |-> value, validity |-> p.validity], {proposer, value})

StatusProto(s) == [peer_id |-> s.peer_id, height |-> s.height,
                   earliest_height |-> s.history_min_height]
PeerIdFromBytes(field) == IF field = Malformed THEN Panicked ELSE field    \* unwrap()
StatusFromProto(p) ==
  IF p.peer_id = Absent THEN Failed
  ELSE IF PeerIdFromBytes(p.peer_id) = Panicked THEN Panicked
  ELSE [peer_id |-> p.peer_id, height |-> p.height, history_min_height |-> p.earliest_height]

RequestProto(r) == [request |-> IF r.type = "value" THEN [value_request |-> [height |-> r.height]]
                    ELSE [vote_set_request |-> [height |-> r.height, round |-> r.round]]]
RequestFromProto(p) ==
  IF p.request = Absent THEN Failed
  ELSE IF "value_request" \in DOMAIN p.request
  THEN [type |-> "value", height |-> p.request.value_request.height]
  ELSE [type |-> "vote_set", height |-> p.request.vote_set_request.height,
        round |-> p.request.vote_set_request.round]

(* A certificate with one signature that cannot be decoded is refused ...       *)
CommitSignatureFromProto(s) ==
  LET signature == SignatureFromProto(s.signature)
      address == AddressFromProto(s.validator_address)
  IN  Whole([address |-> address, signature |-> signature], {address, signature})
CertificateProto(c) ==
  [height |-> c.height, round |-> c.round, value_id |-> c.value_id,
   aggregated_signature |-> [i \in DOMAIN c.signatures |->
     [validator_address |-> c.signatures[i].address, signature |-> c.signatures[i].signature]]]
CertificateFromProto(p) ==
  IF Absent \in {p.value_id, p.aggregated_signature} THEN Failed
  ELSE LET signatures == [i \in DOMAIN p.aggregated_signature |->
                            CommitSignatureFromProto(p.aggregated_signature[i])]
       IN  Whole([height |-> p.height, round |-> p.round, value_id |-> p.value_id,
                  signatures |-> signatures], Range(signatures))

(* ... while the votes of a set that cannot be decoded are left out.            *)
SignedVoteFromProto(p) ==
  IF p.message # Absent /\ "vote" \in DOMAIN p.message THEN SignedMessageFromProto(p) ELSE Failed
VoteSetProto(votes) == [i \in DOMAIN votes |-> SignedVoteProto(votes[i])]
WithDecoded(votes, vote) == IF vote = Failed THEN votes ELSE Append(votes, vote)
VoteSetFromProto(protos) ==
  LET decoded[n \in 0..Len(protos)] ==    \* of the first n votes
        IF n = 0 THEN <<>> ELSE WithDecoded(decoded[n - 1], SignedVoteFromProto(protos[n]))
  IN  decoded[Len(protos)]

SyncedValueProto(v) ==
  [value_bytes |-> v.value_bytes, certificate |-> CertificateProto(v.certificate)]
SyncedValueFromProto(p) ==
  LET certificate == IF p.certificate = Absent THEN Failed
                     ELSE CertificateFromProto(p.certificate)
  IN  Whole([value_bytes |-> p.value_bytes, certificate |-> certificate], {certificate})

ResponseProto(r) ==
  IF r.type = "value"
  THEN [value_response |-> [height |-> r.height,
          value |-> IF r.value = Absent THEN Absent ELSE SyncedValueProto(r.value)]]
  ELSE [vote_set_response |-> [height |-> r.height, round |-> r.round,
          vote_set |-> VoteSetProto(r.vote_set)]]
ResponseFromProto(p) ==
  IF p = Absent THEN Failed
  ELSE IF "value_response" \in DOMAIN p
  THEN LET value == IF p.value_response.value = Absent THEN Absent
                    ELSE SyncedValueFromProto(p.value_response.value)
       IN  Whole([type |-> "value", height |-> p.value_response.height, value |-> value], {value})
  ELSE IF p.vote_set_response.vote_set = Absent THEN Failed
  ELSE [type |-> "vote_set", height |-> p.vote_set_response.height,
        round |-> p.vote_set_response.round,
        vote_set |-> VoteSetFromProto(p.vote_set_response.vote_set)]

-------------------------------------------------------------------------------
(* Signatures (Ed25519Provider), and what verify_commit_signature checks one    *)
(* against: the precommit it rebuilds from the certificate.                     *)

Sign(address, bytes) == [signer |-> address, bytes |-> bytes]
Verifies(address, bytes, signature) == signature = Sign(address, bytes)

Precommit(height, round, value_id, address) ==
  [typ |-> "precommit", height |-> height, round |-> round, value |-> value_id,
   validator_address |-> address]
CommitSignatureOfRoundZero(certificate, commit_sig) ==    \* mutant: round left out
  Verifies(commit_sig.address,
           VoteProto(Precommit(certificate.height, 0, certificate.value_id, commit_sig.address)),
           commit_sig.signature)
CommitSignatureVerifies(certificate, commit_sig) ==
  Verifies(commit_sig.address,
           VoteProto(Precommit(certificate.height, certificate.round, certificate.value_id,
                               commit_sig.address)),
           commit_sig.signature)
===============================================================================
