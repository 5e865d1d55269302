--------------------------------- MODULE Wire ----------------------------------
(* A message of one node on its way to another, or to its own store and back:   *)
(* encoded, possibly damaged, decoded (the uses of module Codec).  Damage is    *)
(* one field that is missing or has bytes of a wrong length, the cases the      *)
(* decoders have an error, or an unwrap(), for.                                 *)
EXTENDS Codec

CONSTANTS
  Contents,         \* contents of blocks and of data parts
  Streams, Peers    \* stream ids and peer ids

VARIABLES
  sent,      \* the message, [kind, body]
  damage,    \* whether it was damaged as a whole, or which vote of a vote set
  wire,      \* its encoding
  received   \* what it was decoded to

wireVars == <<sent, damage, wire, received>>

-------------------------------------------------------------------------------
(* The messages this program makes.                                             *)

Heights == 1..MaxHeight
SentValues == {Value(d) : d \in Contents}
ValueIds == {Hash(d) : d \in Contents}

Votes == [typ : {"prevote", "precommit"}, height : Heights, round : Rounds,
          value : ValueIds \cup {Nil}, validator_address : Addresses]
SignedVote(v) == [vote |-> v, signature |-> Sign(v.validator_address, VoteProto(v))]
SignedVotes == {SignedVote(v) : v \in Votes}
Proposals == [height : Heights, round : Rounds, value : SentValues,
              pol_round : Rounds \cup {Nil}, validator_address : Addresses]
SignedProposal(v) == [proposal |-> v, signature |-> Sign(v.validator_address, ProposalProto(v))]
SignedProposals == {SignedProposal(v) : v \in Proposals}

FinSignatures == {Sign(a, d) : a \in Addresses, d \in Contents}
Parts == [type : {"init"}, height : Heights, round : Rounds, proposer : Addresses]
    \cup [type : {"data"}, bytes : Contents]
    \cup [type : {"fin"}, signature : FinSignatures]
StreamContents == Parts \cup {[type |-> "end"]}
StreamMessages == [stream_id : Streams, sequence : 0..3, content : StreamContents]

ProposedValues == [height : Heights, round : Rounds, valid_round : Rounds \cup {Nil},
                   proposer : Addresses, value : SentValues, validity : BOOLEAN]
Statuses == [peer_id : Peers, height : Heights, history_min_height : Heights]
Requests == [type : {"value"}, height : Heights]
       \cup [type : {"vote_set"}, height : Heights, round : Rounds]

(* A certificate with the precommits of two validators, and a set of two votes. *)
CommitSignaturesOf(h, r, id) ==
  {[address |-> a, signature |-> Sign(a, VoteProto(Precommit(h, r, id, a)))] : a \in Addresses}
CertificatesFor(h, r, id) ==
  [height : {h}, round : {r}, value_id : {id},
   signatures : {<<s1, s2>> : s1, s2 \in CommitSignaturesOf(h, r, id)}]
SentCertificates ==
  UNION {CertificatesFor(h, r, id) : h \in Heights, r \in Rounds, id \in ValueIds}
SentSyncedValues ==
  [value_bytes : {ValueProto(v) : v \in SentValues}, certificate : SentCertificates]
VoteSets == {<<SignedVote(v), SignedVote([v EXCEPT !.value = Nil])>> : v \in Votes}
Responses ==
  [type : {"value"}, height : Heights, value : SentSyncedValues \cup {Absent}]
  \cup [type : {"vote_set"}, height : Heights, round : Rounds, vote_set : VoteSets]

Message(kind, body) == [kind |-> kind, body |-> body]
Messages ==
  UNION {{Message("consensus", m) : m \in SignedVotes \cup SignedProposals},
         {Message("stream", m) : m \in StreamMessages},
         {Message("proposed_value", v) : v \in ProposedValues},
         {Message("status", s) : s \in Statuses},
         {Message("request", r) : r \in Requests},
         {Message("response", r) : r \in Responses}}

-------------------------------------------------------------------------------
(* ProtobufCodec, by the type of the message.                                   *)

Encoded(m) ==
  CASE m.kind = "consensus" -> SignedMessageProto(m.body)
    [] m.kind = "stream" -> StreamMessageProto(m.body)
    [] m.kind = "proposed_value" -> ProposedValueProto(m.body)
    [] m.kind = "status" -> StatusProto(m.body)
    [] m.kind = "request" -> RequestProto(m.body)
    [] m.kind = "response" -> ResponseProto(m.body)

Decoded(kind, p) ==
  CASE kind = "consensus" -> SignedMessageFromProto(p)
    [] kind = "stream" -> StreamMessageFromProto(p)
    [] kind = "proposed_value" -> ProposedValueFromProto(p)
    [] kind = "status" -> StatusFromProto(p)
    [] kind = "request" -> RequestFromProto(p)
    [] kind = "response" -> ResponseFromProto(p)

-------------------------------------------------------------------------------
(* The encodings with one field that is required damaged.                       *)

Bad == {Absent, Malformed}

DamagedSigned(p) ==
  {[p EXCEPT !.signature = b] : b \in Bad} \cup {[p EXCEPT !.message = Absent]}
  \cup (IF "vote" \in DOMAIN p.message
        THEN {[p EXCEPT !.message.vote.validator_address = b] : b \in Bad}
        ELSE {[p EXCEPT !.message.proposal.validator_address = b] : b \in Bad}
             \cup {[p EXCEPT !.message.proposal.value = Absent]})

DamagedStream(p) ==
  {[p EXCEPT !.content = Absent]}
  \cup IF "fin" \in DOMAIN p.content THEN {}
       ELSE {[p EXCEPT !.content.data = [part |-> Absent]]}
            \cup (IF "init" \in DOMAIN p.content.data
                  THEN {[p EXCEPT !.content.data.init.proposer = b] : b \in Bad} ELSE {})
            \cup (IF "fin" \in DOMAIN p.content.data
                  THEN {[p EXCEPT !.content.data.fin.signature = b] : b \in Bad} ELSE {})

DamagedCertificate(c) ==
  {[c EXCEPT !.value_id = Absent], [c EXCEPT !.aggregated_signature = Absent]}
  \cup {[c EXCEPT !.aggregated_signature[i].signature = b] :
          i \in DOMAIN c.aggregated_signature, b \in Bad}
  \cup {[c EXCEPT !.aggregated_signature[i].validator_address = b] :
          i \in DOMAIN c.aggregated_signature, b \in Bad}

DamagedSyncedValue(p) ==
  {[p EXCEPT !.certificate = c] : c \in {Absent} \cup DamagedCertificate(p.certificate)}

DamagedResponse(p) ==
  {Absent} \cup
  IF "vote_set_response" \in DOMAIN p THEN {[p EXCEPT !.vote_set_response.vote_set = Absent]}
  ELSE IF p.value_response.value = Absent THEN {}
  ELSE {[p EXCEPT !.value_response.value = v] : v \in DamagedSyncedValue(p.value_response.value)}

DamagedVotes(p, i) == {[p EXCEPT ![i] = v] : v \in DamagedSigned(p[i])}
WithDamagedVote(p, i) ==
  {[p EXCEPT !.vote_set_response.vote_set = votes] :
     votes \in DamagedVotes(p.vote_set_response.vote_set, i)}

Damaged(kind, p) ==
  CASE kind = "consensus" -> DamagedSigned(p)
    [] kind = "stream" -> DamagedStream(p)
    [] kind = "proposed_value" ->
         {[p EXCEPT !.proposer = b] : b \in Bad} \cup {[p EXCEPT !.value = Absent]}
    [] kind = "status" -> {[p EXCEPT !.peer_id = b] : b \in Bad}
    [] kind = "request" -> {[p EXCEPT !.request = Absent]}
    [] kind = "response" -> DamagedResponse(p)

-------------------------------------------------------------------------------
(* Marks and data are told apart: by type in the code, by value here.  Absent   *)
(* marks a field that is missing, Failed a conversion with an error, Panicked   *)
(* one that does not return.                                                    *)

SentSignatures ==
  {Sign(a, VoteProto(v)) : a \in Addresses, v \in Votes}
  \cup {Sign(a, ProposalProto(v)) : a \in Addresses, v \in Proposals} \cup FinSignatures

IsField(x) ==
  \/ x \in Rounds \/ x \in ValueIds \/ x \in SentValues
  \/ \E m \in SignedVotes \cup SignedProposals : x = SignedMessageProto(m).message
  \/ \E m \in StreamMessages : x = StreamMessageProto(m).content
  \/ \E r \in Requests : x = RequestProto(r).request
  \/ \E c \in SentCertificates :
       x \in {CertificateProto(c), CertificateProto(c).aggregated_signature}
  \/ \E v \in SentSyncedValues :
       x \in {v, SyncedValueProto(v)} \/ x \in DamagedSyncedValue(SyncedValueProto(v))
  \/ \E votes \in VoteSets :
       x = VoteSetProto(votes) \/ \E i \in 1..2 : x \in DamagedVotes(VoteSetProto(votes), i)
  \/ \E r \in Responses :
       \/ x = ResponseProto(r)
       \/ r.type = "vote_set" /\ \E i \in 1..2 : x \in WithDamagedVote(ResponseProto(r), i)

IsDecoding(x) ==
  \/ x \in SentValues \/ x \in Votes \/ x \in Proposals \/ x \in SignedVotes
  \/ x \in StreamContents
  \/ \E h \in Heights, r \in Rounds, id \in ValueIds : x \in CommitSignaturesOf(h, r, id)
  \/ x \in SentCertificates \/ x \in SentSyncedValues

MarksApart ==
  /\ \A mark \in {Absent, Malformed, Failed, Panicked} :
       mark \notin Addresses /\ mark \notin Peers /\ mark \notin SentSignatures
  /\ ~IsField(Absent) /\ ~IsDecoding(Failed)
  /\ Absent \notin {Malformed, Failed} /\ Panicked # Failed

ASSUME ApartAssumption == MarksApart

-------------------------------------------------------------------------------
NoDamage == [whole |-> FALSE, vote |-> 0]

WireInit ==
  /\ sent \in Messages
  /\ damage = NoDamage
  /\ wire = Encoded(sent)
  /\ received = Absent

Damage ==
  /\ damage = NoDamage /\ received = Absent
  /\ damage' = [NoDamage EXCEPT !.whole = TRUE]
  /\ wire' \in Damaged(sent.kind, wire)
  /\ UNCHANGED <<sent, received>>

DamageVote(i) ==
  /\ damage = NoDamage /\ received = Absent
  /\ sent.kind = "response" /\ sent.body.type = "vote_set"
  /\ damage' = [NoDamage EXCEPT !.vote = i]
  /\ wire' \in WithDamagedVote(wire, i)
  /\ UNCHANGED <<sent, received>>

Receive ==
  /\ received = Absent
  /\ received' = Decoded(sent.kind, wire)
  /\ UNCHANGED <<sent, damage, wire>>

WireNext == Damage \/ (\E i \in 1..2 : DamageVote(i)) \/ Receive

WireSpec == WireInit /\ [][WireNext]_wireVars

-------------------------------------------------------------------------------
(* Properties.                                                                  *)

(* A message arrives exactly as it was sent: a Nil round or vote stays Nil, a   *)
(* value keeps the id it was voted on with, a part keeps its place.             *)
ReceivedAsSent == damage = NoDamage /\ received # Absent => received = sent.body

(* The one message that is not refused but ends the task that decodes it: a     *)
(* status whose peer id is there and not a peer id (codec/proto/mod.rs:205).    *)
PeerUnreadable == sent.kind = "status" /\ wire.peer_id = Malformed

(* A message that lacks something is refused with an error as a whole and never *)
(* completed with a default, with two exceptions: a set of votes only loses the *)
(* vote concerned (filter_map in decode_vote_set), and a status whose peer id   *)
(* cannot be read makes its decoder panic, which no other message does.         *)
DamagedRefused ==
  received # Absent =>
    /\ damage.whole => received = (IF PeerUnreadable THEN Panicked ELSE Failed)
    /\ damage.vote # 0 => received = [sent.body EXCEPT !.vote_set = RemoveAt(@, damage.vote)]
===============================================================================
