------------------------------ MODULE WireProofs -------------------------------
(* Every message the program makes arrives as it was sent, and one that is      *)
(* damaged is refused, proved for all contents, addresses, heights and rounds.  *)
EXTENDS Wire, TLAPS, SequenceTheorems

-------------------------------------------------------------------------------
(* Fields, encoded and decoded.                                                 *)

(* An address arrives, ...                                                      *)
LEMMA AddressArrives ==
  ASSUME MarksApart, NEW a \in Addresses
  PROVE  AddressFromProto(a) = a /\ a # Failed
BY DEF MarksApart, AddressFromProto

(* ... and so does a signature, ...                                             *)
LEMMA SignatureArrives ==
  ASSUME MarksApart, NEW s \in SentSignatures
  PROVE  SignatureFromProto(s) = s /\ s # Failed
BY DEF MarksApart, SignatureFromProto

(* ... unless it is missing or malformed.                                       *)
LEMMA BadRefused ==
  ASSUME MarksApart, NEW b \in Bad
  PROVE  AddressFromProto(b) = Failed /\ SignatureFromProto(b) = Failed
BY DEF MarksApart, AddressFromProto, SignatureFromProto, Bad

(* A value arrives with the id it came with; a missing one is refused.          *)
LEMMA ValueArrives ==
  ASSUME MarksApart, NEW v \in SentValues
  PROVE  ValueProto(v) = v /\ ValueFromProto(v) = v /\ v # Failed
<1>1. v = [value |-> v.value, extensions |-> v.extensions]
  BY DEF SentValues, Value
<1>2. v # Absent /\ v # Failed
  BY DEF MarksApart, IsField, IsDecoding
<1> QED BY <1>1, <1>2 DEF ValueProto, ValueFromProto

(* A round that may be Nil stays what it is.                                    *)
LEMMA RoundArrives ==
  ASSUME MarksApart, NEW r \in Rounds \cup {Nil}
  PROVE  RoundFrom(AsU32(r)) = r
<1>1. r # Nil => r # Absent
  BY DEF MarksApart, IsField
<1> QED BY <1>1 DEF RoundFrom, AsU32

-------------------------------------------------------------------------------
(* Votes and proposals.                                                         *)

(* A vote arrives, for a value or for nil.                                      *)
LEMMA VoteArrives ==
  ASSUME MarksApart, NEW v \in Votes
  PROVE  VoteFromProto(VoteProto(v)) = v /\ v # Failed
<1>1. PICK p : p = VoteProto(v)
  OBVIOUS
<1>2. p = [vote_type |-> IF v.typ = "precommit" THEN 1 ELSE 0,
           height |-> v.height, round |-> v.round,
           value |-> IF v.value = Nil THEN Absent ELSE v.value,
           validator_address |-> v.validator_address]
  BY <1>1 DEF VoteProto
<1>3. v = [typ |-> v.typ, height |-> v.height, round |-> v.round, value |-> v.value,
           validator_address |-> v.validator_address]
      /\ v.typ \in {"prevote", "precommit"} /\ v.value \in ValueIds \cup {Nil}
      /\ v.validator_address \in Addresses
  BY DEF Votes
<1>4. AddressFromProto(p.validator_address) = v.validator_address
      /\ v.validator_address # Failed
  BY <1>2, <1>3, AddressArrives
<1>5. (IF p.value = Absent THEN Nil ELSE p.value) = v.value
  <2>1. v.value # Nil => v.value # Absent
    BY <1>3 DEF MarksApart, IsField
  <2> QED BY <1>2, <2>1
<1>6. (IF p.vote_type = 1 THEN "precommit" ELSE "prevote") = v.typ
  BY <1>2, <1>3
<1>7. v # Failed
  BY DEF MarksApart, IsDecoding
<1> QED BY <1>1, <1>2, <1>3, <1>4, <1>5, <1>6, <1>7 DEF VoteFromProto, Whole

(* A proposal arrives, with its proof-of-lock round or without.                 *)
LEMMA ProposalArrives ==
  ASSUME MarksApart, NEW v \in Proposals
  PROVE  ProposalFromProto(ProposalProto(v)) = v /\ v # Failed
<1>1. PICK p : p = ProposalProto(v)
  OBVIOUS
<1>2. v = [height |-> v.height, round |-> v.round, value |-> v.value,
           pol_round |-> v.pol_round, validator_address |-> v.validator_address]
      /\ v.value \in SentValues /\ v.pol_round \in Rounds \cup {Nil}
      /\ v.validator_address \in Addresses
  BY DEF Proposals
<1>3. p = [height |-> v.height, round |-> v.round, value |-> v.value,
           pol_round |-> AsU32(v.pol_round), validator_address |-> v.validator_address]
  BY <1>1, <1>2, ValueArrives DEF ProposalProto
<1>4. ValueFromProto(p.value) = v.value /\ v.value # Failed
  BY <1>2, <1>3, ValueArrives
<1>5. RoundFrom(p.pol_round) = v.pol_round
  BY <1>2, <1>3, RoundArrives
<1>6. AddressFromProto(p.validator_address) = v.validator_address
      /\ v.validator_address # Failed
  BY <1>2, <1>3, AddressArrives
<1>7. v # Failed
  BY DEF MarksApart, IsDecoding
<1> QED BY <1>1, <1>2, <1>3, <1>4, <1>5, <1>6, <1>7 DEF ProposalFromProto, Whole

(* One without its validator is refused, or without its value.                  *)
LEMMA UnownedRefused ==
  ASSUME MarksApart, NEW p
  PROVE  /\ p.validator_address \in Bad => VoteFromProto(p) = Failed
         /\ p.validator_address \in Bad => ProposalFromProto(p) = Failed
         /\ p.value = Absent => ProposalFromProto(p) = Failed
BY BadRefused DEF VoteFromProto, ProposalFromProto, ValueFromProto, Whole

(* A signed vote is what it says, ...                                           *)
LEMMA SignedVoteFacts ==
  ASSUME MarksApart, NEW m \in SignedVotes
  PROVE  /\ m = [vote |-> m.vote, signature |-> m.signature]
         /\ m.vote \in Votes /\ m.signature \in SentSignatures
         /\ SignedMessageProto(m) = SignedVoteProto(m)
         /\ SignedVoteProto(m) = [message |-> [vote |-> VoteProto(m.vote)],
                                  signature |-> m.signature]
         /\ [vote |-> VoteProto(m.vote)] # Absent
<1>1. PICK v \in Votes : m = SignedVote(v)
  BY DEF SignedVotes
<1>2. PICK s : s = Sign(v.validator_address, VoteProto(v))
  OBVIOUS
<1>3. m = [vote |-> v, signature |-> s]
  BY <1>1, <1>2 DEF SignedVote
<1>4. s \in SentSignatures
  BY <1>2 DEF SentSignatures, Votes
<1>5. SignedVoteProto(m) = [message |-> [vote |-> VoteProto(v)], signature |-> s]
  BY <1>3 DEF SignedVoteProto
<1>6. SignedMessageProto(m) = SignedVoteProto(m)
  BY <1>3 DEF SignedMessageProto
<1>7. SignedMessageProto(m).message = [vote |-> VoteProto(v)]
  BY <1>5, <1>6
<1>8. [vote |-> VoteProto(v)] # Absent
  BY <1>7 DEF MarksApart, IsField
<1> QED BY <1>3, <1>4, <1>5, <1>6, <1>8

(* ... and so is a signed proposal.                                             *)
LEMMA SignedProposalFacts ==
  ASSUME MarksApart, NEW m \in SignedProposals
  PROVE  /\ m = [proposal |-> m.proposal, signature |-> m.signature]
         /\ m.proposal \in Proposals /\ m.signature \in SentSignatures
         /\ SignedMessageProto(m) = [message |-> [proposal |-> ProposalProto(m.proposal)],
                                     signature |-> m.signature]
         /\ [proposal |-> ProposalProto(m.proposal)] # Absent
<1>1. PICK v \in Proposals : m = SignedProposal(v)
  BY DEF SignedProposals
<1>2. PICK s : s = Sign(v.validator_address, ProposalProto(v))
  OBVIOUS
<1>3. m = [proposal |-> v, signature |-> s]
  BY <1>1, <1>2 DEF SignedProposal
<1>4. s \in SentSignatures
  BY <1>2 DEF SentSignatures, Proposals
<1>5. SignedMessageProto(m) = [message |-> [proposal |-> ProposalProto(v)], signature |-> s]
  BY <1>3 DEF SignedMessageProto
<1>6. SignedMessageProto(m).message = [proposal |-> ProposalProto(v)]
  BY <1>5
<1>7. [proposal |-> ProposalProto(v)] # Absent
  BY <1>6 DEF MarksApart, IsField
<1> QED BY <1>3, <1>4, <1>5, <1>7

(* A signed vote arrives, by itself and in a set, ...                           *)
LEMMA SignedVoteArrives ==
  ASSUME MarksApart, NEW m \in SignedVotes
  PROVE  /\ SignedMessageFromProto(SignedMessageProto(m)) = m
         /\ SignedVoteFromProto(SignedVoteProto(m)) = m /\ m # Failed
<1>1. PICK p : p = SignedVoteProto(m)
  OBVIOUS
<1>2. PICK e : e = [vote |-> VoteProto(m.vote)]
  OBVIOUS
<1>3. /\ m = [vote |-> m.vote, signature |-> m.signature]
      /\ m.vote \in Votes /\ m.signature \in SentSignatures
      /\ p = SignedMessageProto(m) /\ p = [message |-> e, signature |-> m.signature]
      /\ e # Absent
  BY <1>1, <1>2, SignedVoteFacts
<1>4. VoteFromProto(p.message.vote) = m.vote /\ m.vote # Failed
  BY <1>2, <1>3, VoteArrives
<1>5. SignatureFromProto(p.signature) = m.signature /\ m.signature # Failed
  BY <1>3, SignatureArrives
<1>6. p.message # Absent /\ "vote" \in DOMAIN p.message
  BY <1>2, <1>3
<1>7. SignedMessageFromProto(p) = m
  BY <1>3, <1>4, <1>5, <1>6 DEF SignedMessageFromProto, Whole
<1>8. m # Failed
  BY DEF MarksApart, IsDecoding
<1> QED BY <1>1, <1>3, <1>6, <1>7, <1>8 DEF SignedVoteFromProto

(* ... and a signed proposal by itself.                                         *)
LEMMA SignedProposalArrives ==
  ASSUME MarksApart, NEW m \in SignedProposals
  PROVE  SignedMessageFromProto(SignedMessageProto(m)) = m
<1>1. PICK p : p = SignedMessageProto(m)
  OBVIOUS
<1>2. PICK e : e = [proposal |-> ProposalProto(m.proposal)]
  OBVIOUS
<1>3. /\ m = [proposal |-> m.proposal, signature |-> m.signature]
      /\ m.proposal \in Proposals /\ m.signature \in SentSignatures
      /\ p = [message |-> e, signature |-> m.signature] /\ e # Absent
  BY <1>1, <1>2, SignedProposalFacts
<1>4. ProposalFromProto(p.message.proposal) = m.proposal /\ m.proposal # Failed
  BY <1>2, <1>3, ProposalArrives
<1>5. SignatureFromProto(p.signature) = m.signature /\ m.signature # Failed
  BY <1>3, SignatureArrives
<1>6. p.message # Absent /\ "vote" \notin DOMAIN p.message
  BY <1>2, <1>3
<1> QED BY <1>1, <1>3, <1>4, <1>5, <1>6 DEF SignedMessageFromProto, Whole

(* What a signed message cannot do without.                                     *)
Incomplete(q) ==
  \/ q.signature \in Bad \/ q.message = Absent
  \/ "vote" \in DOMAIN q.message /\ q.message.vote.validator_address \in Bad
  \/ /\ "vote" \notin DOMAIN q.message
     /\ \/ q.message.proposal.validator_address \in Bad
        \/ q.message.proposal.value = Absent

(* Without it, it is refused.                                                   *)
LEMMA IncompleteRefused ==
  ASSUME MarksApart, NEW q, Incomplete(q)
  PROVE  SignedMessageFromProto(q) = Failed /\ SignedVoteFromProto(q) = Failed
<1>1. CASE q.signature \in Bad
  BY <1>1, BadRefused DEF SignedMessageFromProto, SignedVoteFromProto, Whole
<1>2. CASE q.message = Absent
  BY <1>2 DEF SignedMessageFromProto, SignedVoteFromProto
<1>3. CASE "vote" \in DOMAIN q.message /\ q.message.vote.validator_address \in Bad
  <2>1. VoteFromProto(q.message.vote) = Failed
    BY <1>3, UnownedRefused
  <2> QED BY <1>3, <2>1 DEF SignedMessageFromProto, SignedVoteFromProto, Whole
<1>4. CASE /\ "vote" \notin DOMAIN q.message
           /\ \/ q.message.proposal.validator_address \in Bad
              \/ q.message.proposal.value = Absent
  <2>1. ProposalFromProto(q.message.proposal) = Failed
    BY <1>4, UnownedRefused
  <2> QED BY <1>4, <2>1 DEF SignedMessageFromProto, SignedVoteFromProto, Whole
<1> QED BY <1>1, <1>2, <1>3, <1>4 DEF Incomplete

(* A signed message with damage is without it.                                  *)
LEMMA DamagedIsIncomplete ==
  ASSUME MarksApart, NEW m \in SignedVotes \cup SignedProposals,
         NEW q \in DamagedSigned(SignedMessageProto(m))
  PROVE  Incomplete(q)
<1>1. PICK p : p = SignedMessageProto(m)
  OBVIOUS
<1>2. PICK s : s = m.signature
  OBVIOUS
<1>3. CASE m \in SignedVotes
  <2>1. PICK e : e = VoteProto(m.vote)
    OBVIOUS
  <2>2. p = [message |-> [vote |-> e], signature |-> s]
    BY <1>1, <1>2, <1>3, <2>1, SignedVoteFacts
  <2>3. "vote" \in DOMAIN p.message
    BY <2>2
  <2>4. "validator_address" \in DOMAIN e
    BY <2>1 DEF VoteProto
  <2>5. \/ \E b \in Bad : q = [p EXCEPT !.signature = b]
        \/ q = [p EXCEPT !.message = Absent]
        \/ \E b \in Bad : q = [p EXCEPT !.message.vote.validator_address = b]
    BY <1>1, <2>3 DEF DamagedSigned
  <2>6. ASSUME NEW b \in Bad, q = [p EXCEPT !.message.vote.validator_address = b]
        PROVE  Incomplete(q)
    <3>1. PICK d : d = [e EXCEPT !.validator_address = b]
      OBVIOUS
    <3>2. q = [message |-> [vote |-> d], signature |-> s]
      BY <2>2, <2>6, <3>1
    <3>3. d.validator_address = b
      BY <2>4, <3>1
    <3> QED BY <3>2, <3>3 DEF Incomplete
  <2> QED BY <2>2, <2>5, <2>6 DEF Incomplete
<1>4. CASE m \in SignedProposals
  <2>1. PICK e : e = ProposalProto(m.proposal)
    OBVIOUS
  <2>2. p = [message |-> [proposal |-> e], signature |-> s]
    BY <1>1, <1>2, <1>4, <2>1, SignedProposalFacts
  <2>3. "vote" \notin DOMAIN p.message
    BY <2>2
  <2>4. "validator_address" \in DOMAIN e /\ "value" \in DOMAIN e
    BY <2>1 DEF ProposalProto
  <2>5. \/ \E b \in Bad : q = [p EXCEPT !.signature = b]
        \/ q = [p EXCEPT !.message = Absent]
        \/ \E b \in Bad : q = [p EXCEPT !.message.proposal.validator_address = b]
        \/ q = [p EXCEPT !.message.proposal.value = Absent]
    BY <1>1, <2>3 DEF DamagedSigned
  <2>6. ASSUME NEW b \in Bad, q = [p EXCEPT !.message.proposal.validator_address = b]
        PROVE  Incomplete(q)
    <3>1. PICK d : d = [e EXCEPT !.validator_address = b]
      OBVIOUS
    <3>2. q = [message |-> [proposal |-> d], signature |-> s]
      BY <2>2, <2>6, <3>1
    <3>3. d.validator_address = b
      BY <2>4, <3>1
    <3> QED BY <3>2, <3>3 DEF Incomplete
  <2>7. ASSUME q = [p EXCEPT !.message.proposal.value = Absent]
        PROVE  Incomplete(q)
    <3>1. PICK d : d = [e EXCEPT !.value = Absent]
      OBVIOUS
    <3>2. q = [message |-> [proposal |-> d], signature |-> s]
      BY <2>2, <2>7, <3>1
    <3>3. d.value = Absent
      BY <2>4, <3>1
    <3> QED BY <3>2, <3>3 DEF Incomplete
  <2> QED BY <2>2, <2>5, <2>6, <2>7 DEF Incomplete
<1> QED BY <1>3, <1>4

-------------------------------------------------------------------------------
(* Parts of a stream.                                                           *)

(* A part arrives, whichever it is, ...                                         *)
LEMMA PartArrives ==
  ASSUME MarksApart, NEW part \in Parts
  PROVE  PartFromProto(PartProto(part)) = part
<1>1. CASE part \in [type : {"init"}, height : Heights, round : Rounds, proposer : Addresses]
  <2>1. part = [type |-> "init", height |-> part.height, round |-> part.round,
                proposer |-> part.proposer] /\ part.proposer \in Addresses
    BY <1>1
  <2>2. PICK e : e = [height |-> part.height, round |-> part.round, proposer |-> part.proposer]
    OBVIOUS
  <2>3. PICK p : p = [init |-> e]
    OBVIOUS
  <2>4. PartProto(part) = p
    BY <2>1, <2>2, <2>3 DEF PartProto
  <2>5. DOMAIN p = {"init"} /\ p.init = e
    BY <2>3
  <2>6. AddressFromProto(e.proposer) = part.proposer /\ part.proposer # Failed
    BY <2>1, <2>2, AddressArrives
  <2> QED BY <2>1, <2>2, <2>4, <2>5, <2>6 DEF PartFromProto, Whole
<1>2. CASE part \in [type : {"data"}, bytes : Contents]
  <2>1. part = [type |-> "data", bytes |-> part.bytes]
    BY <1>2
  <2>2. PICK e : e = [bytes |-> part.bytes]
    OBVIOUS
  <2>3. PICK p : p = [data |-> e]
    OBVIOUS
  <2>4. PartProto(part) = p
    BY <2>1, <2>2, <2>3 DEF PartProto
  <2>5. DOMAIN p = {"data"} /\ p.data = e
    BY <2>3
  <2> QED BY <2>1, <2>2, <2>4, <2>5 DEF PartFromProto
<1>3. CASE part \in [type : {"fin"}, signature : FinSignatures]
  <2>1. part = [type |-> "fin", signature |-> part.signature] /\ part.signature \in SentSignatures
    BY <1>3 DEF SentSignatures
  <2>2. PICK e : e = [signature |-> part.signature]
    OBVIOUS
  <2>3. PICK p : p = [fin |-> e]
    OBVIOUS
  <2>4. PartProto(part) = p
    BY <2>1, <2>2, <2>3 DEF PartProto
  <2>5. DOMAIN p = {"fin"} /\ p.fin = e
    BY <2>3
  <2>6. SignatureFromProto(e.signature) = part.signature /\ part.signature # Failed
    BY <2>1, <2>2, SignatureArrives
  <2> QED BY <2>1, <2>2, <2>4, <2>5, <2>6 DEF PartFromProto, Whole
<1> QED BY <1>1, <1>2, <1>3 DEF Parts

(* ... in its place in its stream.                                              *)
LEMMA StreamMessageArrives ==
  ASSUME MarksApart, NEW m \in StreamMessages
  PROVE  StreamMessageFromProto(StreamMessageProto(m)) = m
<1>1. m = [stream_id |-> m.stream_id, sequence |-> m.sequence, content |-> m.content]
      /\ m.content \in StreamContents /\ m.content # Failed
  BY DEF StreamMessages, MarksApart, IsDecoding
<1>2. PICK content : content = m.content
  OBVIOUS
<1>3. PICK e : e = IF content.type = "end" THEN [fin |-> TRUE] ELSE [data |-> PartProto(content)]
  OBVIOUS
<1>4. PICK p : p = [stream_id |-> m.stream_id, sequence |-> m.sequence, content |-> e]
  OBVIOUS
<1>5. StreamMessageProto(m) = p
  BY <1>2, <1>3, <1>4 DEF StreamMessageProto
<1>6. e # Absent
  <2>1. StreamMessageProto(m).content = e
    BY <1>4, <1>5
  <2> QED BY <2>1 DEF MarksApart, IsField
<1>7. (IF "fin" \in DOMAIN e THEN [type |-> "end"] ELSE PartFromProto(e.data)) = content
  <2>1. CASE content \in Parts
    <3>1. content.type # "end"
      BY <2>1 DEF Parts
    <3>2. "fin" \notin DOMAIN e /\ e.data = PartProto(content)
      BY <1>3, <3>1
    <3> QED BY <2>1, <3>2, PartArrives
  <2>2. CASE content = [type |-> "end"]
    BY <1>3, <2>2
  <2> QED BY <1>1, <1>2, <2>1, <2>2 DEF StreamContents
<1>8. (IF p.content = Absent THEN Failed
       ELSE IF "fin" \in DOMAIN p.content THEN [type |-> "end"]
       ELSE PartFromProto(p.content.data)) = content
  BY <1>4, <1>6, <1>7
<1>9. p.stream_id = m.stream_id /\ p.sequence = m.sequence
  BY <1>4
<1> QED BY <1>1, <1>2, <1>5, <1>8, <1>9 DEF StreamMessageFromProto, Whole

(* A stream message without its content or with a part that is none is refused. *)
LEMMA EmptyStreamRefused ==
  ASSUME NEW q, q.content = Absent \/ /\ "fin" \notin DOMAIN q.content
                                      /\ PartFromProto(q.content.data) = Failed
  PROVE  StreamMessageFromProto(q) = Failed
BY DEF StreamMessageFromProto, Whole

(* So it is with damage.                                                        *)
LEMMA DamagedStreamRefused ==
  ASSUME MarksApart, NEW m \in StreamMessages, NEW q \in DamagedStream(StreamMessageProto(m))
  PROVE  StreamMessageFromProto(q) = Failed
<1>1. PICK c : c = m.content
  OBVIOUS
<1>2. c \in StreamContents
  BY <1>1 DEF StreamMessages
<1>3. PICK e : e = IF c.type = "end" THEN [fin |-> TRUE] ELSE [data |-> PartProto(c)]
  OBVIOUS
<1>4. PICK p : p = [stream_id |-> m.stream_id, sequence |-> m.sequence, content |-> e]
  OBVIOUS
<1>5. StreamMessageProto(m) = p
  BY <1>1, <1>3, <1>4 DEF StreamMessageProto
<1>6. \/ q = [p EXCEPT !.content = Absent]
      \/ "fin" \notin DOMAIN e /\ q = [p EXCEPT !.content.data = [part |-> Absent]]
      \/ /\ "fin" \notin DOMAIN e /\ "init" \in DOMAIN e.data
         /\ \E b \in Bad : q = [p EXCEPT !.content.data.init.proposer = b]
      \/ /\ "fin" \notin DOMAIN e /\ "fin" \in DOMAIN e.data
         /\ \E b \in Bad : q = [p EXCEPT !.content.data.fin.signature = b]
  BY <1>4, <1>5 DEF DamagedStream
<1>7. CASE q = [p EXCEPT !.content = Absent]
  <2>1. q.content = Absent
    BY <1>4, <1>7
  <2> QED BY <2>1, EmptyStreamRefused
<1>8. CASE "fin" \notin DOMAIN e
  <2>1. c \in Parts /\ e = [data |-> PartProto(c)]
    BY <1>2, <1>3, <1>8 DEF StreamContents
  <2>2. PICK d : d = PartProto(c)
    OBVIOUS
  <2>3. p = [stream_id |-> m.stream_id, sequence |-> m.sequence, content |-> [data |-> d]]
    BY <1>4, <2>1, <2>2
  <2>4. ASSUME NEW f, q = [stream_id |-> m.stream_id, sequence |-> m.sequence,
                           content |-> [data |-> f]],
               PartFromProto(f) = Failed
        PROVE  StreamMessageFromProto(q) = Failed
    BY <2>4, EmptyStreamRefused
  <2>5. CASE q = [p EXCEPT !.content.data = [part |-> Absent]]
    <3>1. PICK f : f = [part |-> Absent]
      OBVIOUS
    <3>2. q = [stream_id |-> m.stream_id, sequence |-> m.sequence, content |-> [data |-> f]]
      BY <2>3, <2>5, <3>1
    <3>3. PartFromProto(f) = Failed
      BY <3>1 DEF PartFromProto
    <3> QED BY <2>4, <3>2, <3>3
  <2>6. CASE "init" \in DOMAIN d /\ \E b \in Bad : q = [p EXCEPT !.content.data.init.proposer = b]
    <3>1. PICK b \in Bad : q = [p EXCEPT !.content.data.init.proposer = b]
      BY <2>6
    <3>2. PICK i : i = [height |-> c.height, round |-> c.round, proposer |-> c.proposer]
      OBVIOUS
    <3>3. d = [init |-> i]
      BY <2>1, <2>2, <2>6, <3>2 DEF PartProto, Parts
    <3>4. PICK j : j = [i EXCEPT !.proposer = b]
      OBVIOUS
    <3>5. PICK f : f = [init |-> j]
      OBVIOUS
    <3>6. q = [stream_id |-> m.stream_id, sequence |-> m.sequence, content |-> [data |-> f]]
      BY <2>3, <3>1, <3>3, <3>4, <3>5
    <3>7. AddressFromProto(f.init.proposer) = Failed /\ DOMAIN f = {"init"}
      BY <3>2, <3>4, <3>5, BadRefused
    <3>8. PartFromProto(f) = Failed
      BY <3>7 DEF PartFromProto, Whole
    <3> QED BY <2>4, <3>6, <3>8
  <2>7. CASE "fin" \in DOMAIN d /\ \E b \in Bad : q = [p EXCEPT !.content.data.fin.signature = b]
    <3>1. PICK b \in Bad : q = [p EXCEPT !.content.data.fin.signature = b]
      BY <2>7
    <3>2. PICK i : i = [signature |-> c.signature]
      OBVIOUS
    <3>3. d = [fin |-> i]
      BY <2>1, <2>2, <2>7, <3>2 DEF PartProto, Parts
    <3>4. PICK j : j = [i EXCEPT !.signature = b]
      OBVIOUS
    <3>5. PICK f : f = [fin |-> j]
      OBVIOUS
    <3>6. q = [stream_id |-> m.stream_id, sequence |-> m.sequence, content |-> [data |-> f]]
      BY <2>3, <3>1, <3>3, <3>4, <3>5
    <3>7. SignatureFromProto(f.fin.signature) = Failed /\ DOMAIN f = {"fin"}
      BY <3>2, <3>4, <3>5, BadRefused
    <3>8. PartFromProto(f) = Failed
      BY <3>7 DEF PartFromProto, Whole
    <3> QED BY <2>4, <3>6, <3>8
  <2>8. e.data = d
    BY <2>1, <2>2
  <2> QED BY <1>6, <1>7, <2>5, <2>6, <2>7, <2>8
<1> QED BY <1>6, <1>7, <1>8

-------------------------------------------------------------------------------
(* What is stored of proposals, statuses and requests.                          *)

(* A proposed value arrives.                                                    *)
LEMMA ProposedValueArrives ==
  ASSUME MarksApart, NEW v \in ProposedValues
  PROVE  ProposedValueFromProto(ProposedValueProto(v)) = v
<1>1. v = [height |-> v.height, round |-> v.round, valid_round |-> v.valid_round,
           proposer |-> v.proposer, value |-> v.value, validity |-> v.validity]
      /\ v.value \in SentValues /\ v.valid_round \in Rounds \cup {Nil} /\ v.proposer \in Addresses
  BY DEF ProposedValues
<1>2. PICK p : p = ProposedValueProto(v)
  OBVIOUS
<1>3. p = [height |-> v.height, round |-> v.round, valid_round |-> AsU32(v.valid_round),
           proposer |-> v.proposer, value |-> v.value, validity |-> v.validity]
  BY <1>1, <1>2, ValueArrives DEF ProposedValueProto
<1>4. AddressFromProto(p.proposer) = v.proposer /\ v.proposer # Failed
  BY <1>1, <1>3, AddressArrives
<1>5. ValueFromProto(p.value) = v.value /\ v.value # Failed
  BY <1>1, <1>3, ValueArrives
<1>6. RoundFrom(p.valid_round) = v.valid_round
  BY <1>1, <1>3, RoundArrives
<1> QED BY <1>1, <1>2, <1>3, <1>4, <1>5, <1>6 DEF ProposedValueFromProto, Whole

(* It does not without its proposer or its value.                               *)
LEMMA DamagedProposedValueRefused ==
  ASSUME MarksApart, NEW v \in ProposedValues,
         NEW q \in Damaged("proposed_value", ProposedValueProto(v))
  PROVE  ProposedValueFromProto(q) = Failed
<1>1. PICK p : p = ProposedValueProto(v)
  OBVIOUS
<1>2. "proposer" \in DOMAIN p /\ "value" \in DOMAIN p
  BY <1>1 DEF ProposedValueProto
<1>3. (\E b \in Bad : q = [p EXCEPT !.proposer = b]) \/ q = [p EXCEPT !.value = Absent]
  BY <1>1 DEF Damaged
<1>4. q.proposer \in Bad \/ q.value = Absent
  BY <1>2, <1>3
<1>5. AddressFromProto(q.proposer) = Failed \/ ValueFromProto(q.value) = Failed
  BY <1>4, BadRefused DEF ValueFromProto
<1> QED BY <1>5 DEF ProposedValueFromProto, Whole

(* A status arrives, is refused without its peer, and makes the decoder panic   *)
(* when the peer's id cannot be read.                                           *)
LEMMA StatusArrives ==
  ASSUME MarksApart, NEW s \in Statuses
  PROVE  /\ StatusFromProto(StatusProto(s)) = s
         /\ \A q \in Damaged("status", StatusProto(s)) :
              StatusFromProto(q) = IF q.peer_id = Malformed THEN Panicked ELSE Failed
<1>1. s = [peer_id |-> s.peer_id, height |-> s.height,
           history_min_height |-> s.history_min_height]
      /\ s.peer_id \notin {Absent, Malformed, Panicked}
  BY DEF Statuses, MarksApart
<1>2. PICK p : p = StatusProto(s)
  OBVIOUS
<1>3. p = [peer_id |-> s.peer_id, height |-> s.height, earliest_height |-> s.history_min_height]
  BY <1>2 DEF StatusProto
<1>4. StatusFromProto(p) = s
  BY <1>1, <1>3 DEF StatusFromProto, PeerIdFromBytes
<1>5. ASSUME NEW q \in Damaged("status", p)
      PROVE  StatusFromProto(q) = IF q.peer_id = Malformed THEN Panicked ELSE Failed
  <2>1. PICK b \in Bad : q = [p EXCEPT !.peer_id = b]
    BY DEF Damaged
  <2>2. q.peer_id \in {Absent, Malformed}
    BY <1>3, <2>1 DEF Bad
  <2> QED BY <2>2 DEF StatusFromProto, PeerIdFromBytes, MarksApart
<1> QED BY <1>2, <1>4, <1>5

(* A request arrives, but not without what is requested.                        *)
LEMMA RequestArrives ==
  ASSUME MarksApart, NEW r \in Requests
  PROVE  /\ RequestFromProto(RequestProto(r)) = r
         /\ \A q \in Damaged("request", RequestProto(r)) : RequestFromProto(q) = Failed
<1>1. PICK e : e = RequestProto(r).request
  OBVIOUS
<1>2. e # Absent
  BY <1>1 DEF MarksApart, IsField
<1>3. RequestProto(r) = [request |-> e]
  BY <1>1 DEF RequestProto
<1>4. CASE r \in [type : {"value"}, height : Heights]
  <2>1. r = [type |-> "value", height |-> r.height]
    BY <1>4
  <2>2. e = [value_request |-> [height |-> r.height]]
    BY <1>1, <2>1 DEF RequestProto
  <2> QED BY <1>2, <1>3, <2>1, <2>2 DEF RequestFromProto, Damaged
<1>5. CASE r \in [type : {"vote_set"}, height : Heights, round : Rounds]
  <2>1. r = [type |-> "vote_set", height |-> r.height, round |-> r.round]
    BY <1>5
  <2>2. e = [vote_set_request |-> [height |-> r.height, round |-> r.round]]
    BY <1>1, <2>1 DEF RequestProto
  <2> QED BY <1>2, <1>3, <2>1, <2>2 DEF RequestFromProto, Damaged
<1> QED BY <1>4, <1>5 DEF Requests

-------------------------------------------------------------------------------
(* Certificates.                                                                *)

(* What a certificate is made of.                                               *)
LEMMA CertificateFacts ==
  ASSUME MarksApart, NEW c \in SentCertificates
  PROVE  /\ c = [height |-> c.height, round |-> c.round, value_id |-> c.value_id,
                 signatures |-> c.signatures]
         /\ c # Failed /\ c.value_id # Absent
         /\ Len(c.signatures) = 2 /\ DOMAIN c.signatures = 1..2
         /\ c.signatures = [i \in 1..2 |-> c.signatures[i]]
         /\ \A i \in 1..2 :
              /\ c.signatures[i] = [address |-> c.signatures[i].address,
                                    signature |-> c.signatures[i].signature]
              /\ c.signatures[i].address \in Addresses
              /\ c.signatures[i].signature \in SentSignatures
              /\ c.signatures[i] # Failed
<1>1. PICK h \in Heights, r \in Rounds, id \in ValueIds :
        c \in CertificatesFor(h, r, id)
  BY DEF SentCertificates
<1>2. PICK s1 \in CommitSignaturesOf(h, r, id), s2 \in CommitSignaturesOf(h, r, id) :
        c.signatures = <<s1, s2>>
  BY <1>1 DEF CertificatesFor
<1>3. ASSUME NEW s \in CommitSignaturesOf(h, r, id)
      PROVE  /\ s = [address |-> s.address, signature |-> s.signature]
             /\ s.address \in Addresses /\ s.signature \in SentSignatures /\ s # Failed
  <2>1. PICK a \in Addresses :
          s = [address |-> a, signature |-> Sign(a, VoteProto(Precommit(h, r, id, a)))]
    BY <1>3 DEF CommitSignaturesOf
  <2>2. Precommit(h, r, id, a) \in Votes
    BY <1>1 DEF Precommit, Votes
  <2>3. PICK g \in SentSignatures : g = Sign(a, VoteProto(Precommit(h, r, id, a)))
    BY <2>2 DEF SentSignatures
  <2>4. s # Failed
    BY <1>1, <1>3 DEF MarksApart, IsDecoding
  <2> QED BY <2>1, <2>3, <2>4
<1>4. c # Failed /\ id # Absent
  BY DEF MarksApart, IsDecoding, IsField
<1>5. c = [height |-> h, round |-> r, value_id |-> id, signatures |-> <<s1, s2>>]
  BY <1>1, <1>2 DEF CertificatesFor
<1> QED BY <1>3, <1>4, <1>5

(* The signatures of a certificate, encoded.                                    *)
EncodedSignatures(c) ==
  [i \in 1..2 |-> [validator_address |-> c.signatures[i].address,
                   signature |-> c.signatures[i].signature]]

(* A certificate, encoded.                                                      *)
LEMMA CertificateProtoFacts ==
  ASSUME MarksApart, NEW c \in SentCertificates
  PROVE  /\ CertificateProto(c) = [height |-> c.height, round |-> c.round, value_id |-> c.value_id,
                                   aggregated_signature |-> EncodedSignatures(c)]
         /\ CertificateProto(c) # Absent /\ EncodedSignatures(c) # Absent
         /\ DOMAIN EncodedSignatures(c) = 1..2
<1>1. CertificateProto(c) = [height |-> c.height, round |-> c.round, value_id |-> c.value_id,
                             aggregated_signature |-> EncodedSignatures(c)]
  BY CertificateFacts DEF CertificateProto, EncodedSignatures
<1>2. CertificateProto(c).aggregated_signature = EncodedSignatures(c)
  BY <1>1
<1> QED BY <1>1, <1>2 DEF MarksApart, IsField, EncodedSignatures

(* A certificate arrives.                                                       *)
LEMMA CertificateArrives ==
  ASSUME MarksApart, NEW c \in SentCertificates
  PROVE  CertificateFromProto(CertificateProto(c)) = c
<1>1. PICK e : e = EncodedSignatures(c)
  OBVIOUS
<1>2. PICK p : p = CertificateProto(c)
  OBVIOUS
<1>3. p = [height |-> c.height, round |-> c.round, value_id |-> c.value_id,
           aggregated_signature |-> e]
      /\ e # Absent /\ DOMAIN e = 1..2 /\ c.value_id # Absent
  BY <1>1, <1>2, CertificateProtoFacts, CertificateFacts
<1>4. ASSUME NEW i \in 1..2
      PROVE  CommitSignatureFromProto(e[i]) = c.signatures[i] /\ c.signatures[i] # Failed
  <2>1. PICK s : s = c.signatures[i]
    OBVIOUS
  <2>2. s = [address |-> s.address, signature |-> s.signature] /\ s # Failed
        /\ s.address \in Addresses /\ s.signature \in SentSignatures
    BY <2>1, CertificateFacts
  <2>3. e[i] = [validator_address |-> s.address, signature |-> s.signature]
    BY <1>1, <2>1 DEF EncodedSignatures
  <2>4. AddressFromProto(s.address) = s.address /\ s.address # Failed
        /\ SignatureFromProto(s.signature) = s.signature /\ s.signature # Failed
    BY <2>2, AddressArrives, SignatureArrives
  <2> QED BY <2>1, <2>2, <2>3, <2>4 DEF CommitSignatureFromProto, Whole
<1>5. PICK d : d = [i \in DOMAIN e |-> CommitSignatureFromProto(e[i])]
  OBVIOUS
<1>6. d = c.signatures /\ Failed \notin Range(d)
  <2>1. d = [i \in 1..2 |-> c.signatures[i]]
    BY <1>3, <1>4, <1>5
  <2>2. \A i \in DOMAIN d : d[i] # Failed
    BY <1>4, <2>1
  <2> QED BY <2>1, <2>2, CertificateFacts DEF Range
<1>7. CertificateFromProto(p) = [height |-> c.height, round |-> c.round,
                                 value_id |-> c.value_id, signatures |-> d]
  BY <1>3, <1>5, <1>6 DEF CertificateFromProto, Whole
<1> QED BY <1>2, <1>6, <1>7, CertificateFacts

(* It is refused as a whole when one signature of it is damaged.                *)
LEMMA DamagedCertificateRefused ==
  ASSUME MarksApart, NEW c \in SentCertificates, NEW q \in DamagedCertificate(CertificateProto(c))
  PROVE  CertificateFromProto(q) = Failed
<1>1. PICK e : e = EncodedSignatures(c)
  OBVIOUS
<1>2. PICK p : p = CertificateProto(c)
  OBVIOUS
<1>3. p = [height |-> c.height, round |-> c.round, value_id |-> c.value_id,
           aggregated_signature |-> e] /\ DOMAIN e = 1..2
  BY <1>1, <1>2, CertificateProtoFacts
<1>4. \/ q = [p EXCEPT !.value_id = Absent] \/ q = [p EXCEPT !.aggregated_signature = Absent]
      \/ \E i \in 1..2, b \in Bad : q = [p EXCEPT !.aggregated_signature[i].signature = b]
      \/ \E i \in 1..2, b \in Bad : q = [p EXCEPT !.aggregated_signature[i].validator_address = b]
  BY <1>2, <1>3 DEF DamagedCertificate
<1>5. ASSUME NEW f, DOMAIN f = 1..2, q.aggregated_signature = f,
             NEW i \in 1..2, f[i].signature \in Bad \/ f[i].validator_address \in Bad
      PROVE  CertificateFromProto(q) = Failed
  <2>1. CommitSignatureFromProto(f[i]) = Failed
    BY <1>5, BadRefused DEF CommitSignatureFromProto, Whole
  <2>2. PICK d : d = [j \in DOMAIN f |-> CommitSignatureFromProto(f[j])]
    OBVIOUS
  <2>3. Failed \in Range(d)
    BY <1>5, <2>1, <2>2 DEF Range
  <2> QED BY <1>5, <2>2, <2>3 DEF CertificateFromProto, Whole
<1>6. CASE q = [p EXCEPT !.value_id = Absent] \/ q = [p EXCEPT !.aggregated_signature = Absent]
  <2>1. q.value_id = Absent \/ q.aggregated_signature = Absent
    BY <1>3, <1>6
  <2> QED BY <2>1 DEF CertificateFromProto
<1>7. ASSUME NEW i \in 1..2, NEW b \in Bad, q = [p EXCEPT !.aggregated_signature[i].signature = b]
      PROVE  CertificateFromProto(q) = Failed
  <2>1. PICK s : s = e[i]
    OBVIOUS
  <2>2. PICK t : t = [s EXCEPT !.signature = b]
    OBVIOUS
  <2>3. t.signature = b
    BY <1>1, <2>1, <2>2 DEF EncodedSignatures
  <2>4. PICK f : f = [e EXCEPT ![i] = t]
    OBVIOUS
  <2>5. q = [p EXCEPT !.aggregated_signature = f]
    BY <1>3, <1>7, <2>1, <2>2, <2>4
  <2>6. DOMAIN f = 1..2 /\ f[i] = t /\ q.aggregated_signature = f
    BY <1>3, <2>4, <2>5
  <2> QED BY <1>5, <2>3, <2>6
<1>8. ASSUME NEW i \in 1..2, NEW b \in Bad,
             q = [p EXCEPT !.aggregated_signature[i].validator_address = b]
      PROVE  CertificateFromProto(q) = Failed
  <2>1. PICK s : s = e[i]
    OBVIOUS
  <2>2. PICK t : t = [s EXCEPT !.validator_address = b]
    OBVIOUS
  <2>3. t.validator_address = b
    BY <1>1, <2>1, <2>2 DEF EncodedSignatures
  <2>4. PICK f : f = [e EXCEPT ![i] = t]
    OBVIOUS
  <2>5. q = [p EXCEPT !.aggregated_signature = f]
    BY <1>3, <1>8, <2>1, <2>2, <2>4
  <2>6. DOMAIN f = 1..2 /\ f[i] = t /\ q.aggregated_signature = f
    BY <1>3, <2>4, <2>5
  <2> QED BY <1>5, <2>3, <2>6
<1> QED BY <1>4, <1>6, <1>7, <1>8

-------------------------------------------------------------------------------
(* Sets of votes.                                                               *)

(* The votes of a set of two that can be decoded, in their order.               *)
LEMMA TwoVotesDecoded ==
  ASSUME NEW protos, Len(protos) = 2
  PROVE  VoteSetFromProto(protos) =
           WithDecoded(WithDecoded(<<>>, SignedVoteFromProto(protos[1])),
                       SignedVoteFromProto(protos[2]))
<1>. DEFINE Extended(f, n) ==
       IF n = 0 THEN <<>> ELSE WithDecoded(f[n - 1], SignedVoteFromProto(protos[n]))
       Decodes(f) == f = [n \in 0..Len(protos) |-> Extended(f, n)]
<1>a. PICK a : a = SignedVoteFromProto(protos[1])
  OBVIOUS
<1>b. PICK b : b = SignedVoteFromProto(protos[2])
  OBVIOUS
<1>1. PICK none : none = <<>>
  OBVIOUS
<1>2. PICK one : one = WithDecoded(none, a)
  OBVIOUS
<1>3. PICK both : both = WithDecoded(one, b)
  OBVIOUS
<1>4. \A f : Decodes(f) => f[2] = both
  <2>1. SUFFICES ASSUME NEW f, Decodes(f)
                 PROVE  f[2] = both
    OBVIOUS
  <2>2. \A n \in 0..2 : f[n] = Extended(f, n)
    BY <2>1
  <2>3. f[0] = none
    BY <1>1, <2>2
  <2>4. f[1] = one
    BY <1>a, <1>2, <2>2, <2>3
  <2> QED BY <1>b, <1>3, <2>2, <2>4
<1>5. \E f : Decodes(f)
  <2>1. PICK g : g = [n \in 0..2 |-> IF n = 0 THEN none ELSE IF n = 1 THEN one ELSE both]
    OBVIOUS
  <2>2. g[0] = none /\ g[1] = one /\ g[2] = both
    BY <2>1
  <2>3. g[0] = Extended(g, 0) /\ g[1] = Extended(g, 1) /\ g[2] = Extended(g, 2)
    BY <1>a, <1>b, <1>1, <1>2, <1>3, <2>2
  <2>4. \A n \in 0..2 : g[n] = Extended(g, n)
    BY <2>3
  <2>5. Decodes(g)
    BY <2>1, <2>4
  <2> QED BY <2>5
<1>6. Decodes(CHOOSE f : Decodes(f))
  BY <1>5
<1>7. VoteSetFromProto(protos) = (CHOOSE f : Decodes(f))[Len(protos)]
  BY DEF VoteSetFromProto
<1>8. VoteSetFromProto(protos) = both
  BY <1>4, <1>6, <1>7
<1> QED BY <1>a, <1>b, <1>1, <1>2, <1>3, <1>8

(* One of two removed.                                                          *)
LEMMA RemovedOfTwo ==
  ASSUME NEW a, NEW b
  PROVE  RemoveAt(<<a, b>>, 1) = Append(<<>>, b) /\ RemoveAt(<<a, b>>, 2) = Append(<<>>, a)
<1>1. PICK s : s = <<a, b>>
  OBVIOUS
<1>2. Len(s) = 2 /\ s[1] = a /\ s[2] = b
  BY <1>1
<1>3. PICK none : none = SubSeq(s, 1, 0)
  OBVIOUS
<1>4. PICK first : first = SubSeq(s, 1, 1)
  OBVIOUS
<1>5. PICK second : second = SubSeq(s, 2, 2)
  OBVIOUS
<1>6. PICK rest : rest = SubSeq(s, 3, 2)
  OBVIOUS
<1>7. none = <<>> /\ rest = <<>>
  BY <1>3, <1>6
<1>8. Len(first) = 1 /\ first[1] = a /\ first = [i \in 1..1 |-> a]
  BY <1>2, <1>4
<1>9. Len(second) = 1 /\ second[1] = b /\ second = [i \in 1..1 |-> b]
  BY <1>2, <1>5
<1>10. RemoveAt(s, 1) = none \o second /\ RemoveAt(s, 2) = first \o rest
  BY <1>2, <1>3, <1>4, <1>5, <1>6 DEF RemoveAt
<1> QED BY <1>1, <1>7, <1>8, <1>9, <1>10

(* Two, appended one after the other.                                           *)
LEMMA TwoAppended ==
  ASSUME NEW a, NEW b
  PROVE  Append(Append(<<>>, a), b) = <<a, b>>
<1>1. PICK S : S = {a, b}
  OBVIOUS
<1>2. PICK none : none = <<>>
  OBVIOUS
<1>3. PICK one : one = Append(none, a)
  OBVIOUS
<1>4. PICK both : both = Append(one, b)
  OBVIOUS
<1>5. none \in Seq(S) /\ Len(none) = 0 /\ a \in S /\ b \in S
  BY <1>1, <1>2
<1>6. one \in Seq(S) /\ Len(one) = 1 /\ one[1] = a
  BY <1>3, <1>5
<1>7. both \in Seq(S) /\ Len(both) = 2 /\ both[1] = a /\ both[2] = b
  <2>1. both \in Seq(S) /\ Len(both) = Len(one) + 1
    BY <1>4, <1>5, <1>6, AppendProperties
  <2>2. both[1] = one[1]
    BY <1>4, <1>5, <1>6, AppendProperties
  <2>3. both[Len(one) + 1] = b
    BY <1>4, <1>5, <1>6, AppendProperties
  <2> QED BY <1>6, <2>1, <2>2, <2>3
<1>8. both = [i \in 1..2 |-> both[i]]
  BY <1>7
<1>9. both = <<a, b>>
  BY <1>7, <1>8
<1> QED BY <1>2, <1>3, <1>4, <1>9

(* What a set of votes is made of.                                              *)
LEMMA VoteSetFacts ==
  ASSUME MarksApart, NEW votes \in VoteSets
  PROVE  /\ Len(votes) = 2 /\ DOMAIN votes = 1..2 /\ votes = <<votes[1], votes[2]>>
         /\ \A i \in 1..2 : votes[i] \in SignedVotes
         /\ VoteSetProto(votes) = [i \in 1..2 |-> SignedVoteProto(votes[i])]
         /\ VoteSetProto(votes) # Absent
<1>1. PICK v \in Votes : votes = <<SignedVote(v), SignedVote([v EXCEPT !.value = Nil])>>
  BY DEF VoteSets
<1>2. PICK w : w = [v EXCEPT !.value = Nil]
  OBVIOUS
<1>3. w \in Votes
  BY <1>2 DEF Votes
<1>4. PICK s \in SignedVotes : s = SignedVote(v)
  BY DEF SignedVotes
<1>5. PICK t \in SignedVotes : t = SignedVote(w)
  BY <1>3 DEF SignedVotes
<1>6. votes = <<s, t>>
  BY <1>1, <1>2, <1>4, <1>5
<1>7. VoteSetProto(votes) # Absent
  BY DEF MarksApart, IsField
<1> QED BY <1>6, <1>7 DEF VoteSetProto

(* A set of votes arrives, ...                                                  *)
LEMMA VoteSetArrives ==
  ASSUME MarksApart, NEW votes \in VoteSets
  PROVE  VoteSetFromProto(VoteSetProto(votes)) = votes
<1>1. PICK e : e = VoteSetProto(votes)
  OBVIOUS
<1>2. PICK a \in SignedVotes : a = votes[1]
  BY VoteSetFacts
<1>3. PICK b \in SignedVotes : b = votes[2]
  BY VoteSetFacts
<1>4. e = [i \in 1..2 |-> SignedVoteProto(votes[i])]
  BY <1>1, VoteSetFacts
<1>5. Len(e) = 2 /\ e[1] = SignedVoteProto(a) /\ e[2] = SignedVoteProto(b)
  BY <1>2, <1>3, <1>4
<1>6. a = SignedVoteFromProto(e[1]) /\ b = SignedVoteFromProto(e[2]) /\ a # Failed /\ b # Failed
  BY <1>5, SignedVoteArrives
<1>7. VoteSetFromProto(e) = WithDecoded(WithDecoded(<<>>, a), b)
  BY <1>5, <1>6, TwoVotesDecoded
<1>8. VoteSetFromProto(e) = Append(Append(<<>>, a), b)
  BY <1>6, <1>7 DEF WithDecoded
<1>9. Append(Append(<<>>, a), b) = <<a, b>>
  BY TwoAppended
<1> QED BY <1>1, <1>2, <1>3, <1>8, <1>9, VoteSetFacts

(* ... and loses the vote that is damaged.                                      *)
LEMMA DamagedVoteLost ==
  ASSUME MarksApart, NEW votes \in VoteSets, NEW i \in 1..2, NEW e, e = VoteSetProto(votes),
         NEW q \in DamagedSigned(e[i]), NEW f, f = [e EXCEPT ![i] = q]
  PROVE  VoteSetFromProto(f) = RemoveAt(votes, i)
<1>1. PICK a \in SignedVotes : a = votes[1]
  BY VoteSetFacts
<1>2. PICK b \in SignedVotes : b = votes[2]
  BY VoteSetFacts
<1>3. e = [j \in 1..2 |-> SignedVoteProto(votes[j])]
  BY VoteSetFacts
<1>4. e[i] = SignedMessageProto(votes[i]) /\ votes[i] \in SignedVotes
  BY <1>3, SignedVoteFacts, VoteSetFacts
<1>5. SignedVoteFromProto(q) = Failed
  BY <1>4, DamagedIsIncomplete, IncompleteRefused
<1>6. Len(f) = 2 /\ f[i] = q /\ \A j \in 1..2 : j # i => f[j] = e[j]
  <2>1. f = [j \in 1..2 |-> IF j = i THEN q ELSE e[j]]
    BY <1>3
  <2> QED BY <2>1
<1>7. /\ SignedVoteFromProto(SignedVoteProto(a)) = a /\ a # Failed
      /\ SignedVoteFromProto(SignedVoteProto(b)) = b /\ b # Failed
  BY SignedVoteArrives
<1>8. votes = <<a, b>>
  BY <1>1, <1>2, VoteSetFacts
<1>d. VoteSetFromProto(f) =
        WithDecoded(WithDecoded(<<>>, SignedVoteFromProto(f[1])), SignedVoteFromProto(f[2]))
  <2>1. Len(f) = 2
    BY <1>6
  <2> QED BY <2>1, TwoVotesDecoded
<1>9. CASE i = 1
  <2>1. Len(f) = 2 /\ Failed = SignedVoteFromProto(f[1]) /\ b = SignedVoteFromProto(f[2])
    BY <1>2, <1>3, <1>5, <1>6, <1>7, <1>9
  <2>2. VoteSetFromProto(f) = WithDecoded(WithDecoded(<<>>, Failed), b)
    BY <2>1, <1>d
  <2>3. VoteSetFromProto(f) = Append(<<>>, b)
    BY <1>7, <2>2 DEF WithDecoded
  <2> QED BY <1>8, <1>9, <2>3, RemovedOfTwo
<1>10. CASE i = 2
  <2>1. Len(f) = 2 /\ a = SignedVoteFromProto(f[1]) /\ Failed = SignedVoteFromProto(f[2])
    BY <1>1, <1>3, <1>5, <1>6, <1>7, <1>10
  <2>2. VoteSetFromProto(f) = WithDecoded(WithDecoded(<<>>, a), Failed)
    BY <2>1, <1>d
  <2>3. VoteSetFromProto(f) = Append(<<>>, a)
    BY <1>7, <2>2 DEF WithDecoded
  <2> QED BY <1>8, <1>10, <2>3, RemovedOfTwo
<1> QED BY <1>9, <1>10

-------------------------------------------------------------------------------
(* Responses.                                                                   *)

(* A value of a past height arrives with its certificate, ...                   *)
LEMMA SyncedValueArrives ==
  ASSUME MarksApart, NEW v \in SentSyncedValues
  PROVE  /\ SyncedValueFromProto(SyncedValueProto(v)) = v
         /\ v # Failed /\ v # Absent /\ SyncedValueProto(v) # Absent
<1>b. PICK b : b = v.value_bytes
  OBVIOUS
<1>1. PICK c \in SentCertificates : v = [value_bytes |-> b, certificate |-> c]
  BY <1>b DEF SentSyncedValues
<1>2. PICK d : d = CertificateProto(c)
  OBVIOUS
<1>3. PICK p : p = SyncedValueProto(v)
  OBVIOUS
<1>4. p = [value_bytes |-> b, certificate |-> d]
  BY <1>1, <1>2, <1>3 DEF SyncedValueProto
<1>5. d # Absent /\ CertificateFromProto(d) = c /\ c # Failed
  BY <1>2, CertificateProtoFacts, CertificateArrives, CertificateFacts
<1>6. SyncedValueFromProto(p) = v
  BY <1>1, <1>4, <1>5 DEF SyncedValueFromProto, Whole
<1>7. v # Failed /\ v # Absent /\ p # Absent
  BY <1>3 DEF MarksApart, IsField, IsDecoding
<1> QED BY <1>3, <1>6, <1>7

(* ... and not with one that is missing or damaged.                             *)
LEMMA DamagedSyncedValueRefused ==
  ASSUME MarksApart, NEW v \in SentSyncedValues, NEW q \in DamagedSyncedValue(SyncedValueProto(v))
  PROVE  SyncedValueFromProto(q) = Failed /\ q # Absent
<1>b. PICK b : b = v.value_bytes
  OBVIOUS
<1>1. PICK c \in SentCertificates : v = [value_bytes |-> b, certificate |-> c]
  BY <1>b DEF SentSyncedValues
<1>2. PICK e : e = CertificateProto(c)
  OBVIOUS
<1>3. PICK p : p = SyncedValueProto(v)
  OBVIOUS
<1>4. p = [value_bytes |-> b, certificate |-> e]
  BY <1>1, <1>2, <1>3 DEF SyncedValueProto
<1>5. PICK d \in {Absent} \cup DamagedCertificate(e) : q = [p EXCEPT !.certificate = d]
  BY <1>3, <1>4 DEF DamagedSyncedValue
<1>6. q.certificate = d
  BY <1>4, <1>5
<1>7. d # Absent => CertificateFromProto(d) = Failed
  BY <1>2, <1>5, DamagedCertificateRefused
<1>8. q # Absent
  BY DEF MarksApart, IsField
<1> QED BY <1>6, <1>7, <1>8 DEF SyncedValueFromProto, Whole

ValueResponses == [type : {"value"}, height : Heights, value : SentSyncedValues \cup {Absent}]
VoteSetResponses == [type : {"vote_set"}, height : Heights, round : Rounds, vote_set : VoteSets]

(* A response with a value, encoded.                                            *)
LEMMA ValueResponseFacts ==
  ASSUME MarksApart, NEW r \in ValueResponses, NEW v, v = r.value,
         NEW e, e = IF v = Absent THEN Absent ELSE SyncedValueProto(v)
  PROVE  /\ r = [type |-> "value", height |-> r.height, value |-> v]
         /\ v \in SentSyncedValues \cup {Absent}
         /\ ResponseProto(r) = [value_response |-> [height |-> r.height, value |-> e]]
         /\ ResponseProto(r) # Absent
         /\ v # Absent => e # Absent
<1>1. /\ r = [type |-> "value", height |-> r.height, value |-> v]
      /\ v \in SentSyncedValues \cup {Absent}
  BY DEF ValueResponses
<1>2. ResponseProto(r) = [value_response |-> [height |-> r.height, value |-> e]]
  BY <1>1 DEF ResponseProto
<1>3. ResponseProto(r) # Absent
  BY DEF MarksApart, IsField, Responses, ValueResponses
<1>4. v # Absent => e # Absent
  BY <1>1, SyncedValueArrives
<1> QED BY <1>1, <1>2, <1>3, <1>4

(* It arrives, with a value or with none.                                       *)
LEMMA ValueResponseArrives ==
  ASSUME MarksApart, NEW r \in ValueResponses
  PROVE  ResponseFromProto(ResponseProto(r)) = r
<1>1. PICK v : v = r.value
  OBVIOUS
<1>2. PICK e : e = IF v = Absent THEN Absent ELSE SyncedValueProto(v)
  OBVIOUS
<1>3. PICK f : f = [height |-> r.height, value |-> e]
  OBVIOUS
<1>4. PICK p : p = ResponseProto(r)
  OBVIOUS
<1>5. /\ r = [type |-> "value", height |-> r.height, value |-> v]
      /\ v \in SentSyncedValues \cup {Absent}
      /\ p = [value_response |-> f] /\ p # Absent /\ (v # Absent => e # Absent)
  BY <1>1, <1>2, <1>3, <1>4, ValueResponseFacts
<1>6. p.value_response = f /\ "value_response" \in DOMAIN p /\ f.height = r.height /\ f.value = e
  BY <1>3, <1>5
<1>7. (IF e = Absent THEN Absent ELSE SyncedValueFromProto(e)) = v /\ v # Failed
  <2>1. CASE v = Absent
    BY <1>2, <2>1 DEF MarksApart
  <2>2. CASE v # Absent
    BY <1>2, <1>5, <2>2, SyncedValueArrives
  <2> QED BY <2>1, <2>2
<1> QED BY <1>4, <1>5, <1>6, <1>7 DEF ResponseFromProto, Whole

(* A response with votes, encoded.                                              *)
LEMMA VoteSetResponseFacts ==
  ASSUME MarksApart, NEW r \in VoteSetResponses, NEW e, e = VoteSetProto(r.vote_set)
  PROVE  /\ r = [type |-> "vote_set", height |-> r.height, round |-> r.round,
                 vote_set |-> r.vote_set]
         /\ r.vote_set \in VoteSets
         /\ ResponseProto(r) = [vote_set_response |->
              [height |-> r.height, round |-> r.round, vote_set |-> e]]
         /\ ResponseProto(r) # Absent /\ e # Absent
<1>1. r = [type |-> "vote_set", height |-> r.height, round |-> r.round, vote_set |-> r.vote_set]
      /\ r.vote_set \in VoteSets
  BY DEF VoteSetResponses
<1>2. ResponseProto(r) = [vote_set_response |->
        [height |-> r.height, round |-> r.round, vote_set |-> e]]
  BY <1>1 DEF ResponseProto
<1>3. ResponseProto(r) # Absent /\ e # Absent
  BY <1>1 DEF MarksApart, IsField, Responses, VoteSetResponses
<1> QED BY <1>1, <1>2, <1>3

(* It is decoded to the votes of it that can be decoded.                        *)
LEMMA VoteSetResponseDecoded ==
  ASSUME MarksApart, NEW q, NEW h, NEW n, NEW e, e # Absent, q # Absent,
         q = [vote_set_response |-> [height |-> h, round |-> n, vote_set |-> e]]
  PROVE  ResponseFromProto(q) =
           [type |-> "vote_set", height |-> h, round |-> n, vote_set |-> VoteSetFromProto(e)]
<1>1. "value_response" \notin DOMAIN q
  OBVIOUS
<1>2. q.vote_set_response.vote_set = e /\ q.vote_set_response.height = h
      /\ q.vote_set_response.round = n
  OBVIOUS
<1> QED BY <1>1, <1>2 DEF ResponseFromProto

(* It arrives.                                                                  *)
LEMMA VoteSetResponseArrives ==
  ASSUME MarksApart, NEW r \in VoteSetResponses
  PROVE  ResponseFromProto(ResponseProto(r)) = r
<1>1. PICK e : e = VoteSetProto(r.vote_set)
  OBVIOUS
<1>2. PICK s \in VoteSets : s = r.vote_set
  BY <1>1, VoteSetResponseFacts
<1>3. PICK p : p = ResponseProto(r)
  OBVIOUS
<1>4. /\ r = [type |-> "vote_set", height |-> r.height, round |-> r.round, vote_set |-> s]
      /\ p = [vote_set_response |-> [height |-> r.height, round |-> r.round, vote_set |-> e]]
      /\ p # Absent /\ e # Absent
  BY <1>1, <1>2, <1>3, VoteSetResponseFacts
<1>5. ResponseFromProto(p) = [type |-> "vote_set", height |-> r.height, round |-> r.round,
                              vote_set |-> VoteSetFromProto(e)]
  BY <1>4, VoteSetResponseDecoded
<1>6. VoteSetFromProto(e) = s
  BY <1>1, <1>2, VoteSetArrives
<1> QED BY <1>3, <1>4, <1>5, <1>6

(* A response with a value is refused when it is damaged, ...                   *)
LEMMA DamagedValueResponseRefused ==
  ASSUME MarksApart, NEW r \in ValueResponses, NEW q \in DamagedResponse(ResponseProto(r))
  PROVE  ResponseFromProto(q) = Failed
<1>1. PICK v : v = r.value
  OBVIOUS
<1>2. PICK e : e = IF v = Absent THEN Absent ELSE SyncedValueProto(v)
  OBVIOUS
<1>3. PICK f : f = [height |-> r.height, value |-> e]
  OBVIOUS
<1>4. PICK p : p = ResponseProto(r)
  OBVIOUS
<1>5. /\ v \in SentSyncedValues \cup {Absent} /\ p = [value_response |-> f]
      /\ v # Absent => e # Absent
  BY <1>1, <1>2, <1>3, <1>4, ValueResponseFacts
<1>6. p.value_response = f /\ "vote_set_response" \notin DOMAIN p /\ f.value = e
  BY <1>3, <1>5
<1>7. \/ q = Absent
      \/ e # Absent /\ \E w \in DamagedSyncedValue(e) : q = [p EXCEPT !.value_response.value = w]
  BY <1>4, <1>6 DEF DamagedResponse
<1>8. ASSUME e # Absent, NEW w \in DamagedSyncedValue(e), q = [p EXCEPT !.value_response.value = w]
      PROVE  ResponseFromProto(q) = Failed
  <2>1. SyncedValueFromProto(w) = Failed /\ w # Absent
    BY <1>2, <1>5, <1>8, DamagedSyncedValueRefused
  <2>2. PICK g : g = [f EXCEPT !.value = w]
    OBVIOUS
  <2>3. g.value = w
    BY <1>3, <2>2
  <2>4. q = [value_response |-> g]
    BY <1>5, <1>8, <2>2
  <2>5. "value_response" \in DOMAIN q /\ q.value_response = g
    BY <2>4
  <2> QED BY <2>1, <2>3, <2>5 DEF ResponseFromProto, Whole
<1>9. CASE q = Absent
  BY <1>9 DEF ResponseFromProto
<1> QED BY <1>7, <1>8, <1>9

(* ... and so is one whose set of votes is missing; ...                         *)
LEMMA DamagedVoteSetResponseRefused ==
  ASSUME MarksApart, NEW r \in VoteSetResponses, NEW q \in DamagedResponse(ResponseProto(r))
  PROVE  ResponseFromProto(q) = Failed
<1>1. PICK e : e = VoteSetProto(r.vote_set)
  OBVIOUS
<1>2. PICK f : f = [height |-> r.height, round |-> r.round, vote_set |-> e]
  OBVIOUS
<1>3. PICK p : p = ResponseProto(r)
  OBVIOUS
<1>4. p = [vote_set_response |-> f]
  BY <1>1, <1>2, <1>3, VoteSetResponseFacts
<1>5. "vote_set_response" \in DOMAIN p
  BY <1>4
<1>6. q = Absent \/ q = [p EXCEPT !.vote_set_response.vote_set = Absent]
  BY <1>3, <1>5 DEF DamagedResponse
<1>7. CASE q = [p EXCEPT !.vote_set_response.vote_set = Absent]
  <2>1. PICK g : g = [f EXCEPT !.vote_set = Absent]
    OBVIOUS
  <2>2. g.vote_set = Absent
    BY <1>2, <2>1
  <2>3. q = [vote_set_response |-> g]
    BY <1>4, <1>7, <2>1
  <2>4. "value_response" \notin DOMAIN q /\ q.vote_set_response = g
    BY <2>3
  <2> QED BY <2>2, <2>4 DEF ResponseFromProto
<1>8. CASE q = Absent
  BY <1>8 DEF ResponseFromProto
<1> QED BY <1>6, <1>7, <1>8

(* ... one of its votes that is damaged is lost, and no more.                   *)
LEMMA DamagedVoteResponse ==
  ASSUME MarksApart, NEW r \in VoteSetResponses, NEW i \in 1..2,
         NEW q \in WithDamagedVote(ResponseProto(r), i)
  PROVE  ResponseFromProto(q) = [r EXCEPT !.vote_set = RemoveAt(@, i)]
<1>1. PICK e : e = VoteSetProto(r.vote_set)
  OBVIOUS
<1>2. PICK s \in VoteSets : s = r.vote_set
  BY <1>1, VoteSetResponseFacts
<1>3. PICK f : f = [height |-> r.height, round |-> r.round, vote_set |-> e]
  OBVIOUS
<1>4. PICK p : p = ResponseProto(r)
  OBVIOUS
<1>5. /\ r = [type |-> "vote_set", height |-> r.height, round |-> r.round, vote_set |-> s]
      /\ p = [vote_set_response |-> f]
  BY <1>1, <1>2, <1>3, <1>4, VoteSetResponseFacts
<1>6. p.vote_set_response = f /\ f.vote_set = e
  BY <1>3, <1>5
<1>7. PICK votes \in DamagedVotes(e, i) : q = [p EXCEPT !.vote_set_response.vote_set = votes]
  BY <1>4, <1>6 DEF WithDamagedVote
<1>8. PICK g : g = [f EXCEPT !.vote_set = votes]
  OBVIOUS
<1>9. g = [height |-> r.height, round |-> r.round, vote_set |-> votes]
  BY <1>3, <1>8
<1>10. q = [vote_set_response |-> g]
  BY <1>5, <1>7, <1>8
<1>11. q # Absent /\ votes # Absent
  <2>1. r \in Responses /\ r.type = "vote_set"
    BY <1>5 DEF Responses, VoteSetResponses
  <2>2. IsField(q)
    BY <1>4, <2>1 DEF IsField
  <2>3. IsField(votes)
    BY <1>1, <1>2, <1>7 DEF IsField
  <2> QED BY <2>2, <2>3 DEF MarksApart
<1>12. ResponseFromProto(q) = [type |-> "vote_set", height |-> r.height, round |-> r.round,
                               vote_set |-> VoteSetFromProto(votes)]
  BY <1>9, <1>10, <1>11, VoteSetResponseDecoded
<1>13. VoteSetFromProto(votes) = RemoveAt(s, i)
  <2>1. PICK v \in DamagedSigned(e[i]) : votes = [e EXCEPT ![i] = v]
    BY <1>7 DEF DamagedVotes
  <2> QED BY <1>1, <1>2, <2>1, DamagedVoteLost
<1>14. PICK rest : rest = RemoveAt(s, i)
  OBVIOUS
<1>15. [r EXCEPT !.vote_set = RemoveAt(@, i)] = [r EXCEPT !.vote_set = rest]
  BY <1>2, <1>14
<1>16. [r EXCEPT !.vote_set = rest] =
         [type |-> "vote_set", height |-> r.height, round |-> r.round, vote_set |-> rest]
  BY <1>5
<1> QED BY <1>12, <1>13, <1>14, <1>15, <1>16

-------------------------------------------------------------------------------
(* Messages of every kind.                                                      *)

(* Each message has a body of its kind.                                         *)
LEMMA MessageFacts ==
  ASSUME NEW m \in Messages
  PROVE  \/ m.kind = "consensus" /\ m.body \in SignedVotes \cup SignedProposals
         \/ m.kind = "stream" /\ m.body \in StreamMessages
         \/ m.kind = "proposed_value" /\ m.body \in ProposedValues
         \/ m.kind = "status" /\ m.body \in Statuses
         \/ m.kind = "request" /\ m.body \in Requests
         \/ m.kind = "response" /\ m.body \in ValueResponses
         \/ m.kind = "response" /\ m.body \in VoteSetResponses
<1>1. Responses = ValueResponses \cup VoteSetResponses
  BY DEF Responses, ValueResponses, VoteSetResponses
<1> QED BY <1>1 DEF Messages, Message

(* Each arrives, ...                                                            *)
LEMMA MessageArrives ==
  ASSUME MarksApart, NEW m \in Messages
  PROVE  Decoded(m.kind, Encoded(m)) = m.body
<1>1. CASE m.kind = "consensus" /\ m.body \in SignedVotes \cup SignedProposals
  BY <1>1, SignedVoteArrives, SignedProposalArrives DEF Encoded, Decoded
<1>2. CASE m.kind = "stream" /\ m.body \in StreamMessages
  BY <1>2, StreamMessageArrives DEF Encoded, Decoded
<1>3. CASE m.kind = "proposed_value" /\ m.body \in ProposedValues
  BY <1>3, ProposedValueArrives DEF Encoded, Decoded
<1>4. CASE m.kind = "status" /\ m.body \in Statuses
  BY <1>4, StatusArrives DEF Encoded, Decoded
<1>5. CASE m.kind = "request" /\ m.body \in Requests
  BY <1>5, RequestArrives DEF Encoded, Decoded
<1>6. CASE m.kind = "response" /\ m.body \in ValueResponses
  BY <1>6, ValueResponseArrives DEF Encoded, Decoded
<1>7. CASE m.kind = "response" /\ m.body \in VoteSetResponses
  BY <1>7, VoteSetResponseArrives DEF Encoded, Decoded
<1> QED BY <1>1, <1>2, <1>3, <1>4, <1>5, <1>6, <1>7, MessageFacts

(* ... is refused when it is damaged as a whole, but for the status that makes  *)
(* its decoder panic, ...                                                       *)
LEMMA DamagedMessageRefused ==
  ASSUME MarksApart, NEW m \in Messages, NEW q \in Damaged(m.kind, Encoded(m))
  PROVE  Decoded(m.kind, q) =
           IF m.kind = "status" /\ q.peer_id = Malformed THEN Panicked ELSE Failed
<1>1. CASE m.kind = "consensus" /\ m.body \in SignedVotes \cup SignedProposals
  <2>1. q \in DamagedSigned(SignedMessageProto(m.body))
    BY <1>1 DEF Encoded, Damaged
  <2>2. SignedMessageFromProto(q) = Failed
    BY <1>1, <2>1, DamagedIsIncomplete, IncompleteRefused
  <2> QED BY <1>1, <2>2 DEF Decoded
<1>2. CASE m.kind = "stream" /\ m.body \in StreamMessages
  <2>1. q \in DamagedStream(StreamMessageProto(m.body))
    BY <1>2 DEF Encoded, Damaged
  <2> QED BY <1>2, <2>1, DamagedStreamRefused DEF Decoded
<1>3. CASE m.kind = "proposed_value" /\ m.body \in ProposedValues
  <2>1. q \in Damaged("proposed_value", ProposedValueProto(m.body))
    BY <1>3 DEF Encoded
  <2> QED BY <1>3, <2>1, DamagedProposedValueRefused DEF Decoded
<1>4. CASE m.kind = "status" /\ m.body \in Statuses
  <2>1. q \in Damaged("status", StatusProto(m.body))
    BY <1>4 DEF Encoded
  <2>2. StatusFromProto(q) = IF q.peer_id = Malformed THEN Panicked ELSE Failed
    BY <1>4, <2>1, StatusArrives
  <2> QED BY <1>4, <2>2 DEF Decoded
<1>5. CASE m.kind = "request" /\ m.body \in Requests
  <2>1. q \in Damaged("request", RequestProto(m.body))
    BY <1>5 DEF Encoded
  <2> QED BY <1>5, <2>1, RequestArrives DEF Decoded
<1>6. CASE m.kind = "response" /\ m.body \in ValueResponses
  <2>1. q \in DamagedResponse(ResponseProto(m.body))
    BY <1>6 DEF Encoded, Damaged
  <2> QED BY <1>6, <2>1, DamagedValueResponseRefused DEF Decoded
<1>7. CASE m.kind = "response" /\ m.body \in VoteSetResponses
  <2>1. q \in DamagedResponse(ResponseProto(m.body))
    BY <1>7 DEF Encoded, Damaged
  <2> QED BY <1>7, <2>1, DamagedVoteSetResponseRefused DEF Decoded
<1> QED BY <1>1, <1>2, <1>3, <1>4, <1>5, <1>6, <1>7, MessageFacts

(* ... and loses the one vote that is.                                          *)
LEMMA MessageLosesVote ==
  ASSUME MarksApart, NEW m \in Messages, m.kind = "response", m.body.type = "vote_set",
         NEW i \in 1..2, NEW q \in WithDamagedVote(Encoded(m), i)
  PROVE  Decoded(m.kind, q) = [m.body EXCEPT !.vote_set = RemoveAt(@, i)]
<1>1. PICK r : r = m.body
  OBVIOUS
<1>2. r \in ValueResponses \/ r \in VoteSetResponses
  BY <1>1, MessageFacts
<1>3. r \in VoteSetResponses
  BY <1>1, <1>2 DEF ValueResponses
<1>4. q \in WithDamagedVote(ResponseProto(r), i)
  BY <1>1 DEF Encoded
<1>5. ResponseFromProto(q) = [r EXCEPT !.vote_set = RemoveAt(@, i)]
  BY <1>3, <1>4, DamagedVoteResponse
<1> QED BY <1>1, <1>5 DEF Decoded

-------------------------------------------------------------------------------
(* The behaviours.                                                              *)

(* What is on the wire is the encoding of what was sent, with the damage done   *)
(* to it, and what is received is what that decodes to.                         *)
OnTheWire ==
  \/ damage = NoDamage /\ wire = Encoded(sent)
  \/ damage = [whole |-> TRUE, vote |-> 0] /\ wire \in Damaged(sent.kind, Encoded(sent))
  \/ \E i \in 1..2 :
       /\ damage = [whole |-> FALSE, vote |-> i]
       /\ sent.kind = "response" /\ sent.body.type = "vote_set"
       /\ wire \in WithDamagedVote(Encoded(sent), i)

WireInv ==
  /\ sent \in Messages /\ OnTheWire
  /\ received = Absent \/ received = Decoded(sent.kind, wire)

(* WireInv holds of every behaviour.                                            *)
THEOREM WireInvariant == WireSpec => []WireInv
<1>1. WireInit => WireInv
  BY DEF WireInit, WireInv, OnTheWire
<1>2. WireInv /\ [WireNext]_wireVars => WireInv'
  <2> SUFFICES ASSUME WireInv, [WireNext]_wireVars
               PROVE  WireInv'
    OBVIOUS
  <2>1. CASE Damage
    <3>1. sent' = sent /\ wire = Encoded(sent) /\ wire' \in Damaged(sent.kind, wire)
          /\ received' = Absent
      BY <2>1 DEF Damage, WireInv, OnTheWire, NoDamage
    <3>2. damage' = [whole |-> TRUE, vote |-> 0]
      BY <2>1 DEF Damage, NoDamage
    <3>3. OnTheWire'
      BY <3>1, <3>2 DEF OnTheWire
    <3> QED BY <3>1, <3>3 DEF WireInv
  <2>2. ASSUME NEW i \in 1..2, DamageVote(i)
        PROVE  WireInv'
    <3>1. sent' = sent /\ wire = Encoded(sent) /\ wire' \in WithDamagedVote(wire, i)
          /\ received' = Absent /\ sent.kind = "response" /\ sent.body.type = "vote_set"
      BY <2>2 DEF DamageVote, WireInv, OnTheWire, NoDamage
    <3>2. damage' = [whole |-> FALSE, vote |-> i]
      BY <2>2 DEF DamageVote, NoDamage
    <3>3. OnTheWire'
      BY <3>1, <3>2 DEF OnTheWire
    <3> QED BY <3>1, <3>3 DEF WireInv
  <2>3. CASE Receive
    BY <2>3 DEF Receive, WireInv, OnTheWire
  <2>4. CASE UNCHANGED wireVars
    BY <2>4 DEF wireVars, WireInv, OnTheWire
  <2> QED BY <2>1, <2>2, <2>3, <2>4 DEF WireNext
<1> QED BY <1>1, <1>2, PTL DEF WireSpec

(* A message arrives exactly as it was sent: whatever ProtobufCodec encodes, it *)
(* decodes to the same (codec/proto/mod.rs).                                    *)
THEOREM MessagesArrive == WireSpec => []ReceivedAsSent
<1>1. WireInv => ReceivedAsSent
  <2> SUFFICES ASSUME WireInv, damage = NoDamage, received # Absent
               PROVE  received = sent.body
    BY DEF ReceivedAsSent
  <2>1. wire = Encoded(sent) /\ received = Decoded(sent.kind, wire) /\ sent \in Messages
    BY DEF WireInv, OnTheWire, NoDamage
  <2> QED BY <2>1, MessageArrives, ApartAssumption
<1> QED BY <1>1, WireInvariant, PTL

(* A message that lacks something is refused as a whole, but for a set of votes *)
(* that loses the vote concerned (codec/proto/mod.rs, decode_vote_set); the     *)
(* only decoder that panics is that of a status whose peer id cannot be read    *)
(* (codec/proto/mod.rs:205).                                                    *)
THEOREM DamageIsRefused == WireSpec => []DamagedRefused
<1>1. WireInv => DamagedRefused
  <2> SUFFICES ASSUME WireInv, received # Absent
               PROVE  /\ damage.whole =>
                           received = (IF PeerUnreadable THEN Panicked ELSE Failed)
                      /\ damage.vote # 0 =>
                           received = [sent.body EXCEPT !.vote_set = RemoveAt(@, damage.vote)]
    BY DEF DamagedRefused
  <2>1. received = Decoded(sent.kind, wire) /\ sent \in Messages
    BY DEF WireInv
  <2>2. CASE damage = NoDamage
    BY <2>2 DEF NoDamage
  <2>3. CASE damage = [whole |-> TRUE, vote |-> 0] /\ wire \in Damaged(sent.kind, Encoded(sent))
    BY <2>1, <2>3, DamagedMessageRefused, ApartAssumption DEF PeerUnreadable
  <2>4. ASSUME NEW i \in 1..2, damage = [whole |-> FALSE, vote |-> i], sent.kind = "response",
               sent.body.type = "vote_set", wire \in WithDamagedVote(Encoded(sent), i)
        PROVE  received = [sent.body EXCEPT !.vote_set = RemoveAt(@, damage.vote)]
               /\ ~damage.whole
    <3>1. Decoded(sent.kind, wire) = [sent.body EXCEPT !.vote_set = RemoveAt(@, i)]
      BY <2>1, <2>4, MessageLosesVote, ApartAssumption
    <3>2. damage.vote = i /\ ~damage.whole
      BY <2>4
    <3> QED BY <2>1, <3>1, <3>2
  <2> QED BY <2>2, <2>3, <2>4 DEF WireInv, OnTheWire
<1> QED BY <1>1, WireInvariant, PTL
===============================================================================
