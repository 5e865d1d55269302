--------------------------- MODULE CertificatesProofs --------------------------
(* A decision convinces the peers it is served to, whatever it went through,    *)
(* proved for every set of validators and payloads.                             *)
EXTENDS Certificates, TLAPS, FiniteSetTheorems, SequenceTheorems

-------------------------------------------------------------------------------
(* Conversions there and back.                                                  *)

(* What is signed of a precommit is the bytes of a vote.                        *)
LEMMA SignatureType ==
  ASSUME NEW v \in Precommits
  PROVE  /\ VoteProto(v) \in EncodedPrecommits
         /\ Sign(v.validator_address, VoteProto(v)) \in Signatures
BY MarksAssumption DEF Sign, VoteProto, Precommits, EncodedPrecommits, Signatures

(* A vote is decoded to what was encoded.                                       *)
LEMMA VoteRoundTrip ==
  ASSUME NEW v \in Precommits
  PROVE  VoteFromProto(VoteProto(v)) = v
<1>1. PICK p : p = VoteProto(v)
  OBVIOUS
<1>2. p = [vote_type |-> 1, height |-> v.height, round |-> v.round,
           value |-> IF v.value = Nil THEN Absent ELSE v.value,
           validator_address |-> v.validator_address]
  BY <1>1 DEF VoteProto, Precommits
<1>3. AddressFromProto(p.validator_address) = v.validator_address
      /\ v.validator_address # Failed
  BY <1>2, AddressesAssumption DEF AddressFromProto, Precommits
<1>4. v = [typ |-> "precommit", height |-> v.height, round |-> v.round, value |-> v.value,
           validator_address |-> v.validator_address]
  BY DEF Precommits
<1>5. (IF p.value = Absent THEN Nil ELSE p.value) = v.value
  BY <1>2, MarksAssumption DEF Precommits
<1> QED BY <1>1, <1>2, <1>3, <1>4, <1>5 DEF VoteFromProto, Whole

(* A signed precommit is received as it was sent.                               *)
LEMMA SignedVoteRoundTrip ==
  ASSUME NEW v \in Precommits
  PROVE  SignedMessageFromProto(SignedMessageProto(SignVote(v))) = SignVote(v)
<1>1. PICK sig : sig = Sign(v.validator_address, VoteProto(v))
  OBVIOUS
<1>2. sig \notin {Absent, Malformed, Failed}
  BY <1>1, SignatureType, MarksAssumption
<1>3. SignVote(v) = [vote |-> v, signature |-> sig]
  BY <1>1 DEF SignVote
<1>4. PICK p : p = [message |-> [vote |-> VoteProto(v)], signature |-> sig]
  OBVIOUS
<1>5. SignedMessageProto(SignVote(v)) = p
  BY <1>3, <1>4 DEF SignedMessageProto, SignedVoteProto
<1>6. p.message # Absent /\ "vote" \in DOMAIN p.message
  <2>1. p.message = [vote |-> VoteProto(v)]
    BY <1>4
  <2>2. p.message \in [vote : EncodedPrecommits]
    BY <2>1, SignatureType
  <2> QED BY <2>1, <2>2, MarksAssumption
<1>7. v # Failed /\ VoteFromProto(p.message.vote) = v
  BY <1>4, VoteRoundTrip, MarksAssumption
<1>8. SignatureFromProto(p.signature) = sig
  BY <1>2, <1>4 DEF SignatureFromProto
<1>9. SignedMessageFromProto(p) = [vote |-> v, signature |-> sig]
  BY <1>2, <1>6, <1>7, <1>8 DEF SignedMessageFromProto, Whole
<1> QED BY <1>3, <1>5, <1>9

(* So is a certificate, ...                                                     *)
LEMMA CertificateRoundTrip ==
  ASSUME NEW c \in CommitCertificates
  PROVE  /\ CertificateProto(c) \in EncodedCertificates
         /\ CertificateFromProto(CertificateProto(c)) = c
<1>1. PICK p : p = CertificateProto(c)
  OBVIOUS
<1>2. PICK signatures : signatures = c.signatures
  OBVIOUS
<1>3. signatures \in Seq(CommitSignatures)
  BY <1>2 DEF CommitCertificates
<1>4. PICK encoded : encoded = [i \in DOMAIN signatures |->
        [validator_address |-> signatures[i].address, signature |-> signatures[i].signature]]
  OBVIOUS
<1>5. p = [height |-> c.height, round |-> c.round, value_id |-> c.value_id,
           aggregated_signature |-> encoded]
  BY <1>1, <1>2, <1>4 DEF CertificateProto
<1>6. encoded \in Seq(EncodedSignatures) /\ DOMAIN encoded = DOMAIN signatures
  <2>1. /\ Len(signatures) \in Nat /\ DOMAIN signatures = 1..Len(signatures)
        /\ \A i \in DOMAIN signatures : signatures[i] \in CommitSignatures
    BY <1>3
  <2>2. \A i \in DOMAIN signatures :
          [validator_address |-> signatures[i].address,
           signature |-> signatures[i].signature] \in EncodedSignatures
    BY <2>1 DEF CommitSignatures, EncodedSignatures
  <2>3. encoded \in [1..Len(signatures) -> EncodedSignatures]
    BY <1>4, <2>1, <2>2
  <2> QED BY <2>1, <2>3, <1>4
<1>7. ASSUME NEW i \in DOMAIN signatures
      PROVE  CommitSignatureFromProto(encoded[i]) = signatures[i] /\ signatures[i] # Failed
  <2>1. PICK s \in CommitSignatures : s = signatures[i]
    BY <1>3
  <2>2. s = [address |-> s.address, signature |-> s.signature]
        /\ s.address \in Addresses /\ s.signature \in Signatures
    BY DEF CommitSignatures
  <2>3. encoded[i] = [validator_address |-> s.address, signature |-> s.signature]
    BY <1>4, <2>1
  <2>4. s.signature \notin {Absent, Malformed, Failed} /\ s.address # Failed /\ s # Failed
    BY <2>2, MarksAssumption, AddressesAssumption
  <2> QED BY <2>1, <2>2, <2>3, <2>4
          DEF CommitSignatureFromProto, SignatureFromProto, AddressFromProto, Whole
<1>8. c.value_id # Absent /\ encoded # Absent
  BY <1>6, MarksAssumption DEF CommitCertificates
<1>9. PICK decoded : decoded = [i \in DOMAIN encoded |-> CommitSignatureFromProto(encoded[i])]
  OBVIOUS
<1>10. decoded = signatures /\ Failed \notin Range(decoded)
  <2>1. signatures = [i \in DOMAIN signatures |-> signatures[i]]
    BY <1>3
  <2>2. decoded = signatures
    BY <1>6, <1>7, <1>9, <2>1
  <2> QED BY <1>7, <2>2 DEF Range
<1>11. p \in EncodedCertificates
  BY <1>5, <1>6 DEF CommitCertificates, EncodedCertificates
<1>12. c = [height |-> c.height, round |-> c.round, value_id |-> c.value_id,
            signatures |-> signatures]
  BY <1>2 DEF CommitCertificates
<1>13. CertificateFromProto(p) = [height |-> c.height, round |-> c.round,
         value_id |-> c.value_id, signatures |-> decoded]
  BY <1>5, <1>8, <1>9, <1>10 DEF CertificateFromProto, Whole
<1> QED BY <1>1, <1>10, <1>11, <1>12, <1>13

(* ... a value, ...                                                             *)
LEMMA ValueRoundTrip ==
  ASSUME NEW v \in Values
  PROVE  ValueProto(v) = v /\ ValueFromProto(v) = v
<1>1. v = [value |-> v.value, extensions |-> v.extensions] /\ v # Absent
  BY MarksAssumption DEF Values, Value
<1> QED BY <1>1 DEF ValueProto, ValueFromProto

(* ... and a response with both.                                                *)
Response(h, value) == ResponseProto([type |-> "value", height |-> h, value |-> value])
Served(v, c) == [value_bytes |-> v, certificate |-> c]

(* A sync response arrives as it was sent.                                      *)
LEMMA ResponseRoundTrip ==
  ASSUME NEW h \in 1..MaxHeight, NEW v \in Values, NEW c \in CommitCertificates
  PROVE  ResponseFromProto(Response(h, Served(v, c)))
           = [type |-> "value", height |-> h, value |-> Served(v, c)]
<1>1. PICK value : value = [value_bytes |-> v, certificate |-> c]
  OBVIOUS
<1>2. value \in SyncedValues /\ value # Absent /\ value # Failed
  BY <1>1, MarksAssumption DEF SyncedValues
<1>3. PICK ec \in EncodedCertificates : ec = CertificateProto(c) /\ CertificateFromProto(ec) = c
  BY CertificateRoundTrip
<1>4. PICK e : e = [value_bytes |-> v, certificate |-> ec]
  OBVIOUS
<1>5. SyncedValueProto(value) = e
  BY <1>1, <1>3, <1>4 DEF SyncedValueProto
<1>6. e \in EncodedValues /\ e # Absent /\ ec # Absent /\ c # Failed
  BY <1>3, <1>4, MarksAssumption DEF EncodedValues
<1>7. SyncedValueFromProto(e) = value
  BY <1>1, <1>3, <1>4, <1>6 DEF SyncedValueFromProto, Whole
<1>8. PICK p : p = [value_response |-> [height |-> h, value |-> e]]
  OBVIOUS
<1>9. Response(h, Served(v, c)) = p
  BY <1>1, <1>2, <1>5, <1>8 DEF Response, Served, ResponseProto
<1>10. p # Absent
  <2>1. p \in EncodedResponses
    BY <1>6, <1>8 DEF EncodedResponses
  <2> QED BY <2>1, MarksAssumption
<1>11. "value_response" \in DOMAIN p /\ p.value_response.height = h /\ p.value_response.value = e
  BY <1>8
<1>12. ResponseFromProto(p) = [type |-> "value", height |-> h, value |-> value]
  BY <1>2, <1>6, <1>7, <1>10, <1>11 DEF ResponseFromProto, Whole
<1> QED BY <1>1, <1>9, <1>12 DEF Served

(* A response that there is nothing to serve is that.                           *)
LEMMA EmptyRoundTrip ==
  ASSUME NEW h \in 1..MaxHeight
  PROVE  ResponseFromProto(Response(h, Absent)) = [type |-> "value", height |-> h, value |-> Absent]
<1>1. PICK p : p = [value_response |-> [height |-> h, value |-> Absent]]
  OBVIOUS
<1>2. Response(h, Absent) = p
  BY <1>1 DEF Response, ResponseProto
<1>3. p # Absent
  <2>1. p \in EncodedResponses
    BY <1>1 DEF EncodedResponses
  <2> QED BY <2>1, MarksAssumption
<1>4. "value_response" \in DOMAIN p /\ p.value_response.height = h /\ p.value_response.value = Absent
  BY <1>1
<1> QED BY <1>2, <1>3, <1>4, MarksAssumption DEF ResponseFromProto, Whole

-------------------------------------------------------------------------------
(* The inductive invariant.                                                     *)

(* c is what was stored for height h, with the value v of its data.             *)
StoredFor(h, v, c) ==
  /\ decided[h] = [round |-> c.round, value |-> v]
  /\ c.height = h /\ c.value_id = v.value
  /\ rows[h] = [value |-> ValueProto(v), certificate |-> CertificateProto(c)]
  /\ CertificateVerifies(c)

(* Votes are precommits that were signed and encoded.                           *)
VotesInv ==
  /\ IsFiniteSet(votes)
  /\ \A p \in votes : \E v \in Precommits : p = SignedMessageProto(SignVote(v))

(* Each decision is stored with a certificate that verifies.                    *)
RowsInv ==
  /\ decided \in Seq([round : Rounds, value : Values])
  /\ rows \in Seq([value : Values, certificate : EncodedCertificates])
  /\ Len(rows) = Len(decided) /\ Len(decided) <= MaxHeight
  /\ \A h \in 1..Len(decided) : \E v \in Values, c \in CommitCertificates : StoredFor(h, v, c)

(* What is served is what was stored.                                           *)
ResponsesInv ==
  \A p \in responses : \E h \in 1..MaxHeight :
    \/ p = Response(h, Absent)
    \/ /\ h \in 1..Len(decided)
       /\ \E v \in Values, c \in CommitCertificates :
            StoredFor(h, v, c) /\ p = Response(h, Served(v, c))

SyncedInv == SyncedAsDecided /\ \A s \in synced : s.height \in 1..Len(decided)

CertificatesInv == VotesInv /\ RowsInv /\ ResponsesInv /\ SyncedInv

-------------------------------------------------------------------------------
(* The list made of a finite set has every member of it.                        *)
LEMMA SetToSeqIsOnto ==
  ASSUME NEW S, IsFiniteSet(S)
  PROVE  SetToSeq(S) \in Seq(S) /\ Range(SetToSeq(S)) = S
<1>. DEFINE n == Cardinality(S)
<1>1. n \in Nat /\ IsFiniteSet(1..n) /\ Cardinality(1..n) = n
  BY FS_CardinalityType, FS_Interval
<1>2. PICK f \in [1..n -> S] : IsInjective(f)
  <2>1. ExistsBijection(1..n, S)
    BY FS_CardinalityType
  <2> QED BY <2>1 DEF ExistsBijection, Bijection, Injection, IsInjective
<1>3. PICK s : s = SetToSeq(S)
  OBVIOUS
<1>4. s \in [1..n -> S] /\ IsInjective(s)
  BY <1>2, <1>3, Zenon DEF SetToSeq
<1>5. s \in Injection(1..n, S)
  BY <1>4 DEF Injection, IsInjective
<1>6. s \in Surjection(1..n, S)
  BY <1>1, <1>5, FS_Injection
<1>7. s \in Seq(S) /\ DOMAIN s = 1..n
  BY <1>1, <1>4
<1>8. \A t \in S : \E i \in DOMAIN s : s[i] = t
  BY <1>6, <1>7 DEF Surjection
<1>9. Range(s) = S
  <2>1. \A i \in DOMAIN s : s[i] \in S
    BY <1>4, <1>7
  <2> QED BY <1>8, <2>1 DEF Range
<1> QED BY <1>3, <1>7, <1>9

(* Precommits for a value, collected from votes, make a certificate that says   *)
(* who is behind the value.                                                     *)
LEMMA CollectedVerifies ==
  ASSUME NEW h \in 1..MaxHeight, NEW r \in Rounds, NEW id \in Hashes,
         NEW received, IsFiniteSet(received),
         \A sv \in received : /\ \E v \in Precommits : sv = SignVote(v)
                              /\ sv.vote = Precommit(h, r, id, sv.vote.validator_address),
         Quorum({sv.vote.validator_address : sv \in received}),
         NEW collected,
         collected = SetToSeq({[address |-> sv.vote.validator_address,
                                signature |-> sv.signature] : sv \in received}),
         NEW c, c = [height |-> h, round |-> r, value_id |-> id, signatures |-> collected]
  PROVE  c \in CommitCertificates /\ CertificateVerifies(c)
<1>. DEFINE Signed(sv) == [address |-> sv.vote.validator_address, signature |-> sv.signature]
<1>1. PICK S : S = {[address |-> sv.vote.validator_address,
                    signature |-> sv.signature] : sv \in received}
  OBVIOUS
<1>2. IsFiniteSet(S)
  <2>1. PICK f : f = [sv \in received |-> Signed(sv)]
    OBVIOUS
  <2>2. f \in Surjection(received, S)
    BY <1>1, <2>1 DEF Surjection
  <2> QED BY <2>2, FS_Surjection
<1>3. collected \in Seq(S) /\ Range(collected) = S
  BY <1>1, <1>2, SetToSeqIsOnto
<1>4. ASSUME NEW sv \in received
      PROVE  /\ sv.vote.validator_address \in Addresses /\ sv.signature \in Signatures
             /\ sv.signature = Sign(sv.vote.validator_address,
                                    VoteProto(Precommit(h, r, id, sv.vote.validator_address)))
  <2>1. PICK v \in Precommits : sv = SignVote(v)
    OBVIOUS
  <2>2. sv.vote = v /\ sv.signature = Sign(v.validator_address, VoteProto(v))
    BY <2>1 DEF SignVote
  <2>3. v = Precommit(h, r, id, v.validator_address)
    BY <2>2
  <2>4. v.validator_address \in Addresses /\ sv.signature \in Signatures
    BY <2>2, SignatureType DEF Precommits
  <2> QED BY <2>2, <2>3, <2>4
<1>5. S \subseteq CommitSignatures
  BY <1>1, <1>4 DEF CommitSignatures
<1>6. c \in CommitCertificates
  <2>1. collected \in Seq(CommitSignatures)
    BY <1>3, <1>5
  <2> QED BY <2>1 DEF CommitCertificates
<1>7. ASSUME NEW i \in DOMAIN collected
      PROVE  CommitSignatureVerifies(c, collected[i])
  <2>1. PICK s : s = collected[i]
    OBVIOUS
  <2>2. s \in S
    BY <1>3, <2>1
  <2>3. PICK sv \in received : s = Signed(sv)
    BY <1>1, <2>2
  <2>4. s.address = sv.vote.validator_address /\ s.signature = sv.signature
    BY <2>3
  <2>5. Verifies(s.address, VoteProto(Precommit(h, r, id, s.address)), s.signature)
    BY <1>4, <2>4 DEF Verifies
  <2> QED BY <2>1, <2>5 DEF CommitSignatureVerifies
<1>8. PICK T : T = {c.signatures[i].address :
         i \in {j \in DOMAIN c.signatures : CommitSignatureVerifies(c, c.signatures[j])}}
  OBVIOUS
<1>9. PICK U : U = {sv.vote.validator_address : sv \in received}
  OBVIOUS
<1>10. T = {collected[i].address : i \in DOMAIN collected}
  BY <1>7, <1>8
<1>11. T \subseteq U
  BY <1>1, <1>3, <1>9, <1>10
<1>12. ASSUME NEW a \in U
       PROVE  a \in T
  <2>1. PICK sv \in received : a = sv.vote.validator_address
    BY <1>9
  <2>2. Signed(sv) \in Range(collected)
    BY <1>1, <1>3
  <2>3. PICK i \in DOMAIN collected : collected[i] = Signed(sv)
    BY <2>2 DEF Range
  <2>4. collected[i].address = a
    BY <2>1, <2>3
  <2> QED BY <1>10, <2>3, <2>4
<1>13. T = U
  BY <1>11, <1>12
<1> QED BY <1>6, <1>8, <1>9, <1>13 DEF CertificateVerifies

-------------------------------------------------------------------------------
(* The steps.                                                                   *)

(* A decision that was stored stays stored when another is appended.            *)
LEMMA StoredStays ==
  ASSUME RowsInv, NEW d, NEW row, decided' = Append(decided, d), rows' = Append(rows, row),
         NEW h \in 1..Len(decided), NEW v, NEW c, StoredFor(h, v, c)
  PROVE  StoredFor(h, v, c)'
<1>1. decided'[h] = decided[h] /\ rows'[h] = rows[h]
  BY DEF RowsInv
<1> QED BY <1>1 DEF StoredFor, CertificateVerifies, CommitSignatureVerifies, Quorum

(* Decisions that do not change stay as they are stored.                        *)
LEMMA StoredUnchanged ==
  ASSUME UNCHANGED <<decided, rows>>, NEW h, NEW v, NEW c
  PROVE  StoredFor(h, v, c)' <=> StoredFor(h, v, c)
BY DEF StoredFor, CertificateVerifies, CommitSignatureVerifies, Quorum

(* A step that leaves decisions and rows alone keeps what is said of rows.      *)
LEMMA RowsUnchanged ==
  ASSUME RowsInv, UNCHANGED <<decided, rows>>
  PROVE  RowsInv'
BY StoredUnchanged DEF RowsInv

(* A step that also leaves the responses alone keeps what is said of them.      *)
LEMMA ResponsesUnchanged ==
  ASSUME ResponsesInv, UNCHANGED <<decided, rows, responses>>
  PROVE  ResponsesInv'
BY StoredUnchanged DEF ResponsesInv

(* A validator's precommit.                                                     *)
LEMMA CastPrecommitInv ==
  ASSUME CertificatesInv, NEW a \in Addresses, NEW r \in Rounds,
         NEW id \in Hashes \cup {Nil}, CastPrecommit(a, r, id)
  PROVE  CertificatesInv'
<1>1. PICK h : h = Len(decided) + 1
  OBVIOUS
<1>2. h \in 1..MaxHeight
  BY <1>1, BoundsAssumption DEF CertificatesInv, RowsInv, CastPrecommit
<1>3. PICK v : v = Precommit(h, r, id, a)
  OBVIOUS
<1>4. v \in Precommits
  BY <1>2, <1>3 DEF Precommit, Precommits
<1>5. votes' = votes \cup {SignedMessageProto(SignVote(v))}
      /\ UNCHANGED <<decided, rows, responses, synced>>
  BY <1>1, <1>3 DEF CastPrecommit
<1>6. VotesInv'
  BY <1>4, <1>5, FS_AddElement DEF CertificatesInv, VotesInv
<1>7. RowsInv' /\ ResponsesInv' /\ SyncedInv'
  BY <1>5, RowsUnchanged, ResponsesUnchanged DEF CertificatesInv, SyncedInv, SyncedAsDecided
<1> QED BY <1>6, <1>7 DEF CertificatesInv

(* A decision with its certificate.                                             *)
LEMMA DecideInv ==
  ASSUME CertificatesInv, NEW r \in Rounds, NEW data \in Payloads, NEW ps \in SUBSET votes,
         NEW received, received = {SignedMessageFromProto(p) : p \in ps},
         Decide(r, data, received)
  PROVE  CertificatesInv'
<1>1. PICK h : h = Len(decided) + 1
  OBVIOUS
<1>2. h \in 1..MaxHeight
  BY <1>1, BoundsAssumption DEF CertificatesInv, RowsInv, Decide
<1>3. PICK v \in Values : v = Value(data)
  BY DEF Values
<1>4. v.value = Hash(data) /\ Hash(data) \in Hashes
  BY <1>3 DEF Value, Hashes
<1>5. \A sv \in received : \E w \in Precommits : sv = SignVote(w)
  BY SignedVoteRoundTrip DEF CertificatesInv, VotesInv
<1>6. IsFiniteSet(received)
  <2>1. IsFiniteSet(ps)
    BY FS_Subset DEF CertificatesInv, VotesInv
  <2>2. PICK f : f = [p \in ps |-> SignedMessageFromProto(p)]
    OBVIOUS
  <2>3. f \in Surjection(ps, received)
    BY <2>2 DEF Surjection
  <2> QED BY <2>1, <2>3, FS_Surjection
<1>7. PICK behind : behind = {sv \in received :
        /\ VoteVerifies(sv)
        /\ sv.vote = Precommit(h, r, Hash(data), sv.vote.validator_address)}
  OBVIOUS
<1>8. PICK signatures : signatures = SetToSeq({[address |-> sv.vote.validator_address,
                                                signature |-> sv.signature] : sv \in behind})
  OBVIOUS
<1>9. PICK c : c = [height |-> h, round |-> r, value_id |-> Hash(data),
                    signatures |-> signatures]
  OBVIOUS
<1>10. PICK d : d = [round |-> r, value |-> v]
  OBVIOUS
<1>11. PICK row : row = [value |-> ValueProto(v), certificate |-> CertificateProto(c)]
  OBVIOUS
<1>12. /\ behind = received
       /\ Quorum({sv.vote.validator_address : sv \in behind})
       /\ votes' = {}
       /\ decided' = Append(decided, d) /\ rows' = Append(rows, row)
       /\ UNCHANGED <<responses, synced>>
  BY <1>1, <1>3, <1>7, <1>8, <1>9, <1>10, <1>11, Zenon DEF Decide, InsertDecidedValue
<1>13. c \in CommitCertificates /\ CertificateVerifies(c)
  <2>1. \A sv \in received : sv.vote = Precommit(h, r, Hash(data), sv.vote.validator_address)
    BY <1>7, <1>12
  <2> QED BY <1>2, <1>4, <1>5, <1>6, <1>8, <1>9, <1>12, <2>1, CollectedVerifies
<1>14. VotesInv'
  BY <1>12, FS_EmptySet DEF VotesInv
<1>15. d \in [round : Rounds, value : Values]
       /\ row \in [value : Values, certificate : EncodedCertificates]
  BY <1>10, <1>11, <1>13, CertificateRoundTrip, ValueRoundTrip
<1>16. /\ Len(decided) \in Nat /\ Len(decided') = h /\ Len(rows') = h
       /\ decided'[h] = d /\ rows'[h] = row
  BY <1>1, <1>12, <1>15 DEF CertificatesInv, RowsInv
<1>17. StoredFor(h, v, c)'
  BY <1>4, <1>9, <1>10, <1>11, <1>13, <1>16
     DEF StoredFor, CertificateVerifies, CommitSignatureVerifies, Quorum
<1>18. ASSUME NEW k \in 1..Len(decided), NEW w, NEW e, StoredFor(k, w, e)
       PROVE  StoredFor(k, w, e)'
  BY <1>12, <1>18, StoredStays DEF CertificatesInv
<1>19. RowsInv'
  <2>1. decided' \in Seq([round : Rounds, value : Values])
        /\ rows' \in Seq([value : Values, certificate : EncodedCertificates])
    BY <1>12, <1>15 DEF CertificatesInv, RowsInv
  <2>2. ASSUME NEW k \in 1..Len(decided')
        PROVE  \E w \in Values, e \in CommitCertificates : StoredFor(k, w, e)'
    <3>1. CASE k = h
      BY <1>3, <1>13, <1>17, <3>1
    <3>2. CASE k # h
      <4>1. k \in 1..Len(decided)
        BY <1>1, <1>16, <3>2
      <4> QED BY <1>18, <4>1 DEF CertificatesInv, RowsInv
    <3> QED BY <3>1, <3>2
  <2> QED BY <1>2, <1>16, <2>1, <2>2 DEF RowsInv
<1>20. ResponsesInv'
  <2>1. ASSUME NEW k \in 1..Len(decided)
        PROVE  k \in 1..Len(decided')
    BY <1>1, <1>16
  <2> QED BY <1>12, <1>18, <2>1 DEF CertificatesInv, ResponsesInv
<1>21. SyncedInv'
  <2>1. ASSUME NEW s \in synced
        PROVE  s.height \in 1..Len(decided') /\ decided'[s.height] = decided[s.height]
    BY <1>1, <1>12, <1>16 DEF CertificatesInv, RowsInv, SyncedInv
  <2> QED BY <1>12, <2>1 DEF CertificatesInv, SyncedInv, SyncedAsDecided
<1> QED BY <1>14, <1>19, <1>20, <1>21 DEF CertificatesInv

(* A decision served.                                                           *)
LEMMA GetDecidedValueInv ==
  ASSUME CertificatesInv, NEW h \in 1..MaxHeight, GetDecidedValue(h)
  PROVE  CertificatesInv'
<1>1. PICK raw : raw = [value_bytes |-> ValueProto(ValueFromProto(rows[h].value)),
                        certificate |-> CertificateFromProto(rows[h].certificate)]
  OBVIOUS
<1>2. PICK value : value = IF h \in DOMAIN rows THEN raw ELSE Absent
  OBVIOUS
<1>3. PICK p : p = Response(h, value)
  OBVIOUS
<1>4. responses' = responses \cup {p} /\ UNCHANGED <<votes, decided, rows, synced>>
  BY <1>1, <1>2, <1>3 DEF GetDecidedValue, Response
<1>5. VotesInv' /\ RowsInv' /\ SyncedInv'
  BY <1>4, RowsUnchanged DEF CertificatesInv, VotesInv, SyncedInv, SyncedAsDecided
<1>6. \/ p = Response(h, Absent)
      \/ /\ h \in 1..Len(decided)
         /\ \E v \in Values, c \in CommitCertificates :
              StoredFor(h, v, c) /\ p = Response(h, Served(v, c))
  <2>1. CASE h \in DOMAIN rows
    <3>1. h \in 1..Len(decided)
      BY <2>1 DEF CertificatesInv, RowsInv
    <3>2. PICK v \in Values, c \in CommitCertificates : StoredFor(h, v, c)
      BY <3>1 DEF CertificatesInv, RowsInv
    <3>3. rows[h].value = ValueProto(v) /\ rows[h].certificate = CertificateProto(c)
      BY <3>2 DEF StoredFor
    <3>4. raw = Served(v, c)
      BY <1>1, <3>3, ValueRoundTrip, CertificateRoundTrip DEF Served
    <3> QED BY <1>2, <1>3, <2>1, <3>1, <3>2, <3>4
  <2>2. CASE h \notin DOMAIN rows
    BY <1>2, <1>3, <2>2
  <2> QED BY <2>1, <2>2
<1>7. ResponsesInv'
  BY <1>4, <1>6 DEF CertificatesInv, ResponsesInv, StoredFor
<1> QED BY <1>5, <1>7 DEF CertificatesInv

(* What a response holds.                                                       *)
LEMMA ResponseContents ==
  ASSUME CertificatesInv, NEW p \in responses, ResponseFromProto(p).value # Absent
  PROVE  \E h \in 1..Len(decided), v \in Values, c \in CommitCertificates :
           /\ StoredFor(h, v, c)
           /\ ResponseFromProto(p).value = Served(v, c)
<1>1. PICK h \in 1..MaxHeight :
        \/ p = Response(h, Absent)
        \/ /\ h \in 1..Len(decided)
           /\ \E v \in Values, c \in CommitCertificates :
                StoredFor(h, v, c) /\ p = Response(h, Served(v, c))
  BY DEF CertificatesInv, ResponsesInv
<1>2. p # Response(h, Absent)
  BY EmptyRoundTrip
<1>3. PICK v \in Values, c \in CommitCertificates :
        h \in 1..Len(decided) /\ StoredFor(h, v, c) /\ p = Response(h, Served(v, c))
  BY <1>1, <1>2
<1>4. ResponseFromProto(p).value = Served(v, c)
  BY <1>3, ResponseRoundTrip
<1> QED BY <1>3, <1>4

(* A decision received.                                                         *)
LEMMA ProcessSyncedValueInv ==
  ASSUME CertificatesInv, NEW p \in responses, ProcessSyncedValue(p)
  PROVE  CertificatesInv'
<1>1. PICK value : value = ResponseFromProto(p).value
  OBVIOUS
<1>2. PICK s : s = [height |-> value.certificate.height, round |-> value.certificate.round,
                    value |-> DecodeValue(value.value_bytes)]
  OBVIOUS
<1>3. value # Absent /\ synced' = synced \cup {s} /\ UNCHANGED <<votes, decided, rows, responses>>
  BY <1>1, <1>2 DEF ProcessSyncedValue
<1>4. PICK h \in 1..Len(decided), v \in Values, c \in CommitCertificates :
        StoredFor(h, v, c) /\ value = Served(v, c)
  BY <1>1, <1>3, ResponseContents
<1>5. s = [height |-> h, round |-> c.round, value |-> v]
  BY <1>2, <1>4, ValueRoundTrip DEF DecodeValue, Served, StoredFor
<1>6. decided[s.height] = [round |-> s.round, value |-> s.value] /\ s.height \in 1..Len(decided)
  BY <1>4, <1>5 DEF StoredFor
<1>7. SyncedInv'
  BY <1>3, <1>6 DEF CertificatesInv, SyncedInv, SyncedAsDecided
<1>8. VotesInv' /\ RowsInv' /\ ResponsesInv'
  BY <1>3, RowsUnchanged, ResponsesUnchanged DEF CertificatesInv, VotesInv
<1> QED BY <1>7, <1>8 DEF CertificatesInv

(* The invariant holds of every state.                                          *)
THEOREM CertificatesInvariant == Spec => []CertificatesInv
<1>1. Init => CertificatesInv
  <2>1. Init => VotesInv /\ ResponsesInv /\ SyncedInv
    BY FS_EmptySet DEF Init, VotesInv, ResponsesInv, SyncedInv, SyncedAsDecided
  <2>2. Init => RowsInv
    BY BoundsAssumption DEF Init, RowsInv
  <2> QED BY <2>1, <2>2 DEF CertificatesInv
<1>2. CertificatesInv /\ [Next]_vars => CertificatesInv'
  <2>1. SUFFICES ASSUME CertificatesInv, [Next]_vars PROVE CertificatesInv'
    OBVIOUS
  <2>2. CASE \E a \in Addresses, r \in Rounds, d \in Payloads :
               CastPrecommit(a, r, Hash(d)) \/ CastPrecommit(a, r, Nil)
    <3>1. \A d \in Payloads : Hash(d) \in Hashes
      BY DEF Hashes
    <3> QED BY <2>1, <2>2, <3>1, CastPrecommitInv
  <2>3. CASE \E r \in Rounds, d \in Payloads, ps \in SUBSET votes :
               Decide(r, d, {SignedMessageFromProto(p) : p \in ps})
    BY <2>1, <2>3, DecideInv
  <2>4. CASE \E h \in 1..MaxHeight : GetDecidedValue(h)
    BY <2>1, <2>4, GetDecidedValueInv
  <2>5. CASE \E p \in responses : ProcessSyncedValue(p)
    BY <2>1, <2>5, ProcessSyncedValueInv
  <2>6. CASE UNCHANGED vars
    BY <2>1, <2>6, RowsUnchanged, ResponsesUnchanged
       DEF vars, CertificatesInv, VotesInv, SyncedInv, SyncedAsDecided
  <2> QED BY <2>1, <2>2, <2>3, <2>4, <2>5, <2>6 DEF Next
<1> QED BY <1>1, <1>2, PTL DEF Spec

-------------------------------------------------------------------------------
(* A peer that is served a decision finds enough signatures that verify, for    *)
(* the value that comes with them (commit and GetDecidedValue store and load    *)
(* certificate and value as bytes; the peer calls verify_commit_signature).     *)
(* That commit found the proposal of the value decided is part of Decide.       *)
THEOREM ServedConvinces == Spec => []ServedVerify
<1>1. CertificatesInv => ServedVerify
  <2>1. SUFFICES ASSUME CertificatesInv, NEW p \in responses,
                        ResponseFromProto(p).value # Absent
                 PROVE  LET value == ResponseFromProto(p).value
                        IN  /\ CertificateVerifies(value.certificate)
                            /\ ValueFromProto(value.value_bytes).value
                                 = value.certificate.value_id
    BY DEF ServedVerify
  <2>2. PICK h \in 1..Len(decided), v \in Values, c \in CommitCertificates :
          StoredFor(h, v, c) /\ ResponseFromProto(p).value = Served(v, c)
    BY <2>1, ResponseContents
  <2>3. PICK value : value = ResponseFromProto(p).value
    OBVIOUS
  <2>4. value.certificate = c /\ value.value_bytes = v
    BY <2>2, <2>3 DEF Served
  <2>5. CertificateVerifies(c) /\ ValueFromProto(v).value = c.value_id
    BY <2>2, ValueRoundTrip DEF StoredFor
  <2> QED BY <2>3, <2>4, <2>5
<1> QED BY <1>1, CertificatesInvariant, PTL

(* What a peer's application decodes is the decision: its round, the value id   *)
(* and the data (AppMsg::ProcessSyncedValue).                                   *)
THEOREM SyncedIsDecided == Spec => []SyncedAsDecided
<1>1. CertificatesInv => SyncedAsDecided
  BY DEF CertificatesInv, SyncedInv
<1> QED BY <1>1, CertificatesInvariant, PTL
===============================================================================
