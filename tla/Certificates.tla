------------------------------ MODULE Certificates -----------------------------
(* The way of a decision to a node that did not take part in it: validators     *)
(* sign precommits and send them; a node that hears enough of them decides,     *)
(* keeps the value and the certificate in its store as bytes (store.rs), reads  *)
(* them again when a peer asks (GetDecidedValue), and sends them as a sync      *)
(* response; the peer's engine checks the certificate signature by signature    *)
(* (verify_commit_signature) and its application decodes the value              *)
(* (ProcessSyncedValue).                                                        *)
(*                                                                              *)
(* The engine (Malachite) is external: who votes when, that a certificate       *)
(* collects the precommits for one value of one height and round, and that more *)
(* than two thirds of the voting power must be behind it.  The network loses,   *)
(* repeats and reorders: a message sent may be received at any time.            *)
EXTENDS Codec, FiniteSets

CONSTANTS
  Power,      \* the voting power of each validator
  Payloads    \* the blocks that may be decided

ASSUME BoundsAssumption == MaxHeight \in Nat /\ MaxRound \in Nat
ASSUME AddressesAssumption ==
  IsFiniteSet(Addresses) /\ {Absent, Malformed, Failed, Nil} \cap Addresses = {}
ASSUME PowerAssumption == Power \in [Addresses -> Nat]

VARIABLES
  votes,      \* the signed votes for the height being decided, encoded
  decided,    \* the decisions: [round, value] per height
  rows,       \* its store: the encoded value and certificate per height
  responses,  \* the sync responses on the network, encoded
  synced      \* what the peer's application has replied to ProcessSyncedValue

vars == <<votes, decided, rows, responses, synced>>

-------------------------------------------------------------------------------
(* What is signed, and what becomes of it, as it is and encoded.                *)
Hashes == {Hash(d) : d \in Payloads}
Values == {Value(d) : d \in Payloads}
Precommits == [typ : {"precommit"}, height : 1..MaxHeight, round : Rounds,
               value : Hashes \cup {Nil}, validator_address : Addresses]
EncodedPrecommits == [vote_type : {1}, height : 1..MaxHeight, round : Rounds,
                      value : Hashes \cup {Absent}, validator_address : Addresses]
Signatures == [signer : Addresses, bytes : EncodedPrecommits]
CommitSignatures == [address : Addresses, signature : Signatures]
CommitCertificates ==
  [height : 1..MaxHeight, round : Rounds, value_id : Hashes, signatures : Seq(CommitSignatures)]
SyncedValues == [value_bytes : Values, certificate : CommitCertificates]

EncodedSignatures == [validator_address : Addresses, signature : Signatures]
EncodedCertificates ==
  [height : 1..MaxHeight, round : Rounds, value_id : Hashes,
   aggregated_signature : Seq(EncodedSignatures)]
EncodedValues == [value_bytes : Values, certificate : EncodedCertificates]
EncodedResponses ==
  [value_response : [height : 1..MaxHeight, value : EncodedValues \cup {Absent}]]

(* What is missing or wrong is told from what is there.                         *)
ASSUME MarksAssumption ==
  /\ Failed # Absent /\ Nil # Absent
  /\ \A mark \in {Absent, Malformed, Failed, Nil} :
       /\ mark \notin Hashes /\ mark \notin Values
       /\ mark \notin Precommits /\ mark \notin [vote : EncodedPrecommits]
       /\ mark \notin Signatures /\ mark \notin CommitSignatures
       /\ mark \notin CommitCertificates /\ mark \notin SyncedValues
       /\ mark \notin Seq(EncodedSignatures)
       /\ mark \notin EncodedCertificates /\ mark \notin EncodedValues
       /\ mark \notin EncodedResponses

SignVote(v) == [vote |-> v, signature |-> Sign(v.validator_address, VoteProto(v))]
VoteVerifies(sv) == Verifies(sv.vote.validator_address, VoteProto(sv.vote), sv.signature)

Quorum(validators) == 3 * SumFunctionOnSet(Power, validators) > 2 * SumFunction(Power)
CertificateVerifies(c) ==
  Quorum({c.signatures[i].address :
            i \in {j \in DOMAIN c.signatures : CommitSignatureVerifies(c, c.signatures[j])}})

PrecommitsOf(h, a) ==
  {v \in {SignedMessageFromProto(p).vote : p \in votes} :
     v.height = h /\ v.validator_address = a /\ v.typ = "precommit"}

-------------------------------------------------------------------------------
(* A validator precommits once per round, nil or a value, and no other value    *)
(* after a first one (it is locked on it).                                      *)
CastPrecommit(a, r, id) ==
  LET h == Len(decided) + 1
      earlier == PrecommitsOf(h, a)
  IN
  /\ h <= MaxHeight
  /\ \A v \in earlier : v.round < r /\ (v.value # Nil => id \in {Nil, v.value})
  /\ votes' = votes \cup {SignedMessageProto(SignVote(Precommit(h, r, id, a)))}
  /\ UNCHANGED <<decided, rows, responses, synced>>

(* The value of the stored proposal and the certificate, in one transaction.    *)
InsertDecidedValue(certificate, proposal) ==
  rows' = Append(rows, [value |-> ValueProto(proposal),
                        certificate |-> CertificateProto(certificate)])

(* AppMsg::Decided, with a certificate made of precommits that reached this     *)
(* node, those whose signatures verify.  commit takes the value from the        *)
(* proposal stored for the height and round of the certificate, without         *)
(* comparing the two.  Here that proposal is assumed to be the decided one:     *)
(* StoresDecision of Node, which the code owes to its peers streaming one       *)
(* proposal a round (not so in the run node_repropose) and to having received   *)
(* it as a proposal (not so in node_sync, where commit stores nothing).         *)
Decide(r, data, received) ==
  LET h == Len(decided) + 1
      behind == {sv \in received : /\ VoteVerifies(sv)
                                   /\ sv.vote = Precommit(h, r, Hash(data), sv.vote.validator_address)}
      signatures == SetToSeq({[address |-> sv.vote.validator_address, signature |-> sv.signature] :
                                sv \in behind})
      certificate == [height |-> h, round |-> r, value_id |-> Hash(data), signatures |-> signatures]
      proposal == Value(data)
  IN
  /\ h <= MaxHeight
  /\ behind = received /\ Quorum({sv.vote.validator_address : sv \in behind})
  /\ votes' = {}
  /\ decided' = Append(decided, [round |-> r, value |-> Value(data)])
  /\ InsertDecidedValue(certificate, proposal)
  /\ UNCHANGED <<responses, synced>>

(* AppMsg::GetDecidedValue, and the response the engine makes of the reply.     *)
GetDecidedValue(h) ==
  LET raw == [value_bytes |-> ValueProto(ValueFromProto(rows[h].value)),
              certificate |-> CertificateFromProto(rows[h].certificate)]
  IN
  /\ responses' = responses \cup
       {ResponseProto([type |-> "value", height |-> h,
                       value |-> IF h \in DOMAIN rows THEN raw ELSE Absent])}
  /\ UNCHANGED <<votes, decided, rows, synced>>

(* decode_value, and AppMsg::ProcessSyncedValue.                                *)
DecodeAndHash(bytes) == Value(bytes)    \* mutant: the value is built from its encoding
DecodeValue(bytes) == ValueFromProto(bytes)
ProcessSyncedValue(p) ==
  LET response == ResponseFromProto(p) IN
  /\ response.value # Absent
  /\ CertificateVerifies(response.value.certificate)
  /\ synced' = synced \cup {[height |-> response.value.certificate.height,
                             round |-> response.value.certificate.round,
                             value |-> DecodeValue(response.value.value_bytes)]}
  /\ UNCHANGED <<votes, decided, rows, responses>>

Init ==
  /\ votes = {}
  /\ decided = <<>> /\ rows = <<>>
  /\ responses = {} /\ synced = {}

Next ==
  \/ \E a \in Addresses, r \in Rounds, d \in Payloads :
       CastPrecommit(a, r, Hash(d)) \/ CastPrecommit(a, r, Nil)
  \/ \E r \in Rounds, d \in Payloads, ps \in SUBSET votes :
       Decide(r, d, {SignedMessageFromProto(p) : p \in ps})
  \/ \E h \in 1..MaxHeight : GetDecidedValue(h)
  \/ \E p \in responses : ProcessSyncedValue(p)

Spec == Init /\ [][Next]_vars

-------------------------------------------------------------------------------
(* Properties.                                                                  *)

(* A decision that is served convinces every peer: after both trips over the    *)
(* network and one through the store, enough signatures still verify against    *)
(* the precommits rebuilt from the certificate, and they are for the value that *)
(* comes with it, provided commit found the decided one (see Decide).           *)
ServedVerify ==
  \A p \in responses :
    LET value == ResponseFromProto(p).value IN
    value # Absent =>
      /\ CertificateVerifies(value.certificate)
      /\ ValueFromProto(value.value_bytes).value = value.certificate.value_id

(* What a peer's application replies for a synced value is the decision of that *)
(* height: round, value id and data, with the same proviso.                     *)
SyncedAsDecided ==
  \A s \in synced : decided[s.height] = [round |-> s.round, value |-> s.value]
===============================================================================
