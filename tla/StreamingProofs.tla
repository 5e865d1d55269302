---------------------------- MODULE StreamingProofs ----------------------------
(* What module Streaming promises, proved for every set of proposers and        *)
(* blocks, every proposer selection and every bound.                            *)
(*                                                                              *)
(* The argument: a buffer of the receiver only ever holds messages of           *)
(* proposals published under its key, and everything published under one key    *)
(* has the same proposer, height and round.  The one thing two proposals of a   *)
(* key may differ in is their block, and the signature of any Fin part in the   *)
(* buffer names the block it was made for.  Nothing is accepted twice because   *)
(* only message 0 sets init_info, and message 0 is inserted once.               *)
EXTENDS Streaming, TLAPS, FiniteSetTheorems, SequenceTheorems

(* The messages of the proposals published on a key.                            *)
OnKey(pubs, k) == {i \in DOMAIN pubs : Key(pubs[i]) = k}
KeyMessages(pubs, k) ==
  UNION {{Message(pubs[i], s) : s \in Sequences(pubs[i])} : i \in OnKey(pubs, k)}
KeyInit(k) == [type |-> "init", height |-> k.stream.height, round |-> k.stream.round,
               proposer |-> k.peer]

Publications == [proposer : Proposers, height : Heights, round : Rounds,
                 nonce : Nonces, block : Blocks]

(* The parts of the inductive invariant.                                        *)
PublishedInv ==
  /\ published \in Seq(Publications)
  /\ sender \in [Proposers -> [height : Heights, nonce : Nat]]
  /\ \A p \in Proposers : sender[p].nonce <= Len(published)
  /\ Len(published) <= MaxPublished
  /\ current_height \in Heights

StateInv(st, pubs, k) ==
  /\ st.buffer \in Seq(KeyMessages(pubs, k))
  /\ st.init_info \in {NoInit, KeyInit(k)}
  /\ st.seen_sequences \subseteq Nat
  /\ st.total_messages \in Nat
  /\ st.fin_received \in BOOLEAN
  /\ st.fin_received <=> st.total_messages # 0
  /\ st.init_info # NoInit => 0 \in st.seen_sequences
  /\ \A i \in DOMAIN st.buffer : st.buffer[i].sequence \in st.seen_sequences

StreamsInv ==
  /\ DOMAIN streams = Keys
  /\ \A k \in Keys : StateInv(streams[k], published, k)

IsPublished(pubs, a) ==
  \E i \in DOMAIN pubs : Key(pubs[i]) = a.key /\ Proposal(pubs[i]) = a.proposal

AcceptedInv ==
  /\ accepted \in Seq([key : Keys, proposal : Proposals])
  /\ \A i \in DOMAIN accepted :
       /\ IsPublished(published, accepted[i])
       /\ 0 \in streams[accepted[i].key].seen_sequences
       /\ streams[accepted[i].key].init_info = NoInit
  /\ \A i, j \in DOMAIN accepted : accepted[i].key = accepted[j].key => i = j

Inv == PublishedInv /\ StreamsInv /\ AcceptedInv

-------------------------------------------------------------------------------
(* Inserting an element in a sequence adds it and alters nothing else.          *)
LEMMA InsertAtProperties ==
  ASSUME NEW M, NEW seq \in Seq(M), NEW e \in M,
         NEW k \in Nat, 1 <= k, k <= Len(seq) + 1
  PROVE  /\ InsertAt(seq, k, e) \in Seq(M)
         /\ Len(InsertAt(seq, k, e)) = Len(seq) + 1
         /\ \A i \in 1..Len(seq) + 1 : InsertAt(seq, k, e)[i] =
              IF i < k THEN seq[i] ELSE IF i = k THEN e ELSE seq[i - 1]
<1>0. PICK n \in Nat : n + 1 = k /\ n <= Len(seq)
  <2>1. k - 1 \in Nat /\ (k - 1) + 1 = k /\ k - 1 <= Len(seq)
    BY LenProperties
  <2> QED BY <2>1
<1> DEFINE lower == SubSeq(seq, 1, n)
           upper == SubSeq(seq, n + 1, Len(seq))
           last == <<e>>
           front == lower \o last
           all == front \o upper
<1>1. DOMAIN seq = 1..Len(seq) /\ Len(seq) \in Nat /\ n <= Len(seq)
  BY <1>0, LenProperties
<1>2. InsertAt(seq, k, e) = all
  <2>1. k - 1 = n /\ k = n + 1
    BY <1>0
  <2> QED BY <2>1 DEF InsertAt
<1>3. /\ lower \in Seq(M) /\ Len(lower) = n
      /\ \A i \in 1..n : lower[i] = seq[i]
  <2>1. \A i \in 1..n : seq[i] \in M
    BY <1>1, ElementOfSeq
  <2> QED BY <2>1, SubSeqProperties
<1>4. /\ upper \in Seq(M) /\ Len(upper) = Len(seq) - n
      /\ \A i \in 1..(Len(seq) - n) : upper[i] = seq[n + i]
  <2>1. \A i \in (n+1)..Len(seq) : seq[i] \in M
    BY <1>1, ElementOfSeq
  <2>2. n + 1 \in Int /\ Len(seq) \in Int
    BY <1>1
  <2>3. /\ upper \in Seq(M)
        /\ Len(upper) = IF n + 1 <= Len(seq) THEN Len(seq) - (n + 1) + 1 ELSE 0
        /\ \A i \in 1..(Len(seq) - (n + 1) + 1) : upper[i] = seq[(n + 1) + i - 1]
    BY <2>1, <2>2, SubSeqProperties
  <2> HIDE DEF upper
  <2>4. Len(upper) = Len(seq) - n
    <3>1. CASE n = Len(seq)
      BY <3>1, <2>3, <1>1
    <3>2. CASE n # Len(seq)
      <4>1. n + 1 <= Len(seq) /\ Len(seq) - (n + 1) + 1 = Len(seq) - n
        <5>1. Len(seq) \in Nat /\ n <= Len(seq)
          BY <1>1
        <5>2. \A a, b \in Nat : a <= b /\ a # b => a + 1 <= b /\ b - (a + 1) + 1 = b - a
          OBVIOUS
        <5> QED BY <5>1, <5>2, <3>2
      <4> QED BY <4>1, <2>3
    <3> QED BY <3>1, <3>2
  <2>5. ASSUME NEW i \in 1..(Len(seq) - n)
        PROVE  upper[i] = seq[n + i]
    <3>1. i \in 1..(Len(seq) - (n + 1) + 1) /\ (n + 1) + i - 1 = n + i
      BY <1>1
    <3> QED BY <2>3, <3>1
  <2> QED BY <2>3, <2>4, <2>5
<1> HIDE DEF lower, upper
<1>5. last \in Seq(M) /\ Len(last) = 1 /\ last[1] = e
  OBVIOUS
<1> HIDE DEF last
<1>6. /\ front \in Seq(M) /\ Len(front) = n + 1
      /\ \A i \in 1..n : front[i] = seq[i]
      /\ front[n + 1] = e
  <2>1. /\ front \in Seq(M) /\ Len(front) = Len(lower) + Len(last)
        /\ \A i \in 1..(Len(lower) + Len(last)) : front[i] =
             IF i <= Len(lower) THEN lower[i] ELSE last[i - Len(lower)]
    BY <1>3, <1>5, ConcatProperties
  <2> HIDE DEF front
  <2>2. (n + 1) - n = 1
    OBVIOUS
  <2> QED BY <2>1, <2>2, <1>3, <1>5
<1> HIDE DEF front
<1>7. /\ all \in Seq(M) /\ Len(all) = Len(front) + Len(upper)
      /\ \A i \in 1..(Len(front) + Len(upper)) : all[i] =
           IF i <= Len(front) THEN front[i] ELSE upper[i - Len(front)]
  BY <1>4, <1>6, ConcatProperties
<1> HIDE DEF all
<1>8. Len(front) + Len(upper) = Len(seq) + 1
  BY <1>1, <1>4, <1>6
<1>9. ASSUME NEW i \in 1..Len(seq) + 1
      PROVE  all[i] = IF i <= n THEN seq[i] ELSE IF i = n + 1 THEN e ELSE seq[i - 1]
  <2>1. CASE i <= n + 1
    BY <2>1, <1>1, <1>6, <1>7, <1>8
  <2>2. CASE i > n + 1
    <3>1. i - (n + 1) \in 1..(Len(seq) - n) /\ n + (i - (n + 1)) = i - 1
      BY <2>2, <1>1
    <3>2. all[i] = upper[i - (n + 1)]
      BY <2>2, <1>1, <1>6, <1>7, <1>8
    <3> QED BY <2>2, <3>1, <3>2, <1>4
  <2> QED BY <2>1, <2>2, <1>1
<1>10. \A i \in 1..Len(seq) + 1 : (i <= n <=> i < k) /\ (i = n + 1 <=> i = k)
  BY <1>0, <1>1
<1> QED BY <1>2, <1>7, <1>8, <1>9, <1>10

(* A message pushed on the heap is added to it, and nothing is lost or altered. *)
LEMMA PushProperties ==
  ASSUME NEW M, NEW heap \in Seq(M), NEW msg \in M
  PROVE  /\ Push(heap, msg) \in Seq(M)
         /\ Len(Push(heap, msg)) = Len(heap) + 1
         /\ \A i \in DOMAIN Push(heap, msg) :
              Push(heap, msg)[i] = msg \/ \E j \in DOMAIN heap : Push(heap, msg)[i] = heap[j]
<1> DEFINE Smaller == {i \in DOMAIN heap : PopsBefore(heap[i], msg)}
<1>1. DOMAIN heap = 1..Len(heap) /\ Len(heap) \in Nat
  BY LenProperties
<1>2. IsFiniteSet(1..Len(heap)) /\ Cardinality(1..Len(heap)) = Len(heap)
  BY <1>1, FS_Interval
<1>3. Smaller \in SUBSET (1..Len(heap))
  BY <1>1
<1>4. IsFiniteSet(Smaller) /\ Cardinality(Smaller) <= Len(heap)
  BY <1>2, <1>3, FS_Subset
<1>5. Cardinality(Smaller) \in Nat
  BY <1>4, FS_CardinalityType
<1>6. PICK k \in Nat : k = 1 + Cardinality(Smaller) /\ 1 <= k /\ k <= Len(heap) + 1
  <2>1. PICK c \in Nat : c = Cardinality(Smaller) /\ c <= Len(heap)
    BY <1>4, <1>5
  <2> HIDE DEF Smaller
  <2>2. 1 + c \in Nat /\ 1 <= 1 + c /\ 1 + c <= Len(heap) + 1
    BY <1>1, <2>1
  <2> QED BY <2>1, <2>2
<1>7. Push(heap, msg) = InsertAt(heap, k, msg)
  BY <1>6 DEF Push
<1> HIDE DEF Smaller
<1>8. /\ Push(heap, msg) \in Seq(M)
      /\ Len(Push(heap, msg)) = Len(heap) + 1
      /\ \A i \in 1..Len(heap) + 1 : Push(heap, msg)[i] =
           IF i < k THEN heap[i] ELSE IF i = k THEN msg ELSE heap[i - 1]
  <2>1. 1 <= k /\ k <= Len(heap) + 1
    BY <1>6
  <2>2. /\ InsertAt(heap, k, msg) \in Seq(M)
        /\ Len(InsertAt(heap, k, msg)) = Len(heap) + 1
        /\ \A i \in 1..Len(heap) + 1 : InsertAt(heap, k, msg)[i] =
             IF i < k THEN heap[i] ELSE IF i = k THEN msg ELSE heap[i - 1]
    BY <2>1, InsertAtProperties
  <2> QED BY <1>7, <2>2
<1>9. DOMAIN Push(heap, msg) = 1..Len(heap) + 1
  BY <1>1, <1>8, LenProperties
<1>10. ASSUME NEW i \in 1..Len(heap) + 1, i # k
       PROVE  \E j \in DOMAIN heap : Push(heap, msg)[i] = heap[j]
  <2>1. CASE i < k
    BY <2>1, <1>1, <1>6, <1>8
  <2>2. CASE i > k
    <3>1. i - 1 \in DOMAIN heap /\ ~(i < k)
      BY <2>2, <1>1, <1>6
    <3> QED BY <2>2, <3>1, <1>8
  <2> QED BY <2>1, <2>2, <1>1, <1>10
<1> QED BY <1>1, <1>8, <1>9, <1>10

-------------------------------------------------------------------------------
(* Only the message of the Fin part holds a signature, that of its proposal.    *)
LEMMA FinContent ==
  ASSUME NEW pub \in Publications, NEW s \in Sequences(pub),
         StreamContent(pub, s).type = "fin"
  PROVE  StreamContent(pub, s).signature =
           Sign(pub.proposer, HashOf(<< <<pub.height, pub.round>> >>, pub.block))
<1>1. Len(pub.block) \in Nat
  BY BlocksAssumption, LenProperties DEF Publications
<1>2. s # 0 /\ s # EndSequence(pub)
  BY <1>1 DEF StreamContent, FinSequence, EndSequence
<1>3. s = FinSequence(pub)
  BY <1>1, <1>2 DEF StreamContent, FinSequence, EndSequence
<1> QED BY <1>1, <1>3 DEF StreamContent, FinSequence, EndSequence

(* The message of sequence 0 is the init part of the proposal.                  *)
LEMMA FirstContent ==
  ASSUME NEW pub \in Publications, NEW s \in Sequences(pub)
  PROVE  /\ s = 0 => StreamContent(pub, s) = KeyInit(Key(pub))
         /\ s \in Nat
<1>1. Len(pub.block) \in Nat
  BY BlocksAssumption, LenProperties DEF Publications
<1> QED BY <1>1 DEF StreamContent, FinSequence, EndSequence, KeyInit, Key, Sequences

(* Publishing more only adds to the messages of a key.                          *)
LEMMA KeyMessagesGrow ==
  ASSUME NEW pubs, NEW more, NEW k,
         DOMAIN pubs \subseteq DOMAIN more, \A i \in DOMAIN pubs : more[i] = pubs[i]
  PROVE  KeyMessages(pubs, k) \subseteq KeyMessages(more, k)
BY DEF KeyMessages, OnKey

(* A message of the network is a message of its key.                            *)
LEMMA MessageOfKey ==
  ASSUME NEW pubs, NEW i \in DOMAIN pubs, NEW s \in Sequences(pubs[i])
  PROVE  Message(pubs[i], s) \in KeyMessages(pubs, Key(pubs[i]))
BY DEF KeyMessages, OnKey

(* Buffering a message of the key keeps the state of the stream in order.       *)
LEMMA BufferedState ==
  ASSUME NEW pubs \in Seq(Publications), NEW i \in DOMAIN pubs, NEW s \in Sequences(pubs[i]),
         NEW st, StateInv(st, pubs, Key(pubs[i]))
  PROVE  /\ StateInv(Buffered(st, Message(pubs[i], s)), pubs, Key(pubs[i]))
         /\ Buffered(st, Message(pubs[i], s)).seen_sequences = st.seen_sequences \cup {s}
         /\ s # 0 => Buffered(st, Message(pubs[i], s)).init_info = st.init_info
<1> DEFINE k == Key(pubs[i])
           msg == Message(pubs[i], s)
           new == Buffered(st, msg)
<1>1. pubs[i] \in Publications
  BY ElementOfSeq, LenProperties
<1>2. s \in Nat /\ (s = 0 => msg.content = KeyInit(k))
  BY <1>1, FirstContent DEF Message
<1>3. msg.sequence = s
  BY DEF Message
<1>4. /\ Push(st.buffer, msg) \in Seq(KeyMessages(pubs, k))
      /\ \A j \in DOMAIN Push(st.buffer, msg) :
           Push(st.buffer, msg)[j] = msg
           \/ \E l \in DOMAIN st.buffer : Push(st.buffer, msg)[j] = st.buffer[l]
  <2>1. st.buffer \in Seq(KeyMessages(pubs, k))
    BY DEF StateInv
  <2>2. msg \in KeyMessages(pubs, k)
    BY MessageOfKey
  <2> DEFINE M == KeyMessages(pubs, k)
             heap == st.buffer
  <2>3. heap \in Seq(M) /\ msg \in M
    BY <2>1, <2>2
  <2> HIDE DEF M, heap, msg, new
  <2>4. /\ Push(heap, msg) \in Seq(M)
        /\ \A j \in DOMAIN Push(heap, msg) :
             Push(heap, msg)[j] = msg \/ \E l \in DOMAIN heap : Push(heap, msg)[j] = heap[l]
    BY <2>3, PushProperties
  <2> QED BY <2>4 DEF M, heap
<1> HIDE DEF msg, k
<1>5. /\ new.buffer = Push(st.buffer, msg)
      /\ new.init_info = IF s = 0
                         THEN IF msg.content.type = "init" THEN msg.content ELSE NoInit
                         ELSE st.init_info
      /\ new.seen_sequences = st.seen_sequences \cup {s}
      /\ new.total_messages = IF msg.content.type = "end" THEN s + 1 ELSE st.total_messages
      /\ new.fin_received = (st.fin_received \/ msg.content.type = "end")
  BY <1>3 DEF Buffered
<1> HIDE DEF new
<1>6. new.init_info \in {NoInit, KeyInit(k)}
  BY <1>2, <1>5 DEF StateInv, KeyInit, k
<1>7. new.init_info # NoInit => 0 \in new.seen_sequences
  BY <1>5 DEF StateInv, k
<1>8. new.seen_sequences \subseteq Nat /\ new.total_messages \in Nat
  BY <1>2, <1>5 DEF StateInv, k
<1>9. new.fin_received \in BOOLEAN /\ (new.fin_received <=> new.total_messages # 0)
  <2>1. /\ st.fin_received \in BOOLEAN
        /\ st.fin_received <=> st.total_messages # 0
    BY DEF StateInv
  <2>2. CASE msg.content.type = "end"
    <3>1. new.fin_received = TRUE
      BY <1>5, <2>2
    <3>2. new.total_messages # 0
      BY <1>2, <1>5, <2>2
    <3> QED BY <3>1, <3>2
  <2>3. CASE msg.content.type # "end"
    <3>1. new.fin_received = st.fin_received
      BY <1>5, <2>1, <2>3
    <3>2. new.total_messages = st.total_messages
      BY <1>5, <2>3
    <3> QED BY <2>1, <3>1, <3>2
  <2> QED BY <2>2, <2>3
<1>10. \A j \in DOMAIN new.buffer : new.buffer[j].sequence \in new.seen_sequences
  BY <1>3, <1>4, <1>5 DEF StateInv, k
<1>11. StateInv(new, pubs, k)
  BY <1>4, <1>5, <1>6, <1>7, <1>8, <1>9, <1>10 DEF StateInv
<1> QED BY <1>5, <1>11 DEF new, k, msg

(* The check of the signature leaves one possibility: the proposal assembled    *)
(* from a complete buffer was published as it is.                               *)
LEMMA VerifiedIsPublished ==
  ASSUME NEW pubs \in Seq(Publications), NEW k \in Keys, NEW st,
         StateInv(st, pubs, k), st.init_info # NoInit,
         SignatureVerifies(st.init_info.proposer, st.buffer)
  PROVE  \E j \in DOMAIN pubs :
           Key(pubs[j]) = k /\ Proposal(pubs[j]) = Assemble(st.init_info, st.buffer)
<1>1. PICK i \in DOMAIN st.buffer :
        /\ IsFin(st.buffer[i])
        /\ st.buffer[i].content.signature =
             Sign(st.init_info.proposer, HashOf(InitsOf(st.buffer), ChunksOf(st.buffer)))
  BY DEF SignatureVerifies
<1>2. st.buffer[i] \in KeyMessages(pubs, k)
  BY ElementOfSeq, LenProperties DEF StateInv
<1>3. PICK j \in DOMAIN pubs :
        /\ Key(pubs[j]) = k
        /\ \E s \in Sequences(pubs[j]) : st.buffer[i] = Message(pubs[j], s)
  BY <1>2 DEF KeyMessages, OnKey
<1>4. PICK s \in Sequences(pubs[j]) : st.buffer[i] = Message(pubs[j], s)
  BY <1>3
<1>5. pubs[j] \in Publications
  BY ElementOfSeq, LenProperties
<1>6. st.buffer[i].content.signature =
        Sign(pubs[j].proposer, HashOf(<< <<pubs[j].height, pubs[j].round>> >>, pubs[j].block))
  BY <1>1, <1>4, <1>5, FinContent DEF IsFin, Message
<1>7. pubs[j].block = ChunksOf(st.buffer)
  BY <1>1, <1>6 DEF Sign, HashOf
<1>8. st.init_info = KeyInit(Key(pubs[j]))
  BY <1>3 DEF StateInv
<1>9. Proposal(pubs[j]) = Assemble(st.init_info, st.buffer)
  BY <1>7, <1>8 DEF Proposal, Assemble, KeyInit, Key
<1> QED BY <1>3, <1>9

-------------------------------------------------------------------------------
(* The invariant holds initially and every step keeps it.                       *)

(* A stream nothing was received of satisfies what is known of streams.         *)
LEMMA FreshState ==
  ASSUME NEW pubs, NEW k
  PROVE  StateInv(Fresh, pubs, k)
BY EmptySeq DEF StateInv, Fresh

(* The invariant holds at the start.                                            *)
LEMMA InitInv == Init => Inv
<1> SUFFICES ASSUME Init PROVE Inv
  OBVIOUS
<1>1. PublishedInv
  BY EmptySeq, MaxHeightAssumption, MaxPublishedAssumption DEF Init, PublishedInv, Start, Heights
<1>2. StreamsInv
  BY FreshState DEF Init, StreamsInv
<1>3. AcceptedInv
  BY EmptySeq DEF Init, AcceptedInv
<1> QED BY <1>1, <1>2, <1>3 DEF Inv

(* What was published has a height, a round and a proposer within the bounds.   *)
LEMMA PublishedKey ==
  ASSUME PublishedInv, NEW i \in DOMAIN published
  PROVE  published[i] \in Publications /\ Key(published[i]) \in Keys
<1>1. published[i] \in Publications
  BY ElementOfSeq, LenProperties DEF PublishedInv
<1> QED BY <1>1 DEF Publications, Key, Keys, StreamIds

(* Streaming a proposal.                                                        *)
LEMMA StreamProposalInv ==
  ASSUME Inv, NEW h \in Heights, NEW r \in Rounds, NEW block \in Blocks,
         StreamProposal(h, r, block)
  PROVE  Inv'
<1> DEFINE p == ProposerOf[<<h, r>>]
           pub == [proposer |-> p, height |-> h, round |-> r,
                   nonce |-> sender[p].nonce, block |-> block]
<1>1. p \in Proposers
  BY ProposerOfAssumption
<1>2. /\ Len(published) \in Nat /\ DOMAIN published = 1..Len(published)
      /\ sender[p].nonce \in Nat /\ sender[p].nonce <= Len(published)
      /\ Len(published) < MaxPublished
  BY <1>1, LenProperties DEF Inv, PublishedInv, StreamProposal
<1>3. sender[p].nonce \in Nonces
  BY <1>2, MaxPublishedAssumption DEF Nonces
<1>4. pub \in Publications
  BY <1>1, <1>3 DEF Publications
<1>5. /\ published' = Append(published, pub)
      /\ sender' = [sender EXCEPT ![p] = [height |-> h, nonce |-> sender[p].nonce + 1]]
      /\ UNCHANGED <<streams, current_height, accepted>>
  BY DEF StreamProposal
<1> HIDE DEF pub, p
<1>6. /\ published' \in Seq(Publications) /\ Len(published') = Len(published) + 1
      /\ DOMAIN published' = 1..Len(published) + 1
      /\ \A i \in DOMAIN published : published'[i] = published[i]
  <2>1. published \in Seq(Publications)
    BY DEF Inv, PublishedInv
  <2> QED BY <1>2, <1>4, <1>5, <2>1
<1>7. PublishedInv'
  <2>1. /\ sender' \in [Proposers -> [height : Heights, nonce : Nat]]
        /\ \A q \in Proposers : sender'[q].nonce <= Len(published) + 1
    <3>1. [height |-> h, nonce |-> sender[p].nonce + 1] \in [height : Heights, nonce : Nat]
      BY <1>2
    <3>2. sender \in [Proposers -> [height : Heights, nonce : Nat]]
      BY DEF Inv, PublishedInv
    <3>3. \A q \in Proposers : sender[q].nonce <= Len(published) /\ sender[q].nonce \in Nat
      BY <3>2 DEF Inv, PublishedInv
    <3>4. sender' \in [Proposers -> [height : Heights, nonce : Nat]]
      BY <1>5, <3>1, <3>2
    <3>5. ASSUME NEW q \in Proposers
          PROVE  sender'[q].nonce <= Len(published) + 1
      <4>1. CASE q = p
        BY <1>1, <1>2, <1>5, <3>2, <4>1
      <4>2. CASE q # p
        <5>1. sender'[q] = sender[q]
          BY <1>5, <3>2, <4>2
        <5> QED BY <1>2, <3>3, <5>1
      <4> QED BY <4>1, <4>2
    <3> QED BY <3>4, <3>5
  <2>2. Len(published) + 1 <= MaxPublished
    BY <1>2, MaxPublishedAssumption
  <2> QED BY <1>5, <1>6, <2>1, <2>2 DEF Inv, PublishedInv
<1>8. ASSUME NEW k \in Keys
      PROVE  StateInv(streams[k], published', k)
  <2>1. KeyMessages(published, k) \subseteq KeyMessages(published', k)
    BY <1>2, <1>6, KeyMessagesGrow
  <2>2. streams[k].buffer \in Seq(KeyMessages(published, k)) /\ StateInv(streams[k], published, k)
    BY DEF Inv, StreamsInv, StateInv
  <2>3. streams[k].buffer \in Seq(KeyMessages(published', k))
    <3> DEFINE heap == streams[k].buffer
               M == KeyMessages(published, k)
               N == KeyMessages(published', k)
    <3>1. heap \in Seq(M) /\ M \subseteq N
      BY <2>1, <2>2
    <3> HIDE DEF heap, M, N
    <3>2. heap \in Seq(N)
      BY <3>1, SeqMonotonic
    <3> QED BY <3>2 DEF heap, N
  <2> QED BY <2>2, <2>3 DEF StateInv
<1>9. StreamsInv'
  BY <1>5, <1>8 DEF Inv, StreamsInv
<1>10. AcceptedInv'
  <2>1. ASSUME NEW i \in DOMAIN accepted
        PROVE  IsPublished(published', accepted[i])
    BY <1>2, <1>6 DEF Inv, AcceptedInv, IsPublished
  <2> QED BY <1>5, <2>1 DEF Inv, AcceptedInv
<1> QED BY <1>7, <1>9, <1>10 DEF Inv

(* A message that leaves its stream incomplete.                                 *)
LEMMA ReceivePartInv ==
  ASSUME Inv, NEW i \in DOMAIN published, NEW s \in Sequences(published[i]), ReceivePart(i, s)
  PROVE  Inv'
<1> DEFINE k == Key(published[i])
           st == Buffered(streams[k], Message(published[i], s))
<1>1. k \in Keys
  BY PublishedKey DEF Inv
<1>2. s \notin streams[k].seen_sequences
  BY DEF ReceivePart
<1>3. /\ streams' = [streams EXCEPT ![k] = st]
      /\ UNCHANGED <<published, sender, current_height, accepted>>
  BY DEF ReceivePart, Settled
<1>4. /\ StateInv(st, published, k)
      /\ st.seen_sequences = streams[k].seen_sequences \cup {s}
      /\ s # 0 => st.init_info = streams[k].init_info
  BY <1>1, BufferedState DEF Inv, PublishedInv, StreamsInv
<1> HIDE DEF st, k
<1>5. PublishedInv'
  BY <1>3 DEF Inv, PublishedInv
<1>6. StreamsInv'
  BY <1>1, <1>3, <1>4 DEF Inv, StreamsInv
<1>7. ASSUME NEW j \in DOMAIN accepted
      PROVE  /\ 0 \in streams'[accepted[j].key].seen_sequences
             /\ streams'[accepted[j].key].init_info = NoInit
  <2>1. /\ 0 \in streams[accepted[j].key].seen_sequences
        /\ streams[accepted[j].key].init_info = NoInit
    BY DEF Inv, AcceptedInv
  <2>2. CASE accepted[j].key = k
    BY <1>1, <1>2, <1>3, <1>4, <2>1, <2>2 DEF Inv, StreamsInv
  <2>3. CASE accepted[j].key # k
    BY <1>3, <2>1, <2>3 DEF Inv, StreamsInv
  <2> QED BY <2>2, <2>3
<1>8. AcceptedInv'
  BY <1>3, <1>7 DEF Inv, AcceptedInv
<1> QED BY <1>5, <1>6, <1>8 DEF Inv

(* The message that completes its stream.  Whatever was accepted before is of   *)
(* another stream: on this one init_info was still to come, or to be taken.     *)
LEMMA ReceiveLastPartInv ==
  ASSUME Inv, NEW i \in DOMAIN published, NEW s \in Sequences(published[i]),
         ReceiveLastPart(i, s)
  PROVE  Inv'
<1> DEFINE k == Key(published[i])
           st == Buffered(streams[k], Message(published[i], s))
           new == [key |-> k, proposal |-> Assemble(st.init_info, st.buffer)]
           left == Drained(st)
<1>1. k \in Keys
  BY PublishedKey DEF Inv
<1>2. /\ s \notin streams[k].seen_sequences
      /\ st.init_info # NoInit
  BY DEF ReceiveLastPart, IsDone
<1>3. /\ left.init_info = NoInit /\ left.buffer = <<>>
      /\ left.seen_sequences = st.seen_sequences
      /\ left.total_messages = st.total_messages
      /\ left.fin_received = st.fin_received
  BY DEF Drained, Buffered
<1>4. /\ streams' = [streams EXCEPT ![k] = left]
      /\ accepted' = IF IsAccepted(st) THEN Append(accepted, new) ELSE accepted
      /\ UNCHANGED <<published, sender, current_height>>
  <2>1. Settled(left) = left
    BY <1>3 DEF Settled, IsDone
  <2> QED BY <2>1 DEF ReceiveLastPart
<1>5. /\ StateInv(st, published, k)
      /\ st.seen_sequences = streams[k].seen_sequences \cup {s}
      /\ s # 0 => st.init_info = streams[k].init_info
  BY <1>1, BufferedState DEF Inv, PublishedInv, StreamsInv
<1>6. IsAccepted(st) => IsPublished(published, new)
  BY <1>1, <1>2, <1>5, VerifiedIsPublished DEF Inv, PublishedInv, IsAccepted, IsPublished
<1> HIDE DEF st, k, left, new
<1>7. PublishedInv'
  BY <1>4 DEF Inv, PublishedInv
<1>8. StreamsInv'
  <2>1. StateInv(left, published, k)
    BY <1>3, <1>5, EmptySeq DEF StateInv
  <2> QED BY <1>1, <1>4, <2>1 DEF Inv, StreamsInv
<1>9. 0 \in left.seen_sequences /\ streams'[k] = left
  BY <1>1, <1>2, <1>3, <1>4, <1>5 DEF Inv, StreamsInv, StateInv
<1>10. ASSUME NEW j \in DOMAIN accepted
       PROVE  /\ accepted[j].key # k
              /\ 0 \in streams'[accepted[j].key].seen_sequences
              /\ streams'[accepted[j].key].init_info = NoInit
  <2>1. /\ 0 \in streams[accepted[j].key].seen_sequences
        /\ streams[accepted[j].key].init_info = NoInit
    BY DEF Inv, AcceptedInv
  <2>2. accepted[j].key # k
    BY <1>2, <1>5, <2>1
  <2>3. streams'[accepted[j].key] = streams[accepted[j].key]
    BY <1>4, <2>2 DEF Inv, StreamsInv
  <2> QED BY <2>1, <2>2, <2>3
<1>11. AcceptedInv'
  <2>1. CASE ~IsAccepted(st)
    BY <1>4, <1>10, <2>1 DEF Inv, AcceptedInv
  <2>2. CASE IsAccepted(st)
    <3>1. new \in [key : Keys, proposal : Proposals]
      <4>1. PICK j \in DOMAIN published : Proposal(published[j]) = new.proposal
        BY <1>6, <2>2 DEF IsPublished
      <4>2. Proposal(published[j]) \in Proposals
        BY PublishedKey DEF Inv, Publications, Proposal, Proposals
      <4> QED BY <1>1, <4>1, <4>2 DEF new
    <3>2. /\ accepted \in Seq([key : Keys, proposal : Proposals])
          /\ DOMAIN accepted = 1..Len(accepted) /\ Len(accepted) \in Nat
      BY LenProperties DEF Inv, AcceptedInv
    <3>3. /\ accepted' \in Seq([key : Keys, proposal : Proposals])
          /\ DOMAIN accepted' = DOMAIN accepted \cup {Len(accepted) + 1}
          /\ \A j \in DOMAIN accepted : accepted'[j] = accepted[j]
          /\ accepted'[Len(accepted) + 1] = new
      BY <1>4, <2>2, <3>1, <3>2
    <3>4. new.key = k
      BY DEF new
    <3>5. \A j \in DOMAIN accepted' :
            /\ IsPublished(published', accepted'[j])
            /\ 0 \in streams'[accepted'[j].key].seen_sequences
            /\ streams'[accepted'[j].key].init_info = NoInit
      BY <1>3, <1>4, <1>6, <1>9, <1>10, <2>2, <3>3, <3>4 DEF Inv, AcceptedInv
    <3>6. \A j, l \in DOMAIN accepted' : accepted'[j].key = accepted'[l].key => j = l
      BY <1>10, <3>3, <3>4 DEF Inv, AcceptedInv
    <3> QED BY <3>3, <3>5, <3>6 DEF AcceptedInv
  <2> QED BY <2>1, <2>2
<1> QED BY <1>7, <1>8, <1>11 DEF Inv

(* The steps that do not buffer anything.                                       *)
LEMMA RestartProposerInv ==
  ASSUME Inv, NEW p \in Proposers, RestartProposer(p)
  PROVE  Inv'
<1>1. /\ sender' = [sender EXCEPT ![p] = Start]
      /\ UNCHANGED <<published, streams, current_height, accepted>>
  BY DEF RestartProposer
<1>2. Start \in [height : Heights, nonce : Nat] /\ Start.nonce = 0
  BY MaxHeightAssumption DEF Start, Heights
<1>3. Len(published) \in Nat /\ sender \in [Proposers -> [height : Heights, nonce : Nat]]
  BY LenProperties DEF Inv, PublishedInv
<1>4. \A q \in Proposers : sender'[q].nonce <= Len(published)
  BY <1>1, <1>2, <1>3 DEF Inv, PublishedInv
<1>5. PublishedInv'
  BY <1>1, <1>2, <1>3, <1>4 DEF Inv, PublishedInv
<1>6. StreamsInv' /\ AcceptedInv'
  BY <1>1 DEF Inv, StreamsInv, AcceptedInv
<1> QED BY <1>5, <1>6 DEF Inv

(* Moving to the next height keeps the invariant.                               *)
LEMMA NextHeightInv ==
  ASSUME Inv, NextHeight
  PROVE  Inv'
<1>1. PublishedInv'
  BY MaxHeightAssumption DEF Inv, PublishedInv, NextHeight, Heights
<1>2. StreamsInv' /\ AcceptedInv'
  BY DEF Inv, StreamsInv, AcceptedInv, NextHeight
<1> QED BY <1>1, <1>2 DEF Inv

(* So does a restart of the receiver: it only forgets.                          *)
LEMMA RestartReceiverInv ==
  ASSUME Inv, RestartReceiver
  PROVE  Inv'
<1>1. PublishedInv'
  BY MaxHeightAssumption DEF Inv, PublishedInv, RestartReceiver, Heights
<1>2. StreamsInv'
  BY FreshState DEF StreamsInv, RestartReceiver
<1>3. AcceptedInv'
  BY EmptySeq DEF AcceptedInv, RestartReceiver
<1> QED BY <1>1, <1>2, <1>3 DEF Inv

(* The invariant is about five of the variables only.                           *)
LEMMA StutterInv ==
  ASSUME Inv, UNCHANGED <<published, sender, streams, current_height, accepted>>
  PROVE  Inv'
BY DEF Inv, PublishedInv, StreamsInv, AcceptedInv

(* Every step keeps the invariant.                                              *)
LEMMA NextInv == Inv /\ [Next]_vars => Inv'
<1> SUFFICES ASSUME Inv, [Next]_vars PROVE Inv'
  OBVIOUS
<1>1. ASSUME NEW h \in Heights, NEW r \in Rounds, NEW block \in Blocks,
             StreamProposal(h, r, block)
      PROVE  Inv'
  BY <1>1, StreamProposalInv
<1>2. ASSUME NEW p \in Proposers, RestartProposer(p)
      PROVE  Inv'
  BY <1>2, RestartProposerInv
<1>3. ASSUME NEW i \in DOMAIN published, NEW s \in Sequences(published[i]), ReceiveSeen(i, s)
      PROVE  Inv'
  BY <1>3, StutterInv DEF ReceiveSeen
<1>4. ASSUME NEW i \in DOMAIN published, NEW s \in Sequences(published[i]), ReceivePart(i, s)
      PROVE  Inv'
  BY <1>4, ReceivePartInv
<1>5. ASSUME NEW i \in DOMAIN published, NEW s \in Sequences(published[i]),
             ReceiveLastPart(i, s)
      PROVE  Inv'
  BY <1>5, ReceiveLastPartInv
<1>6. CASE NextHeight
  BY <1>6, NextHeightInv
<1>7. CASE RestartReceiver
  BY <1>7, RestartReceiverInv
<1>8. CASE UNCHANGED vars
  BY <1>8, StutterInv DEF vars
<1> QED BY <1>1, <1>2, <1>3, <1>4, <1>5, <1>6, <1>7, <1>8 DEF Next

(* The inductive invariant.                                                     *)
THEOREM Invariance == Spec => []Inv
BY InitInv, NextInv, PTL DEF Spec

-------------------------------------------------------------------------------
(* What follows from the invariant.                                             *)

(* The types of the variables; in particular a buffered message is always one   *)
(* that was noted as seen, and fin_received is set exactly when total_messages  *)
(* is (StreamState::insert).                                                    *)
THEOREM TypeCorrectness == Spec => []TypeOK
<1>1. Inv => TypeOK
  <2> SUFFICES ASSUME Inv PROVE TypeOK
    OBVIOUS
  <2>1. /\ published \in Seq([proposer : Proposers, height : Heights, round : Rounds,
                             nonce : Nonces, block : Blocks])
        /\ current_height \in Heights
        /\ accepted \in Seq([key : Keys, proposal : Proposals])
        /\ DOMAIN streams = Keys
    BY DEF Inv, PublishedInv, StreamsInv, AcceptedInv, Publications
  <2>2. sender \in [Proposers -> [height : Heights, nonce : Nonces]]
    <3>1. /\ sender \in [Proposers -> [height : Heights, nonce : Nat]]
          /\ \A p \in Proposers : sender[p].nonce <= Len(published)
          /\ Len(published) \in Nat /\ Len(published) <= MaxPublished
      BY LenProperties DEF Inv, PublishedInv
    <3>2. ASSUME NEW p \in Proposers
          PROVE  sender[p] \in [height : Heights, nonce : Nonces]
      <4>1. sender[p] \in [height : Heights, nonce : Nat] /\ sender[p].nonce <= Len(published)
        BY <3>1
      <4>2. sender[p].nonce \in Nat /\ sender[p].nonce <= MaxPublished
        BY <3>1, <4>1, MaxPublishedAssumption
      <4>3. sender[p].nonce \in Nonces
        BY <4>2, MaxPublishedAssumption DEF Nonces
      <4> QED BY <4>1, <4>3
    <3> QED BY <3>1, <3>2
  <2>3. ASSUME NEW k \in Keys
        PROVE  /\ streams[k].init_info \in InitInfos
               /\ streams[k].seen_sequences \subseteq Nat
               /\ streams[k].total_messages \in Nat
               /\ streams[k].fin_received <=> streams[k].total_messages # 0
               /\ \A i \in DOMAIN streams[k].buffer :
                    streams[k].buffer[i].sequence \in streams[k].seen_sequences
    <3>1. StateInv(streams[k], published, k)
      BY DEF Inv, StreamsInv
    <3>2. KeyInit(k) \in InitInfos
      BY DEF InitInfos, KeyInit, Keys, StreamIds
    <3>3. NoInit \in InitInfos
      BY DEF InitInfos
    <3> QED BY <3>1, <3>2, <3>3 DEF StateInv
  <2> QED BY <2>1, <2>2, <2>3 DEF TypeOK
<1> QED BY <1>1, Invariance, PTL

(* Whatever received_proposal_part returns is a proposal streamed by its        *)
(* proposer on that stream, whole and unaltered.                                *)
THEOREM IntegrityHolds == Spec => []Integrity
<1>1. Inv => Integrity
  BY DEF Inv, AcceptedInv, Integrity, IsPublished, Range
<1> QED BY <1>1, Invariance, PTL

(* PartStreamsMap::insert completes each stream at most once.                   *)
THEOREM AtMostOnceHolds == Spec => []AtMostOncePerStream
<1>1. Inv => AtMostOncePerStream
  BY DEF Inv, AcceptedInv, AtMostOncePerStream
<1> QED BY <1>1, Invariance, PTL

(* The entry of a stream survives the completion of the stream: the removal in  *)
(* PartStreamsMap::insert is never reached, and only a restart forgets.         *)
THEOREM NeverForgotten == Spec => StreamsNeverForgotten
<1> DEFINE Kept == \/ \A k \in Keys :
                          streams[k].seen_sequences \subseteq streams'[k].seen_sequences
                   \/ RestartReceiver
<1>1. ASSUME Inv, [Next]_vars
      PROVE  [Kept]_vars
  <2>1. ASSUME NEW i \in DOMAIN published, NEW s \in Sequences(published[i]),
               ReceivePart(i, s) \/ ReceiveLastPart(i, s)
        PROVE  Kept
    <3> DEFINE k == Key(published[i])
               st == Buffered(streams[k], Message(published[i], s))
    <3>1. k \in Keys /\ DOMAIN streams = Keys
      BY <1>1, PublishedKey DEF Inv, StreamsInv
    <3>2. st.seen_sequences = streams[k].seen_sequences \cup {s}
      BY DEF Buffered, Message
    <3>3. Settled(Drained(st)).seen_sequences = st.seen_sequences
      BY DEF Settled, Drained, IsDone, Buffered
    <3>4. streams' = [streams EXCEPT ![k] = st] \/ streams' = [streams EXCEPT ![k] = Settled(Drained(st))]
      BY <2>1 DEF ReceivePart, ReceiveLastPart, Settled
    <3> HIDE DEF k, st
    <3>5. ASSUME NEW l \in Keys
          PROVE  streams[l].seen_sequences \subseteq streams'[l].seen_sequences
      BY <3>1, <3>2, <3>3, <3>4
    <3> QED BY <3>5
  <2>2. CASE UNCHANGED streams
    BY <2>2
  <2> QED BY <1>1, <2>1, <2>2
          DEF Next, vars, StreamProposal, RestartProposer, ReceiveSeen, NextHeight
<1> QED BY <1>1, Invariance, PTL DEF Spec, StreamsNeverForgotten

(* Streaming implements ProposalDelivery.                                       *)
THEOREM Refinement == Spec => ImplementsDelivery
<1> USE DEF Delivery!Next
<1>1. Init => Delivery!Init
  BY DEF Init, Delivery!Init, Sent
<1>2. ASSUME Inv, Inv', [Next]_vars
      PROVE  [Delivery!Next]_<<Sent, accepted, current_height>>
  <2>1. ASSUME NEW h \in Heights, NEW r \in Rounds, NEW block \in Blocks,
               StreamProposal(h, r, block)
        PROVE  Delivery!Send
    <3>1. /\ DOMAIN published \subseteq DOMAIN published'
          /\ \A i \in DOMAIN published : published'[i] = published[i]
      <4>1. published \in Seq(Publications) /\ Len(published) \in Nat
        BY <1>2, LenProperties DEF Inv, PublishedInv
      <4> QED BY <2>1, <4>1 DEF StreamProposal
    <3> QED BY <2>1, <3>1 DEF Delivery!Send, Sent, StreamProposal
  <2>2. ASSUME NEW i \in DOMAIN published, NEW s \in Sequences(published[i]),
               ReceiveLastPart(i, s)
        PROVE  [Delivery!Next]_<<Sent, accepted, current_height>>
    <3> DEFINE k == Key(published[i])
               st == Buffered(streams[k], Message(published[i], s))
               new == [key |-> k, proposal |-> Assemble(st.init_info, st.buffer)]
    <3>1. /\ accepted' = IF IsAccepted(st) THEN Append(accepted, new) ELSE accepted
          /\ UNCHANGED <<published, current_height>>
      BY <2>2 DEF ReceiveLastPart
    <3>2. Sent' = Sent
      BY <3>1 DEF Sent
    <3>3. CASE IsAccepted(st)
      <4>1. new.proposal.height >= current_height
        BY <3>3 DEF IsAccepted, Assemble
      <4> HIDE DEF new, st, k
      <4>2. /\ accepted \in Seq([key : Keys, proposal : Proposals])
            /\ accepted' \in Seq([key : Keys, proposal : Proposals])
            /\ accepted' = Append(accepted, new)
            /\ Len(accepted) \in Nat /\ DOMAIN accepted = 1..Len(accepted)
        BY <1>2, <3>1, <3>3, LenProperties DEF Inv, AcceptedInv
      <4>3. /\ DOMAIN accepted' = 1..Len(accepted) + 1
            /\ accepted'[Len(accepted) + 1] = new
            /\ \A j \in DOMAIN accepted : accepted'[j] = accepted[j]
        <5> DEFINE E == [key : Keys, proposal : Proposals]
                   acc == accepted
        <5>1. new \in E
          <6>1. accepted'[Len(accepted) + 1] = new /\ Len(accepted') = Len(accepted) + 1
            BY <4>2
          <6> QED BY <4>2, <6>1, ElementOfSeq
        <5>2. acc \in Seq(E)
          BY <4>2
        <5> HIDE DEF E, acc
        <5>3. /\ Len(Append(acc, new)) = Len(acc) + 1
              /\ \A j \in 1..Len(acc) : Append(acc, new)[j] = acc[j]
              /\ Append(acc, new)[Len(acc) + 1] = new
              /\ DOMAIN Append(acc, new) = 1..Len(acc) + 1
          BY <5>1, <5>2, AppendProperties, LenProperties
        <5> QED BY <4>2, <5>3 DEF acc
      <4>4. \A j \in DOMAIN accepted : accepted[j].key # new.key
        BY <1>2, <4>2, <4>3 DEF Inv, AcceptedInv
      <4>5. new \in Sent
        <5>1. new \in [key : Keys, proposal : Proposals]
          <6>1. Len(accepted') = Len(accepted) + 1
            BY <4>2
          <6> QED BY <4>2, <4>3, <6>1, ElementOfSeq
        <5>2. IsPublished(published, new)
          BY <1>2, <3>1, <4>2, <4>3 DEF Inv, AcceptedInv
        <5>3. new = [key |-> new.key, proposal |-> new.proposal]
          BY <5>1
        <5> QED BY <5>2, <5>3 DEF IsPublished, Sent
      <4>6. Delivery!Accept(new)
        BY <3>1, <3>2, <4>1, <4>2, <4>4 DEF Delivery!Accept
      <4> QED BY <4>5, <4>6
    <3>4. CASE ~IsAccepted(st)
      BY <3>1, <3>2, <3>4
    <3> QED BY <3>3, <3>4
  <2>3. CASE NextHeight
    BY <2>3 DEF NextHeight, Delivery!NextHeight, Sent
  <2>4. CASE RestartReceiver
    BY <2>4 DEF RestartReceiver, Delivery!Restart, Sent
  <2>5. CASE UNCHANGED <<published, accepted, current_height>>
    BY <2>5 DEF Sent
  <2> QED BY <1>2, <2>1, <2>2, <2>3, <2>4, <2>5
          DEF Next, vars, RestartProposer, ReceiveSeen, ReceivePart
<1> QED BY <1>1, <1>2, Invariance, PTL DEF Spec, ImplementsDelivery, Delivery!Spec

-------------------------------------------------------------------------------
(* A proposal all of whose messages arrived was accepted: the invariant.        *)

(* The messages of a proposal that arrived.                                     *)
Arrived(i) == {s \in Sequences(published[i]) : <<i, s>> \in delivered}

Sorted(buffer) ==
  \A i, j \in DOMAIN buffer : i < j => buffer[i].sequence < buffer[j].sequence

(* The state of a stream that received some messages of one proposal.           *)
Collects(st, pub, got) ==
  /\ Sorted(st.buffer)
  /\ \A j \in DOMAIN st.buffer :
       st.buffer[j].sequence \in got /\ st.buffer[j] = Message(pub, st.buffer[j].sequence)
  /\ \A s \in got : \E j \in DOMAIN st.buffer : st.buffer[j].sequence = s
  /\ st.init_info = IF 0 \in got THEN KeyInit(Key(pub)) ELSE NoInit
  /\ st.fin_received <=> EndSequence(pub) \in got
  /\ st.total_messages = IF EndSequence(pub) \in got THEN EndSequence(pub) + 1 ELSE 0

(* A stream used for one proposal collects its messages until all are there,    *)
(* and then returns it, unless it comes too late.                               *)
Completes(i) ==
  /\ streams[Key(published[i])].seen_sequences = Arrived(i)
  /\ \/ ~FullyDelivered(i) /\ Collects(streams[Key(published[i])], published[i], Arrived(i))
     \/ FullyDelivered(i) /\ (published[i].height < current_height \/ Accepted(i))

CompletionInv ==
  /\ delivered \subseteq {<<i, s>> : i \in DOMAIN published, s \in Nat}
  /\ \A k \in Keys : OnKey(published, k) = {} => streams[k] = Fresh
  /\ \A i \in DOMAIN published : UniqueStream(i) => Completes(i)

-------------------------------------------------------------------------------
(* A non-empty set of natural numbers has a least element.                      *)
LEMMA LeastNatural ==
  ASSUME NEW S \in SUBSET Nat, S # {}
  PROVE  \E x \in S : \A y \in S : x <= y
<1> DEFINE R == {ss \in Nat \X Nat : ss[1] < ss[2]}
<1>1. IsWellFoundedOn(R, Nat)
  BY NatLessThanWellFounded, Zenon DEF OpToRel
<1> HIDE DEF R
<1>2. PICK x \in S : \A y \in S : ~(<<y, x>> \in R)
  BY <1>1, WFMin
<1>3. \A y \in S : x <= y
  <2>1. ASSUME NEW y \in S PROVE x <= y
    <3>1. x \in Nat /\ y \in Nat /\ ~(<<y, x>> \in R)
      BY <1>2
    <3> QED BY <3>1 DEF R
  <2> QED BY <2>1
<1> QED BY <1>2, <1>3

(* The messages of a sorted heap that pop before a number are its first ones.   *)
LEMMA SmallerAreFirst ==
  ASSUME NEW M, NEW heap \in Seq(M), Sorted(heap),
         \A i \in DOMAIN heap : heap[i].sequence \in Nat, NEW s \in Nat
  PROVE  LET c == Cardinality({i \in DOMAIN heap : heap[i].sequence < s})
         IN  /\ c \in 0..Len(heap)
             /\ \A i \in DOMAIN heap : heap[i].sequence < s <=> i <= c
<1>1. DOMAIN heap = 1..Len(heap) /\ Len(heap) \in Nat
  BY LenProperties
<1>2. PICK S : S = {i \in DOMAIN heap : heap[i].sequence < s}
  OBVIOUS
<1>3. PICK n \in Nat : n = Len(heap)
  BY <1>1
<1>4. \E c \in 0..n : S = 1..c
  <2>1. PICK T : T = {i \in 1..n + 1 : i \notin S}
    OBVIOUS
  <2>2. n + 1 \in T /\ T \in SUBSET Nat
    BY <1>1, <1>2, <1>3, <2>1
  <2>3. PICK x \in T : \A y \in T : x <= y
    BY <2>2, LeastNatural
  <2>4. x \in 1..n + 1 /\ x \notin S
    BY <2>1
  <2>5. ASSUME NEW i \in 1..x - 1
        PROVE  i \in S
    <3>1. i \in 1..n + 1 /\ ~(x <= i)
      BY <2>4
    <3> QED BY <2>1, <2>3, <3>1
  <2>6. ASSUME NEW i \in S
        PROVE  i \in 1..x - 1
    <3>1. i \in 1..n /\ heap[i].sequence < s
      BY <1>1, <1>2, <1>3
    <3>2. ~(x <= i)
      <4>1. SUFFICES ASSUME x < i PROVE FALSE
        BY <2>4, <3>1
      <4>2. x \in 1..n
        BY <2>4, <3>1, <4>1
      <4>3. heap[x].sequence < heap[i].sequence
        BY <1>1, <1>3, <3>1, <4>1, <4>2 DEF Sorted
      <4>4. heap[x].sequence < s
        BY <1>1, <1>3, <3>1, <4>2, <4>3
      <4> QED BY <1>1, <1>2, <1>3, <2>4, <4>2, <4>4
    <3> QED BY <2>4, <3>1, <3>2
  <2>7. S = 1..x - 1
    BY <2>5, <2>6
  <2>8. x - 1 \in 0..n
    BY <2>4
  <2> QED BY <2>7, <2>8
<1>5. PICK c \in 0..n : S = 1..c
  BY <1>4
<1>6. Cardinality(S) = c
  BY <1>5, FS_Interval
<1>7. \A i \in DOMAIN heap : heap[i].sequence < s <=> i <= c
  BY <1>1, <1>2, <1>3, <1>5
<1> QED BY <1>2, <1>3, <1>5, <1>6, <1>7

(* A message pushed on a sorted heap comes to its place in it.                  *)
LEMMA PushSorted ==
  ASSUME NEW M, NEW heap \in Seq(M), Sorted(heap), NEW msg \in M, msg.sequence \in Nat,
         \A i \in DOMAIN heap : heap[i].sequence \in Nat /\ heap[i].sequence # msg.sequence
  PROVE  /\ Sorted(Push(heap, msg))
         /\ Len(Push(heap, msg)) = Len(heap) + 1
         /\ \A i \in DOMAIN Push(heap, msg) :
              Push(heap, msg)[i] = msg \/ \E j \in DOMAIN heap : Push(heap, msg)[i] = heap[j]
         /\ \E i \in DOMAIN Push(heap, msg) : Push(heap, msg)[i] = msg
         /\ \A j \in DOMAIN heap : \E i \in DOMAIN Push(heap, msg) : Push(heap, msg)[i] = heap[j]
<1>1. DOMAIN heap = 1..Len(heap) /\ Len(heap) \in Nat
  BY LenProperties
<1>2. PICK n \in Nat : n = Len(heap)
  BY <1>1
<1>3. PICK c : c = Cardinality({i \in DOMAIN heap : heap[i].sequence < msg.sequence})
  OBVIOUS
<1>4. c \in 0..n /\ \A i \in DOMAIN heap : heap[i].sequence < msg.sequence <=> i <= c
  BY <1>2, <1>3, SmallerAreFirst
<1>5. PICK new : new = Push(heap, msg)
  OBVIOUS
<1>6. new = InsertAt(heap, c + 1, msg)
  <2>1. 1 + c = c + 1
    BY <1>4
  <2> QED BY <1>3, <1>5, <2>1 DEF Push, PopsBefore
<1>7. /\ new \in Seq(M) /\ Len(new) = n + 1
      /\ \A i \in 1..n + 1 :
           new[i] = IF i < c + 1 THEN heap[i] ELSE IF i = c + 1 THEN msg ELSE heap[i - 1]
  <2>1. c + 1 \in Nat /\ 1 <= c + 1 /\ c + 1 <= Len(heap) + 1
    BY <1>2, <1>4
  <2>2. PICK k \in Nat : k = c + 1 /\ 1 <= k /\ k <= Len(heap) + 1
    BY <2>1
  <2>3. /\ InsertAt(heap, k, msg) \in Seq(M)
        /\ Len(InsertAt(heap, k, msg)) = Len(heap) + 1
        /\ \A i \in 1..Len(heap) + 1 : InsertAt(heap, k, msg)[i] =
             IF i < k THEN heap[i] ELSE IF i = k THEN msg ELSE heap[i - 1]
    BY <2>2, InsertAtProperties
  <2> QED BY <1>2, <1>6, <2>2, <2>3
<1>8. DOMAIN new = 1..n + 1
  BY <1>7, LenProperties
<1>9. Sorted(new)
  <2>1. SUFFICES ASSUME NEW i \in 1..n + 1, NEW j \in 1..n + 1, i < j
                 PROVE  new[i].sequence < new[j].sequence
    BY <1>8 DEF Sorted
  <2>2. CASE j < c + 1
    <3>1. new[i] = heap[i] /\ new[j] = heap[j] /\ i \in DOMAIN heap /\ j \in DOMAIN heap
      BY <1>1, <1>2, <1>4, <1>7, <2>1, <2>2
    <3> QED BY <2>1, <3>1 DEF Sorted
  <2>3. CASE j = c + 1
    <3>1. new[i] = heap[i] /\ new[j] = msg /\ i \in DOMAIN heap /\ i <= c
      BY <1>1, <1>2, <1>4, <1>7, <2>1, <2>3
    <3> QED BY <1>4, <3>1
  <2>4. CASE j > c + 1 /\ i = c + 1
    <3>1. new[i] = msg /\ new[j] = heap[j - 1] /\ j - 1 \in DOMAIN heap /\ ~(j - 1 <= c)
      BY <1>1, <1>2, <1>4, <1>7, <2>1, <2>4
    <3>2. heap[j - 1].sequence \in Nat /\ heap[j - 1].sequence # msg.sequence
          /\ ~(heap[j - 1].sequence < msg.sequence)
      BY <1>4, <3>1
    <3> QED BY <3>1, <3>2
  <2>5. CASE j > c + 1 /\ i < c + 1
    <3>1. new[i] = heap[i] /\ new[j] = heap[j - 1] /\ j - 1 \in DOMAIN heap
          /\ i \in DOMAIN heap /\ i < j - 1
      BY <1>1, <1>2, <1>4, <1>7, <2>1, <2>5
    <3> QED BY <3>1 DEF Sorted
  <2>6. CASE j > c + 1 /\ i > c + 1
    <3>1. new[i] = heap[i - 1] /\ new[j] = heap[j - 1] /\ j - 1 \in DOMAIN heap
          /\ i - 1 \in DOMAIN heap /\ i - 1 < j - 1
      BY <1>1, <1>2, <1>4, <1>7, <2>1, <2>6
    <3> QED BY <3>1 DEF Sorted
  <2> QED BY <1>4, <2>1, <2>2, <2>3, <2>4, <2>5, <2>6
<1>10. new[c + 1] = msg /\ c + 1 \in DOMAIN new
  BY <1>4, <1>7, <1>8
<1>11. ASSUME NEW j \in DOMAIN heap
       PROVE  \E i \in DOMAIN new : new[i] = heap[j]
  <2>1. CASE j <= c
    <3>1. new[j] = heap[j] /\ j \in DOMAIN new
      BY <1>1, <1>2, <1>4, <1>7, <1>8, <2>1
    <3> QED BY <3>1
  <2>2. CASE j > c
    <3>1. j + 1 \in 1..n + 1 /\ ~(j + 1 < c + 1) /\ j + 1 # c + 1 /\ (j + 1) - 1 = j
      BY <1>1, <1>2, <1>4, <2>2
    <3>2. new[j + 1] = heap[j] /\ j + 1 \in DOMAIN new
      BY <1>7, <1>8, <3>1
    <3> QED BY <3>2
  <2> QED BY <1>1, <1>4, <2>1, <2>2
<1>12. \A i \in DOMAIN new : new[i] = msg \/ \E j \in DOMAIN heap : new[i] = heap[j]
  BY <1>5, PushProperties
<1> QED BY <1>2, <1>5, <1>7, <1>9, <1>10, <1>11, <1>12

-------------------------------------------------------------------------------
(* What a message of a proposal holds.                                          *)
LEMMA MessageTypes ==
  ASSUME NEW pub \in Publications, NEW s \in Sequences(pub)
  PROVE  /\ s \in Nat /\ Len(pub.block) \in Nat
         /\ Message(pub, s).sequence = s
         /\ IsInit(Message(pub, s)) <=> s = 0
         /\ IsData(Message(pub, s)) <=> s \in 1..Len(pub.block)
         /\ IsFin(Message(pub, s)) <=> s = FinSequence(pub)
         /\ Message(pub, s).content.type = "end" <=> s = EndSequence(pub)
         /\ s = 0 => Message(pub, s).content = KeyInit(Key(pub))
         /\ s \in 1..Len(pub.block) => Message(pub, s).content.chunk = pub.block[s]
<1>1. Len(pub.block) \in Nat
  BY BlocksAssumption, LenProperties DEF Publications
<1>2. PICK n \in Nat : n = Len(pub.block)
  BY <1>1
<1>3. s \in 0..n + 2
  BY <1>2 DEF Sequences, EndSequence
<1>4. Message(pub, s) = [sequence |-> s, content |-> StreamContent(pub, s)]
  BY DEF Message
<1>5. FinSequence(pub) = n + 1 /\ EndSequence(pub) = n + 2
  BY <1>2 DEF FinSequence, EndSequence
<1>6. CASE s = 0
  <2>1. StreamContent(pub, s) = KeyInit(Key(pub))
    BY <1>6, FirstContent
  <2> QED BY <1>1, <1>2, <1>4, <1>5, <1>6, <2>1 DEF KeyInit, IsInit, IsData, IsFin
<1>7. CASE s \in 1..n
  <2>1. s # 0 /\ s # FinSequence(pub) /\ s # EndSequence(pub)
    BY <1>5, <1>7
  <2>2. StreamContent(pub, s) = [type |-> "data", chunk |-> pub.block[s]]
    BY <2>1, Zenon DEF StreamContent
  <2> QED BY <1>1, <1>2, <1>4, <1>7, <2>1, <2>2 DEF IsInit, IsData, IsFin
<1>8. CASE s = n + 1
  <2>1. s # 0 /\ s = FinSequence(pub) /\ s # EndSequence(pub) /\ ~(s \in 1..n)
    BY <1>5, <1>8
  <2>2. StreamContent(pub, s).type = "fin"
    BY <2>1 DEF StreamContent
  <2> QED BY <1>1, <1>2, <1>3, <1>4, <2>1, <2>2 DEF IsInit, IsData, IsFin
<1>9. CASE s = n + 2
  <2>1. s # 0 /\ s # FinSequence(pub) /\ s = EndSequence(pub) /\ ~(s \in 1..n)
    BY <1>5, <1>9
  <2>2. StreamContent(pub, s) = [type |-> "end"]
    BY <2>1, Zenon DEF StreamContent
  <2> QED BY <1>1, <1>2, <1>3, <1>4, <2>1, <2>2 DEF IsInit, IsData, IsFin
<1> QED BY <1>3, <1>6, <1>7, <1>8, <1>9

(* The buffer of a stream that collects a proposal has as many messages as      *)
(* arrived; when it has all of them, they are in their order.                   *)
LEMMA CollectedLength ==
  ASSUME NEW pub \in Publications, NEW M, NEW st, st.buffer \in Seq(M),
         NEW got \in SUBSET Sequences(pub), Collects(st, pub, got)
  PROVE  IsFiniteSet(got) /\ Len(st.buffer) = Cardinality(got)
<1>1. PICK b \in Seq(M) : b = st.buffer
  OBVIOUS
<1>2. DOMAIN b = 1..Len(b) /\ Len(b) \in Nat
  BY LenProperties
<1>3. PICK f : f = [j \in 1..Len(b) |-> b[j].sequence]
  OBVIOUS
<1>4. \A s \in got : s \in Nat
  BY FirstContent
<1>5. f \in Bijection(1..Len(b), got)
  <2>1. f \in [1..Len(b) -> got]
    BY <1>1, <1>2, <1>3 DEF Collects
  <2>2. \A s \in got : \E j \in 1..Len(b) : f[j] = s
    BY <1>1, <1>2, <1>3 DEF Collects
  <2>3. ASSUME NEW i \in 1..Len(b), NEW j \in 1..Len(b), f[i] = f[j]
        PROVE  i = j
    <3>1. f[i] \in Nat /\ f[j] \in Nat /\ i \in Int /\ j \in Int
      BY <1>4, <2>1
    <3>2. (i < j => f[i] < f[j]) /\ (j < i => f[j] < f[i])
      BY <1>1, <1>2, <1>3 DEF Collects, Sorted
    <3> QED BY <2>3, <3>1, <3>2
  <2> QED BY <2>1, <2>2, <2>3 DEF Bijection, Injection, IsInjective, Surjection
<1>6. IsFiniteSet(1..Len(b)) /\ Cardinality(1..Len(b)) = Len(b)
  <2>1. PICK n \in Nat : n = Len(b)
    BY <1>2
  <2>2. IsFiniteSet(1..n) /\ Cardinality(1..n) = n
    BY FS_Interval
  <2> QED BY <2>1, <2>2
<1>7. ExistsBijection(1..Len(b), got)
  BY <1>5 DEF ExistsBijection
<1> QED BY <1>1, <1>6, <1>7, FS_Bijection

(* A sorted buffer that holds each message of a stream once holds them in the   *)
(* order of their sequence numbers.                                             *)
LEMMA CollectedInOrder ==
  ASSUME NEW pub \in Publications, NEW M, NEW st, st.buffer \in Seq(M),
         Collects(st, pub, Sequences(pub))
  PROVE  /\ Len(st.buffer) = EndSequence(pub) + 1
         /\ \A j \in DOMAIN st.buffer : st.buffer[j] = Message(pub, j - 1)
<1>1. PICK b \in Seq(M) : b = st.buffer
  OBVIOUS
<1>2. PICK e \in Nat : e = EndSequence(pub) /\ Sequences(pub) = 0..e
  <2>1. Len(pub.block) \in Nat
    BY BlocksAssumption, LenProperties DEF Publications
  <2> QED BY <2>1 DEF EndSequence, Sequences
<1>3. Len(b) = e + 1
  <2>1. Len(b) = Cardinality(0..e)
    BY <1>1, <1>2, CollectedLength
  <2> QED BY <1>2, <2>1, FS_Interval
<1>4. DOMAIN b = 1..e + 1
  BY <1>3, LenProperties
<1>5. \A j \in 1..e + 1 : b[j].sequence \in 0..e
  BY <1>1, <1>2, <1>4 DEF Collects
<1>6. \A i, j \in 1..e + 1 : i < j => b[i].sequence < b[j].sequence
  BY <1>1, <1>4 DEF Collects, Sorted
<1>7. \A s \in 0..e : \E j \in 1..e + 1 : b[j].sequence = s
  BY <1>1, <1>2, <1>4 DEF Collects
<1>8. \A j \in 1..e + 1 : b[j].sequence = j - 1
  <2>1. PICK D : D = {j \in 1..e + 1 : b[j].sequence # j - 1}
    OBVIOUS
  <2>2. SUFFICES ASSUME D # {} PROVE FALSE
    BY <2>1
  <2>3. D \in SUBSET Nat
    BY <2>1
  <2>4. PICK m \in D : \A j \in D : m <= j
    BY <2>2, <2>3, LeastNatural
  <2>5. m \in 1..e + 1 /\ b[m].sequence # m - 1 /\ m - 1 \in 0..e
    BY <2>1
  <2>6. ASSUME NEW j \in 1..m - 1
        PROVE  b[j].sequence = j - 1
    <3>1. j \in 1..e + 1 /\ ~(m <= j)
      BY <2>5
    <3> QED BY <2>1, <2>4, <3>1
  <2>7. PICK j \in 1..e + 1 : b[j].sequence = m - 1
    BY <1>7, <2>5
  <2>8. ~(j < m)
    <3>1. SUFFICES ASSUME j < m PROVE FALSE
      OBVIOUS
    <3>2. j \in 1..m - 1
      BY <2>5, <3>1
    <3>3. j - 1 = m - 1
      BY <2>6, <2>7, <3>2
    <3> QED BY <2>5, <3>1, <3>3
  <2>9. b[m].sequence < m - 1
    <3>1. j # m
      BY <2>5, <2>7
    <3>2. m < j
      BY <2>5, <2>8, <3>1
    <3> QED BY <1>6, <2>5, <2>7, <3>2
  <2>10. PICK t \in 0..e : t = b[m].sequence
    BY <1>5, <2>5
  <2>11. t + 1 \in 1..m - 1
    BY <2>5, <2>9, <2>10
  <2>12. b[t + 1].sequence = t /\ t + 1 \in 1..e + 1 /\ t + 1 < m
    BY <2>5, <2>6, <2>11
  <2>13. b[t + 1].sequence < b[m].sequence
    BY <1>6, <2>5, <2>12
  <2> QED BY <2>10, <2>12, <2>13
<1>9. \A j \in 1..e + 1 : b[j] = Message(pub, j - 1)
  BY <1>1, <1>4, <1>8 DEF Collects
<1> QED BY <1>1, <1>2, <1>3, <1>4, <1>9

(* The k-th position of an interval.                                            *)
LEMMA PlaceInInterval ==
  ASSUME NEW a \in Nat, NEW n \in Nat, NEW positions, positions = a + 1..a + n
  PROVE  Cardinality(positions) = n /\ \A k \in 1..n : Place(positions, k) = a + k
<1>1. Cardinality(positions) = n
  <2>1. CASE n = 0
    <3>1. positions = {}
      BY <2>1
    <3> QED BY <2>1, <3>1, FS_EmptySet
  <2>2. CASE n # 0
    BY <2>2, FS_Interval
  <2> QED BY <2>1, <2>2
<1>2. ASSUME NEW i \in positions
      PROVE  Cardinality({j \in positions : j <= i}) = i - a
  <2>1. {j \in positions : j <= i} = a + 1..i
    OBVIOUS
  <2>2. a + 1 \in Int /\ i \in Int /\ ~(a + 1 > i) /\ i - (a + 1) + 1 = i - a
    OBVIOUS
  <2>3. Cardinality(a + 1..i) = i - (a + 1) + 1
    BY <2>2, FS_Interval
  <2> QED BY <2>1, <2>2, <2>3
<1>3. ASSUME NEW k \in 1..n
      PROVE  Place(positions, k) = a + k
  <2>1. PICK T : T = {i \in positions : Cardinality({j \in positions : j <= i}) = k}
    OBVIOUS
  <2>2. a + k \in positions /\ (a + k) - a = k
    OBVIOUS
  <2>3. \A i \in positions : (i - a = k) <=> i = a + k
    OBVIOUS
  <2>4. \A i \in positions : Cardinality({j \in positions : j <= i}) = k <=> i = a + k
    BY <1>2, <2>3
  <2>5. PICK p : p = Place(positions, k)
    OBVIOUS
  <2>6. p \in positions /\ Cardinality({j \in positions : j <= p}) = k
    BY <2>2, <2>4, <2>5, Zenon DEF Place
  <2> QED BY <2>4, <2>5, <2>6
<1> QED BY <1>1, <1>3

(* The block assembled from them is the one proposed, and its signature         *)
(* verifies.                                                                    *)
LEMMA CollectedIsProposal ==
  ASSUME NEW pub \in Publications, NEW M, NEW st, st.buffer \in Seq(M),
         Collects(st, pub, Sequences(pub))
  PROVE  /\ SignatureVerifies(st.init_info.proposer, st.buffer)
         /\ Assemble(st.init_info, st.buffer) = Proposal(pub)
         /\ st.init_info = KeyInit(Key(pub))
<1>1. PICK b \in Seq(M) : b = st.buffer
  OBVIOUS
<1>2. PICK n \in Nat : n = Len(pub.block)
  BY BlocksAssumption, LenProperties DEF Publications
<1>3. /\ Sequences(pub) = 0..n + 2 /\ EndSequence(pub) = n + 2 /\ FinSequence(pub) = n + 1
  BY <1>2 DEF Sequences, EndSequence, FinSequence
<1>4. DOMAIN b = 1..n + 3 /\ Len(b) = n + 3
  <2>1. Len(b) = EndSequence(pub) + 1
    BY <1>1, CollectedInOrder
  <2>2. Len(b) = n + 3
    BY <1>3, <2>1
  <2> QED BY <2>2, LenProperties
<1>5. \A j \in 1..n + 3 : b[j] = Message(pub, j - 1)
  BY <1>1, <1>4, CollectedInOrder
<1>6. ASSUME NEW j \in 1..n + 3
      PROVE  /\ IsInit(b[j]) <=> j = 1
             /\ IsData(b[j]) <=> j \in 2..n + 1
             /\ IsFin(b[j]) <=> j = n + 2
             /\ j = 1 => b[j].content = KeyInit(Key(pub))
             /\ j \in 2..n + 1 => b[j].content.chunk = pub.block[j - 1]
  <2>1. PICK s : s = j - 1
    OBVIOUS
  <2>2. s \in Sequences(pub) /\ b[j] = Message(pub, s)
    BY <1>3, <1>5, <2>1
  <2>3. (s = 0 <=> j = 1) /\ (s \in 1..n <=> j \in 2..n + 1) /\ (s = n + 1 <=> j = n + 2)
    BY <2>1
  <2> QED BY <1>2, <1>3, <2>1, <2>2, <2>3, MessageTypes
<1>7. InitsOf(b) = << <<pub.height, pub.round>> >>
  <2>1. PICK inits : inits = {i \in DOMAIN b : IsInit(b[i])}
    OBVIOUS
  <2>2. PICK a \in Nat, one \in Nat : a = 0 /\ one = 1
    OBVIOUS
  <2>3. Cardinality(inits) = 1 /\ Place(inits, 1) = 1
    <3>1. inits = {1}
      BY <1>4, <1>6, <2>1
    <3>2. inits = a + 1..a + one
      BY <2>2, <3>1
    <3>3. Cardinality(inits) = one /\ \A k \in 1..one : Place(inits, k) = a + k
      BY <3>2, PlaceInInterval
    <3> QED BY <2>2, <3>3
  <2>4. b[1].content = KeyInit(Key(pub))
    BY <1>6
  <2>5. b[1].content.height = pub.height /\ b[1].content.round = pub.round
    BY <2>4 DEF KeyInit, Key
  <2>6. InitsOf(b) = [k \in 1..1 |-> <<b[Place(inits, k)].content.height,
                                       b[Place(inits, k)].content.round>>]
    BY <2>1, <2>3 DEF InitsOf
  <2>7. \A k \in 1..1 : Place(inits, k) = 1
    BY <2>3
  <2>8. InitsOf(b) = [k \in 1..1 |-> <<pub.height, pub.round>>]
    BY <2>5, <2>6, <2>7
  <2> QED BY <2>8
<1>8. ChunksOf(b) = pub.block
  <2>1. PICK data : data = {i \in DOMAIN b : IsData(b[i])}
    OBVIOUS
  <2>2. data = 1 + 1..1 + n
    BY <1>4, <1>6, <2>1
  <2>3. Cardinality(data) = n /\ \A k \in 1..n : Place(data, k) = 1 + k
    BY <2>2, PlaceInInterval
  <2>4. ChunksOf(b) = [k \in 1..n |-> b[Place(data, k)].content.chunk]
    BY <2>1, <2>3 DEF ChunksOf
  <2>5. ASSUME NEW k \in 1..n
        PROVE  b[Place(data, k)].content.chunk = pub.block[k]
    <3>1. Place(data, k) = 1 + k /\ 1 + k \in 1..n + 3 /\ 1 + k \in 2..n + 1 /\ (1 + k) - 1 = k
      BY <2>3
    <3> QED BY <1>6, <3>1
  <2>6. ChunksOf(b) = [k \in 1..n |-> pub.block[k]]
    BY <2>4, <2>5
  <2>7. pub.block \in Seq(Chunks)
    BY BlocksAssumption DEF Publications
  <2>8. pub.block = [k \in 1..n |-> pub.block[k]]
    BY <1>2, <2>7
  <2> QED BY <2>6, <2>8
<1>9. st.init_info = KeyInit(Key(pub))
  <2>1. 0 \in Sequences(pub)
    BY <1>3
  <2> QED BY <2>1 DEF Collects
<1>10. st.init_info.proposer = pub.proposer /\ st.init_info.height = pub.height
       /\ st.init_info.round = pub.round
  BY <1>9 DEF KeyInit, Key
<1>11. SignatureVerifies(pub.proposer, b)
  <2>1. n + 2 \in 1..n + 3 /\ IsFin(b[n + 2])
    BY <1>6
  <2>2. \A j \in n + 3..n + 3 : ~IsFin(b[j])
    BY <1>6
  <2>3. b[n + 2].content.signature
          = Sign(pub.proposer, HashOf(<< <<pub.height, pub.round>> >>, pub.block))
    <3>1. n + 1 \in Sequences(pub) /\ b[n + 2] = Message(pub, n + 1)
      BY <1>3, <1>5
    <3>2. StreamContent(pub, n + 1).type = "fin" /\ b[n + 2].content = StreamContent(pub, n + 1)
      BY <2>1, <3>1 DEF IsFin, Message
    <3> QED BY <3>1, <3>2, FinContent
  <2>4. (n + 2) + 1 = n + 3
    OBVIOUS
  <2> QED BY <1>4, <1>7, <1>8, <2>1, <2>2, <2>3, <2>4 DEF SignatureVerifies
<1>12. Assemble(st.init_info, b) = Proposal(pub)
  BY <1>8, <1>10 DEF Assemble, Proposal
<1> QED BY <1>1, <1>9, <1>10, <1>11, <1>12

-------------------------------------------------------------------------------
(* A message buffered is one more collected.                                    *)
LEMMA BufferedCollects ==
  ASSUME NEW pub \in Publications, NEW M, NEW st, st.buffer \in Seq(M),
         NEW got \in SUBSET Sequences(pub), Collects(st, pub, got),
         NEW s \in Sequences(pub), s \notin got, Message(pub, s) \in M
  PROVE  Collects(Buffered(st, Message(pub, s)), pub, got \cup {s})
<1>1. PICK msg \in M : msg = Message(pub, s)
  OBVIOUS
<1>2. PICK heap \in Seq(M) : heap = st.buffer
  OBVIOUS
<1>3. PICK new : new = Buffered(st, msg)
  OBVIOUS
<1>4. s \in Nat /\ msg.sequence = s /\ EndSequence(pub) \in Nat
  BY <1>1, MessageTypes DEF EndSequence
<1>5. /\ new.buffer = Push(heap, msg)
      /\ new.init_info = IF s = 0 THEN IF msg.content.type = "init" THEN msg.content ELSE NoInit
                         ELSE st.init_info
      /\ new.total_messages = IF msg.content.type = "end" THEN s + 1 ELSE st.total_messages
      /\ new.fin_received = (st.fin_received \/ msg.content.type = "end")
  BY <1>2, <1>3, <1>4 DEF Buffered
<1>6. Sorted(heap) /\ \A j \in DOMAIN heap : heap[j].sequence \in Nat /\ heap[j].sequence # s
  BY <1>2, FirstContent DEF Collects
<1>7. /\ Sorted(new.buffer)
      /\ \A i \in DOMAIN new.buffer :
           new.buffer[i] = msg \/ \E j \in DOMAIN heap : new.buffer[i] = heap[j]
      /\ \E i \in DOMAIN new.buffer : new.buffer[i] = msg
      /\ \A j \in DOMAIN heap : \E i \in DOMAIN new.buffer : new.buffer[i] = heap[j]
  BY <1>4, <1>5, <1>6, PushSorted
<1>8. \A j \in DOMAIN new.buffer :
        /\ new.buffer[j].sequence \in got \cup {s}
        /\ new.buffer[j] = Message(pub, new.buffer[j].sequence)
  BY <1>1, <1>2, <1>4, <1>7 DEF Collects
<1>9. \A t \in got \cup {s} : \E j \in DOMAIN new.buffer : new.buffer[j].sequence = t
  <2>1. ASSUME NEW t \in got
        PROVE  \E j \in DOMAIN new.buffer : new.buffer[j].sequence = t
    <3>1. PICK l \in DOMAIN heap : heap[l].sequence = t
      BY <1>2 DEF Collects
    <3> QED BY <1>7, <3>1
  <2>2. \E j \in DOMAIN new.buffer : new.buffer[j].sequence = s
    BY <1>4, <1>7
  <2> QED BY <2>1, <2>2
<1>10. new.init_info = IF 0 \in got \cup {s} THEN KeyInit(Key(pub)) ELSE NoInit
  <2>1. s = 0 => msg.content = KeyInit(Key(pub)) /\ msg.content.type = "init"
    BY <1>1, MessageTypes DEF KeyInit
  <2>2. st.init_info = IF 0 \in got THEN KeyInit(Key(pub)) ELSE NoInit
    BY DEF Collects
  <2> QED BY <1>5, <2>1, <2>2
<1>11. msg.content.type = "end" <=> s = EndSequence(pub)
  BY <1>1, MessageTypes
<1>12. /\ new.fin_received <=> EndSequence(pub) \in got \cup {s}
       /\ new.total_messages = IF EndSequence(pub) \in got \cup {s}
                               THEN EndSequence(pub) + 1 ELSE 0
  <2>1. CASE s = EndSequence(pub)
    BY <1>5, <1>11, <2>1
  <2>2. CASE s # EndSequence(pub)
    <3>1. (st.fin_received <=> EndSequence(pub) \in got)
          /\ st.total_messages = IF EndSequence(pub) \in got THEN EndSequence(pub) + 1 ELSE 0
      BY DEF Collects
    <3>2. new.total_messages = st.total_messages
      BY <1>5, <1>11, <2>2
    <3>3. new.fin_received <=> st.fin_received
      BY <1>5, <1>11, <2>2
    <3> QED BY <2>2, <3>1, <3>2, <3>3
  <2> QED BY <2>1, <2>2
<1>13. Collects(new, pub, got \cup {s})
  BY <1>7, <1>8, <1>9, <1>10, <1>12 DEF Collects
<1> QED BY <1>1, <1>3, <1>13

(* A stream is done when all messages of its proposal were collected.           *)
LEMMA DoneWhenFull ==
  ASSUME NEW pub \in Publications, NEW M, NEW st, st.buffer \in Seq(M),
         NEW got \in SUBSET Sequences(pub), Collects(st, pub, got)
  PROVE  IsDone(st) <=> got = Sequences(pub)
<1>1. PICK e \in Nat : e = EndSequence(pub) /\ Sequences(pub) = 0..e
  <2>1. Len(pub.block) \in Nat
    BY BlocksAssumption, LenProperties DEF Publications
  <2> QED BY <2>1 DEF EndSequence, Sequences
<1>2. Len(st.buffer) = Cardinality(got)
  BY CollectedLength
<1>3. IsFiniteSet(0..e) /\ Cardinality(0..e) = e + 1
  BY FS_Interval
<1>4. ASSUME IsDone(st)
      PROVE  got = Sequences(pub)
  <2>1. e \in got /\ st.total_messages = e + 1
    BY <1>1, <1>4 DEF IsDone, Collects
  <2>2. Cardinality(got) = e + 1
    BY <1>2, <1>4, <2>1 DEF IsDone
  <2> QED BY <1>1, <1>3, <2>2, FS_Subset
<1>5. ASSUME got = Sequences(pub)
      PROVE  IsDone(st)
  <2>1. 0 \in got /\ e \in got
    BY <1>1, <1>5
  <2>2. st.init_info = KeyInit(Key(pub)) /\ st.init_info # NoInit
    BY <2>1 DEF Collects, KeyInit, NoInit
  <2>3. st.fin_received /\ st.total_messages = e + 1
    BY <1>1, <2>1 DEF Collects
  <2> QED BY <1>1, <1>2, <1>3, <1>5, <2>2, <2>3 DEF IsDone
<1> QED BY <1>4, <1>5

(* A stream nothing arrived on collects nothing.                                *)
LEMMA FreshCollects ==
  ASSUME NEW pub \in Publications
  PROVE  Collects(Fresh, pub, {}) /\ Fresh.seen_sequences = {} /\ {} # Sequences(pub)
<1>1. Len(pub.block) \in Nat
  BY BlocksAssumption, LenProperties DEF Publications
<1>2. 0 \in Sequences(pub)
  BY <1>1 DEF Sequences, EndSequence
<1>3. Fresh.buffer = <<>> /\ DOMAIN Fresh.buffer = {} /\ Fresh.init_info = NoInit
      /\ Fresh.total_messages = 0 /\ Fresh.fin_received = FALSE /\ Fresh.seen_sequences = {}
  BY DEF Fresh
<1> QED BY <1>2, <1>3 DEF Collects, Sorted

(* All messages arrived.                                                        *)
LEMMA AllArrived ==
  ASSUME NEW i \in DOMAIN published
  PROVE  FullyDelivered(i) <=> Arrived(i) = Sequences(published[i])
BY DEF FullyDelivered, Arrived

(* What happens elsewhere does not matter to a stream.                          *)
LEMMA CompletesStays ==
  ASSUME NEW i \in DOMAIN published, Completes(i),
         published'[i] = published[i],
         streams'[Key(published[i])] = streams[Key(published[i])],
         Arrived(i)' = Arrived(i), FullyDelivered(i)' <=> FullyDelivered(i),
         published[i].height < current_height => published[i].height < current_height',
         Accepted(i) => Accepted(i)'
  PROVE  Completes(i)'
BY DEF Completes

-------------------------------------------------------------------------------
(* The steps.                                                                   *)

(* A new proposal: if its stream is its own, nothing arrived on it yet.         *)
LEMMA StreamProposalCompletes ==
  ASSUME Inv, Inv', CompletionInv, NEW h \in Heights, NEW r \in Rounds, NEW block \in Blocks,
         StreamProposal(h, r, block)
  PROVE  CompletionInv'
<1>1. PICK pub : published' = Append(published, pub)
  BY DEF StreamProposal
<1>2. UNCHANGED <<streams, current_height, accepted, delivered>>
  BY DEF StreamProposal
<1>3. PICK n \in Nat : n = Len(published)
  BY LenProperties DEF Inv, PublishedInv
<1>4. /\ DOMAIN published = 1..n /\ DOMAIN published' = 1..n + 1
      /\ \A i \in 1..n : published'[i] = published[i]
  BY <1>1, <1>3 DEF Inv, PublishedInv
<1>5. ASSUME NEW i \in 1..n, UniqueStream(i)'
      PROVE  Completes(i)'
  <2>1. UniqueStream(i)
    BY <1>4, <1>5 DEF UniqueStream
  <2>2. Completes(i)
    BY <1>4, <2>1 DEF CompletionInv
  <2>3. published'[i] = published[i] /\ i \in DOMAIN published
    BY <1>4
  <2>4. Arrived(i)' = Arrived(i) /\ (FullyDelivered(i)' <=> FullyDelivered(i))
        /\ (Accepted(i) => Accepted(i)')
    BY <1>2, <2>3 DEF Arrived, FullyDelivered, Accepted
  <2> QED BY <1>2, <2>2, <2>3, <2>4, CompletesStays
<1>6. ASSUME UniqueStream(n + 1)'
      PROVE  Completes(n + 1)'
  <2>1. PICK new : new = published'[n + 1]
    OBVIOUS
  <2>2. new \in Publications /\ Key(new) \in Keys
    <3>1. published' \in Seq(Publications) /\ n + 1 \in DOMAIN published'
      BY <1>4 DEF Inv, PublishedInv
    <3>2. new \in Publications
      BY <2>1, <3>1, ElementOfSeq, LenProperties
    <3> QED BY <3>2 DEF Publications, Key, Keys, StreamIds
  <2>3. OnKey(published, Key(new)) = {}
    <3>1. ASSUME NEW i \in 1..n, Key(published[i]) = Key(new)
          PROVE  FALSE
      <4>1. i \in DOMAIN published' /\ Key(published'[i]) = Key(published'[n + 1])
        BY <1>4, <2>1, <3>1
      <4>2. i = n + 1
        BY <1>6, <4>1 DEF UniqueStream
      <4> QED BY <4>2
    <3> QED BY <1>4, <3>1 DEF OnKey
  <2>4. streams'[Key(new)] = Fresh
    BY <1>2, <2>2, <2>3 DEF CompletionInv
  <2>5. Arrived(n + 1)' = {}
    <3>1. \A s : <<n + 1, s>> \notin delivered
      BY <1>4 DEF CompletionInv
    <3> QED BY <1>2, <3>1 DEF Arrived
  <2>6. ~FullyDelivered(n + 1)'
    <3>1. Sequences(new) # {} /\ \A s : <<n + 1, s>> \notin delivered
      BY <1>4, <2>2, FreshCollects DEF CompletionInv
    <3> QED BY <1>2, <2>1, <3>1 DEF FullyDelivered
  <2> QED BY <2>1, <2>2, <2>4, <2>5, <2>6, FreshCollects DEF Completes
<1>7. \A k \in Keys : OnKey(published', k) = {} => streams'[k] = Fresh
  BY <1>2, <1>4 DEF CompletionInv, OnKey
<1>8. delivered' \subseteq {<<i, s>> : i \in DOMAIN published', s \in Nat}
  BY <1>2, <1>4 DEF CompletionInv
<1>9. \A i \in DOMAIN published' : UniqueStream(i)' => Completes(i)'
  BY <1>4, <1>5, <1>6
<1> QED BY <1>7, <1>8, <1>9 DEF CompletionInv

(* A message that arrives, seen before or not, concerns its stream only.        *)
LEMMA OthersComplete ==
  ASSUME Inv, CompletionInv, NEW i \in DOMAIN published, NEW s \in Sequences(published[i]),
         UNCHANGED <<published, current_height>>,
         delivered' = delivered \cup {<<i, s>>},
         DOMAIN streams' = Keys,
         \A k \in Keys : k # Key(published[i]) => streams'[k] = streams[k],
         \A j \in DOMAIN accepted : j \in DOMAIN accepted' /\ accepted'[j] = accepted[j],
         UniqueStream(i) => Completes(i)'
  PROVE  CompletionInv'
<1>1. s \in Nat
  BY PublishedKey, FirstContent DEF Inv
<1>2. delivered' \subseteq {<<j, t>> : j \in DOMAIN published', t \in Nat}
  BY <1>1 DEF CompletionInv
<1>3. \A k \in Keys : OnKey(published', k) = {} => streams'[k] = Fresh
  BY DEF CompletionInv, OnKey
<1>4. ASSUME NEW j \in DOMAIN published, UniqueStream(j)
      PROVE  Completes(j)'
  <2>1. CASE j = i
    BY <1>4, <2>1
  <2>2. CASE j # i
    <3>1. Key(published[j]) # Key(published[i]) /\ Key(published[j]) \in Keys
      BY <1>4, <2>2, PublishedKey DEF UniqueStream, Inv
    <3>2. Arrived(j)' = Arrived(j) /\ (FullyDelivered(j)' <=> FullyDelivered(j))
      BY <2>2 DEF Arrived, FullyDelivered
    <3>3. Accepted(j) => Accepted(j)'
      BY DEF Accepted, Range
    <3>4. Completes(j)
      BY <1>4 DEF CompletionInv
    <3> QED BY <3>1, <3>2, <3>3, <3>4, CompletesStays
  <2> QED BY <2>1, <2>2
<1>5. \A j \in DOMAIN published' : UniqueStream(j)' => Completes(j)'
  BY <1>4 DEF UniqueStream
<1> QED BY <1>2, <1>3, <1>5 DEF CompletionInv

(* A message seen before.                                                       *)
LEMMA ReceiveSeenCompletes ==
  ASSUME Inv, CompletionInv, NEW i \in DOMAIN published, NEW s \in Sequences(published[i]),
         ReceiveSeen(i, s)
  PROVE  CompletionInv'
<1>1. /\ s \in streams[Key(published[i])].seen_sequences
      /\ delivered' = delivered \cup {<<i, s>>}
      /\ UNCHANGED <<published, sender, streams, current_height, accepted>>
  BY DEF ReceiveSeen
<1>2. ASSUME UniqueStream(i)
      PROVE  Completes(i)'
  <2>1. Completes(i)
    BY <1>2 DEF CompletionInv
  <2>2. <<i, s>> \in delivered
    BY <1>1, <2>1 DEF Completes, Arrived
  <2>3. delivered' = delivered
    BY <1>1, <2>2
  <2>4. Arrived(i)' = Arrived(i) /\ (FullyDelivered(i)' <=> FullyDelivered(i))
        /\ (Accepted(i) => Accepted(i)')
    BY <1>1, <2>3 DEF Arrived, FullyDelivered, Accepted
  <2> QED BY <1>1, <2>1, <2>4, CompletesStays
<1>3. DOMAIN streams' = Keys
  BY <1>1 DEF Inv, StreamsInv
<1> QED BY <1>1, <1>2, <1>3, OthersComplete

(* A new message on the stream of a proposal that is there for it only.         *)
LEMMA NewMessage ==
  ASSUME Inv, CompletionInv, NEW i \in DOMAIN published, NEW s \in Sequences(published[i]),
         UniqueStream(i), s \notin streams[Key(published[i])].seen_sequences,
         UNCHANGED published, delivered' = delivered \cup {<<i, s>>},
         NEW st, st = Buffered(streams[Key(published[i])], Message(published[i], s)),
         NEW M, M = KeyMessages(published, Key(published[i]))
  PROVE  /\ Arrived(i)' = Arrived(i) \cup {s}
         /\ Arrived(i)' \in SUBSET Sequences(published[i])
         /\ st.seen_sequences = Arrived(i)'
         /\ st.buffer \in Seq(M)
         /\ Collects(st, published[i], Arrived(i)')
         /\ FullyDelivered(i)' <=> IsDone(st)
<1>1. PICK k \in Keys : k = Key(published[i])
  BY PublishedKey DEF Inv
<1>2. PICK pub \in Publications : pub = published[i]
  BY PublishedKey DEF Inv
<1>3. Completes(i)
  BY DEF CompletionInv
<1>4. s \notin Arrived(i)
  BY <1>3 DEF Completes
<1>5. Arrived(i)' = Arrived(i) \cup {s} /\ Arrived(i) \in SUBSET Sequences(pub)
  BY <1>2 DEF Arrived
<1>6. Collects(streams[k], pub, Arrived(i))
  <2>1. ~FullyDelivered(i)
    BY <1>4, AllArrived
  <2> QED BY <1>1, <1>2, <1>3, <2>1 DEF Completes
<1>7. streams[k].buffer \in Seq(M) /\ Message(pub, s) \in M
  <2>1. streams[k].buffer \in Seq(KeyMessages(published, k))
    BY DEF Inv, StreamsInv, StateInv
  <2>2. Message(published[i], s) \in KeyMessages(published, Key(published[i]))
    BY MessageOfKey
  <2> QED BY <1>1, <1>2, <2>1, <2>2
<1>8. PICK got : got = Arrived(i)
  OBVIOUS
<1>9. PICK old : old = streams[k]
  OBVIOUS
<1>10. st = Buffered(old, Message(pub, s)) /\ s \in Sequences(pub)
  BY <1>1, <1>2, <1>9
<1>11. Collects(st, pub, got \cup {s})
  BY <1>4, <1>5, <1>6, <1>7, <1>8, <1>9, <1>10, BufferedCollects
<1>12. st.seen_sequences = old.seen_sequences \cup {s}
  BY <1>10 DEF Buffered, Message
<1>13. st.buffer \in Seq(M)
  <2>1. st.buffer = Push(old.buffer, Message(pub, s))
    BY <1>10 DEF Buffered
  <2> QED BY <1>7, <1>9, <2>1, PushProperties
<1>14. IsDone(st) <=> got \cup {s} = Sequences(pub)
  <2>1. got \cup {s} \in SUBSET Sequences(pub)
    BY <1>5, <1>8, <1>10
  <2> QED BY <1>11, <1>13, <2>1, DoneWhenFull
<1>15. FullyDelivered(i)' <=> Arrived(i)' = Sequences(pub)
  BY <1>2 DEF FullyDelivered, Arrived
<1>16. old.seen_sequences = Arrived(i)
  BY <1>1, <1>3, <1>9 DEF Completes
<1> QED BY <1>2, <1>5, <1>8, <1>11, <1>12, <1>13, <1>14, <1>15, <1>16

(* A message that leaves its stream incomplete.                                 *)
LEMMA ReceivePartCompletes ==
  ASSUME Inv, CompletionInv, NEW i \in DOMAIN published, NEW s \in Sequences(published[i]),
         ReceivePart(i, s)
  PROVE  CompletionInv'
<1>1. PICK k \in Keys : k = Key(published[i])
  BY PublishedKey DEF Inv
<1>2. PICK st : st = Buffered(streams[k], Message(published[i], s))
  OBVIOUS
<1>3. /\ s \notin streams[k].seen_sequences
      /\ ~IsDone(st) /\ streams' = [streams EXCEPT ![k] = st]
      /\ delivered' = delivered \cup {<<i, s>>}
      /\ UNCHANGED <<published, sender, current_height, accepted>>
  BY <1>1, <1>2 DEF ReceivePart, Settled
<1>4. DOMAIN streams = Keys /\ streams'[k] = st
  BY <1>3 DEF Inv, StreamsInv
<1>5. ASSUME UniqueStream(i)
      PROVE  Completes(i)'
  <2>1. PICK M : M = KeyMessages(published, Key(published[i]))
    OBVIOUS
  <2>2. /\ st.seen_sequences = Arrived(i)' /\ Collects(st, published[i], Arrived(i)')
        /\ FullyDelivered(i)' <=> IsDone(st)
    BY <1>1, <1>2, <1>3, <1>5, <2>1, NewMessage
  <2> QED BY <1>1, <1>3, <1>4, <2>2 DEF Completes
<1>6. DOMAIN streams' = Keys /\ \A l \in Keys : l # k => streams'[l] = streams[l]
  BY <1>3, <1>4
<1> QED BY <1>1, <1>3, <1>5, <1>6, OthersComplete

(* The message that completes its stream.                                       *)
LEMMA ReceiveLastPartCompletes ==
  ASSUME Inv, CompletionInv, NEW i \in DOMAIN published, NEW s \in Sequences(published[i]),
         ReceiveLastPart(i, s)
  PROVE  CompletionInv'
<1>1. PICK k \in Keys : k = Key(published[i])
  BY PublishedKey DEF Inv
<1>2. PICK st : st = Buffered(streams[k], Message(published[i], s))
  OBVIOUS
<1>3. PICK left : left = Settled(Drained(st))
  OBVIOUS
<1>4. PICK new : new = [key |-> k, proposal |-> Assemble(st.init_info, st.buffer)]
  OBVIOUS
<1>5. /\ s \notin streams[k].seen_sequences
      /\ IsDone(st) /\ streams' = [streams EXCEPT ![k] = left]
      /\ accepted' = IF IsAccepted(st) THEN Append(accepted, new) ELSE accepted
      /\ delivered' = delivered \cup {<<i, s>>}
      /\ UNCHANGED <<published, sender, current_height>>
  BY <1>1, <1>2, <1>3, <1>4 DEF ReceiveLastPart
<1>6. DOMAIN streams = Keys /\ streams'[k] = left
  BY <1>5 DEF Inv, StreamsInv
<1>7. left.seen_sequences = st.seen_sequences
  <2>1. Drained(st).init_info = NoInit /\ Drained(st).seen_sequences = st.seen_sequences
    BY <1>2 DEF Drained, Buffered
  <2> QED BY <1>3, <2>1 DEF Settled, IsDone
<1>8. PICK n \in Nat : n = Len(accepted) /\ DOMAIN accepted = 1..n
  BY LenProperties DEF Inv, AcceptedInv
<1>9. IsAccepted(st) => /\ DOMAIN accepted' = 1..n + 1 /\ accepted'[n + 1] = new
                        /\ \A j \in 1..n : accepted'[j] = accepted[j]
  BY <1>5, <1>8 DEF Inv, AcceptedInv
<1>10. \A j \in DOMAIN accepted : j \in DOMAIN accepted' /\ accepted'[j] = accepted[j]
  BY <1>5, <1>8, <1>9
<1>11. ASSUME UniqueStream(i)
       PROVE  Completes(i)'
  <2>1. PICK M : M = KeyMessages(published, Key(published[i]))
    OBVIOUS
  <2>2. PICK pub \in Publications : pub = published[i]
    BY PublishedKey DEF Inv
  <2>3. /\ st.seen_sequences = Arrived(i)' /\ Collects(st, pub, Arrived(i)')
        /\ FullyDelivered(i)' <=> IsDone(st)
        /\ st.buffer \in Seq(M) /\ Arrived(i)' \in SUBSET Sequences(pub)
    BY <1>1, <1>2, <1>5, <1>11, <2>1, <2>2, NewMessage
  <2>4. Collects(st, pub, Sequences(pub))
    BY <1>5, <2>3, DoneWhenFull
  <2>5. /\ SignatureVerifies(st.init_info.proposer, st.buffer)
        /\ Assemble(st.init_info, st.buffer) = Proposal(pub)
        /\ st.init_info = KeyInit(Key(pub))
    BY <2>3, <2>4, CollectedIsProposal
  <2>6. st.init_info.height = pub.height
    BY <2>5 DEF KeyInit, Key
  <2>7. pub.height < current_height \/ IsAccepted(st)
    <3>1. pub.height \in Nat /\ current_height \in Nat
      BY DEF Publications, Heights, Inv, PublishedInv
    <3> QED BY <2>5, <2>6, <3>1 DEF IsAccepted
  <2>8. IsAccepted(st) => Accepted(i)'
    <3>1. SUFFICES ASSUME IsAccepted(st) PROVE Accepted(i)'
      OBVIOUS
    <3>2. new \in Range(accepted')
      BY <1>9, <3>1 DEF Range
    <3>3. new.key = Key(published'[i]) /\ new.proposal = Proposal(published'[i])
      BY <1>1, <1>4, <1>5, <2>2, <2>5
    <3> QED BY <3>2, <3>3 DEF Accepted
  <2> QED BY <1>1, <1>5, <1>6, <1>7, <2>2, <2>3, <2>7, <2>8 DEF Completes
<1>12. DOMAIN streams' = Keys /\ \A l \in Keys : l # k => streams'[l] = streams[l]
  BY <1>5, <1>6
<1> QED BY <1>1, <1>5, <1>10, <1>11, <1>12, OthersComplete

(* A later height.                                                              *)
LEMMA NextHeightCompletes ==
  ASSUME Inv, CompletionInv, NextHeight
  PROVE  CompletionInv'
<1>1. /\ current_height' = current_height + 1 /\ current_height \in Nat
      /\ UNCHANGED <<published, sender, streams, accepted, delivered>>
  BY DEF NextHeight, Inv, PublishedInv, Heights
<1>2. ASSUME NEW i \in DOMAIN published, UniqueStream(i)
      PROVE  Completes(i)'
  <2>1. Completes(i) /\ published[i].height \in Nat
    BY <1>2, PublishedKey DEF CompletionInv, Inv, Publications, Heights
  <2>2. published[i].height < current_height => published[i].height < current_height'
    BY <1>1, <2>1
  <2>3. Arrived(i)' = Arrived(i) /\ (FullyDelivered(i)' <=> FullyDelivered(i))
        /\ (Accepted(i) => Accepted(i)')
    BY <1>1 DEF Arrived, FullyDelivered, Accepted
  <2> QED BY <1>1, <2>1, <2>2, <2>3, CompletesStays
<1> QED BY <1>1, <1>2 DEF CompletionInv, UniqueStream, OnKey

(* A receiver that forgets everything.                                          *)
LEMMA RestartReceiverCompletes ==
  ASSUME Inv, RestartReceiver
  PROVE  CompletionInv'
<1>1. /\ streams' = [k \in Keys |-> Fresh] /\ delivered' = {} /\ published' = published
  BY DEF RestartReceiver
<1>2. ASSUME NEW i \in DOMAIN published
      PROVE  Completes(i)'
  <2>1. published[i] \in Publications /\ Key(published[i]) \in Keys
    BY PublishedKey DEF Inv
  <2>2. Arrived(i)' = {}
    BY <1>1 DEF Arrived
  <2>3. ~FullyDelivered(i)'
    BY <1>1, <2>1, FreshCollects DEF FullyDelivered
  <2> QED BY <1>1, <2>1, <2>2, <2>3, FreshCollects DEF Completes
<1> QED BY <1>1, <1>2 DEF CompletionInv

(* Nothing that matters here.                                                   *)
LEMMA StutterCompletes ==
  ASSUME CompletionInv, UNCHANGED <<published, streams, current_height, accepted, delivered>>
  PROVE  CompletionInv'
<1>1. ASSUME NEW i \in DOMAIN published, UniqueStream(i)
      PROVE  Completes(i)'
  <2>1. Completes(i)
    BY <1>1 DEF CompletionInv
  <2>2. Arrived(i)' = Arrived(i) /\ (FullyDelivered(i)' <=> FullyDelivered(i))
        /\ (Accepted(i) => Accepted(i)')
    BY DEF Arrived, FullyDelivered, Accepted
  <2> QED BY <2>1, <2>2, CompletesStays
<1> QED BY <1>1 DEF CompletionInv, UniqueStream, OnKey

(* A proposal all of whose messages arrived, in whatever order and however      *)
(* often, is returned to the engine unless the receiver is past its height or   *)
(* its stream id was used twice (PartStreamsMap::insert, received_proposal_part).*)
THEOREM CompleteStreamsReturned == Spec => []UniqueStreamsComplete
<1>1. Init => CompletionInv
  <2>1. SUFFICES ASSUME Init PROVE CompletionInv
    OBVIOUS
  <2>2. published = <<>> /\ DOMAIN published = {} /\ delivered = {}
        /\ streams = [k \in Keys |-> Fresh]
    BY <2>1 DEF Init
  <2> QED BY <2>2 DEF CompletionInv
<1>2. ASSUME Inv, Inv', CompletionInv, [Next]_vars
      PROVE  CompletionInv'
  <2>1. ASSUME NEW h \in Heights, NEW r \in Rounds, NEW block \in Blocks,
               StreamProposal(h, r, block)
        PROVE  CompletionInv'
    BY <1>2, <2>1, StreamProposalCompletes
  <2>2. ASSUME NEW p \in Proposers, RestartProposer(p)
        PROVE  CompletionInv'
    BY <1>2, <2>2, StutterCompletes DEF RestartProposer
  <2>3. ASSUME NEW i \in DOMAIN published, NEW s \in Sequences(published[i]), ReceiveSeen(i, s)
        PROVE  CompletionInv'
    BY <1>2, <2>3, ReceiveSeenCompletes
  <2>4. ASSUME NEW i \in DOMAIN published, NEW s \in Sequences(published[i]), ReceivePart(i, s)
        PROVE  CompletionInv'
    BY <1>2, <2>4, ReceivePartCompletes
  <2>5. ASSUME NEW i \in DOMAIN published, NEW s \in Sequences(published[i]),
               ReceiveLastPart(i, s)
        PROVE  CompletionInv'
    BY <1>2, <2>5, ReceiveLastPartCompletes
  <2>6. CASE NextHeight
    BY <1>2, <2>6, NextHeightCompletes
  <2>7. CASE RestartReceiver
    BY <1>2, <2>7, RestartReceiverCompletes
  <2>8. CASE UNCHANGED vars
    BY <1>2, <2>8, StutterCompletes DEF vars
  <2> QED BY <1>2, <2>1, <2>2, <2>3, <2>4, <2>5, <2>6, <2>7, <2>8 DEF Next
<1>3. Inv /\ CompletionInv => UniqueStreamsComplete
  <2>1. SUFFICES ASSUME Inv, CompletionInv, NEW i \in DOMAIN published, UniqueStream(i),
                        FullyDelivered(i), published[i].height >= current_height
                 PROVE  Accepted(i)
    BY DEF UniqueStreamsComplete
  <2>2. published[i].height \in Nat /\ current_height \in Nat
    BY <2>1, PublishedKey DEF Inv, PublishedInv, Publications, Heights
  <2> QED BY <2>1, <2>2 DEF CompletionInv, Completes
<1> QED BY <1>1, <1>2, <1>3, Invariance, PTL DEF Spec
===============================================================================
