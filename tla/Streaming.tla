------------------------------ MODULE Streaming ------------------------------
(* The streaming of block proposals: how a proposer splits a proposal into      *)
(* stream messages (State::stream_proposal) and how one receiving node puts     *)
(* the messages of many streams together again (PartStreamsMap, StreamState,    *)
(* MinHeap) and checks what comes out (State::received_proposal_part).          *)
(*                                                                              *)
(* The network in between may lose, delay, duplicate and reorder messages: a    *)
(* published message can be received at any time, any number of times, or       *)
(* never.  Proposers and the receiver may restart; both forget everything this  *)
(* module keeps, since none of it is persisted.                                 *)
(*                                                                              *)
(* The data of a block is the sequence of its CHUNK_SIZE chunks, and a value is *)
(* identified with its data (Value::new hashes the data into the value's id).   *)
EXTENDS Naturals, FiniteSets, SequencesExt

CONSTANTS
  Proposers,     \* validators other than the receiver; also their peer ids
  MaxHeight,     \* bound on heights, which start at 1
  MaxRound,      \* bound on rounds, which start at 0
  ProposerOf,    \* the proposer the engine selects for each height and round
  Chunks,        \* the contents a chunk of block data may have
  Blocks,        \* the block data that may be proposed: sequences of chunks
  MaxPublished   \* bound on the number of proposals ever published

Heights == 1..MaxHeight
Rounds == 0..MaxRound
Nonces == 0..MaxPublished

ASSUME MaxHeightAssumption == MaxHeight \in Nat \ {0}
ASSUME MaxRoundAssumption == MaxRound \in Nat
ASSUME MaxPublishedAssumption == MaxPublished \in Nat
ASSUME BlocksAssumption == Blocks \subseteq Seq(Chunks)
ASSUME ProposerOfAssumption == ProposerOf \in [Heights \X Rounds -> Proposers]

VARIABLES
  published,       \* the proposals streamed so far, in order of publication
  sender,          \* per proposer: its height and its stream_nonce
  streams,         \* the receiver's PartStreamsMap
  current_height,  \* the receiver's State::current_height
  accepted,        \* the values received_proposal_part returned, in order
  delivered        \* <<i, s>>: message s of published[i] reached the receiver

vars == <<published, sender, streams, current_height, accepted, delivered>>

-------------------------------------------------------------------------------
(* Messages.                                                                    *)

StreamIds == [height : Heights, round : Rounds, nonce : Nonces]
Keys == [peer : Proposers, stream : StreamIds]

(* What the hash of a proposal commits to: the height and round of the Init     *)
(* parts hashed, and the chunks hashed, in order.                               *)
HashOf(inits, chunks) == [inits |-> inits, chunks |-> chunks]
Sign(p, hash) == [signer |-> p, hash |-> hash]

Key(pub) == [peer |-> pub.proposer,
             stream |-> [height |-> pub.height, round |-> pub.round, nonce |-> pub.nonce]]
Proposals == [height : Heights, round : Rounds, proposer : Proposers, block : Blocks]
Proposal(pub) == [height |-> pub.height, round |-> pub.round,
                  proposer |-> pub.proposer, block |-> pub.block]

(* Sequence numbers of a stream: the parts Init, one per chunk, Fin, and then   *)
(* the marker that ends the stream.                                             *)
FinSequence(pub) == Len(pub.block) + 1
EndSequence(pub) == Len(pub.block) + 2
Sequences(pub) == 0..EndSequence(pub)

StreamContent(pub, s) ==
  CASE s = 0 -> [type |-> "init", height |-> pub.height, round |-> pub.round,
                 proposer |-> pub.proposer]
    [] s = FinSequence(pub) ->
         [type |-> "fin",
          signature |-> Sign(pub.proposer, HashOf(<< <<pub.height, pub.round>> >>, pub.block))]
    [] s = EndSequence(pub) -> [type |-> "end"]
    [] OTHER -> [type |-> "data", chunk |-> pub.block[s]]

Message(pub, s) == [sequence |-> s, content |-> StreamContent(pub, s)]

-------------------------------------------------------------------------------
(* The receiver's buffers.                                                      *)

NoInit == [type |-> "none"]

(* The state of a stream nothing was received for yet.  An absent entry of the  *)
(* map and a default one are the same: insert creates the entry on first use.   *)
Fresh == [buffer |-> <<>>, init_info |-> NoInit, seen_sequences |-> {},
          total_messages |-> 0, fin_received |-> FALSE]

(* MinHeap pops the message that compares least; it is kept here as the         *)
(* sequence in which its messages will be popped.                               *)
PopsLargestFirst(m, n) == m.sequence > n.sequence  \* mutant: BinaryHeap without MinSeq
PopsBefore(m, n) == m.sequence < n.sequence
Push(heap, msg) ==
  InsertAt(heap, 1 + Cardinality({i \in DOMAIN heap : PopsBefore(heap[i], msg)}), msg)

IsDone(st) ==
  /\ st.init_info # NoInit
  /\ st.fin_received
  /\ Len(st.buffer) = st.total_messages

(* Mutant: the sequence number of the message is not noted as seen.             *)
BufferedUnseen(st, msg) ==
  [buffer |-> Push(st.buffer, msg),
   init_info |-> IF msg.content.type = "init" THEN msg.content ELSE st.init_info,
   seen_sequences |-> st.seen_sequences,
   total_messages |-> IF msg.content.type = "end" THEN msg.sequence + 1
                      ELSE st.total_messages,
   fin_received |-> st.fin_received \/ msg.content.type = "end"]

(* StreamState::insert up to its is_done() test: the message is buffered.       *)
Buffered(st, msg) ==
  [buffer |-> Push(st.buffer, msg),
   init_info |-> IF msg.sequence = 0
                 THEN IF msg.content.type = "init" THEN msg.content ELSE NoInit
                 ELSE st.init_info,
   seen_sequences |-> st.seen_sequences \cup {msg.sequence},
   total_messages |-> IF msg.content.type = "end" THEN msg.sequence + 1
                      ELSE st.total_messages,
   fin_received |-> st.fin_received \/ msg.content.type = "end"]

(* What is left of a stream once its parts were handed over: init_info is       *)
(* taken and the buffer drained, the rest of the state stays.                   *)
DrainedAndRemoved(st) == Fresh   \* mutant: the entry of a complete stream is removed
Drained(st) == [st EXCEPT !.init_info = NoInit, !.buffer = <<>>]

(* PartStreamsMap::insert removes the entry of a stream that is done.           *)
Settled(st) == IF IsDone(st) THEN Fresh ELSE st

-------------------------------------------------------------------------------
(* Checking and assembling the parts of a complete stream.  The end marker is   *)
(* still among them (drain drops it); it plays no part below.                   *)

IsInit(msg) == msg.content.type = "init"
IsData(msg) == msg.content.type = "data"
IsFin(msg) == msg.content.type = "fin"

(* The position that comes k-th among some, and what the hash and the block take *)
(* from the parts at such positions, in order.                                  *)
Place(positions, k) == CHOOSE i \in positions : Cardinality({j \in positions : j <= i}) = k
InitsOf(parts) ==
  LET inits == {i \in DOMAIN parts : IsInit(parts[i])}
      content(k) == parts[Place(inits, k)].content
  IN  [k \in 1..Cardinality(inits) |-> <<content(k).height, content(k).round>>]
ChunksOf(parts) ==
  LET data == {i \in DOMAIN parts : IsData(parts[i])}
  IN  [k \in 1..Cardinality(data) |-> parts[Place(data, k)].content.chunk]

(* Mutant: any Fin part is enough, its signature is not verified.               *)
SignatureUnverified(proposer, parts) == \E i \in DOMAIN parts : IsFin(parts[i])

(* The signature checked is that of the last Fin part.                          *)
SignatureVerifies(proposer, parts) ==
  \E i \in DOMAIN parts :
    /\ IsFin(parts[i])
    /\ \A j \in (i+1)..Len(parts) : ~IsFin(parts[j])
    /\ parts[i].content.signature = Sign(proposer, HashOf(InitsOf(parts), ChunksOf(parts)))

Assemble(init, parts) ==
  [height |-> init.height, round |-> init.round, proposer |-> init.proposer,
   block |-> ChunksOf(parts)]

(* Mutant: proposals for past heights are accepted as well.                     *)
IsAcceptedLate(st) == SignatureVerifies(st.init_info.proposer, st.buffer)

IsAccepted(st) ==
  /\ st.init_info.height >= current_height
  /\ SignatureVerifies(st.init_info.proposer, st.buffer)

-------------------------------------------------------------------------------
(* The proposers.                                                               *)

Start == [height |-> 1, nonce |-> 0]

(* A proposer streams a proposal for a height at or above the last one it       *)
(* worked on.  The engine may ask it again for a height and round it already    *)
(* proposed for.                                                                *)
StreamProposal(h, r, block) ==
  LET p == ProposerOf[<<h, r>>] IN
  /\ Len(published) < MaxPublished
  /\ sender[p].height <= h
  /\ published' = Append(published, [proposer |-> p, height |-> h, round |-> r,
                                     nonce |-> sender[p].nonce, block |-> block])
  /\ sender' = [sender EXCEPT ![p] = [height |-> h, nonce |-> sender[p].nonce + 1]]
  /\ UNCHANGED <<streams, current_height, accepted, delivered>>

(* State::new starts over at height 1 with stream_nonce 0.                      *)
RestartProposer(p) ==
  /\ sender[p] # Start
  /\ sender' = [sender EXCEPT ![p] = Start]
  /\ UNCHANGED <<published, streams, current_height, accepted, delivered>>

-------------------------------------------------------------------------------
(* The receiver.                                                                *)

(* PartStreamsMap::insert of a message whose sequence number was already seen   *)
(* on its stream.                                                               *)
ReceiveSeen(i, s) ==
  /\ s \in streams[Key(published[i])].seen_sequences
  /\ delivered' = delivered \cup {<<i, s>>}
  /\ UNCHANGED <<published, sender, streams, current_height, accepted>>

(* A message that leaves its stream incomplete.                                 *)
ReceivePart(i, s) ==
  LET k  == Key(published[i])
      st == Buffered(streams[k], Message(published[i], s))
  IN  /\ s \notin streams[k].seen_sequences
      /\ ~IsDone(st)
      /\ streams' = [streams EXCEPT ![k] = Settled(st)]
      /\ delivered' = delivered \cup {<<i, s>>}
      /\ UNCHANGED <<published, sender, current_height, accepted>>

(* The message that completes its stream: the proposal is dropped when outdated *)
(* or when its signature does not verify, and returned to the engine otherwise. *)
ReceiveLastPart(i, s) ==
  LET k  == Key(published[i])
      st == Buffered(streams[k], Message(published[i], s))
  IN  /\ s \notin streams[k].seen_sequences
      /\ IsDone(st)
      /\ streams' = [streams EXCEPT ![k] = Settled(Drained(st))]
      /\ accepted' = IF IsAccepted(st)
                     THEN Append(accepted, [key |-> k,
                                            proposal |-> Assemble(st.init_info, st.buffer)])
                     ELSE accepted
      /\ delivered' = delivered \cup {<<i, s>>}
      /\ UNCHANGED <<published, sender, current_height>>

(* The receiver moves on to the next height (StartedRound, commit).             *)
NextHeight ==
  /\ current_height < MaxHeight
  /\ current_height' = current_height + 1
  /\ UNCHANGED <<published, sender, streams, accepted, delivered>>

RestartReceiver ==
  /\ delivered # {} \/ current_height # 1
  /\ streams' = [k \in Keys |-> Fresh]
  /\ current_height' = 1
  /\ accepted' = <<>>
  /\ delivered' = {}
  /\ UNCHANGED <<published, sender>>

-------------------------------------------------------------------------------
Init ==
  /\ published = <<>>
  /\ sender = [p \in Proposers |-> Start]
  /\ streams = [k \in Keys |-> Fresh]
  /\ current_height = 1
  /\ accepted = <<>>
  /\ delivered = {}

Next ==
  \/ \E h \in Heights, r \in Rounds, block \in Blocks : StreamProposal(h, r, block)
  \/ \E p \in Proposers : RestartProposer(p)
  \/ \E i \in DOMAIN published : \E s \in Sequences(published[i]) :
       ReceiveSeen(i, s) \/ ReceivePart(i, s) \/ ReceiveLastPart(i, s)
  \/ NextHeight
  \/ RestartReceiver

Spec == Init /\ [][Next]_vars


-------------------------------------------------------------------------------
(* Properties.                                                                  *)

InitInfos == {NoInit} \cup
  [type : {"init"}, height : Heights, round : Rounds, proposer : Proposers]

(* Types of the variables; a buffered message has always been noted as seen,    *)
(* and the length of a stream is known exactly when its end was received.       *)
TypeOK ==
  /\ published \in Seq([proposer : Proposers, height : Heights, round : Rounds,
                         nonce : Nonces, block : Blocks])
  /\ sender \in [Proposers -> [height : Heights, nonce : Nonces]]
  /\ current_height \in Heights
  /\ DOMAIN streams = Keys
  /\ \A k \in Keys :
       /\ streams[k].init_info \in InitInfos
       /\ streams[k].seen_sequences \subseteq Nat
       /\ streams[k].total_messages \in Nat
       /\ streams[k].fin_received <=> streams[k].total_messages # 0
       /\ \A i \in DOMAIN streams[k].buffer :
            streams[k].buffer[i].sequence \in streams[k].seen_sequences
  /\ accepted \in Seq([key : Keys, proposal : Proposals])

(* Whatever received_proposal_part hands to the engine is exactly a proposal    *)
(* its proposer streamed on that stream: same height, round, proposer and whole *)
(* block, even when a restarted proposer reused the stream id and the parts of  *)
(* two proposals were mixed in one buffer.                                      *)
Integrity ==
  \A a \in Range(accepted) :
    \E i \in DOMAIN published :
      Key(published[i]) = a.key /\ Proposal(published[i]) = a.proposal

(* A stream yields at most one proposal as long as the receiver does not        *)
(* restart, however often its messages are delivered (seen_sequences).          *)
AtMostOncePerStream ==
  \A i, j \in DOMAIN accepted : accepted[i].key = accepted[j].key => i = j

UniqueStream(i) == \A j \in DOMAIN published : Key(published[j]) = Key(published[i]) => j = i
FullyDelivered(i) == \A s \in Sequences(published[i]) : <<i, s>> \in delivered
Accepted(i) == \E a \in Range(accepted) :
                 a.key = Key(published[i]) /\ a.proposal = Proposal(published[i])

(* A proposal all of whose messages arrived, in any order and with any          *)
(* duplicates, has been accepted unless it is for a height the receiver left    *)
(* behind or its proposer used the same stream id for another proposal.         *)
UniqueStreamsComplete ==
  \A i \in DOMAIN published :
    UniqueStream(i) /\ FullyDelivered(i) /\ published[i].height >= current_height
      => Accepted(i)

(* The same without the proviso on stream ids, as README.md describes the       *)
(* handler of ReceivedProposalPart: "when the full block has been received,     *)
(* replies to Malachite".                                                       *)
FullBlocksAccepted ==
  \A i \in DOMAIN published :
    FullyDelivered(i) /\ published[i].height >= current_height => Accepted(i)

(* The entry of a stream stays in the map for as long as the process runs, that *)
(* of a completed stream included: what it has seen only grows.  The removal in *)
(* PartStreamsMap::insert never applies, because init_info was taken before.    *)
StreamsNeverForgotten ==
  [][\/ \A k \in Keys : streams[k].seen_sequences \subseteq streams'[k].seen_sequences
     \/ RestartReceiver]_vars

(* The proposals of published as the abstract specification sees them.          *)
Sent == {[key |-> Key(published[i]), proposal |-> Proposal(published[i])] : i \in DOMAIN published}

Delivery == INSTANCE ProposalDelivery WITH sent <- Sent, height <- current_height

(* Streaming implements ProposalDelivery: every step of the buffers, duplicates *)
(* and restarts included, is a step the abstract delivery allows, or none.      *)
ImplementsDelivery == Delivery!Spec
===============================================================================
