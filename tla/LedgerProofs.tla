----------------------------- MODULE LedgerProofs -----------------------------
(* What module Node promises while no node crashes, proved for every value of   *)
(* the constants: what it stores and executes is what the network decided, one  *)
(* height after the other, so that Node implements Ledger.                      *)
(*                                                                              *)
(* The heart of it is that commit finds a proposal by height and round alone.   *)
(* It is the one decided because only one was ever streamed for that height and *)
(* round: a peer streams one, and this node is asked for a value once in a      *)
(* round until the height is decided.  When a height starts again after a       *)
(* commit that found nothing, this node streams more proposals for it, but the  *)
(* store keeps the first.                                                       *)
EXTENDS NodeProofs

OwnProposal(v) == Mine(v.height, v.round)
OwnNow(v) == OwnProposal(v) /\ v.height = current_height

(* The channel: a peer's proposal that arrives was streamed, a value is asked   *)
(* for only where this node proposes, and ConsensusReady comes before anything. *)
QueueInv ==
  /\ \A i \in 1..Len(inbox) :
       /\ inbox[i].type = "ReceivedProposal" =>
            /\ ~Mine(inbox[i].height, inbox[i].round)
            /\ Prop(inbox[i].height, inbox[i].round, inbox[i].block) \in streamed
       /\ inbox[i].type = "GetValue" => Mine(inbox[i].height, inbox[i].round)
       /\ inbox[i].type = "ConsensusReady" =>
            i = 1 /\ \A v \in streamed : OwnProposal(v) => v.height < current_height
  /\ engine.phase = "propose" => Mine(engine.height, engine.round)

(* While a height is not decided, every round in which this node is asked for a *)
(* value is later than those in which it was asked before.                      *)
Undecided == current_height \in Heights /\ chain[current_height] = Absent
Reached(r) ==
  /\ engine.phase \in {"enter", "propose"} => r < engine.round
  /\ engine.phase = "round" => r <= engine.round

RoundInv ==
  Undecided =>
    /\ \A i \in 1..Len(inbox) : inbox[i].type = "GetValue" =>
         /\ Reached(inbox[i].round)
         /\ \A v \in streamed : OwnNow(v) => v.round < inbox[i].round
         /\ \A j \in 1..Len(inbox) :
              inbox[j].type = "GetValue" /\ i < j => inbox[i].round < inbox[j].round
    /\ \A v \in streamed : OwnNow(v) => Reached(v.round)

(* One proposal was streamed for a height and round, but for those of this node *)
(* where the network already decided, and this node has stored its own.         *)
StreamInv ==
  /\ \A v \in streamed : OwnProposal(v) =>
       /\ v.height <= current_height
       /\ v.height = current_height => db.undecided_proposals[<<v.height, v.round>>] # Absent
  /\ \A v, w \in streamed :
       v.height = w.height /\ v.round = w.round /\ (OwnProposal(v) => chain[v.height] = Absent)
         => v = w

(* What is stored was streamed, and is the decided one where it was decided.    *)
ProposalInv ==
  /\ \A h \in Heights, r \in Rounds : db.undecided_proposals[<<h, r>>] # Absent =>
       Prop(h, r, db.undecided_proposals[<<h, r>>]) \in streamed
  /\ \A h \in Heights : chain[h] # Absent =>
       /\ Prop(h, chain[h].round, chain[h].value_id) \in streamed
       /\ db.undecided_proposals[<<h, chain[h].round>>] \in {Absent, chain[h].value_id}
  /\ db.undecided_block_data = db.undecided_proposals

ChainInv ==
  /\ \A h \in Heights : chain[h] # Absent => \A k \in 1..h-1 : chain[k] # Absent
  /\ \A h \in Heights : h < current_height => chain[h] # Absent

(* The decided tables hold the decisions of the last heights, and nothing is    *)
(* left of those before.                                                        *)
Kept(h) == h < current_height /\ ~(h < RetainHeight(current_height - 1))
TableInv ==
  \A h \in Heights :
    /\ Kept(h) => /\ db.decided_values[h] = chain[h].value_id
                  /\ db.certificates[h] = Certificate(h, chain[h].round, chain[h].value_id)
                  /\ db.decided_block_data[h] = chain[h].value_id
    /\ ~Kept(h) => /\ db.decided_values[h] = Absent /\ db.certificates[h] = Absent
                   /\ db.decided_block_data[h] = Absent
    /\ h < current_height /\ ~Kept(h) =>
         \A r \in Rounds : db.undecided_proposals[<<h, r>>] = Absent

SpawnInv ==
  /\ \A i \in 1..Len(spawned) :
       /\ spawned[i].height < current_height
       /\ spawned[i].block = chain[spawned[i].height].value_id
  /\ \A i, j \in 1..Len(spawned) : i < j => spawned[i].height < spawned[j].height
  /\ \A h \in Heights : h < current_height /\ RunsRpc /\ chain[h].value_id # Empty
       => \E i \in 1..Len(spawned) : spawned[i].height = h

SteadyInv ==
  /\ Inv
  /\ QueueInv /\ RoundInv /\ StreamInv /\ ProposalInv /\ ChainInv /\ TableInv /\ SpawnInv

-------------------------------------------------------------------------------
(* What the handlers that write make of the database.                           *)
StoredTo(e, d, h, r, block) ==
  /\ \A g \in Heights, q \in Rounds :
       e.undecided_proposals[<<g, q>>] =
         IF g = h /\ q = r /\ d.undecided_proposals[<<g, q>>] = Absent THEN block
         ELSE d.undecided_proposals[<<g, q>>]
  /\ e.undecided_block_data = e.undecided_proposals
  /\ e.decided_values = d.decided_values
  /\ e.certificates = d.certificates
  /\ e.decided_block_data = d.decided_block_data

CommittedTo(e, d, h, value, certificate) ==
  /\ \A g \in Heights, q \in Rounds :
       e.undecided_proposals[<<g, q>>] =
         IF g < RetainHeight(h) THEN Absent ELSE d.undecided_proposals[<<g, q>>]
  /\ e.undecided_block_data = e.undecided_proposals
  /\ \A g \in Heights :
       IF g < RetainHeight(h)
       THEN /\ e.decided_values[g] = Absent /\ e.certificates[g] = Absent
            /\ e.decided_block_data[g] = Absent
       ELSE IF g = h
       THEN /\ e.decided_values[g] = value /\ e.certificates[g] = certificate
            /\ e.decided_block_data[g] = value
       ELSE /\ e.decided_values[g] = d.decided_values[g]
            /\ e.certificates[g] = d.certificates[g]
            /\ e.decided_block_data[g] = d.decided_block_data[g]

(* Storing a proposal stores its data with it, or neither.                      *)
LEMMA StoreProposalEffect ==
  ASSUME DbInv(db), db.undecided_block_data = db.undecided_proposals,
         NEW h \in Heights, NEW r \in Rounds, NEW block \in Blocks
  PROVE  StoredTo(Last(StoreProposal(h, r, block)), db, h, r, block)
<1>1. PICK d1 : d1 = InsertUndecidedProposal(db, h, r, block)
  OBVIOUS
<1>2. PICK d2 : d2 = InsertUndecidedBlockData(d1, h, r, block)
  OBVIOUS
<1>3. /\ DbInv(d1) /\ ProposedTo(d1, db, h, r, block)
      /\ d1.undecided_proposals[<<h, r>>] # Absent
  BY <1>1, UndecidedProposalInv, Zenon
<1>4. DbInv(d2) /\ DataAddedTo(d2, d1, h, r, block)
  BY <1>2, <1>3, UndecidedBlockDataInv, Zenon
<1>5. Last(StoreProposal(h, r, block)) = d2
  <2>1. StoreProposal(h, r, block) = <<d1, d2>>
    BY <1>1, <1>2 DEF StoreProposal
  <2> QED BY <2>1 DEF Last
<1>6. /\ d2.undecided_proposals = [db.undecided_proposals EXCEPT ![<<h, r>>] = IfAbsent(@, block)]
      /\ d2.undecided_block_data = d2.undecided_proposals
      /\ d2.decided_values = db.decided_values /\ d2.certificates = db.certificates
      /\ d2.decided_block_data = db.decided_block_data
  BY <1>3, <1>4 DEF ProposedTo, DataAddedTo
<1>7. \A g \in Heights, q \in Rounds :
        d2.undecided_proposals[<<g, q>>] =
          IF g = h /\ q = r /\ db.undecided_proposals[<<g, q>>] = Absent THEN block
          ELSE db.undecided_proposals[<<g, q>>]
  <2>1. /\ db.undecided_proposals \in [UndecidedKeys -> Rows]
        /\ \A g \in Heights, q \in Rounds : <<g, q>> \in UndecidedKeys
    BY DEF DbInv, Databases, UndecidedKeys
  <2> QED BY <1>6, <2>1 DEF IfAbsent
<1> QED BY <1>5, <1>6, <1>7 DEF StoredTo

(* A commit moves the stored proposal and its data to the decided tables, and   *)
(* hands that data to execution.                                                *)
LEMMA StoreDecisionEffect ==
  ASSUME DbInv(db), db.undecided_block_data = db.undecided_proposals,
         NEW h \in Heights, NEW r \in Rounds, NEW value_id \in Blocks, CanCommit(h, r),
         db.decided_block_data[h] = Absent,
         NEW value, value = db.undecided_proposals[<<h, r>>],
         NEW w, w = StoreDecision(h, r, value_id)
  PROVE  /\ CommittedTo(Last(w), db, h, value, Certificate(h, r, value_id))
         /\ GetBlockData(w[1], h, r) = value
         /\ value \in Blocks
<1>0. /\ GetUndecidedProposal(db, h, r) = value /\ value # Absent
      /\ db \in Databases /\ <<h, r>> \in UndecidedKeys
  BY DEF CanCommit, GetUndecidedProposal, DbInv, UndecidedKeys
<1>1. PICK d1 : d1 = InsertDecidedValue(db, Certificate(h, r, value_id), value)
  OBVIOUS
<1>2. PICK data : data = GetBlockData(d1, h, r)
  OBVIOUS
<1>3. PICK d2 : d2 = IF data # Absent THEN InsertDecidedBlockData(d1, h, data) ELSE d1
  OBVIOUS
<1>4. PICK d3 : d3 = Prune(d2, RetainHeight(h))
  OBVIOUS
<1>5. w = <<d1, d2, d3>>
  BY <1>0, <1>1, <1>2, <1>3, <1>4 DEF StoreDecision
<1>6. DbInv(d1) /\ DecidedTo(d1, db, h, value, Certificate(h, r, value_id))
  BY <1>0, <1>1, DecidedValueInv, Zenon
<1>7. value \in Blocks
  <2>1. value \in Rows
    BY <1>0 DEF Databases
  <2> QED BY <1>0, <2>1 DEF Rows
<1>8. data = value
  BY <1>0, <1>2, <1>6 DEF DecidedTo, GetBlockData
<1>9. DbInv(d2) /\ DecidedDataTo(d2, d1, h, value)
  <2>1. d2 = InsertDecidedBlockData(d1, h, value)
    BY <1>0, <1>3, <1>8
  <2>2. d1.decided_values[h] # Absent
    BY <1>0, <1>6 DEF DecidedTo, Databases
  <2> QED BY <1>6, <1>7, <2>1, <2>2, DecidedBlockDataInv, Zenon
<1>10. DbInv(d3) /\ PrunedTo(d3, d2, RetainHeight(h))
  <2>1. RetainHeight(h) \in Nat
    BY RetainHeightType
  <2> QED BY <1>4, <1>9, <2>1, PruneInv, Zenon
<1>11. /\ d2.undecided_proposals = db.undecided_proposals
       /\ d2.undecided_block_data = db.undecided_proposals
       /\ d2.decided_values = [db.decided_values EXCEPT ![h] = value]
       /\ d2.certificates = [db.certificates EXCEPT ![h] = Certificate(h, r, value_id)]
       /\ d2.decided_block_data = [db.decided_block_data EXCEPT ![h] = value]
  BY <1>6, <1>9 DEF DecidedTo, DecidedDataTo, IfAbsent
<1>12. \A g \in Heights :
         /\ d2.decided_values[g] = IF g = h THEN value ELSE db.decided_values[g]
         /\ d2.certificates[g] = IF g = h THEN Certificate(h, r, value_id) ELSE db.certificates[g]
         /\ d2.decided_block_data[g] = IF g = h THEN value ELSE db.decided_block_data[g]
  BY <1>0, <1>11 DEF Databases
<1>13. d3.undecided_block_data = d3.undecided_proposals
  <2>1. \A k \in UndecidedKeys : d3.undecided_block_data[k] = d3.undecided_proposals[k]
    <3>1. \A k \in UndecidedKeys : \E g \in Heights, q \in Rounds : k = <<g, q>>
      BY DEF UndecidedKeys
    <3> QED BY <1>10, <1>11, <3>1 DEF PrunedTo
  <2>2. /\ d3.undecided_block_data \in [UndecidedKeys -> Rows]
        /\ d3.undecided_proposals \in [UndecidedKeys -> Rows]
    BY <1>10 DEF DbInv, Databases
  <2> QED BY <2>1, <2>2
<1>14. CommittedTo(d3, db, h, value, Certificate(h, r, value_id))
  BY <1>10, <1>11, <1>12, <1>13 DEF PrunedTo, CommittedTo
<1>15. Last(w) = d3 /\ w[1] = d1
  BY <1>5 DEF Last
<1> QED BY <1>2, <1>7, <1>8, <1>14, <1>15

-------------------------------------------------------------------------------
(* What a step of the node or the network does to the state that outlives it.   *)
ProposesOwn(h, r, block) ==
  /\ h = current_height /\ Mine(h, r)
  /\ Undecided => \A v \in streamed : OwnNow(v) => v.round < r
  /\ streamed' = streamed \cup {Prop(h, r, block)}
  /\ StoredTo(db', db, h, r, block)
  /\ UNCHANGED <<current_height, spawned, chain>>

StoresReceived(h, r, block) ==
  /\ h >= current_height /\ ~Mine(h, r) /\ Prop(h, r, block) \in streamed
  /\ StoredTo(db', db, h, r, block)
  /\ UNCHANGED <<current_height, spawned, streamed, chain>>

Commits(h, r, block) ==
  /\ h = current_height
  /\ chain[h] = [round |-> r, value_id |-> block] /\ chain[h] # Absent
  /\ CommittedTo(db', db, h, block, Certificate(h, r, block))
  /\ spawned' = IF block # Empty /\ RunsRpc
                THEN Append(spawned, [height |-> h, block |-> block]) ELSE spawned
  /\ current_height' = h + 1
  /\ UNCHANGED <<streamed, chain>>

StreamsRemote(h, r, block) ==
  /\ ~Mine(h, r) /\ \A v \in streamed : ~(v.height = h /\ v.round = r)
  /\ streamed' = streamed \cup {Prop(h, r, block)}
  /\ UNCHANGED <<current_height, db, spawned, chain>>

DecidesOn(h, r, block) ==
  /\ Prop(h, r, block) \in streamed
  /\ chain[h] = Absent /\ (h > 1 => chain[h-1] # Absent)
  /\ chain' = [chain EXCEPT ![h] = [round |-> r, value_id |-> block]]
  /\ [round |-> r, value_id |-> block] # Absent
  /\ UNCHANGED <<current_height, db, spawned, streamed>>

Quiet == UNCHANGED <<current_height, db, spawned, streamed, chain>>

Does(h, r, block) ==
  \/ ProposesOwn(h, r, block) \/ StoresReceived(h, r, block) \/ Commits(h, r, block)
  \/ StreamsRemote(h, r, block) \/ DecidesOn(h, r, block)

(* GetValue stores and streams the next block of the file as a proposal of      *)
(* its own.                                                                     *)
LEMMA GetValueEffect ==
  ASSUME SteadyInv, GetValue
  PROVE  \E block \in Blocks : ProposesOwn(Head(inbox).height, Head(inbox).round, block)
<1>1. PICK m : m = Head(inbox)
  OBVIOUS
<1>2. PICK block : block = NextBlock
  OBVIOUS
<1>3. /\ inbox # <<>> /\ m.type = "GetValue" /\ m.height = current_height
      /\ db' = Last(Writes(m))
      /\ streamed' = streamed \cup {Prop(m.height, m.round, block)}
      /\ UNCHANGED <<current_height, spawned, chain>>
  BY <1>1, <1>2 DEF GetValue
<1>4. block \in Blocks
  BY <1>2, NextBlockType DEF SteadyInv, Inv, AppInv
<1>5. m = inbox[1] /\ m.height \in Heights /\ m.round \in Rounds /\ 1 \in 1..Len(inbox)
  <2>1. m = inbox[1] /\ m.height \in Heights /\ m.round \in Rounds
    BY <1>1, <1>3, HeadFacts DEF SteadyInv
  <2>2. Len(inbox) \in Nat /\ Len(inbox) >= 1
    BY <1>3, TailFacts DEF SteadyInv, Inv, ChannelInv
  <2> QED BY <2>1, <2>2
<1>6. Mine(m.height, m.round)
  BY <1>3, <1>5 DEF SteadyInv, QueueInv
<1>7. Undecided => \A v \in streamed : OwnNow(v) => v.round < m.round
  BY <1>3, <1>5 DEF SteadyInv, RoundInv
<1>8. StoredTo(db', db, m.height, m.round, block)
  <2>1. Writes(m) = StoreProposal(m.height, m.round, block)
    BY <1>2, <1>3 DEF Writes
  <2>2. DbInv(db) /\ db.undecided_block_data = db.undecided_proposals
    BY DEF SteadyInv, Inv, AppInv, ProposalInv
  <2> QED BY <1>3, <1>4, <1>5, <2>1, <2>2, StoreProposalEffect
<1> QED BY <1>1, <1>3, <1>4, <1>6, <1>7, <1>8 DEF ProposesOwn

(* ReceivedProposal stores the received block, or nothing when it is            *)
(* outdated.                                                                    *)
LEMMA ReceivedProposalEffect ==
  ASSUME SteadyInv, ReceivedProposal
  PROVE  Quiet \/ \E h \in Heights, r \in Rounds, block \in Blocks : StoresReceived(h, r, block)
<1>1. PICK m : m = Head(inbox)
  OBVIOUS
<1>2. /\ inbox # <<>> /\ m.type = "ReceivedProposal"
      /\ IF Outdated(m.height) THEN UNCHANGED db ELSE db' = Last(Writes(m))
      /\ UNCHANGED <<current_height, spawned, streamed, chain>>
  BY <1>1 DEF ReceivedProposal, network
<1>3. /\ m = inbox[1] /\ m.height \in Heights /\ m.round \in Rounds /\ m.block \in Blocks
      /\ 1 \in 1..Len(inbox)
  <2>1. m = inbox[1] /\ m.height \in Heights /\ m.round \in Rounds /\ m.block \in Blocks
    BY <1>1, <1>2, HeadFacts DEF SteadyInv, WithBlock
  <2>2. Len(inbox) \in Nat /\ Len(inbox) >= 1
    BY <1>2, TailFacts DEF SteadyInv, Inv, ChannelInv
  <2> QED BY <2>1, <2>2
<1>4. ~Mine(m.height, m.round) /\ Prop(m.height, m.round, m.block) \in streamed
  BY <1>2, <1>3 DEF SteadyInv, QueueInv
<1>5. CASE ~Outdated(m.height)
  <2>1. Writes(m) = StoreProposal(m.height, m.round, m.block)
    BY <1>2, <1>5 DEF Writes
  <2>2. DbInv(db) /\ db.undecided_block_data = db.undecided_proposals
    BY DEF SteadyInv, Inv, AppInv, ProposalInv
  <2>3. StoredTo(db', db, m.height, m.round, m.block)
    BY <1>2, <1>3, <1>5, <2>1, <2>2, StoreProposalEffect
  <2>4. m.height >= current_height
    BY <1>3, <1>5, MaxHeightAssumption DEF Outdated, SteadyInv, Inv, AppInv, Heights
  <2> QED BY <1>2, <1>3, <1>4, <2>3, <2>4 DEF StoresReceived
<1> QED BY <1>2, <1>5 DEF Quiet

(* Commit moves the decided block to the decided tables, hands it to            *)
(* execution and moves to the next height.                                      *)
LEMMA CommitEffect ==
  ASSUME SteadyInv, Commit
  PROVE  \E h \in Heights, r \in Rounds, block \in Blocks : Commits(h, r, block)
<1>1. PICK m : m = Head(inbox)
  OBVIOUS
<1>2. PICK w : w = Writes(m)
  OBVIOUS
<1>3. PICK data : data = GetBlockData(w[1], m.height, m.round)
  OBVIOUS
<1>4. /\ inbox # <<>> /\ m.type = "Decided" /\ CanCommit(m.height, m.round)
      /\ db' = Last(w)
      /\ spawned' = IF data \notin {Absent, Empty} /\ RunsRpc
                    THEN Append(spawned, [height |-> m.height, block |-> data]) ELSE spawned
      /\ current_height' = current_height + 1
      /\ UNCHANGED <<streamed, chain>>
  BY <1>1, <1>2, <1>3 DEF Commit, network
<1>5. /\ m.height \in Heights /\ m.round \in Rounds /\ m.block \in Blocks
      /\ m.height = current_height
      /\ chain[m.height] = [round |-> m.round, value_id |-> m.block]
  BY <1>1, <1>4, HeadFacts DEF SteadyInv, WithBlock, Rounded
<1>6. chain[m.height] # Absent
  BY <1>5, AbsentAssumption DEF Decisions
<1>7. db.undecided_proposals[<<m.height, m.round>>] = m.block
  <2>1. db.undecided_proposals[<<m.height, m.round>>] \in {Absent, m.block}
    BY <1>5, <1>6 DEF SteadyInv, ProposalInv
  <2> QED BY <1>4, <2>1 DEF CanCommit, GetUndecidedProposal
<1>8. /\ CommittedTo(db', db, m.height, m.block, Certificate(m.height, m.round, m.block))
      /\ data = m.block
  <2>1. w = StoreDecision(m.height, m.round, m.block)
    BY <1>2, <1>4 DEF Writes
  <2>2. DbInv(db) /\ db.undecided_block_data = db.undecided_proposals
    BY DEF SteadyInv, Inv, AppInv, ProposalInv
  <2>3. db.decided_block_data[m.height] = Absent
    <3>1. ~Kept(m.height)
      BY <1>5, MaxHeightAssumption DEF Kept, Heights
    <3> QED BY <1>5, <3>1 DEF SteadyInv, TableInv
  <2>4. PICK value : value = db.undecided_proposals[<<m.height, m.round>>]
    OBVIOUS
  <2>5. /\ CommittedTo(Last(w), db, m.height, value, Certificate(m.height, m.round, m.block))
        /\ GetBlockData(w[1], m.height, m.round) = value
    BY <1>4, <1>5, <2>1, <2>2, <2>3, <2>4, StoreDecisionEffect
  <2> QED BY <1>3, <1>4, <1>7, <2>4, <2>5
<1>9. data # Absent
  BY <1>5, <1>8, AbsentAssumption
<1> QED BY <1>4, <1>5, <1>6, <1>8, <1>9 DEF Commits

(* Every step of the node, its engine and the network changes these tables      *)
(* and the chain in one of the five ways, or not at all.                         *)
LEMMA StepEffect ==
  ASSUME SteadyInv, [SteadyNext]_vars
  PROVE  Quiet \/ \E h \in Heights, r \in Rounds, block \in Blocks : Does(h, r, block)
<1>1. CASE GetValue
  <2>1. Head(inbox).height \in Heights /\ Head(inbox).round \in Rounds
    BY <1>1, HeadFacts DEF SteadyInv, GetValue
  <2> QED BY <1>1, <2>1, GetValueEffect DEF Does
<1>2. CASE ReceivedProposal
  BY <1>2, ReceivedProposalEffect DEF Does
<1>3. CASE Commit
  BY <1>3, CommitEffect DEF Does
<1>4. CASE \E h \in Heights, r \in Rounds : RemotePropose(h, r)
  <2>1. PICK h \in Heights, r \in Rounds : RemotePropose(h, r)
    BY <1>4
  <2>2. PICK block : block = RemoteBlock(h, r)
    OBVIOUS
  <2>3. StreamsRemote(h, r, block)
    BY <2>1, <2>2 DEF RemotePropose, StreamsRemote, Streams, app
  <2>4. block \in Blocks
    <3>1. Prop(h, r, block) \in streamed'
      BY <2>3 DEF StreamsRemote
    <3>2. streamed' \subseteq Props
      BY <2>1, RemoteStreamInv DEF SteadyInv, Inv, NetworkInv
    <3> QED BY <3>1, <3>2 DEF Props, Prop
  <2> QED BY <2>3, <2>4 DEF Does
<1>5. CASE \E v \in streamed : NetworkDecides(v)
  <2>1. PICK v \in streamed : NetworkDecides(v)
    BY <1>5
  <2>2. /\ v.height \in Heights /\ v.round \in Rounds /\ v.block \in Blocks
        /\ v = Prop(v.height, v.round, v.block)
    BY DEF SteadyInv, Inv, NetworkInv, Props, Prop
  <2>3. [round |-> v.round, value_id |-> v.block] # Absent
    BY <2>2, AbsentAssumption DEF Decisions
  <2>4. DecidesOn(v.height, v.round, v.block)
    BY <2>1, <2>2, <2>3 DEF NetworkDecides, NetworkAt, DecidesOn, app
  <2> QED BY <2>2, <2>4 DEF Does
<1>6. CASE StartedRound
  <2>1. current_height' = current_height
    BY <1>6, HeadFacts DEF SteadyInv, StartedRound, Rounded
  <2> QED BY <1>6, <2>1 DEF StartedRound, network, Quiet
<1>7. CASE \/ ConsensusReady \/ ProcessSyncedValue \/ CommitNothing
           \/ EngineStep \/ UNCHANGED vars
  BY <1>7 DEF ConsensusReady, ProcessSyncedValue, CommitNothing, EngineStep,
              EnterRound, AskValue, RoundTimeout, ReceiveSyncedValue, Decide, ProposalArrives,
              app, network, vars, Quiet
<1> QED BY <1>1, <1>2, <1>3, <1>4, <1>5, <1>6, <1>7 DEF SteadyNext, Handle, NetworkStep

-------------------------------------------------------------------------------
(* What is streamed and stored.                                                 *)
LEMMA SteadyTypes ==
  ASSUME SteadyInv
  PROVE  /\ current_height \in Nat /\ current_height >= 1 /\ current_height <= MaxHeight + 1
         /\ Heights \subseteq Nat /\ Rounds \subseteq Nat
         /\ \A v \in streamed : /\ v.height \in Heights /\ v.round \in Rounds
                                /\ v.block \in Blocks /\ v = Prop(v.height, v.round, v.block)
         /\ \A h \in Heights : chain[h] # Absent =>
              /\ chain[h].round \in Rounds /\ chain[h].value_id \in Blocks
              /\ chain[h] = [round |-> chain[h].round, value_id |-> chain[h].value_id]
         /\ chain \in [Heights -> Decisions \cup {Absent}]
<1>1. /\ current_height \in Nat /\ current_height >= 1 /\ current_height <= MaxHeight + 1
      /\ Heights \subseteq Nat /\ Rounds \subseteq Nat
  BY MaxHeightAssumption, MaxRoundAssumption DEF SteadyInv, Inv, AppInv, Heights, Rounds
<1>2. \A v \in streamed : /\ v.height \in Heights /\ v.round \in Rounds
                          /\ v.block \in Blocks /\ v = Prop(v.height, v.round, v.block)
  BY DEF SteadyInv, Inv, NetworkInv, Props, Prop
<1>3. chain \in [Heights -> Decisions \cup {Absent}]
  BY DEF SteadyInv, Inv, NetworkInv
<1>4. \A h \in Heights : chain[h] # Absent =>
        /\ chain[h].round \in Rounds /\ chain[h].value_id \in Blocks
        /\ chain[h] = [round |-> chain[h].round, value_id |-> chain[h].value_id]
  BY <1>3 DEF Decisions
<1> QED BY <1>1, <1>2, <1>3, <1>4

(* What was streamed stays one proposal for each height and round.              *)
LEMMA StreamStep ==
  ASSUME SteadyInv, NEW h \in Heights, NEW r \in Rounds, NEW block \in Blocks, Does(h, r, block)
  PROVE  StreamInv'
<1> DEFINE new == Prop(h, r, block)
<1>0. block # Absent
  BY AbsentAssumption
<1>1. new.height = h /\ new.round = r /\ (OwnProposal(new) <=> Mine(h, r))
  BY DEF Prop, OwnProposal
<1> HIDE DEF new
<1>2. \A v \in streamed : v.height \in Heights /\ v.round \in Rounds
  BY SteadyTypes
<1>3. /\ current_height \in Nat /\ h \in Nat
      /\ \A v \in streamed : v.height \in Nat /\ v.round \in Nat
  BY <1>2, SteadyTypes
<1>4. StreamInv
  BY DEF SteadyInv
<1>5. CASE ProposesOwn(h, r, block)
  <2>1. /\ h = current_height /\ Mine(h, r) /\ current_height' = current_height /\ chain' = chain
        /\ streamed' = streamed \cup {new}
        /\ chain[h] = Absent => \A v \in streamed : OwnNow(v) => v.round < r
        /\ StoredTo(db', db, h, r, block)
    BY <1>5 DEF ProposesOwn, Undecided, new
  <2>2. ASSUME NEW v \in streamed', OwnProposal(v)
        PROVE  /\ v.height <= current_height'
               /\ v.height = current_height' => db'.undecided_proposals[<<v.height, v.round>>] # Absent
    <3>1. CASE v = new
      BY <1>0, <1>1, <1>3, <2>1, <3>1 DEF StoredTo
    <3>2. CASE v \in streamed
      BY <1>0, <1>2, <1>4, <2>1, <2>2, <3>2 DEF StoredTo, StreamInv
    <3> QED BY <2>1, <3>1, <3>2
  <2>3. ASSUME NEW v \in streamed', NEW w \in streamed',
               v.height = w.height, v.round = w.round, OwnProposal(v) => chain'[v.height] = Absent
        PROVE  v = w
    <3>1. OwnProposal(v) <=> OwnProposal(w)
      BY <2>3 DEF OwnProposal
    <3>2. CASE v \in streamed /\ w \in streamed
      BY <1>4, <2>1, <2>3, <3>2 DEF StreamInv
    <3>3. ASSUME NEW x \in streamed, x.height = h, x.round = r, chain[h] = Absent
          PROVE  FALSE
      <4>1. OwnNow(x)
        BY <2>1, <3>3 DEF OwnNow, OwnProposal
      <4> QED BY <1>3, <2>1, <3>3, <4>1
    <3>4. CASE v = new /\ w \in streamed
      BY <1>1, <2>1, <2>3, <3>3, <3>4
    <3>5. CASE w = new /\ v \in streamed
      BY <1>1, <2>1, <2>3, <3>1, <3>3, <3>5
    <3> QED BY <2>1, <3>2, <3>4, <3>5
  <2> QED BY <2>2, <2>3 DEF StreamInv
<1>6. CASE StoresReceived(h, r, block)
  <2>1. /\ StoredTo(db', db, h, r, block)
        /\ UNCHANGED <<current_height, streamed, chain>>
    BY <1>6 DEF StoresReceived
  <2>2. \A v \in streamed : OwnProposal(v) /\ v.height = current_height =>
          db'.undecided_proposals[<<v.height, v.round>>] # Absent
    BY <1>0, <1>2, <1>4, <2>1 DEF StoredTo, StreamInv
  <2> QED BY <1>4, <2>1, <2>2 DEF StreamInv
<1>7. CASE Commits(h, r, block)
  <2>1. h = current_height /\ current_height' = h + 1 /\ UNCHANGED <<streamed, chain>>
    BY <1>7 DEF Commits
  <2>2. ASSUME NEW v \in streamed, OwnProposal(v)
        PROVE  v.height <= h + 1 /\ v.height # h + 1
    <3>1. v.height \in Nat /\ h \in Nat /\ v.height <= h
      BY <1>3, <1>4, <2>1, <2>2 DEF StreamInv
    <3> QED BY <3>1
  <2> QED BY <1>3, <1>4, <2>1, <2>2 DEF StreamInv
<1>8. CASE StreamsRemote(h, r, block)
  <2>1. /\ ~Mine(h, r) /\ \A v \in streamed : ~(v.height = h /\ v.round = r)
        /\ streamed' = streamed \cup {new} /\ UNCHANGED <<current_height, db, chain>>
    BY <1>8 DEF StreamsRemote, new
  <2> QED BY <1>1, <1>4, <2>1 DEF StreamInv
<1>9. CASE DecidesOn(h, r, block)
  <2>1. /\ UNCHANGED <<current_height, db, streamed>>
        /\ chain' = [chain EXCEPT ![h] = [round |-> r, value_id |-> block]]
        /\ chain[h] = Absent
    BY <1>9 DEF DecidesOn
  <2>2. \A g \in Heights : chain'[g] = Absent => chain[g] = Absent
    BY <2>1, SteadyTypes
  <2> QED BY <1>2, <1>4, <2>1, <2>2 DEF StreamInv
<1> QED BY <1>5, <1>6, <1>7, <1>8, <1>9 DEF Does

(* Undecided proposals stay those that were streamed.                           *)
LEMMA ProposalStep ==
  ASSUME SteadyInv, NEW h \in Heights, NEW r \in Rounds, NEW block \in Blocks, Does(h, r, block)
  PROVE  ProposalInv'
<1>0. block # Absent
  BY AbsentAssumption
<1>1. /\ ProposalInv /\ StreamInv
      /\ \A g \in Heights : chain[g] # Absent => chain[g].round \in Rounds
      /\ chain \in [Heights -> Decisions \cup {Absent}]
      /\ h \in Nat /\ current_height \in Nat
      /\ \A v \in streamed : v.height \in Heights /\ v.round \in Rounds
  BY SteadyTypes DEF SteadyInv
<1>2. Prop(h, r, block).height = h /\ Prop(h, r, block).round = r /\ Prop(h, r, block).block = block
  BY DEF Prop
<1>3. ASSUME StoredTo(db', db, h, r, block), streamed \subseteq streamed', chain' = chain,
             Prop(h, r, block) \in streamed',
             chain[h] # Absent /\ chain[h].round = r =>
               db.undecided_proposals[<<h, r>>] # Absent \/ block = chain[h].value_id
      PROVE  ProposalInv'
  <2>1. \A g \in Heights, q \in Rounds : db'.undecided_proposals[<<g, q>>] # Absent =>
          Prop(g, q, db'.undecided_proposals[<<g, q>>]) \in streamed'
    BY <1>0, <1>1, <1>3 DEF StoredTo, ProposalInv
  <2>2. ASSUME NEW g \in Heights, chain[g] # Absent
        PROVE  /\ Prop(g, chain[g].round, chain[g].value_id) \in streamed'
               /\ db'.undecided_proposals[<<g, chain[g].round>>] \in {Absent, chain[g].value_id}
    <3>1. /\ Prop(g, chain[g].round, chain[g].value_id) \in streamed
          /\ db.undecided_proposals[<<g, chain[g].round>>] \in {Absent, chain[g].value_id}
          /\ chain[g].round \in Rounds
      BY <1>1, <2>2 DEF ProposalInv
    <3>2. CASE g = h /\ chain[g].round = r
      BY <1>0, <1>3, <2>2, <3>1, <3>2 DEF StoredTo
    <3>3. CASE ~(g = h /\ chain[g].round = r)
      BY <1>0, <1>3, <3>1, <3>3 DEF StoredTo
    <3> QED BY <1>3, <3>1, <3>2, <3>3
  <2>3. db'.undecided_block_data = db'.undecided_proposals
    BY <1>3 DEF StoredTo
  <2> QED BY <1>3, <2>1, <2>2, <2>3 DEF ProposalInv
<1>4. CASE ProposesOwn(h, r, block)
  <2>1. /\ h = current_height /\ Mine(h, r) /\ chain' = chain
        /\ streamed' = streamed \cup {Prop(h, r, block)} /\ StoredTo(db', db, h, r, block)
    BY <1>4 DEF ProposesOwn
  <2>2. ASSUME chain[h] # Absent, chain[h].round = r
        PROVE  db.undecided_proposals[<<h, r>>] # Absent
    <3>1. PICK v \in streamed : v = Prop(h, r, chain[h].value_id)
      BY <1>1, <2>2 DEF ProposalInv
    <3>2. OwnProposal(v) /\ v.height = current_height /\ v.round = r
      BY <2>1, <3>1 DEF Prop, OwnProposal
    <3> QED BY <1>1, <2>1, <3>2 DEF StreamInv
  <2> QED BY <1>3, <2>1, <2>2
<1>5. CASE StoresReceived(h, r, block)
  <2>1. /\ ~Mine(h, r) /\ Prop(h, r, block) \in streamed /\ StoredTo(db', db, h, r, block)
        /\ UNCHANGED <<streamed, chain>>
    BY <1>5 DEF StoresReceived
  <2>2. ASSUME chain[h] # Absent, chain[h].round = r
        PROVE  block = chain[h].value_id
    <3>1. PICK v \in streamed : v = Prop(h, r, chain[h].value_id)
      BY <1>1, <2>2 DEF ProposalInv
    <3>2. v.height = h /\ v.round = r /\ v.block = chain[h].value_id /\ ~OwnProposal(v)
      BY <2>1, <3>1 DEF Prop, OwnProposal
    <3>3. v = Prop(h, r, block)
      BY <1>1, <1>2, <2>1, <3>2 DEF StreamInv
    <3> QED BY <1>2, <3>2, <3>3
  <2> QED BY <1>3, <2>1, <2>2
<1>6. CASE Commits(h, r, block)
  <2>1. /\ CommittedTo(db', db, h, block, Certificate(h, r, block)) /\ UNCHANGED <<streamed, chain>>
    BY <1>6 DEF Commits
  <2>2. /\ db'.undecided_block_data = db'.undecided_proposals
        /\ \A g \in Heights, q \in Rounds :
             db'.undecided_proposals[<<g, q>>] \in {Absent, db.undecided_proposals[<<g, q>>]}
    BY <2>1 DEF CommittedTo
  <2> QED BY <1>1, <2>1, <2>2 DEF ProposalInv
<1>7. CASE StreamsRemote(h, r, block)
  BY <1>1, <1>7 DEF StreamsRemote, ProposalInv
<1>8. CASE DecidesOn(h, r, block)
  <2>1. /\ Prop(h, r, block) \in streamed /\ chain[h] = Absent
        /\ chain' = [chain EXCEPT ![h] = [round |-> r, value_id |-> block]]
        /\ UNCHANGED <<db, streamed>>
    BY <1>8 DEF DecidesOn
  <2>2. db.undecided_proposals[<<h, r>>] \in {Absent, block}
    <3>1. SUFFICES ASSUME db.undecided_proposals[<<h, r>>] # Absent
                   PROVE  db.undecided_proposals[<<h, r>>] = block
      OBVIOUS
    <3>2. PICK v \in streamed : v = Prop(h, r, db.undecided_proposals[<<h, r>>])
      BY <1>1, <3>1 DEF ProposalInv
    <3>3. v.height = h /\ v.round = r /\ v.block = db.undecided_proposals[<<h, r>>]
      BY <3>2 DEF Prop
    <3>4. v = Prop(h, r, block)
      BY <1>1, <1>2, <2>1, <3>3 DEF StreamInv
    <3> QED BY <1>2, <3>3, <3>4
  <2>3. \A g \in Heights : chain'[g] = IF g = h THEN [round |-> r, value_id |-> block] ELSE chain[g]
    BY <1>1, <2>1
  <2> QED BY <1>1, <2>1, <2>2, <2>3 DEF ProposalInv
<1> QED BY <1>4, <1>5, <1>6, <1>7, <1>8 DEF Does

-------------------------------------------------------------------------------
(* What is decided, kept and executed.                                          *)
LEMMA ChainStep ==
  ASSUME SteadyInv, NEW h \in Heights, NEW r \in Rounds, NEW block \in Blocks, Does(h, r, block)
  PROVE  ChainInv'
<1>1. /\ ChainInv /\ current_height \in Nat /\ Heights \subseteq Nat
      /\ chain \in [Heights -> Decisions \cup {Absent}]
  BY SteadyTypes DEF SteadyInv
<1>2. CASE UNCHANGED <<current_height, chain>>
  BY <1>1, <1>2 DEF ChainInv
<1>3. CASE Commits(h, r, block)
  <2>1. /\ h = current_height /\ current_height' = h + 1 /\ chain' = chain /\ chain[h] # Absent
    BY <1>3 DEF Commits
  <2>2. ASSUME NEW g \in Heights, g < h + 1
        PROVE  chain[g] # Absent
    <3>1. g < h \/ g = h
      BY <1>1, <2>2
    <3> QED BY <1>1, <2>1, <3>1 DEF ChainInv
  <2> QED BY <1>1, <2>1, <2>2 DEF ChainInv
<1>4. CASE DecidesOn(h, r, block)
  <2>1. /\ chain[h] = Absent /\ (h > 1 => chain[h-1] # Absent)
        /\ current_height' = current_height
        /\ \A g \in Heights : chain'[g] # Absent <=> g = h \/ chain[g] # Absent
    BY <1>1, <1>4 DEF DecidesOn
  <2>2. \A g \in Heights : \A k \in 1..g-1 : k \in Heights
    BY MaxHeightAssumption DEF Heights
  <2>3. \A k \in 1..h-1 : chain[k] # Absent
    <3>1. ASSUME NEW k \in 1..h-1
          PROVE  chain[k] # Absent
      <4>1. h \in Nat /\ k \in Nat
        BY <1>1
      <4>2. chain[h-1] # Absent /\ h-1 \in 1..h-1 /\ (k = h-1 \/ k \in 1..(h-1)-1)
        BY <2>1, <4>1
      <4>3. h-1 \in Heights
        BY <2>2, <4>2
      <4> QED BY <1>1, <4>2, <4>3 DEF ChainInv
    <3> QED BY <3>1
  <2> QED BY <1>1, <2>1, <2>2, <2>3 DEF ChainInv
<1> QED BY <1>2, <1>3, <1>4 DEF Does, ProposesOwn, StoresReceived, StreamsRemote

(* Pruning only advances.                                                       *)
LEMMA RetainAdvances ==
  ASSUME NEW h \in Nat, h >= 1
  PROVE  /\ RetainHeight(h - 1) \in Nat /\ RetainHeight(h) \in Nat
         /\ RetainHeight(h - 1) <= RetainHeight(h) /\ RetainHeight(h) <= h
BY BoundsAssumption DEF RetainHeight

(* The tables stay in step: a decided value has its certificate and its data.   *)
LEMMA TableStep ==
  ASSUME SteadyInv, NEW h \in Heights, NEW r \in Rounds, NEW block \in Blocks, Does(h, r, block)
  PROVE  TableInv'
<1>1. /\ TableInv /\ ChainInv /\ current_height \in Nat /\ current_height >= 1
      /\ Heights \subseteq Nat
      /\ chain \in [Heights -> Decisions \cup {Absent}]
  BY SteadyTypes DEF SteadyInv
<1>2. CASE UNCHANGED <<current_height, db, chain>>
  BY <1>1, <1>2 DEF TableInv, Kept
<1>3. CASE StoredTo(db', db, h, r, block) /\ h >= current_height /\ UNCHANGED <<current_height, chain>>
  <2>1. \A g \in Heights, q \in Rounds : g < current_height =>
          db'.undecided_proposals[<<g, q>>] = db.undecided_proposals[<<g, q>>]
    <3>1. ASSUME NEW g \in Heights, g < current_height PROVE g # h
      BY <1>1, <1>3, <3>1
    <3> QED BY <1>3, <3>1 DEF StoredTo
  <2>2. /\ db'.decided_values = db.decided_values /\ db'.certificates = db.certificates
        /\ db'.decided_block_data = db.decided_block_data
    BY <1>3 DEF StoredTo
  <2> QED BY <1>1, <1>3, <2>1, <2>2 DEF TableInv, Kept
<1>4. CASE Commits(h, r, block)
  <2>1. /\ h = current_height /\ current_height' = h + 1 /\ chain' = chain
        /\ chain[h].round = r /\ chain[h].value_id = block
        /\ CommittedTo(db', db, h, block, Certificate(h, r, block))
    BY <1>4 DEF Commits
  <2>2. /\ RetainHeight(h - 1) \in Nat /\ RetainHeight(h) \in Nat
        /\ RetainHeight(h - 1) <= RetainHeight(h) /\ RetainHeight(h) <= h
        /\ (h + 1) - 1 = h
    BY <1>1, <2>1, RetainAdvances
  <2>3. ASSUME NEW g \in Heights
        PROVE  /\ Kept(g)' <=> g < h + 1 /\ ~(g < RetainHeight(h))
               /\ Kept(g) <=> g < h /\ ~(g < RetainHeight(h - 1))
               /\ Kept(g)' => g = h \/ (g # h /\ Kept(g))
               /\ ~Kept(g)' => g < RetainHeight(h) \/ (g # h /\ ~Kept(g) /\ ~(g < h + 1))
               /\ g < h + 1 /\ ~Kept(g)' => g < RetainHeight(h)
    <3>1. /\ Kept(g)' <=> g < h + 1 /\ ~(g < RetainHeight(h))
          /\ Kept(g) <=> g < h /\ ~(g < RetainHeight(h - 1))
      BY <2>1, <2>2 DEF Kept, RetainHeight
    <3>2. g \in Nat /\ h \in Nat
      BY <1>1
    <3> QED BY <2>2, <3>1, <3>2
  <2>4. ASSUME NEW g \in Heights, Kept(g)'
        PROVE  /\ db'.decided_values[g] = chain[g].value_id
               /\ db'.certificates[g] = Certificate(g, chain[g].round, chain[g].value_id)
               /\ db'.decided_block_data[g] = chain[g].value_id
    <3>1. ~(g < RetainHeight(h)) /\ (g = h \/ (g # h /\ Kept(g)))
      BY <2>3, <2>4
    <3> QED BY <1>1, <2>1, <3>1 DEF CommittedTo, TableInv
  <2>5. ASSUME NEW g \in Heights, ~Kept(g)'
        PROVE  /\ db'.decided_values[g] = Absent /\ db'.certificates[g] = Absent
               /\ db'.decided_block_data[g] = Absent
    <3>1. g < RetainHeight(h) \/ (g # h /\ ~Kept(g))
      BY <2>3, <2>5
    <3> QED BY <1>1, <2>1, <3>1 DEF CommittedTo, TableInv
  <2>6. ASSUME NEW g \in Heights, g < h + 1, ~Kept(g)', NEW q \in Rounds
        PROVE  db'.undecided_proposals[<<g, q>>] = Absent
    <3>1. g < RetainHeight(h)
      BY <2>3, <2>6
    <3> QED BY <2>1, <3>1 DEF CommittedTo
  <2> QED BY <2>1, <2>4, <2>5, <2>6 DEF TableInv
<1>5. CASE DecidesOn(h, r, block)
  <2>1. /\ UNCHANGED <<current_height, db>> /\ chain[h] = Absent
        /\ \A g \in Heights : g # h => chain'[g] = chain[g]
    BY <1>1, <1>5 DEF DecidesOn
  <2>2. \A g \in Heights : Kept(g) => g # h
    BY <1>1, <2>1 DEF ChainInv, Kept
  <2>3. \A g \in Heights : Kept(g)' <=> Kept(g)
    BY <2>1 DEF Kept
  <2> QED BY <1>1, <2>1, <2>2, <2>3 DEF TableInv
<1>6. ProposesOwn(h, r, block) => h >= current_height
  BY <1>1 DEF ProposesOwn
<1> QED BY <1>2, <1>3, <1>4, <1>5, <1>6 DEF Does, ProposesOwn, StoresReceived, StreamsRemote

(* Blocks handed to execution stay those decided, one for each height, in       *)
(* order.                                                                       *)
LEMMA SpawnStep ==
  ASSUME SteadyInv, NEW h \in Heights, NEW r \in Rounds, NEW block \in Blocks, Does(h, r, block)
  PROVE  SpawnInv'
<1> DEFINE Spawned == [height : Heights, block : Blocks]
<1>1. /\ SpawnInv /\ ChainInv /\ current_height \in Nat /\ Heights \subseteq Nat
      /\ chain \in [Heights -> Decisions \cup {Absent}]
      /\ spawned \in Seq(Spawned)
  BY SteadyTypes DEF SteadyInv, Inv, AppInv
<1>2. /\ Len(spawned) \in Nat
      /\ \A i \in 1..Len(spawned) : spawned[i].height \in Heights
  <2>1. spawned \in Seq(Spawned)
    BY <1>1
  <2>2. Len(spawned) \in Nat /\ \A i \in 1..Len(spawned) : spawned[i] \in Spawned
    <3> HIDE DEF Spawned
    <3> QED BY <2>1, LenProperties, ElementOfSeq
  <2> QED BY <2>2
<1> HIDE DEF Spawned
<1>3. CASE UNCHANGED <<current_height, spawned, chain>>
  BY <1>1, <1>3 DEF SpawnInv
<1>4. CASE Commits(h, r, block)
  <2>1. /\ h = current_height /\ current_height' = h + 1 /\ chain' = chain
        /\ chain[h].value_id = block
        /\ spawned' = IF block # Empty /\ RunsRpc
                      THEN Append(spawned, [height |-> h, block |-> block]) ELSE spawned
    BY <1>4 DEF Commits
  <2>2. \A g \in Nat : /\ g < h => g < h + 1
                       /\ g < h + 1 => g < h \/ g = h
    BY <1>1
  <2>3. CASE ~(block # Empty /\ RunsRpc)
    <3>1. spawned' = spawned
      BY <2>1, <2>3
    <3>2. \A i \in 1..Len(spawned) : spawned[i].height < h + 1
      BY <1>1, <1>2, <2>1, <2>2 DEF SpawnInv
    <3>3. \A g \in Heights : g < h + 1 /\ RunsRpc /\ chain[g].value_id # Empty => g < h
      BY <1>1, <2>1, <2>2, <2>3
    <3> QED BY <1>1, <2>1, <3>1, <3>2, <3>3 DEF SpawnInv
  <2>4. CASE block # Empty /\ RunsRpc
    <3> DEFINE n == Len(spawned)
               last == [height |-> h, block |-> block]
    <3>1. /\ n \in Nat /\ Len(spawned') = n + 1
          /\ \A i \in 1..n : spawned'[i] = spawned[i]
          /\ spawned'[n+1] = last
      <4>1. spawned' = Append(spawned, last) /\ last \in Spawned
        BY <2>1, <2>4 DEF Spawned
      <4> HIDE DEF last
      <4> QED BY <1>1, <4>1, AppendProperties, LenProperties
    <3>2. \A i \in 1..Len(spawned') : i \in 1..n \/ i = n+1
      BY <3>1
    <3>3. last.height = h /\ last.block = block
      OBVIOUS
    <3>4. n + 1 \in 1..Len(spawned') /\ \A i \in 1..n : i \in 1..Len(spawned')
      BY <3>1
    <3>6. \A i \in 1..n : spawned[i].height < h /\ spawned[i].height \in Nat
      BY <1>1, <1>2, <2>1 DEF SpawnInv
    <3> HIDE DEF n, last
    <3>7. ASSUME NEW i \in 1..Len(spawned')
          PROVE  /\ spawned'[i].height < h + 1
                 /\ spawned'[i].block = chain[spawned'[i].height].value_id
      <4>1. CASE i \in 1..n
        BY <1>1, <2>2, <3>1, <3>6, <4>1 DEF SpawnInv, n
      <4>2. CASE i = n + 1
        BY <1>1, <2>1, <3>1, <3>3, <4>2
      <4> QED BY <3>2, <4>1, <4>2
    <3>8. ASSUME NEW i \in 1..Len(spawned'), NEW j \in 1..Len(spawned'), i < j
          PROVE  spawned'[i].height < spawned'[j].height
      <4>1. i \in 1..n
        BY <3>1, <3>2, <3>8
      <4>2. CASE j \in 1..n
        BY <1>1, <3>1, <3>8, <4>1, <4>2 DEF SpawnInv, n
      <4>3. CASE j = n + 1
        BY <3>1, <3>3, <3>6, <4>1, <4>3
      <4> QED BY <3>2, <4>2, <4>3
    <3>9. ASSUME NEW g \in Heights, g < h + 1, RunsRpc, chain[g].value_id # Empty
          PROVE  \E i \in 1..Len(spawned') : spawned'[i].height = g
      <4>1. CASE g < h
        <5>1. PICK i \in 1..n : spawned[i].height = g
          BY <1>1, <2>1, <3>9, <4>1 DEF SpawnInv, n
        <5> QED BY <3>1, <3>4, <5>1
      <4>2. CASE g = h
        BY <3>1, <3>3, <3>4, <4>2
      <4> QED BY <1>1, <2>2, <3>9, <4>1, <4>2
    <3> QED BY <2>1, <3>7, <3>8, <3>9 DEF SpawnInv
  <2> QED BY <2>3, <2>4
<1>5. CASE DecidesOn(h, r, block)
  <2>1. /\ UNCHANGED <<current_height, spawned>> /\ chain[h] = Absent
        /\ \A g \in Heights : g # h => chain'[g] = chain[g]
    BY <1>1, <1>5 DEF DecidesOn
  <2>2. \A g \in Heights : g < current_height => chain'[g] = chain[g]
    BY <1>1, <2>1 DEF ChainInv
  <2> QED BY <1>1, <1>2, <2>1, <2>2 DEF SpawnInv
<1> QED BY <1>3, <1>4, <1>5 DEF Does, ProposesOwn, StoresReceived, StreamsRemote

-------------------------------------------------------------------------------
(* The channel, after its first message is taken or one is sent.                *)
LEMMA TakenPlaces ==
  ASSUME SteadyInv, inbox # <<>>, inbox' = Tail(inbox)
  PROVE  /\ 1 \in 1..Len(inbox) /\ Head(inbox) = inbox[1]
         /\ \A i \in 1..Len(inbox') :
              i + 1 \in 1..Len(inbox) /\ i + 1 > 1 /\ inbox'[i] = inbox[i+1]
         /\ \A i \in 1..Len(inbox') : i \in Nat
<1>1. inbox \in Seq(Messages)
  BY DEF SteadyInv, Inv, ChannelInv
<1>2. /\ Len(inbox) \in Nat /\ Len(inbox) >= 1 /\ Len(inbox') = Len(inbox) - 1
      /\ Head(inbox) = inbox[1]
      /\ \A i \in 1..Len(inbox)-1 : inbox'[i] = inbox[i+1]
  BY <1>1, TailFacts
<1> QED BY <1>2

(* A message sent takes the last place and moves no other.                      *)
LEMMA SentPlaces ==
  ASSUME SteadyInv, NEW m \in Messages, Send(m)
  PROVE  /\ Len(inbox) \in Nat
         /\ \A i \in 1..Len(inbox') : \/ i \in 1..Len(inbox) /\ inbox'[i] = inbox[i]
                                      \/ i = Len(inbox) + 1 /\ inbox'[i] = m
<1>1. inbox \in Seq(Messages) /\ inbox' = Append(inbox, m)
  BY DEF SteadyInv, Inv, ChannelInv, Send
<1>2. /\ Len(inbox) \in Nat /\ Len(inbox') = Len(inbox) + 1
      /\ \A i \in 1..Len(inbox) : inbox'[i] = inbox[i]
      /\ inbox'[Len(inbox) + 1] = m
  BY <1>1, AppendFacts
<1> QED BY <1>2

(* Taking the first message keeps what is known of the others.                  *)
LEMMA QueueTaken ==
  ASSUME SteadyInv, inbox # <<>>, inbox' = Tail(inbox), streamed \subseteq streamed',
         engine'.phase = "propose" => engine' = engine
  PROVE  QueueInv'
<1>1. \A i \in 1..Len(inbox') :
        i + 1 \in 1..Len(inbox) /\ i + 1 # 1 /\ inbox'[i] = inbox[i+1]
  BY TakenPlaces
<1> QED BY <1>1 DEF SteadyInv, QueueInv

(* Sending a message that fits the state keeps what is known of the queue.      *)
LEMMA QueueSent ==
  ASSUME SteadyInv, NEW m \in Messages, Send(m), UNCHANGED <<current_height, streamed>>,
         m.type = "ReceivedProposal" =>
           ~Mine(m.height, m.round) /\ Prop(m.height, m.round, m.block) \in streamed,
         m.type = "GetValue" => Mine(m.height, m.round),
         m.type # "ConsensusReady",
         engine'.phase = "propose" => Mine(engine'.height, engine'.round)
  PROVE  QueueInv'
<1>1. \A i \in 1..Len(inbox') : (i \in 1..Len(inbox) /\ inbox'[i] = inbox[i]) \/ inbox'[i] = m
  BY SentPlaces
<1> QED BY <1>1 DEF SteadyInv, QueueInv

(* The queue is kept by every step but the two that answer a decision.          *)
LEMMA QueueStep ==
  ASSUME SteadyInv, [SteadyNext]_vars
  PROVE  QueueInv'
<1>1. CASE ConsensusReady \/ StartedRound \/ GetValue \/ ReceivedProposal \/ ProcessSyncedValue
           \/ Commit \/ CommitNothing
  <2>1. /\ inbox # <<>> /\ inbox' = Tail(inbox) /\ streamed \subseteq streamed'
        /\ engine' = engine \/ engine'.phase = "enter"
    BY <1>1 DEF ConsensusReady, StartedRound, GetValue, ReceivedProposal, ProcessSyncedValue,
                Commit, CommitNothing, app, network, Engine
  <2> QED BY <2>1, QueueTaken
<1>2. CASE EnterRound
  <2>1. PICK m : m = Msg("StartedRound", engine.height, engine.round, Absent)
    OBVIOUS
  <2>2. /\ Send(m) /\ UNCHANGED <<current_height, streamed>>
        /\ engine.phase = "enter" /\ engine.height <= MaxHeight
        /\ engine' = [engine EXCEPT !.phase =
                        IF Mine(engine.height, engine.round) THEN "propose" ELSE "round"]
    BY <1>2, <2>1 DEF EnterRound, app, network
  <2>3. /\ engine \in [phase : {"wait", "enter", "propose", "round"},
                       height : 1..MaxHeight+1, round : Rounds]
        /\ engine.height \in Heights
    BY <2>2, MaxHeightAssumption DEF SteadyInv, Inv, EngineInv, Heights
  <2>4. m \in Messages /\ m.type = "StartedRound"
    BY <2>1, <2>3 DEF Msg, Messages, Rows
  <2>5. engine'.phase = "propose" => Mine(engine'.height, engine'.round)
    BY <2>2, <2>3
  <2> QED BY <2>2, <2>4, <2>5, QueueSent
<1>3. CASE AskValue
  <2>1. PICK m : m = Msg("GetValue", engine.height, engine.round, Absent)
    OBVIOUS
  <2>2. /\ Send(m) /\ UNCHANGED <<current_height, streamed>>
        /\ engine.phase = "propose" /\ engine' = [engine EXCEPT !.phase = "round"]
    BY <1>3, <2>1 DEF AskValue, app, network
  <2>3. /\ engine \in [phase : {"wait", "enter", "propose", "round"},
                       height : 1..MaxHeight+1, round : Rounds]
        /\ engine.height \in Heights /\ Mine(engine.height, engine.round)
    BY <2>2 DEF SteadyInv, Inv, EngineInv, QueueInv
  <2>4. m \in Messages /\ m.type = "GetValue" /\ Mine(m.height, m.round)
    BY <2>1, <2>3 DEF Msg, Messages, Rows
  <2>5. engine'.phase = "round"
    BY <2>2, <2>3
  <2> QED BY <2>2, <2>4, <2>5, QueueSent
<1>4. CASE ReceiveSyncedValue \/ Decide
  <2>1. PICK type \in {"ProcessSyncedValue", "Decided"} :
          /\ Send(Msg(type, engine.height, chain[engine.height].round,
                      chain[engine.height].value_id))
          /\ engine.phase = "round" /\ chain[engine.height] # Absent
          /\ UNCHANGED <<current_height, streamed>>
          /\ engine' = engine \/ engine' = [engine EXCEPT !.phase = "wait"]
    BY <1>4 DEF ReceiveSyncedValue, Decide, app, network
  <2>2. PICK m : m = Msg(type, engine.height, chain[engine.height].round,
                         chain[engine.height].value_id)
    OBVIOUS
  <2>3. /\ engine \in [phase : {"wait", "enter", "propose", "round"},
                       height : 1..MaxHeight+1, round : Rounds]
        /\ engine.height \in Heights
    BY <2>1 DEF SteadyInv, Inv, EngineInv
  <2>4. chain[engine.height].round \in Rounds /\ chain[engine.height].value_id \in Blocks
    BY <2>1, <2>3, SteadyTypes
  <2>5. m \in Messages /\ m.type = type
    BY <2>2, <2>3, <2>4 DEF Msg, Messages, Rows
  <2>6. engine'.phase # "propose"
    BY <2>1, <2>3
  <2> QED BY <2>1, <2>2, <2>5, <2>6, QueueSent
<1>5. CASE \E v \in streamed : ProposalArrives(v)
  <2>1. PICK v \in streamed : ProposalArrives(v)
    BY <1>5
  <2>2. PICK m : m = Msg("ReceivedProposal", v.height, v.round, v.block)
    OBVIOUS
  <2>3. /\ Send(m) /\ ~Mine(v.height, v.round) /\ UNCHANGED <<engine, current_height, streamed>>
    BY <2>1, <2>2 DEF ProposalArrives, app, network
  <2>4. /\ v.height \in Heights /\ v.round \in Rounds /\ v.block \in Blocks
        /\ v = Prop(v.height, v.round, v.block)
    BY SteadyTypes
  <2>5. /\ m \in Messages /\ m.type = "ReceivedProposal"
        /\ m.height = v.height /\ m.round = v.round /\ m.block = v.block
    BY <2>2, <2>4 DEF Msg, Messages, Rows
  <2>6. engine.phase = "propose" => Mine(engine.height, engine.round)
    BY DEF SteadyInv, QueueInv
  <2> QED BY <2>3, <2>4, <2>5, <2>6, QueueSent
<1>6. CASE RoundTimeout
  BY <1>6 DEF RoundTimeout, Engine, app, network, SteadyInv, QueueInv
<1>7. CASE \E h \in Heights, r \in Rounds : RemotePropose(h, r)
  <2>1. PICK h \in Heights, r \in Rounds : RemotePropose(h, r)
    BY <1>7
  <2>2. /\ UNCHANGED <<inbox, engine, current_height>> /\ streamed \subseteq streamed'
        /\ \A v \in streamed' : OwnProposal(v) => v \in streamed
    BY <2>1 DEF RemotePropose, app, OwnProposal, Prop
  <2> QED BY <2>2 DEF SteadyInv, QueueInv
<1>8. CASE (\E v \in streamed : NetworkDecides(v)) \/ UNCHANGED vars
  BY <1>8 DEF NetworkDecides, app, vars, SteadyInv, QueueInv
<1> QED BY <1>1, <1>2, <1>3, <1>4, <1>5, <1>6, <1>7, <1>8
        DEF SteadyNext, Handle, EngineStep, NetworkStep

(* The rounds in which this node is asked for a value.  A message that is taken *)
(* leaves their order; one that is sent keeps it unless it is a GetValue.       *)
LEMMA RoundTaken ==
  ASSUME SteadyInv, inbox # <<>>, inbox' = Tail(inbox),
         UNCHANGED <<current_height, chain, engine, streamed>>
  PROVE  RoundInv'
<1>1. /\ \A i \in 1..Len(inbox') : i + 1 \in 1..Len(inbox) /\ inbox'[i] = inbox[i+1]
      /\ \A i, j \in 1..Len(inbox') : i < j => i + 1 < j + 1
  BY TakenPlaces
<1>2. \A r : Reached(r)' <=> Reached(r)
  BY DEF Reached
<1>3. \A v : OwnNow(v)' <=> OwnNow(v)
  BY DEF OwnNow, OwnProposal
<1> QED BY <1>1, <1>2, <1>3 DEF SteadyInv, RoundInv, Undecided

(* A message that asks for no value keeps what is known of the rounds asked     *)
(* for.                                                                         *)
LEMMA RoundSent ==
  ASSUME SteadyInv, NEW m \in Messages, Send(m), m.type # "GetValue",
         UNCHANGED <<current_height, chain, streamed>>,
         \A r \in Nat : Reached(r) => Reached(r)'
  PROVE  RoundInv'
<1>1. \A i \in 1..Len(inbox') :
        (i \in 1..Len(inbox) /\ inbox'[i] = inbox[i]) \/ inbox'[i] = m
  BY SentPlaces
<1>2. \A v : OwnNow(v)' <=> OwnNow(v)
  BY DEF OwnNow, OwnProposal
<1>3. \A i \in 1..Len(inbox) : inbox[i].round \in Nat
  <2>1. \A i \in 1..Len(inbox) : inbox[i] \in Messages
    BY ElementOfSeq DEF SteadyInv, Inv, ChannelInv
  <2> QED BY <2>1, SteadyTypes DEF Messages
<1>4. \A v \in streamed : v.round \in Nat
  BY SteadyTypes
<1> QED BY <1>1, <1>2, <1>3, <1>4 DEF SteadyInv, RoundInv, Undecided

(* No step asks for a value twice in a round, nor in a round that has passed.   *)
LEMMA RoundStep ==
  ASSUME SteadyInv, [SteadyNext]_vars
  PROVE  RoundInv'
<1>1. /\ engine \in [phase : {"wait", "enter", "propose", "round"},
                     height : 1..MaxHeight+1, round : Rounds]
      /\ engine.height = current_height
      /\ engine.phase \in {"propose", "round"} => engine.height \in Heights
      /\ engine.round \in Nat
      /\ \A v \in streamed : v.height \in Nat /\ v.round \in Nat
  BY SteadyTypes DEF SteadyInv, Inv, EngineInv
<1>2. \A i \in 1..Len(inbox) : inbox[i] \in Messages /\ inbox[i].round \in Nat
  <2>1. \A i \in 1..Len(inbox) : inbox[i] \in Messages
    BY ElementOfSeq DEF SteadyInv, Inv, ChannelInv
  <2> QED BY <2>1, SteadyTypes DEF Messages
<1>3. CASE StartedRound \/ ReceivedProposal \/ ProcessSyncedValue
  <2>1. CASE StartedRound
    <3>1. current_height' = current_height
      BY <2>1, HeadFacts DEF SteadyInv, StartedRound, Rounded
    <3> QED BY <2>1, <3>1, RoundTaken DEF StartedRound, network
  <2>2. CASE ReceivedProposal \/ ProcessSyncedValue
    BY <2>2, RoundTaken DEF ReceivedProposal, ProcessSyncedValue, app, network
  <2> QED BY <1>3, <2>1, <2>2
<1>4. CASE ConsensusReady
  <2>1. /\ inbox # <<>> /\ inbox' = Tail(inbox) /\ Head(inbox).type = "ConsensusReady"
        /\ UNCHANGED <<current_height, streamed>>
    BY <1>4 DEF ConsensusReady, app, network
  <2>2. /\ 1 \in 1..Len(inbox) /\ inbox[1].type = "ConsensusReady"
        /\ \A i \in 1..Len(inbox') :
             i + 1 \in 1..Len(inbox) /\ i + 1 > 1 /\ inbox'[i] = inbox[i+1]
    BY <2>1, TakenPlaces
  <2>3. \A i \in 1..Len(inbox') : inbox'[i].type # "GetValue"
    BY <2>2 DEF SteadyInv, Inv, ChannelInv, Waits, Ready, Rounded
  <2>4. \A v \in streamed' : ~OwnNow(v)'
    <3>1. \A v \in streamed : OwnProposal(v) => v.height < current_height
      BY <2>2 DEF SteadyInv, QueueInv
    <3>2. \A v \in streamed : OwnProposal(v) => v.height # current_height
      BY <1>1, <3>1
    <3> QED BY <2>1, <3>2 DEF OwnNow, OwnProposal
  <2> QED BY <2>3, <2>4 DEF RoundInv
<1>5. CASE GetValue
  <2>1. PICK block : ProposesOwn(Head(inbox).height, Head(inbox).round, block)
    BY <1>5, GetValueEffect
  <2>2. PICK r : r = Head(inbox).round
    OBVIOUS
  <2>3. PICK new : new = Prop(Head(inbox).height, Head(inbox).round, block)
    OBVIOUS
  <2>4. /\ inbox # <<>> /\ inbox' = Tail(inbox) /\ Head(inbox).type = "GetValue"
        /\ engine' = engine /\ current_height' = current_height /\ chain' = chain
        /\ streamed' = streamed \cup {new} /\ new.round = r
    BY <1>5, <2>1, <2>2, <2>3 DEF GetValue, ProposesOwn, Prop
  <2>5. /\ 1 \in 1..Len(inbox) /\ inbox[1].type = "GetValue" /\ inbox[1].round = r
        /\ \A i \in 1..Len(inbox') :
             i + 1 \in 1..Len(inbox) /\ 1 < i + 1 /\ inbox'[i] = inbox[i+1]
        /\ \A i, j \in 1..Len(inbox') : i < j => i + 1 < j + 1
    <3>1. /\ 1 \in 1..Len(inbox) /\ Head(inbox) = inbox[1]
          /\ \A i \in 1..Len(inbox') :
               i + 1 \in 1..Len(inbox) /\ i + 1 > 1 /\ inbox'[i] = inbox[i+1]
          /\ \A i \in 1..Len(inbox') : i \in Nat
      BY <2>4, TakenPlaces
    <3> QED BY <2>2, <2>4, <3>1
  <2>6. /\ \A q : Reached(q)' <=> Reached(q)
        /\ \A v : OwnNow(v)' <=> OwnNow(v)
    BY <2>4 DEF Reached, OwnNow, OwnProposal
  <2>7. SUFFICES ASSUME Undecided
                 PROVE  /\ \A i \in 1..Len(inbox') : inbox'[i].type = "GetValue" =>
                             /\ Reached(inbox'[i].round)
                             /\ \A v \in streamed' : OwnNow(v) => v.round < inbox'[i].round
                             /\ \A j \in 1..Len(inbox') :
                                  inbox'[j].type = "GetValue" /\ i < j
                                    => inbox'[i].round < inbox'[j].round
                        /\ \A v \in streamed' : OwnNow(v) => Reached(v.round)
    BY <2>4, <2>6 DEF RoundInv, Undecided
  <2>8. /\ \A i \in 1..Len(inbox) : inbox[i].type = "GetValue" =>
             /\ Reached(inbox[i].round)
             /\ \A v \in streamed : OwnNow(v) => v.round < inbox[i].round
             /\ \A j \in 1..Len(inbox) :
                  inbox[j].type = "GetValue" /\ i < j => inbox[i].round < inbox[j].round
        /\ \A v \in streamed : OwnNow(v) => Reached(v.round)
    BY <2>7 DEF SteadyInv, RoundInv
  <2>9. \A v \in streamed' : OwnNow(v) => Reached(v.round)
    BY <2>4, <2>5, <2>8
  <2>10. ASSUME NEW i \in 1..Len(inbox'), inbox'[i].type = "GetValue"
         PROVE  /\ Reached(inbox'[i].round)
                /\ \A v \in streamed' : OwnNow(v) => v.round < inbox'[i].round
                /\ \A j \in 1..Len(inbox') :
                     inbox'[j].type = "GetValue" /\ i < j => inbox'[i].round < inbox'[j].round
    <3>1. /\ i + 1 \in 1..Len(inbox) /\ 1 < i + 1 /\ inbox[i+1].type = "GetValue"
          /\ inbox'[i] = inbox[i+1]
      BY <2>5, <2>10
    <3>2. Reached(inbox'[i].round) /\ r < inbox'[i].round
      BY <2>5, <2>8, <3>1
    <3>3. \A v \in streamed' : OwnNow(v) => v.round < inbox'[i].round
      BY <2>4, <2>8, <3>1, <3>2
    <3>4. \A j \in 1..Len(inbox') :
            inbox'[j].type = "GetValue" /\ i < j => inbox'[i].round < inbox'[j].round
      BY <2>5, <2>8, <3>1
    <3> QED BY <3>2, <3>3, <3>4
  <2> QED BY <2>9, <2>10
<1>6. CASE Commit
  <2>1. /\ inbox # <<>> /\ inbox' = Tail(inbox) /\ Head(inbox).type = "Decided"
        /\ current_height' = current_height + 1 /\ streamed' = streamed
    BY <1>6 DEF Commit, network
  <2>2. /\ 1 \in 1..Len(inbox) /\ inbox[1].type = "Decided"
        /\ \A i \in 1..Len(inbox') :
             i + 1 \in 1..Len(inbox) /\ i + 1 > 1 /\ inbox'[i] = inbox[i+1]
    BY <2>1, TakenPlaces
  <2>3. \A i \in 1..Len(inbox') : inbox'[i].type # "GetValue"
    BY <2>2 DEF SteadyInv, Inv, ChannelInv, Waits, Ready, Rounded
  <2>4. ASSUME NEW v \in streamed, OwnProposal(v)
        PROVE  v.height # current_height + 1
    <3>1. v.height <= current_height /\ v.height \in Nat /\ current_height \in Nat
      BY <2>4, <1>1, SteadyTypes DEF SteadyInv, StreamInv
    <3> QED BY <3>1
  <2>5. \A v \in streamed' : ~OwnNow(v)'
    BY <2>1, <2>4 DEF OwnNow, OwnProposal
  <2> QED BY <2>3, <2>5 DEF RoundInv
<1>7. CASE CommitNothing
  <2>1. /\ inbox # <<>> /\ Head(inbox).type = "Decided" /\ UNCHANGED <<current_height, chain>>
    BY <1>7 DEF CommitNothing, app, network
  <2>2. PICK m : m = Head(inbox)
    OBVIOUS
  <2>3. chain[current_height] = [round |-> m.round, value_id |-> m.block] /\ m.round \in Rounds
        /\ m.block \in Blocks
    BY <2>1, <2>2, HeadFacts DEF SteadyInv, Rounded, WithBlock
  <2>4. chain[current_height] # Absent
    BY <2>3, AbsentAssumption DEF Decisions
  <2> QED BY <2>1, <2>4 DEF RoundInv, Undecided
<1>8. CASE EnterRound
  <2>1. PICK m : m = Msg("StartedRound", engine.height, engine.round, Absent)
    OBVIOUS
  <2>2. /\ Send(m) /\ UNCHANGED <<current_height, streamed, chain>>
        /\ engine.phase = "enter" /\ engine.height <= MaxHeight
        /\ engine' = [engine EXCEPT !.phase =
                        IF Mine(engine.height, engine.round) THEN "propose" ELSE "round"]
    BY <1>8, <2>1 DEF EnterRound, app, network
  <2>3. m \in Messages /\ m.type # "GetValue"
    BY <1>1, <2>1, <2>2, MaxHeightAssumption DEF Msg, Messages, Rows, Heights
  <2>4. engine'.round = engine.round /\ engine'.phase \in {"propose", "round"}
    BY <1>1, <2>2
  <2>5. \A r \in Nat : Reached(r) => Reached(r)'
    BY <1>1, <2>2, <2>4 DEF Reached
  <2> QED BY <2>2, <2>3, <2>5, RoundSent
<1>9. CASE AskValue
  <2>1. PICK m : m = Msg("GetValue", engine.height, engine.round, Absent)
    OBVIOUS
  <2>2. /\ Send(m) /\ UNCHANGED <<current_height, streamed, chain>>
        /\ engine.phase = "propose" /\ engine' = [engine EXCEPT !.phase = "round"]
    BY <1>9, <2>1 DEF AskValue, app, network
  <2>3. m \in Messages /\ m.type = "GetValue" /\ m.round = engine.round
    BY <1>1, <2>1, <2>2 DEF Msg, Messages, Rows
  <2>4. engine'.round = engine.round /\ engine'.phase = "round"
    BY <1>1, <2>2
  <2>5. /\ \A r : Reached(r) <=> r < engine.round
        /\ \A r : Reached(r)' <=> r <= engine.round
        /\ \A v : OwnNow(v)' <=> OwnNow(v)
    BY <2>2, <2>4 DEF Reached, OwnNow, OwnProposal
  <2>6. /\ Len(inbox) \in Nat
        /\ \A i \in 1..Len(inbox') : \/ i \in 1..Len(inbox) /\ inbox'[i] = inbox[i]
                                     \/ i = Len(inbox) + 1 /\ inbox'[i] = m
    BY <2>2, <2>3, SentPlaces
  <2>7. SUFFICES ASSUME Undecided
                 PROVE  /\ \A i \in 1..Len(inbox') : inbox'[i].type = "GetValue" =>
                             /\ inbox'[i].round <= engine.round
                             /\ \A v \in streamed : OwnNow(v) => v.round < inbox'[i].round
                             /\ \A j \in 1..Len(inbox') :
                                  inbox'[j].type = "GetValue" /\ i < j
                                    => inbox'[i].round < inbox'[j].round
                        /\ \A v \in streamed : OwnNow(v) => v.round <= engine.round
    BY <2>2, <2>5 DEF RoundInv, Undecided
  <2>8. /\ \A i \in 1..Len(inbox) : inbox[i].type = "GetValue" =>
             /\ inbox[i].round < engine.round
             /\ \A v \in streamed : OwnNow(v) => v.round < inbox[i].round
             /\ \A j \in 1..Len(inbox) :
                  inbox[j].type = "GetValue" /\ i < j => inbox[i].round < inbox[j].round
        /\ \A v \in streamed : OwnNow(v) => v.round < engine.round
    BY <2>5, <2>7 DEF SteadyInv, RoundInv
  <2>9. \A v \in streamed : OwnNow(v) => v.round <= engine.round
    BY <1>1, <2>8
  <2>10. ASSUME NEW i \in 1..Len(inbox'), inbox'[i].type = "GetValue"
         PROVE  /\ inbox'[i].round <= engine.round
                /\ \A v \in streamed : OwnNow(v) => v.round < inbox'[i].round
                /\ \A j \in 1..Len(inbox') :
                     inbox'[j].type = "GetValue" /\ i < j => inbox'[i].round < inbox'[j].round
    <3>1. CASE i \in 1..Len(inbox) /\ inbox'[i] = inbox[i]
      <4>1. inbox[i].round < engine.round /\ inbox[i].round \in Nat
        BY <1>2, <2>8, <2>10, <3>1
      <4>2. \A j \in 1..Len(inbox') :
              inbox'[j].type = "GetValue" /\ i < j => inbox'[i].round < inbox'[j].round
        BY <2>3, <2>6, <2>8, <2>10, <3>1, <4>1
      <4> QED BY <1>1, <2>8, <2>10, <3>1, <4>1, <4>2
    <3>2. CASE i = Len(inbox) + 1 /\ inbox'[i] = m
      <4>1. \A j \in 1..Len(inbox') : ~(i < j)
        BY <2>6, <3>2
      <4> QED BY <1>1, <2>3, <2>8, <3>2, <4>1
    <3> QED BY <2>6, <3>1, <3>2
  <2> QED BY <2>9, <2>10
<1>10. CASE RoundTimeout
  <2>1. /\ engine.phase = "round" /\ engine'.phase = "enter" /\ engine'.round = engine.round + 1
        /\ UNCHANGED <<inbox, current_height, streamed, chain>>
    BY <1>10 DEF RoundTimeout, Engine, app, network
  <2>2. \A r \in Nat : Reached(r) => Reached(r)'
    BY <1>1, <2>1 DEF Reached
  <2>3. \A v : OwnNow(v)' <=> OwnNow(v)
    BY <2>1 DEF OwnNow, OwnProposal
  <2> QED BY <1>1, <1>2, <2>1, <2>2, <2>3 DEF SteadyInv, RoundInv, Undecided
<1>11. CASE ReceiveSyncedValue
  <2>1. PICK m : m = Msg("ProcessSyncedValue", engine.height, chain[engine.height].round,
                         chain[engine.height].value_id)
    OBVIOUS
  <2>2. /\ Send(m) /\ UNCHANGED <<engine, current_height, streamed, chain>>
        /\ engine.phase = "round" /\ chain[engine.height] # Absent
    BY <1>11, <2>1 DEF ReceiveSyncedValue, app, network
  <2>3. chain[engine.height].round \in Rounds /\ chain[engine.height].value_id \in Blocks
    BY <1>1, <2>2, SteadyTypes
  <2>4. m \in Messages /\ m.type # "GetValue"
    BY <1>1, <2>1, <2>2, <2>3 DEF Msg, Messages, Rows
  <2>5. \A r : Reached(r) => Reached(r)'
    BY <2>2 DEF Reached
  <2> QED BY <2>2, <2>4, <2>5, RoundSent
<1>12. CASE Decide
  <2>1. UNCHANGED <<current_height, chain>> /\ chain[engine.height] # Absent
    BY <1>12 DEF Decide, app, network
  <2> QED BY <1>1, <2>1 DEF RoundInv, Undecided
<1>13. CASE \E v \in streamed : ProposalArrives(v)
  <2>1. PICK v \in streamed : ProposalArrives(v)
    BY <1>13
  <2>2. PICK m : m = Msg("ReceivedProposal", v.height, v.round, v.block)
    OBVIOUS
  <2>3. Send(m) /\ UNCHANGED <<engine, current_height, streamed, chain>>
    BY <2>1, <2>2 DEF ProposalArrives, app, network
  <2>4. v.height \in Heights /\ v.round \in Rounds /\ v.block \in Blocks
    BY SteadyTypes
  <2>5. m \in Messages /\ m.type # "GetValue"
    BY <2>2, <2>4 DEF Msg, Messages, Rows
  <2>6. \A r : Reached(r) => Reached(r)'
    BY <2>3 DEF Reached
  <2> QED BY <2>3, <2>5, <2>6, RoundSent
<1>14. CASE \E h \in Heights, r \in Rounds : RemotePropose(h, r)
  <2>1. PICK h \in Heights, r \in Rounds : RemotePropose(h, r)
    BY <1>14
  <2>2. /\ UNCHANGED <<inbox, engine, current_height, chain>>
        /\ \A v \in streamed' : OwnProposal(v) => v \in streamed
    BY <2>1 DEF RemotePropose, app, OwnProposal, Prop
  <2>3. /\ \A q : Reached(q)' <=> Reached(q)
        /\ \A v : OwnNow(v)' <=> OwnNow(v)
        /\ \A v \in streamed' : OwnNow(v) => v \in streamed
    BY <2>2 DEF Reached, OwnNow, OwnProposal
  <2> QED BY <2>2, <2>3 DEF SteadyInv, RoundInv, Undecided
<1>15. CASE (\E v \in streamed : NetworkDecides(v)) \/ UNCHANGED vars
  <2>1. UNCHANGED <<inbox, engine, current_height, streamed>> /\ (Undecided' => Undecided)
    <3>1. CASE UNCHANGED vars
      BY <3>1 DEF vars, Undecided
    <3>2. CASE \E v \in streamed : NetworkDecides(v)
      <4>1. PICK v \in streamed : NetworkDecides(v)
        BY <3>2
      <4>2. /\ v.height \in Heights /\ v.round \in Rounds /\ v.block \in Blocks
            /\ chain \in [Heights -> Decisions \cup {Absent}]
        BY SteadyTypes
      <4>3. [round |-> v.round, value_id |-> v.block] # Absent
        BY <4>2, AbsentAssumption DEF Decisions
      <4>4. \A g \in Heights : chain'[g] = Absent => chain[g] = Absent
        BY <4>1, <4>2, <4>3 DEF NetworkDecides
      <4> QED BY <4>1, <4>4 DEF NetworkDecides, app, Undecided
    <3> QED BY <1>15, <3>1, <3>2
  <2>2. /\ \A q : Reached(q)' <=> Reached(q)
        /\ \A v : OwnNow(v)' <=> OwnNow(v)
    BY <2>1 DEF Reached, OwnNow, OwnProposal
  <2> QED BY <2>1, <2>2 DEF SteadyInv, RoundInv
<1> QED BY <1>3, <1>4, <1>5, <1>6, <1>7, <1>8, <1>9, <1>10, <1>11, <1>12, <1>13, <1>14, <1>15
        DEF SteadyNext, Handle, EngineStep, NetworkStep

-------------------------------------------------------------------------------

(* A node that starts on an empty store satisfies the invariant.                *)
LEMMA SteadyInit ==
  ASSUME Init
  PROVE  SteadyInv
<1>1. /\ inbox = <<Msg("ConsensusReady", 1, 0, Absent)>>
      /\ current_height = 1 /\ db = EmptyDb /\ spawned = <<>>
      /\ engine = Engine("wait", 1, 0) /\ streamed = {}
      /\ chain = [h \in Heights |-> Absent]
  BY DEF Init, Started
<1>2. Inv
  BY InitInv
<1>3. /\ \A i \in 1..Len(inbox) : i = 1 /\ inbox[i].type = "ConsensusReady"
      /\ engine.phase = "wait"
  BY <1>1 DEF Msg, Engine
<1>4. QueueInv /\ RoundInv /\ StreamInv
  BY <1>1, <1>3 DEF QueueInv, RoundInv, StreamInv
<1>5. ProposalInv
  <2>1. /\ \A h \in Heights, r \in Rounds : db.undecided_proposals[<<h, r>>] = Absent
        /\ db.undecided_block_data = db.undecided_proposals
    BY <1>1 DEF EmptyDb, UndecidedKeys
  <2> QED BY <1>1, <2>1 DEF ProposalInv
<1>6. \A h \in Heights : ~(h < current_height)
  BY <1>1, MaxHeightAssumption DEF Heights
<1>7. ChainInv /\ TableInv
  <2>1. \A h \in Heights : /\ db.decided_values[h] = Absent /\ db.certificates[h] = Absent
                           /\ db.decided_block_data[h] = Absent
    BY <1>1 DEF EmptyDb
  <2> QED BY <1>1, <1>6, <2>1 DEF ChainInv, TableInv, Kept
<1>8. SpawnInv
  BY <1>1, <1>6 DEF SpawnInv
<1> QED BY <1>2, <1>4, <1>5, <1>7, <1>8 DEF SteadyInv

(* Every step without a crash keeps it.                                         *)
LEMMA SteadyStep ==
  ASSUME SteadyInv, [SteadyNext]_vars
  PROVE  SteadyInv'
<1>1. Inv'
  BY NextInv DEF FaultyNext, SteadyInv
<1>2. QueueInv' /\ RoundInv'
  BY QueueStep, RoundStep
<1>5. StreamInv' /\ ProposalInv' /\ ChainInv' /\ TableInv' /\ SpawnInv'
  <2>1. CASE Quiet
    BY <2>1 DEF Quiet, SteadyInv, StreamInv, ProposalInv, ChainInv, TableInv, Kept, SpawnInv
  <2>2. CASE \E h \in Heights, r \in Rounds, block \in Blocks : Does(h, r, block)
    BY <2>2, StreamStep, ProposalStep, ChainStep, TableStep, SpawnStep
  <2> QED BY <2>1, <2>2, StepEffect
<1> QED BY <1>1, <1>2, <1>5 DEF SteadyInv

(* The invariant holds as long as no node crashes.                              *)
LEMMA SteadyInvariance == Spec => []SteadyInv
<1>1. Init => SteadyInv
  BY SteadyInit
<1>2. SteadyInv /\ [SteadyNext]_vars => SteadyInv'
  BY SteadyStep
<1> QED BY <1>1, <1>2, PTL DEF Spec

(* A decision that is kept is whole.                                            *)
LEMMA KeptDecided ==
  ASSUME SteadyInv, NEW h \in Heights
  PROVE  /\ Kept(h) => db.decided_values[h] # Absent /\ db.certificates[h] # Absent
         /\ Decided(db, h) <=> Kept(h)
         /\ db.decided_values[h] # Absent <=> Kept(h)
<1>1. ASSUME Kept(h)
      PROVE  db.decided_values[h] # Absent /\ db.certificates[h] # Absent
  <2>1. chain[h] # Absent
    BY <1>1 DEF Kept, SteadyInv, ChainInv
  <2>2. chain[h].round \in Rounds /\ chain[h].value_id \in Blocks
    BY <2>1, SteadyTypes
  <2>3. Certificate(h, chain[h].round, chain[h].value_id) \in Certificates
    BY <2>2 DEF Certificate, Certificates
  <2> QED BY <1>1, <2>2, <2>3, AbsentAssumption DEF SteadyInv, TableInv
<1>2. ~Kept(h) => db.decided_values[h] = Absent
  BY DEF SteadyInv, TableInv
<1> QED BY <1>1, <1>2 DEF Decided

-------------------------------------------------------------------------------
(* What commit stores for a height is the value the network decided, with its   *)
(* certificate (StoresDecision).                                                *)
THEOREM StoresTheDecision == Spec => []StoresDecision
<1>1. SteadyInv => StoresDecision
  BY KeptDecided DEF SteadyInv, TableInv, StoresDecision
<1> QED BY <1>1, SteadyInvariance, PTL

(* The block data kept for a decided height is that of the value decided there  *)
(* (StoresDecidedData).                                                         *)
THEOREM StoresItsData == Spec => []StoresDecidedData
<1>1. SteadyInv => StoresDecidedData
  BY DEF SteadyInv, TableInv, StoresDecidedData
<1> QED BY <1>1, SteadyInvariance, PTL

(* From the earliest height the node advertises to the last one committed, it   *)
(* has every decided value (ServableHistory).                                   *)
THEOREM ServesItsHistory == Spec => []ServableHistory
<1>1. ASSUME SteadyInv
      PROVE  ServableHistory
  <2>1. SUFFICES ASSUME NEW h \in Heights, DecidedHeights(db) # {},
                        h \in MinDecidedValueHeight(db)..current_height-1
                 PROVE  Decided(db, h)
    BY DEF ServableHistory
  <2>2. PICK least : least = MinDecidedValueHeight(db)
    OBVIOUS
  <2>3. least \in DecidedHeights(db)
    <3>1. DecidedHeights(db) \in SUBSET Nat
      BY <1>1, SteadyTypes DEF DecidedHeights
    <3>2. least = Min(DecidedHeights(db))
      BY <2>1, <2>2 DEF MinDecidedValueHeight
    <3> QED BY <2>1, <3>1, <3>2, MinOfNaturals
  <2>4. least \in Heights /\ db.decided_values[least] # Absent
    BY <2>3 DEF DecidedHeights
  <2>5. Kept(least)
    BY <1>1, <2>4, KeptDecided
  <2>6. /\ h \in Nat /\ least \in Nat /\ current_height \in Nat /\ current_height >= 1
    BY <1>1, <2>4, SteadyTypes
  <2>7. RetainHeight(current_height - 1) \in Nat
    BY <2>6, BoundsAssumption DEF RetainHeight
  <2>8. Kept(h)
    BY <2>1, <2>2, <2>5, <2>6, <2>7 DEF Kept
  <2> QED BY <1>1, <2>8, KeptDecided
<1> QED BY <1>1, SteadyInvariance, PTL

(* Nothing is left of a height more than MaxHistory below the last committed    *)
(* one (HistoryBounded).                                                        *)
THEOREM BoundsItsHistory == Spec => []HistoryBounded
<1>1. ASSUME SteadyInv
      PROVE  HistoryBounded
  <2>1. SUFFICES ASSUME NEW h \in Heights, h + MaxHistory + 1 < current_height
                 PROVE  /\ h < current_height /\ ~Kept(h)
    BY <1>1 DEF HistoryBounded, SteadyInv, TableInv, ProposalInv
  <2>2. h \in Nat /\ MaxHistory \in Nat /\ current_height \in Nat
    BY <1>1, SteadyTypes, BoundsAssumption
  <2>3. h < RetainHeight(current_height - 1)
    BY <2>1, <2>2 DEF RetainHeight
  <2> QED BY <2>1, <2>2, <2>3 DEF Kept
<1> QED BY <1>1, SteadyInvariance, PTL

(* Every non-empty block decided is handed to execution, once, in the order of  *)
(* the heights (ExecutesDecisions).                                             *)
THEOREM ExecutesTheDecisions == Spec => []ExecutesDecisions
<1>1. ASSUME SteadyInv
      PROVE  ExecutesDecisions
  <2>1. DOMAIN spawned = 1..Len(spawned)
    BY <1>1, LenProperties DEF SteadyInv, Inv, AppInv
  <2>2. \A h \in 1..current_height-1 : h \in Heights /\ h < current_height
    BY <1>1, SteadyTypes, MaxHeightAssumption DEF Heights
  <2> QED BY <1>1, <2>1, <2>2 DEF SteadyInv, SpawnInv, ExecutesDecisions
<1> QED BY <1>1, SteadyInvariance, PTL

-------------------------------------------------------------------------------
(* What the database holds, as Ledger sees it.                                  *)
EntriesAreKept == Entries = [h \in Heights |-> IF Kept(h) THEN chain[h] ELSE Absent]

(* The database holds the decisions it keeps and no other.                      *)
LEMMA EntriesKept == SteadyInv => EntriesAreKept
<1>. SUFFICES ASSUME SteadyInv PROVE EntriesAreKept
  OBVIOUS
<1>1. ASSUME NEW h \in Heights, Kept(h)
      PROVE  /\ Decided(db, h)
             /\ [round |-> db.certificates[h].round, value_id |-> db.decided_values[h]] = chain[h]
  <2>1. chain[h] # Absent
    BY <1>1 DEF Kept, SteadyInv, ChainInv
  <2>2. chain[h] = [round |-> chain[h].round, value_id |-> chain[h].value_id]
    BY <2>1, SteadyTypes
  <2>3. /\ db.certificates[h].round = chain[h].round
        /\ db.decided_values[h] = chain[h].value_id
    <3>1. /\ db.certificates[h] = Certificate(h, chain[h].round, chain[h].value_id)
          /\ db.decided_values[h] = chain[h].value_id
      BY <1>1 DEF SteadyInv, TableInv
    <3> QED BY <3>1 DEF Certificate
  <2> QED BY <1>1, <2>2, <2>3, KeptDecided
<1>2. \A h \in Heights : ~Kept(h) => ~Decided(db, h)
  BY KeptDecided
<1> QED BY <1>1, <1>2 DEF Entries, EntriesAreKept

(* The same of the next state.                                                  *)
LEMMA EntriesKeptNext == SteadyInv' => EntriesAreKept'
  BY EntriesKept, PTL

(* One step of the node's data is one step of Ledger.                           *)
LEMMA LedgerStep ==
  ASSUME SteadyInv, SteadyInv', NEW h \in Heights, NEW r \in Rounds, NEW block \in Blocks,
         Does(h, r, block)
  PROVE  NodeLedger!Next \/ UNCHANGED <<chain, current_height, Entries>>
<1>1. /\ current_height \in Nat /\ current_height >= 1 /\ Heights \subseteq Nat
      /\ chain \in [Heights -> Decisions \cup {Absent}]
  BY SteadyTypes
<1>2. NodeLedger!Heights = Heights
  BY DEF NodeLedger!Heights, Heights
<1>3. CASE ProposesOwn(h, r, block) \/ StoresReceived(h, r, block) \/ StreamsRemote(h, r, block)
  <2>1. /\ UNCHANGED <<chain, current_height>>
        /\ db'.decided_values = db.decided_values /\ db'.certificates = db.certificates
    BY <1>3 DEF ProposesOwn, StoresReceived, StreamsRemote, StoredTo
  <2> QED BY <2>1 DEF Entries, Decided
<1>4. CASE Commits(h, r, block)
  <2>1. /\ h = current_height /\ current_height' = h + 1 /\ chain' = chain /\ chain[h] # Absent
    BY <1>4 DEF Commits
  <2>2. /\ RetainHeight(h - 1) \in Nat /\ RetainHeight(h) \in Nat
        /\ RetainHeight(h - 1) <= RetainHeight(h) /\ RetainHeight(h) <= h
        /\ (h + 1) - 1 = h
    BY <1>1, <2>1, RetainAdvances
  <2>3. ASSUME NEW g \in Heights
        PROVE  Entries'[g] = IF g = h THEN chain[h]
                             ELSE IF g + MaxHistory < h THEN Absent
                             ELSE Entries[g]
    <3>1. /\ Entries'[g] = IF Kept(g)' THEN chain[g] ELSE Absent
          /\ Entries[g] = IF Kept(g) THEN chain[g] ELSE Absent
      BY <2>1, <2>3, EntriesKept, EntriesKeptNext DEF EntriesAreKept
    <3>2. /\ Kept(g)' <=> g < h + 1 /\ ~(g < RetainHeight(h))
          /\ Kept(g) <=> g < h /\ ~(g < RetainHeight(h - 1))
      BY <2>1, <2>2 DEF Kept, RetainHeight
    <3>3. g \in Nat /\ h \in Nat /\ g >= 1 /\ MaxHistory \in Nat
      BY <1>1, BoundsAssumption, MaxHeightAssumption DEF Heights
    <3>4. g + MaxHistory < h <=> g < RetainHeight(h)
      BY <3>3 DEF RetainHeight
    <3>5. /\ g = h => Kept(g)'
          /\ g # h /\ g < RetainHeight(h) => ~Kept(g)'
          /\ g # h /\ ~(g < RetainHeight(h)) => (Kept(g)' <=> Kept(g))
      BY <2>2, <3>2, <3>3
    <3> QED BY <3>1, <3>4, <3>5
  <2>4. Entries' = [g \in Heights |-> IF g = current_height THEN chain[current_height]
                                      ELSE IF g + MaxHistory < current_height THEN Absent
                                      ELSE Entries[g]]
    <3>1. Entries' = [g \in Heights |-> Entries'[g]]
      BY DEF Entries
    <3> QED BY <2>1, <2>3, <3>1
  <2>5. NodeLedger!Adopt
    <3>1. \A g : g = current_height => chain[g] = chain[current_height]
      OBVIOUS
    <3> QED BY <1>2, <2>1, <2>4 DEF NodeLedger!Adopt
  <2> QED BY <2>5 DEF NodeLedger!Next
<1>5. CASE DecidesOn(h, r, block)
  <2>1. /\ UNCHANGED <<current_height, db>> /\ chain[h] = Absent
        /\ chain' = [chain EXCEPT ![h] = [round |-> r, value_id |-> block]]
        /\ [round |-> r, value_id |-> block] # Absent
        /\ (h > 1 => chain[h-1] # Absent)
    BY <1>5 DEF DecidesOn
  <2>2. UNCHANGED Entries
    BY <2>1 DEF Entries, Decided
  <2>3. chain'[h] = [round |-> r, value_id |-> block]
    BY <1>1, <2>1
  <2>4. \A k \in 1..h-1 : chain[k] # Absent
    <3>1. \A k \in 1..h-1 : k \in Heights /\ chain'[k] = chain[k]
      BY <1>1, <2>1, MaxHeightAssumption DEF Heights
    <3>2. \A k \in 1..h-1 : chain'[k] # Absent
      BY <2>1, <2>3 DEF SteadyInv, ChainInv
    <3> QED BY <3>1, <3>2
  <2>5. NodeLedger!Decide
    BY <1>2, <2>1, <2>2, <2>3, <2>4 DEF NodeLedger!Decide
  <2> QED BY <2>5 DEF NodeLedger!Next
<1> QED BY <1>3, <1>4, <1>5 DEF Does

(* A node that does not crash implements Ledger: no step of its handlers skips, *)
(* repeats, changes or reorders a decision (ImplementsLedger).                  *)
THEOREM LedgerRefinement == Spec => ImplementsLedger
<1>1. Init => NodeLedger!Init
  <2>1. SUFFICES ASSUME Init PROVE NodeLedger!Init
    OBVIOUS
  <2>2. /\ chain = [h \in Heights |-> Absent] /\ current_height = 1 /\ db = EmptyDb
    BY <2>1 DEF Init, Started
  <2>3. \A h \in Heights : ~Decided(db, h)
    BY <2>2 DEF EmptyDb, Decided
  <2>4. Entries = [h \in Heights |-> Absent]
    BY <2>3 DEF Entries
  <2> QED BY <2>2, <2>4 DEF NodeLedger!Init, NodeLedger!Heights, Heights
<1>2. SteadyInv /\ SteadyInv' /\ [SteadyNext]_vars
        => [NodeLedger!Next]_<<chain, current_height, Entries>>
  <2>1. SUFFICES ASSUME SteadyInv, SteadyInv', [SteadyNext]_vars
                 PROVE  NodeLedger!Next \/ UNCHANGED <<chain, current_height, Entries>>
    OBVIOUS
  <2>2. CASE Quiet
    BY <2>2 DEF Quiet, Entries, Decided
  <2>3. CASE \E h \in Heights, r \in Rounds, block \in Blocks : Does(h, r, block)
    BY <2>1, <2>3, LedgerStep
  <2> QED BY <2>1, <2>2, <2>3, StepEffect
<1> QED BY <1>1, <1>2, SteadyInvariance, PTL DEF Spec, ImplementsLedger, NodeLedger!Spec

===============================================================================
