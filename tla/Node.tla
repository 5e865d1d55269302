--------------------------------- MODULE Node ---------------------------------
(* One node: the application (State in state.rs, driven by the message loop of  *)
(* app.rs) with its database, between the consensus engine that sends it        *)
(* messages and the network its proposals and its peers' proposals travel on.   *)
(*                                                                              *)
(* The application takes one message at a time from a FIFO channel and awaits   *)
(* every call of a handler before it takes the next, so a handler is one step.  *)
(* Only a crash can cut it short, and then it leaves in the database any prefix *)
(* of its transactions.                                                         *)
(*                                                                              *)
(* The engine (Malachite) is not part of the repository.  Its actions say what  *)
(* app.rs relies on: after StartHeight it enters round 0; entering a round      *)
(* sends StartedRound, and GetValue when this node is the proposer; a round may *)
(* time out; a value the application vouched for can be decided once the        *)
(* network decided it; a lagging engine passes on values its peers decided.     *)
(* The messages that neither read nor write the modelled state (GetValidatorSet,*)
(* ExtendVote, VerifyVoteExtension, RestreamProposal) and the parts that do not *)
(* complete a stream (module Streaming) are left out.                           *)
EXTENDS Store, Sequences, SequencesExt

CONSTANTS
  ValidatorCount,  \* size of the validator set
  MyIndex,         \* this node's index in it
  FileBlocks,      \* number of blocks in the node's block file
  MaxHistory,      \* MAX_HISTORY_LENGTH
  RunsRpc,         \* whether the node runs the RPC server and executes blocks
  MaxInbox,        \* bound on the messages waiting for the application
  MaxCrashes,      \* bound on the crashes of this node
  MaxStreams       \* bound on the proposals streamed for one height and round

ASSUME ValidatorAssumption == ValidatorCount \in Nat \ {0} /\ MyIndex \in 0..ValidatorCount-1
ASSUME BoundsAssumption ==
  /\ FileBlocks \in Nat /\ MaxHistory \in Nat
  /\ MaxInbox \in Nat /\ MaxCrashes \in Nat /\ MaxStreams \in Nat
ASSUME RunsRpcAssumption == RunsRpc \in BOOLEAN

VARIABLES
  inbox,           \* the channel of AppMsg from the engine
  current_height, current_round,  \* State
  reader,          \* blocks read from the block file since the process started
  db,              \* the tables of Store
  spawned,         \* blocks handed to next_block in the background, in order
  engine,          \* the engine: [phase, height, round]
  known,           \* values the engine may decide: those the application replied with
  streamed,        \* proposals sent over the network
  chain,           \* the network's decision per height
  crashes

app == <<current_height, current_round, reader, db, spawned>>
network == <<streamed, chain, crashes>>
vars == <<inbox, current_height, current_round, reader, db, spawned,
          engine, known, streamed, chain, crashes>>

-------------------------------------------------------------------------------
(* Blocks are told apart by who built them, their place in the builder's file   *)
(* and the number propose_block writes into the header: the height.             *)

Empty == [origin |-> "none", index |-> 0, number |-> 0]   \* Bytes::new()
Own(index, number) == [origin |-> "own", index |-> index, number |-> number]
Remote(index, number) == [origin |-> "remote", index |-> index, number |-> number]
Blocks == {Empty} \cup
  [origin : {"own"}, index : 0..FileBlocks-1, number : 1..MaxHeight+1] \cup
  [origin : {"remote"}, index : 0..MaxStreams*(MaxRound+1), number : Heights]

ProposerIndex(h, r) == (h - 1 + r) % ValidatorCount
Mine(h, r) == ProposerIndex(h, r) = MyIndex

Certificates == [height : Heights, round : Rounds, value_id : Blocks]
Decisions == [round : Rounds, value_id : Blocks]

ASSUME AbsentAssumption == Absent \notin Blocks \cup Certificates \cup Decisions

Prop(h, r, block) == [height |-> h, round |-> r, block |-> block]
Certificate(h, r, block) == [height |-> h, round |-> r, value_id |-> block]
Msg(type, h, r, block) == [type |-> type, height |-> h, round |-> r, block |-> block]

Engine(phase, h, r) == [phase |-> phase, height |-> h, round |-> r]

-------------------------------------------------------------------------------
(* What the handlers write: the database after each of their transactions.      *)

(* make_block: the next block of the file, or no data once it is exhausted.     *)
NextBlockUnchecked == Own(reader, current_height)   \* mutant: the end of the file is not noticed
NextBlock == IF reader < FileBlocks THEN Own(reader, current_height) ELSE Empty

(* propose_value, and the end of received_proposal_part.                        *)
StoreDataFirst(h, r, block) ==     \* mutant: the two transactions are swapped
  LET d1 == InsertUndecidedBlockData(db, h, r, block)
      d2 == InsertUndecidedProposal(d1, h, r, block)
  IN  <<d1, d2>>
StoreProposal(h, r, block) ==
  LET d1 == InsertUndecidedProposal(db, h, r, block)
      d2 == InsertUndecidedBlockData(d1, h, r, block)
  IN  <<d1, d2>>

(* commit, when the proposal is there.                                          *)
RetainOneMore(h) == IF h > MaxHistory + 1 THEN h - MaxHistory - 1 ELSE 0   \* mutant
RetainHeight(h) == IF h > MaxHistory THEN h - MaxHistory ELSE 0
StoreValueThenCertificate(h, r, value_id) ==   \* mutant: value and certificate apart
  LET value == GetUndecidedProposal(db, h, r)
      d0    == [db EXCEPT !.decided_values[h] = value]
      d1    == InsertDecidedValue(db, Certificate(h, r, value_id), value)
      data  == GetBlockData(d1, h, r)
      d2    == IF data # Absent THEN InsertDecidedBlockData(d1, h, data) ELSE d1
  IN  <<d0, d1, d2, Prune(d2, RetainHeight(h))>>
StoreDecision(h, r, value_id) ==
  LET d1   == InsertDecidedValue(db, Certificate(h, r, value_id), GetUndecidedProposal(db, h, r))
      data == GetBlockData(d1, h, r)
      d2   == IF data # Absent THEN InsertDecidedBlockData(d1, h, data) ELSE d1
      d3   == Prune(d2, RetainHeight(h))
  IN  <<d1, d2, d3>>

OutdatedToo(h) == h <= current_height   \* mutant: drops proposals for the current height
Outdated(h) == h < current_height
CanCommit(h, r) == GetUndecidedProposal(db, h, r) # Absent

Writes(m) ==
  CASE m.type = "GetValue" -> StoreProposal(m.height, m.round, NextBlock)
    [] m.type = "ReceivedProposal" /\ ~Outdated(m.height) ->
         StoreProposal(m.height, m.round, m.block)
    [] m.type = "Decided" /\ CanCommit(m.height, m.round) ->
         StoreDecision(m.height, m.round, m.block)
    [] OTHER -> <<>>

-------------------------------------------------------------------------------
(* The message loop.                                                            *)

(* ConsensusReady: reply StartHeight(current_height).                           *)
ConsensusReady ==
  /\ inbox # <<>> /\ Head(inbox).type = "ConsensusReady"
  /\ inbox' = Tail(inbox)
  /\ engine' = Engine("enter", current_height, 0)
  /\ UNCHANGED <<app, known, network>>

StartedHeight ==      \* mutant: the round is not recorded
  /\ inbox # <<>> /\ Head(inbox).type = "StartedRound"
  /\ inbox' = Tail(inbox)
  /\ current_height' = Head(inbox).height
  /\ UNCHANGED <<current_round, reader, db, spawned, engine, known, network>>

StartedRound ==
  /\ inbox # <<>> /\ Head(inbox).type = "StartedRound"
  /\ inbox' = Tail(inbox)
  /\ current_height' = Head(inbox).height
  /\ current_round' = Head(inbox).round
  /\ UNCHANGED <<reader, db, spawned, engine, known, network>>

(* Build a block, store it, reply to the engine and stream it.  The assertions  *)
(* of propose_value stop the application when they fail.                        *)
GetValue ==
  LET m == Head(inbox) IN
  /\ inbox # <<>> /\ m.type = "GetValue"
  /\ m.height = current_height /\ m.round = current_round
  /\ inbox' = Tail(inbox)
  /\ reader' = IF reader < FileBlocks THEN reader + 1 ELSE reader
  /\ db' = Last(Writes(m))
  /\ known' = known \cup {Prop(m.height, m.round, NextBlock)}
  /\ streamed' = streamed \cup {Prop(m.height, m.round, NextBlock)}
  /\ UNCHANGED <<current_height, current_round, spawned, engine, chain, crashes>>

(* The part that completes a proposal.                                          *)
ReceivedProposal ==
  LET m == Head(inbox) IN
  /\ inbox # <<>> /\ m.type = "ReceivedProposal"
  /\ inbox' = Tail(inbox)
  /\ IF Outdated(m.height)
     THEN UNCHANGED <<db, known>>
     ELSE /\ db' = Last(Writes(m))
          /\ known' = known \cup {Prop(m.height, m.round, m.block)}
  /\ UNCHANGED <<current_height, current_round, reader, spawned, engine, network>>

(* A synced value is decoded and returned; nothing is stored.                   *)
ProcessSyncedValue ==
  LET m == Head(inbox) IN
  /\ inbox # <<>> /\ m.type = "ProcessSyncedValue"
  /\ inbox' = Tail(inbox)
  /\ known' = known \cup {Prop(m.height, m.round, m.block)}
  /\ UNCHANGED <<app, engine, network>>

(* Decided with a stored proposal: commit it, go to the next height and reply   *)
(* StartHeight.  What the engine knew of finished heights is forgotten.         *)
Commit ==
  LET m == Head(inbox)
      w == Writes(m)
      data == GetBlockData(w[1], m.height, m.round)
  IN
  /\ inbox # <<>> /\ m.type = "Decided"
  /\ CanCommit(m.height, m.round)
  /\ inbox' = Tail(inbox)
  /\ db' = Last(w)
  /\ spawned' = IF data \notin {Absent, Empty} /\ RunsRpc
                THEN Append(spawned, [height |-> m.height, block |-> data])
                ELSE spawned
  /\ current_height' = current_height + 1
  /\ current_round' = 0
  /\ engine' = Engine("enter", current_height + 1, 0)
  /\ known' = {v \in known : v.height > m.height}
  /\ UNCHANGED <<reader, network>>

(* Mutant: as CommitNothing, but moving on to the next height all the same.     *)
CommitNothingAndGoOn ==
  LET m == Head(inbox) IN
  /\ inbox # <<>> /\ m.type = "Decided"
  /\ ~CanCommit(m.height, m.round)
  /\ inbox' = Tail(inbox)
  /\ current_height' = current_height + 1
  /\ current_round' = 0
  /\ engine' = Engine("enter", current_height + 1, 0)
  /\ known' = {v \in known : v.height > m.height}
  /\ UNCHANGED <<reader, db, spawned, network>>

(* Decided without a stored proposal: an error is logged, commit returns Ok,    *)
(* and the reply makes the engine start the same height again.                  *)
CommitNothing ==
  LET m == Head(inbox) IN
  /\ inbox # <<>> /\ m.type = "Decided"
  /\ ~CanCommit(m.height, m.round)
  /\ inbox' = Tail(inbox)
  /\ engine' = Engine("enter", current_height, 0)
  /\ known' = {v \in known : v.height > m.height}
  /\ UNCHANGED <<app, network>>

Handle ==
  ConsensusReady \/ StartedRound \/ GetValue \/ ReceivedProposal \/ ProcessSyncedValue
  \/ Commit \/ CommitNothing

-------------------------------------------------------------------------------
(* The engine.                                                                  *)

Send(m) == Len(inbox) < MaxInbox /\ inbox' = Append(inbox, m)

EnterRound ==
  /\ engine.phase = "enter" /\ engine.height <= MaxHeight
  /\ Send(Msg("StartedRound", engine.height, engine.round, Absent))
  /\ engine' = [engine EXCEPT !.phase =
                  IF Mine(engine.height, engine.round) THEN "propose" ELSE "round"]
  /\ UNCHANGED <<app, known, network>>

(* Other messages may come between StartedRound and GetValue.                   *)
AskValue ==
  /\ engine.phase = "propose"
  /\ Send(Msg("GetValue", engine.height, engine.round, Absent))
  /\ engine' = [engine EXCEPT !.phase = "round"]
  /\ UNCHANGED <<app, known, network>>

(* The engine does not wait for its GetValue to be answered.                    *)
RoundTimeout ==
  /\ engine.phase = "round" /\ engine.round < MaxRound
  /\ engine' = Engine("enter", engine.height, engine.round + 1)
  /\ UNCHANGED <<inbox, app, known, network>>

(* A peer that has decided this height sends the value.                         *)
ReceiveSyncedValue ==
  LET h == engine.height IN
  /\ engine.phase = "round"
  /\ chain[h] # Absent
  /\ Prop(h, chain[h].round, chain[h].value_id) \notin known
  /\ \A i \in DOMAIN inbox : inbox[i].type # "ProcessSyncedValue"
  /\ Send(Msg("ProcessSyncedValue", h, chain[h].round, chain[h].value_id))
  /\ UNCHANGED <<engine, app, known, network>>

(* The engine has the certificate and the value: it waits for StartHeight.      *)
Decide ==
  LET h == engine.height IN
  /\ engine.phase = "round"
  /\ chain[h] # Absent
  /\ Prop(h, chain[h].round, chain[h].value_id) \in known
  /\ Send(Msg("Decided", h, chain[h].round, chain[h].value_id))
  /\ engine' = [engine EXCEPT !.phase = "wait"]
  /\ UNCHANGED <<app, known, network>>

(* The last missing part of a peer's proposal arrives.                          *)
ProposalArrives(v) ==
  /\ ~Mine(v.height, v.round)
  /\ v \notin known
  /\ v.height >= current_height    \* a later one would change nothing
  /\ LET m == Msg("ReceivedProposal", v.height, v.round, v.block) IN
       (\A i \in DOMAIN inbox : inbox[i] # m) /\ Send(m)
  /\ UNCHANGED <<engine, app, known, network>>

(* The proposal the network decided on among them.                              *)
DecidedProposalArrives(h, r) ==
  /\ chain[h] # Absent /\ chain[h].round = r
  /\ ProposalArrives(Prop(h, r, chain[h].value_id))

-------------------------------------------------------------------------------
(* The other validators.                                                        *)

Streams(h, r) == {v \in streamed : v.height = h /\ v.round = r}
NetworkAt(h) == chain[h] = Absent /\ (h > 1 => chain[h-1] # Absent)

RemoteBlock(h, r) == Remote(r * MaxStreams + Cardinality(Streams(h, r)), h)

(* The proposer of (h, r), another node, streams its proposal.                  *)
RemotePropose(h, r) ==
  /\ NetworkAt(h) /\ ~Mine(h, r)
  /\ Streams(h, r) = {}
  /\ streamed' = streamed \cup {Prop(h, r, RemoteBlock(h, r))}
  /\ UNCHANGED <<inbox, app, engine, known, chain, crashes>>

(* It streams another one for the same height and round after a restart.        *)
RemoteProposeAgain(h, r) ==
  /\ NetworkAt(h) /\ ~Mine(h, r)
  /\ Streams(h, r) # {} /\ Cardinality(Streams(h, r)) < MaxStreams
  /\ streamed' = streamed \cup {Prop(h, r, RemoteBlock(h, r))}
  /\ UNCHANGED <<inbox, app, engine, known, chain, crashes>>

NetworkDecides(v) ==
  /\ NetworkAt(v.height)
  /\ chain' = [chain EXCEPT ![v.height] = [round |-> v.round, value_id |-> v.block]]
  /\ UNCHANGED <<inbox, app, engine, known, streamed, crashes>>

-------------------------------------------------------------------------------
(* Crash and restart.                                                           *)

(* The start height is an optional argument: 1 by default, or the height after  *)
(* the last one decided when the operator passes it.                            *)
RestartHeights == {1} \cup {Max(DecidedHeights(db) \cup {0}) + 1}

Crash(start_height) ==
  /\ crashes < MaxCrashes
  /\ crashes' = crashes + 1
  /\ db' \in {db} \cup (IF inbox = <<>> THEN {} ELSE Range(Writes(Head(inbox))))
  /\ inbox' = <<Msg("ConsensusReady", 1, 0, Absent)>>
  /\ current_height' = start_height
  /\ current_round' = 0
  /\ reader' = 0
  /\ spawned' = <<>>
  /\ engine' = Engine("wait", start_height, 0)
  /\ known' = {}
  /\ UNCHANGED <<streamed, chain>>

-------------------------------------------------------------------------------
Started(store) ==
  /\ inbox = <<Msg("ConsensusReady", 1, 0, Absent)>>
  /\ current_height = 1
  /\ current_round = 0
  /\ reader = 0
  /\ db = store
  /\ spawned = <<>>
  /\ engine = Engine("wait", 1, 0)
  /\ known = {}
  /\ streamed = {}
  /\ chain = [h \in Heights |-> Absent]

Init == Started(EmptyDb) /\ crashes = 0

(* spawn.bash deletes db/ and wal/ but not store.db: the nodes of a new network *)
(* start at height 1 on what an earlier one left, here after it stored (in part *)
(* or whole) a proposal for round r of height 1, decided it, stored one for     *)
(* height 2 and decided that.  It counts as the crash of this node.             *)
EarlierBlock(h, r) ==
  IF ~Mine(h, r) THEN Remote(MaxStreams * (MaxRound + 1), h)
  ELSE IF FileBlocks > 0 THEN Own(0, h) ELSE Empty

EarlierStores(r) ==
  LET Torn(d, h, k) == InsertUndecidedProposal(d, h, k, EarlierBlock(h, k))
      Whole(d, h, k) == InsertUndecidedBlockData(Torn(d, h, k), h, k, EarlierBlock(h, k))
      Committed(d, h, k) ==
        LET block == EarlierBlock(h, k) IN
        Prune(InsertDecidedBlockData(InsertDecidedValue(d, Certificate(h, k, block), block), h, block),
              RetainHeight(h))
      d1 == Whole(EmptyDb, 1, r)
      d2 == Committed(d1, 1, r)
      d3 == Whole(d2, 2, 0)
  IN  {Torn(EmptyDb, 1, r), d1, d2} \cup
      (IF 2 \in Heights THEN {d3, Committed(d3, 2, 0)} ELSE {})

ReusedInit == \E r \in Rounds : \E store \in EarlierStores(r) : Started(store) /\ crashes = MaxCrashes

EngineStep ==
  EnterRound \/ AskValue \/ RoundTimeout \/ ReceiveSyncedValue \/ Decide
  \/ (\E v \in streamed : ProposalArrives(v))

NetworkStep ==
  \/ \E h \in Heights, r \in Rounds : RemotePropose(h, r)
  \/ \E v \in streamed : NetworkDecides(v)

SteadyNext == Handle \/ EngineStep \/ NetworkStep

(* No node crashes.                                                             *)
Spec == Init /\ [][SteadyNext]_vars

FaultyNext ==
  \/ SteadyNext
  \/ \E h \in Heights, r \in Rounds : RemoteProposeAgain(h, r)
  \/ \E h \in RestartHeights : Crash(h)

(* This node and its peers may crash and restart.                               *)
FaultySpec == Init /\ [][FaultyNext]_vars

(* Or they all start on the stores of an earlier network.                       *)
ReusedSpec == (Init \/ ReusedInit) /\ [][FaultyNext]_vars

(* Every message is handled, the engine keeps going, and every part of the      *)
(* proposal the network decided on reaches this node in the end.                *)
EngineFairness == WF_vars(Handle) /\ WF_vars(EnterRound) /\ WF_vars(AskValue) /\ SF_vars(Decide)
SyncFairness == SF_vars(ReceiveSyncedValue)
ArrivalFairness == \A h \in Heights, r \in Rounds : SF_vars(DecidedProposalArrives(h, r))

FairSpec == Spec /\ EngineFairness /\ ArrivalFairness

(* As FairSpec, but the parts may be lost: only synchronization is sure.        *)
SyncFairSpec == Spec /\ EngineFairness /\ SyncFairness

-------------------------------------------------------------------------------
(* Properties.                                                                  *)

Rows == Blocks \cup {Absent}
Messages == [type : {"ConsensusReady", "StartedRound", "GetValue", "ReceivedProposal",
                     "ProcessSyncedValue", "Decided"},
             height : Heights, round : Rounds, block : Rows]
Props == [height : Heights, round : Rounds, block : Blocks]
Databases ==
  [decided_values : [Heights -> Rows],
   certificates : [Heights -> Certificates \cup {Absent}],
   decided_block_data : [Heights -> Rows],
   undecided_proposals : [UndecidedKeys -> Rows],
   undecided_block_data : [UndecidedKeys -> Rows]]

TypeOK ==
  /\ inbox \in Seq(Messages)
  /\ current_height \in 1..MaxHeight+1
  /\ current_round \in Rounds
  /\ reader \in 0..FileBlocks
  /\ db \in Databases
  /\ spawned \in Seq([height : Heights, block : Blocks])
  /\ engine \in [phase : {"wait", "enter", "propose", "round"},
                 height : 1..MaxHeight+1, round : Rounds]
  /\ known \subseteq Props
  /\ streamed \subseteq Props
  /\ chain \in [Heights -> Decisions \cup {Absent}]
  /\ crashes \in 0..MaxCrashes

(* The assertions of propose_value never fail, although the engine runs ahead   *)
(* of the application (it may time out and enter the next round with a GetValue *)
(* still waiting), and a decision is always taken at the application's height,  *)
(* so that incrementing that height leads to the one after the decision.        *)
InStep ==
  inbox # <<>> =>
    LET m == Head(inbox) IN
    /\ m.type = "GetValue" => m.height = current_height /\ m.round = current_round
    /\ m.type = "Decided" => m.height = current_height

(* What commit stores for a height is the value the network decided, with its   *)
(* certificate ("we store the decided value in our store", app.rs).             *)
StoresDecision ==
  \A h \in Heights : db.decided_values[h] # Absent =>
    /\ db.decided_values[h] = chain[h].value_id
    /\ db.certificates[h] = Certificate(h, chain[h].round, chain[h].value_id)

(* The block data kept for a decided height is that of the value decided there  *)
(* ("Store block data for decided value", state.rs).                            *)
StoresDecidedData ==
  \A h \in Heights : db.decided_block_data[h] # Absent =>
    db.decided_block_data[h] = db.decided_values[h]

(* Once stored under the certificate of this network, the value of a height is  *)
(* never replaced, even when a restarted node decides that height again or is   *)
(* streamed other proposals for it (app.rs, "we store the decided value").      *)
DecidedValuesStable ==
  [][\A h \in Heights :
       chain[h] # Absent /\ db.certificates[h] = Certificate(h, chain[h].round, chain[h].value_id)
         => db'.decided_values[h] \in {db.decided_values[h], Absent}
    ]_vars

(* What GetHistoryMinHeight advertises can be served: from the earliest height  *)
(* in the store to the last one committed, GetDecidedValue has an answer ("to   *)
(* figure out if we can help a peer that is lagging behind", app.rs).           *)
ServableHistory ==
  \A h \in Heights :
    DecidedHeights(db) # {} /\ h \in MinDecidedValueHeight(db)..current_height-1
      => Decided(db, h)

(* A decided value and its certificate are both there or both missing, wherever *)
(* a crash cuts a commit short.                                                 *)
ValueWithCertificate ==
  \A h \in Heights : db.decided_values[h] # Absent <=> db.certificates[h] # Absent

(* A crash between the transactions of a handler never leaves block data whose  *)
(* proposal or decided value is not stored.                                     *)
NoOrphanData ==
  /\ \A k \in UndecidedKeys :
       db.undecided_block_data[k] # Absent => db.undecided_proposals[k] # Absent
  /\ \A h \in Heights : db.decided_block_data[h] # Absent => db.decided_values[h] # Absent

(* The store keeps at most MaxHistory decided heights ("Maximum number of       *)
(* blocks to keep in history", state.rs).  The code breaks this by one: commit  *)
(* retains the height MaxHistory below its own, and pruning keeps it too.       *)
DocumentedHistory == Cardinality(DecidedHeights(db)) <= MaxHistory

(* What the code does keep to: after a commit no table holds anything of a      *)
(* height more than MaxHistory below the one just committed, MaxHistory + 1     *)
(* heights in all, whatever arrived late for the earlier ones.                  *)
HistoryBounded ==
  \A h \in Heights : h + MaxHistory + 1 < current_height =>
    /\ db.decided_values[h] = Absent /\ db.certificates[h] = Absent
    /\ db.decided_block_data[h] = Absent
    /\ \A r \in Rounds : /\ db.undecided_proposals[<<h, r>>] = Absent
                         /\ db.undecided_block_data[<<h, r>>] = Absent

(* Blocks are handed to execution in the order of their heights, each height    *)
(* once, each the block the network decided there, and none is left out but the *)
(* empty ones.                                                                  *)
ExecutesDecisions ==
  /\ \A i, j \in DOMAIN spawned : i < j => spawned[i].height < spawned[j].height
  /\ \A i \in DOMAIN spawned : spawned[i].block = chain[spawned[i].height].value_id
  /\ \A h \in 1..current_height-1 :
       RunsRpc /\ chain[h].value_id # Empty => \E i \in DOMAIN spawned : spawned[i].height = h

(* Every height the network decides is committed by this node.                  *)
CatchesUp == \A h \in Heights : chain[h] # Absent ~> current_height > h

(* The decisions the database holds, as the abstract ledger sees them.          *)
Entries == [h \in Heights |-> IF Decided(db, h)
                              THEN [round |-> db.certificates[h].round,
                                    value_id |-> db.decided_values[h]]
                              ELSE Absent]

NodeLedger == INSTANCE Ledger WITH next <- current_height, entries <- Entries

(* A node that does not crash implements Ledger: no step of its handlers skips, *)
(* repeats, changes or reorders a decision.                                     *)
ImplementsLedger == NodeLedger!Spec
===============================================================================
