# Malaketh-turbo in TLA+

Malaketh-turbo connects two libraries: the Malachite consensus engine and the
execution and RPC libraries of Reth. The code of the repository is what lies
between them: an application that answers the engine's messages, builds blocks
from a file, streams them to the other validators, puts received blocks
together, keeps proposals and decisions in a database, and executes what was
decided. This directory models that code, checks the models with TLC and proves
part of what they say with TLAPS. Around the program itself stand the commands
that set a network up and the tool that verifies what was executed; these are
modelled too.

Contents: [inventory](#inventory), [modules](#modules-and-code), [runs](#runs-and-bounds),
[fairness](#fairness), [findings](#where-the-code-and-its-descriptions-disagree),
[proofs](#what-is-proved), [limits](#only-model-checked-not-modelled), [plan](#plan).

## Inventory

| Component | Code | State | Operations | What makes it correct |
|---|---|---|---|---|
| Application loop | `app/src/app.rs` | none of its own | one handler per `AppMsg`, run one after the other to the end | answers match the state they are computed from; heights are adopted in order |
| State | `app/src/state.rs` | `current_height`, `current_round`, `stream_nonce`, `streams_map` | `propose_value`, `stream_proposal`, `received_proposal_part`, `commit` | assertions hold, the decided value is what is stored and executed |
| Part streams | `app/src/streaming.rs` | per (peer, stream id): heap of messages, `init_info`, `seen_sequences`, `total_messages`, `fin_received` | `insert` | what comes out is one whole proposal, at most once |
| Store | `app/src/store.rs`, `store/keys.rs` | five tables of a `redb` database | one transaction per insert, read or prune | tables agree with each other, whatever a crash leaves |
| Block proposer | `app/src/eth.rs` `BlockProposer` | position in the block file | `propose_block` | blocks of a file are proposed in order |
| Block executor | `app/src/eth.rs` `BlockExecutor` | accounts and blocks in `eth_db` | `new`, `next_block` (background task per block) | blocks take effect once, in order, and do not undo each other |
| Proposer selection | `types/src/context.rs`, `validator_set.rs` | the validator set of the genesis file | `select_proposer`, `ValidatorSet::new` | the rotation reaches a live proposer |
| Codecs | `types/src/codec/proto/mod.rs` and the `Protobuf` impls | none | encode, decode | what is decoded is what was encoded, or an error |
| Signing | `types/src/signing.rs` | private key | sign, verify, `verify_commit_signature` | certificates still verify after storage and transport |
| Command line | `cli/src/new.rs`, `file.rs`, `args.rs`, `cmd/` | the homes of nodes: `config.toml`, key, `genesis.json` | `testnet`, `distributed-testnet`, `init`, `start` | a network made is complete, of one genesis, and its nodes reach each other, whatever was interrupted before |
| Log verifier | `app/src/bin/utils.rs` | the log of a node, its RPC server | `generate`, `verify`, `verify-all` | no false alarm, nothing accepted that was not executed |
| Scripts | `scripts/spawn.bash` | the homes | reset, spawn | what it leaves behind is harmless |
| Metrics, logging, runtime | `app/src/metrics.rs`, `cli/src/logging.rs`, `runtime.rs`, `metrics.rs` | counters | set-up, output | not modelled, see below |

How they interact. The engine sends `AppMsg`s over a FIFO channel; `app.rs`
awaits every call of a handler before it takes the next message, so handlers
exclude each other. The engine does not wait for the application: it may time
out and enter a new round while a `GetValue` is unanswered. A handler calls
`State`, which calls the part streams (in memory) and the store (one blocking
task per transaction, awaited). `commit` also spawns a blocking task for
`BlockExecutor::next_block` and does not wait for it: executions run
concurrently with consensus and with each other. Replies and outgoing parts go
back to the engine, which owns the network, the write-ahead log and the sync
protocol.

What is hard: parts lost, repeated and reordered; restarts that reset the
in-memory half of the state (nonce, block file, streams) and keep the database;
crashes between two transactions of one handler; an engine that runs ahead of
the application; a decision learned by synchronization instead of a proposal;
overlapping executions on stale accounts; a network started on the stores of
another; setting-up cut short between two files. `PROJECT.json` lists each of these
hazards at its line, with the properties that cover it or the reason why none does.

## Modules and code

| Module | Models | Kind |
|---|---|---|
| `ProposalDelivery` | what streaming promises a receiver | abstract specification |
| `Streaming` | `State::stream_proposal`, `PartStreamsMap`, `received_proposal_part` | state machine |
| `Store` | the transactions of `store.rs` | operators on a database value |
| `Ledger` | what a node promises to make of the network's decisions | abstract specification |
| `Node` | `app.rs` and `state.rs` over `Store`, with the engine around them | state machine |
| `Settlement` | what execution promises when executions overlap | abstract specification |
| `SequentialExecution` | blocks applied one after the other | abstract specification |
| `Execution` | `BlockExecutor` and the tasks spawned by `commit` | state machine |
| `ExecutionLog` | what `next_block` prints, `verify` and `verify-all` on top of `Execution` | state machine |
| `Codec` | all conversions to and from protobuf, signatures | pure operators |
| `Wire` | one message encoded, damaged, decoded | state machine over `Codec` |
| `Certificates` | votes to certificate to store to sync response to peer | state machine over `Codec` |
| `Validators` | `ValidatorSet::new`, `select_proposer`, progress of rounds | state machine |
| `Testnet` | the commands that write the files of a network | state machine |
| `StreamingProofs`, `NodeProofs`, `LedgerProofs`, `ExecutionProofs`, `WireProofs`, `CertificatesProofs`, `ValidatorsProofs`, `TestnetProofs` | theorems about the module they are named for (`LedgerProofs`: that `Node` implements `Ledger`; `ExecutionProofs`: `ExecutionLog` too) | proofs |
| `MC_Codec` | `Wire` and `Certificates`, one of which runs | composition for TLC |
| other `MC_*` | instances for TLC | configuration |

`PROJECT.json` maps each definition to its lines. The correspondence in short:

**Streaming.** `streams[k]` is the `StreamState` of key `k = (peer, stream id)`;
an absent entry equals the default one. The heap is kept as the sequence in
which it pops. `ReceivePart`, `ReceiveSeen` and `ReceiveLastPart` are one call
of `received_proposal_part`: duplicate, incomplete stream, completed stream with
the height check, assembly and signature check. `StreamProposal` publishes the
parts; the network may deliver a published message at any time, any number of
times, or never. A block is the sequence of its chunks; the hash commits to
the Init data and the chunks in order. Signatures are unforgeable, peers run this code.

**Store and Node.** `Store` is the database as a record of tables, one operator
per transaction (`IfAbsent` is the insert that keeps an existing row; `Prune`
drops what is below the retain height and keeps what is at it, as the code
does). In `Node` a handler is one action, since handlers are not interleaved;
what a crash can see in between is the sequence `Writes(m)` of the databases
after each of its transactions, and `Crash` leaves any of them. `spawned` is
the sequence of blocks handed to `next_block`. The engine's actions
(`EnterRound`, `AskValue`, `RoundTimeout`, `ReceiveSyncedValue`, `Decide`,
`ProposalArrives`) contain what `app.rs` relies on and nothing more. What
`Streaming` establishes enters `Node` as one message `ReceivedProposal` per
complete proposal. The engine may be wrong for the application in ways its
documentation allows, and only in those: a restarted engine asks `GetValue`
again for a round; a peer that restarted may stream two proposals for a round.
`ReusedInit` starts the node on the store of an earlier network, which the reset
of `spawn.bash` does not remove: cut off after each transaction that matters in a
proposal and a commit of height 1 and of height 2.

**Execution.** A task has the steps of `next_block` that another task can come
between: the read of initial balances, the execution on a second snapshot, the
commit, the final check. A block is one transfer from its signer to a common
recipient: the generator writes files with one signer, consecutive nonces and a
shared recipient, and a block fails as a whole when a nonce does not fit.
`Restart` is `BlockExecutor::new`, which deletes the database. `Skip` is a height
whose data is empty or was not stored: `commit` hands nothing over and the
executed chain has a gap there.

**ExecutionLog.** The steps of `Execution` print the lines `next_block` prints,
and `history` keeps the accounts after each block for the RPC server. The log only
grows and is read once, from its first line on, so it is kept as `read`, what `verify`
holds after the lines printed so far; `ReadLine` is one turn of the loop of
`verify_block_logs`, with its one current height and signer;
`Report` is what both verifications then look for, over the executions of the log
or of the server. The number of heights verified is `Checked`, 10 in the code.
Nothing makes consensus wait for execution, so the model does not either. A history
variable, `early`, holds the heights that were still under execution when a further
one was decided; no step depends on it. `CheckedApart` says that none of them is one
of the heights verified: the log gives its lines no owner, and where verified heights
do overlap `verify` raises false alarms.

**Testnet.** A command is the list of files it has to write (`job`); `SaveFile`
writes the next one, `SkipFile` keeps it as `init` does without `--overwrite`,
`Interrupt` ends the command, leaving that file as it was or truncated. A config
is its two listen addresses and its peers; keys are told apart by generator
and position, so that those of `--deterministic` are the same each time.
`distributed-testnet` is parsed but not dispatched by `main.rs` (it ends in
`unimplemented!`); it is modelled as `cmd/distributed_testnet.rs` has it.

**Codec, Wire, Certificates.** A protobuf message is a record whose message and
optional fields may be `Absent`; wrong byte lengths are `Malformed`; a decoder
that returns an error yields `Failed`, and one that panics `Panicked`. Rounds (`Nil` or a number) and votes
(nil or an id) are where application and wire differ most. `Certificates` follows a decision
through every conversion it meets before a lagging peer accepts it. Its `Decide` takes one
thing for granted: that the proposal `commit` finds for the height and round of the
certificate is that of the value decided (`StoresDecision` of `Node`). `commit` does
not check it, and it is not so when a proposer streams two proposals for a round
(`node_repropose`) or the value was learned by synchronization (`node_sync`, where
nothing is stored). What `ServedVerify` and `SyncedAsDecided` say of the value, as
opposed to the certificate, rests on it.

**Validators.** The validator list is built from generated keys by `ValidatorSet`
exactly as `new` does (neighbouring repetitions dropped, nothing sorted).

## Runs and bounds

| Run | Checks | Bounds and why they suffice |
|---|---|---|
| `streaming` | `TypeOK`, `Integrity`, `AtMostOncePerStream`, `UniqueStreamsComplete`, `StreamsNeverForgotten`, `ImplementsDelivery` | two proposers, two heights, two published proposals with blocks of 0 to 2 chunks over two contents: enough for two proposals under one stream id whose parts can be confused, and for a height left behind |
| `streaming_reuse` (violation) | `FullBlocksAccepted` | the same with one proposer restart |
| `node` | `TypeOK`, `InStep`, `StoresDecision`, `StoresDecidedData`, `ServableHistory`, `HistoryBounded`, `ExecutesDecisions`, `ImplementsLedger`, `CatchesUp` | three heights, two rounds, history of one height (25 in the code), a block file of two blocks that runs out, an inbox of two messages, all decided proposals arriving: pruning happens, rounds time out with a `GetValue` pending |
| `node_faults` | `InStep`, `ValueWithCertificate`, `NoOrphanData`, `DecidedValuesStable` | one crash between any two transactions or a start on one of ten earlier stores, two proposals per round, two heights, history 0, an inbox of two messages (an inbox of three more than doubles the states and gave the same answer before earlier stores were added) |
| `node_sync`, `node_repropose` (violations) | `CatchesUp`, `StoresDecision` | the smallest instance with the event concerned |
| `node_history` (violation) | `DocumentedHistory` | three heights of one round, a history of two blocks: the smallest that is full and gets one more |
| `execution` | `TypeOK`, `SignersExact`, `ReportedAsAppended`, `LogAccepted`, `VerifiedExecuted`, `ImplementsSettlement`, `ImplementsSequential` | two signers, four heights of which two are verified (so that later lines must be left out and may overlap), one of them possibly skipped, two tasks at a time, one lost block, one restart of a proposer and one of the node, funds for two blocks: each signer can have two blocks in flight, run out of funds, and have a block executed twice at once |
| `execution_overlap` (violation) | `RecipientPaid` | two blocks, two tasks |
| `codec` | `ReceivedAsSent`, `DamagedRefused`, `ServedVerify`, `SyncedAsDecided` | every kind of message over two values of each field, one damaged field; and two heights, two rounds, three validators with powers 2, 1, 1, so that two or three signatures may be behind a decision. The decisions are about one block: a second one makes the run too long. TLC therefore says nothing of a certificate served with another height's value; the proof does |
| `validators` | `RoundsWasted`, `EveryHeightDecided` | four validators in all orders, one crash, two rounds cut short, four heights (a full rotation) |
| `testnet` | `NodesAreTheValidators`, `NodesFindEachOther`, `DeterministicRerun` | three commands, one of them cut short, so that a network can be made, remade in part, made again or completed by `init`; up to three nodes, so that two machines get an uneven share; one or two peers with discovery |

Every property of a passing run is broken by a mutant of the code's model
(listed in `PROJECT.json`; the mutated definitions stand next to the originals
and are marked `mutant`), so none of them holds by the shape of the model.
Deadlock is not checked where the bounds let the system stop.

The bounds on counters are constants named `Max...` and appear only in guards. In the
`node` runs the blocks other validators build are told apart by round and order
of publication; only equality of blocks matters to the code.

## Fairness

- `Node!EngineFairness`: weak fairness of the message loop (the task that runs
  `app::run` is not starved by the runtime), of the engine's entering a round
  and asking for a value, strong fairness of `Decide` (the engine
  decides when it keeps having value and certificate; a pending round timeout
  may disable that for a moment only).
- `ArrivalFairness`: the decided proposal reaches the node in the end; it is
  assumed in `node` for `CatchesUp`, where the question is what the node does
  with it; the invariants do not depend on it.
- `SyncFairness`: a lagging node's engine gets the synced value. Assumed in
  `node_sync`, where the handler is what fails.
- `Validators`: a round with a live proposer decides unless cut short, one with a
  crashed proposer times out. This is the engine's job, stated as weak fairness.

The other specifications state no fairness and no liveness.

## Where the code and its descriptions disagree

| Run | What the code does |
|---|---|
| `streaming_reuse` | A restarted proposer starts `stream_nonce` at 0 and reuses stream ids; receivers drop all parts of the new proposal as already seen. |
| `node_repropose` | `commit` looks a proposal up by height and round and never compares it with the certificate; the first proposal stored wins. |
| `node_sync` | A synced value is not stored (`TODO` in `app.rs`); its commit does nothing, and the node starts the same height again for ever. |
| `node_history` | `MAX_HISTORY_LENGTH`, "Maximum number of blocks to keep in history" (`state.rs:36`), is the distance to the lowest height kept, and `prune` keeps that one too: 26 blocks stay, not 25. `HistoryBounded` states the bound the code does keep to. |
| `execution_overlap` | Executions are not awaited; two blocks that read the same accounts overwrite each other's credits. |

Each is a `findings` entry of `PROJECT.json` with the line quoted. Noted while
modelling, without a run of their own:

- `propose_value` never returns "a previously built proposal" (`state.rs:296`):
  asked again for a round, as after a restart, it streams a second block while
  the store keeps the first.
- A received proposal and its data are two transactions (`state.rs:206`, `209`).
  `NoOrphanData` holds over crashes, but a crash between the two leaves a
  proposal without data, and a different proposal for the round may then supply
  the data: `StoresDecidedData`, checked in `node`, fails under `FaultySpec`.
- A proposer that restarts proposes its file from the beginning. If its first
  block is executed twice at once, both executions find the nonce they expect and
  both are appended (`SignersExact` is about the time before such a restart). The
  balance the older execution writes may then be above what the newer one read,
  and the last check of `next_block` reports as failed a block that was appended
  (the second half of `ReportedAsAppended`, before such a restart only).
- What a node advertises to its peers can be more than it has: started at a height
  above what it stored (`start --start-height`), a node that crashes leaves a gap
  between the heights stored, while `get_earliest_height` only looks at the lowest. A store
  with height 3, started at 1, height 1 committed, a crash, a start at 4: height 2
  is advertised and cannot be served. `ServableHistory` is therefore about nodes
  that do not crash; three heights and two crashes show the opposite otherwise.
- `validator_set.rs:54` says the set is sorted by address; the sort is commented
  out (`:99`), so the order of the genesis file decides who proposes.
- A completed stream is never removed from `streams_map` (`StreamsNeverForgotten`
  states it; that is also what makes late duplicates harmless).
- The reset in `scripts/spawn.bash` removes `db/` and `wal/` while the state is
  in `store.db` and `eth_db`. A network started on old stores commits old proposals
  under new certificates where they collide (`StoresDecision` fails under
  `ReusedSpec`); what `node_faults` checks still holds.
- `README.md:30` says of `verify` that it "will check that balance changes indicate
  that blocks have been executed properly". A block that fails to execute leaves
  only its initial balance in the log, which the verifier takes for the final one
  too: `verify` reports that all blocks were executed. `verify-all` does see it
  (`VerifiedExecuted`). Both hold one current height and signer for the whole log,
  so that executions that overlap are mixed up and reported as inconsistent or
  missing; `LogAccepted` and `VerifiedExecuted` are about logs in which none of the
  heights verified overlaps another (`CheckedApart`), whatever the later ones do.
- The decoder of a status takes the peer id apart with `unwrap()`
  (`codec/proto/mod.rs:205`): a peer id that is there but malformed makes it panic,
  where a malformed field of any other message gives an error. `DamagedRefused`
  names this exception and shows it is the only one among the decoders of messages.
  (`decode_value`, `state.rs:488`, has an `unwrap()` too, on the value inside a response,
  whose bytes the response's decoder does not look at.)
- `init` generates one key for the node and another for the genesis
  (`init.rs:125`, `137`): a node set up by `init` alone is no validator of its
  genesis. It also keeps a file whose writing was interrupted, for ever.
- With `--enable-discovery` four or more nodes may be given peers in two groups that
  do not know each other (`new.rs:97`); `distributed-testnet` with
  `--bootstrap-set-size 0` gives no node a peer, and without `--machines` it
  divides by zero. From 2000 nodes on, consensus and metrics ports overlap.
- The random keys (without `--deterministic`) of a network remade and cut short
  leave nodes with a new key and the old genesis; `DeterministicRerun` is about
  the keys that are reproducible.

## What is proved

Every safety property and refinement below is proved for every value of the
constants: any number of validators, heights, rounds, blocks, nodes, crashes and
restarts. The assumptions are the named `ASSUME`s of the component's module (bounds
are naturals, the marks `Absent`, `Nil`, ... are no data, each height and round has one
proposer), which TLC evaluates in the runs; a theorem that assumes more says so.
Each inductive invariant was first checked by TLC on the instance of the run.

| Theorem | Statement |
|---|---|
| `StreamingProofs` | |
| `Invariance`, `TypeCorrectness` | `Spec => []Inv`, the inductive invariant, and `TypeOK` |
| `IntegrityHolds` | `Spec => []Integrity`: what is accepted was published, as it is |
| `AtMostOnceHolds` | `Spec => []AtMostOncePerStream` |
| `NeverForgotten` | `Spec => StreamsNeverForgotten` |
| `CompleteStreamsReturned` | `Spec => []UniqueStreamsComplete`: all that arrived in full was accepted |
| `Refinement` | `Spec => ImplementsDelivery`: streaming implements `ProposalDelivery` |
| `NodeProofs` (crashes, restarts, stores of an earlier network) | |
| `TypeCorrect`, `StaysInStep` | `ReusedSpec => []TypeOK`, `[]InStep`: the assertions of the handlers |
| `ValuesKeepCertificates`, `DataHasOwner` | `ReusedSpec => []ValueWithCertificate`, `[]NoOrphanData` |
| `DecisionsAreKept` | `ReusedSpec => DecidedValuesStable`: no step replaces a decision |
| `LedgerProofs` (no crash) | |
| `StoresTheDecision`, `StoresItsData` | `Spec => []StoresDecision`, `[]StoresDecidedData` |
| `ServesItsHistory`, `BoundsItsHistory` | `Spec => []ServableHistory`, `[]HistoryBounded`: `MaxHistory + 1` heights |
| `ExecutesTheDecisions` | `Spec => []ExecutesDecisions` |
| `LedgerRefinement` | `Spec => ImplementsLedger`: a node implements `Ledger` |
| `ExecutionProofs` | |
| `TypeCorrect` | `Spec => []TypeOK`: no balance below zero, no task without a block |
| `SignersStayExact` | `Spec => []SignersExact`: however tasks overlap |
| `ReportsAreTrue` | `Spec => []ReportedAsAppended` |
| `SettlementRefinement` | `Spec => ImplementsSettlement`: however tasks overlap, each append is one block taking effect, and a credit to the recipient may be lost but is never made up |
| `SequentialRefinement` | `LogSpec => ImplementsSequential`: the steps of executions that do not overlap are those of `SequentialExecution`, also after a restart that ends an overlap |
| `LogInvariant` | `LogSpec => []LogIInv`, the inductive invariant of the log |
| `LogIsAccepted` | `LogSpec => []LogAccepted`: `verify` raises no false alarm about heights that did not overlap, what it misses is missing |
| `VerifiedIsExecuted` | `LogSpec => []VerifiedExecuted`: of such heights, what `verify-all` accepts was appended and paid for |
| `WireProofs` | |
| `MessagesArrive` | `WireSpec => []ReceivedAsSent`: what is decoded is what was encoded |
| `DamageIsRefused` | `WireSpec => []DamagedRefused`: no default stands in for what is missing, and one decoder panics |
| `CertificatesProofs` | |
| `ServedConvinces` | `Spec => []ServedVerify`: a certificate still verifies after store and transport |
| `SyncedIsDecided` | `Spec => []SyncedAsDecided` |
| `ValidatorsProofs` | |
| `FewRoundsWasted` | `Spec => []RoundsWasted`: for every set and order of validators |
| `TestnetProofs` | |
| `MadeNetworksAreWhole` | `Spec => []NodesAreTheValidators` |
| `MadeNetworksConnect` | up to 2000 nodes (the distance of the base ports), `Spec => []NodesFindEachOther` |
| `RerunFits` | `Spec => []DeterministicRerun` |

The arguments:

**Streaming.** `Integrity` is not inductive: it says nothing of the buffers from
which the next proposal is assembled. `Inv` adds what holds of each of them
(`StateInv`): every buffered message belongs to some proposal published under
the buffer's key, `init_info` is the Init of the key, and a message is in the
buffer only if its sequence number was seen. Proposals with the same key agree
on proposer, height and round and can differ only in their block. A buffer may
therefore mix the parts of two blocks (this happens: see `streaming_reuse`), but its Fin part
carries the signature of one of them, and a signature made over other chunks
does not verify, so what passes the check is that one block. Nothing is
accepted twice because only message 0 sets `init_info`, completion takes
`init_info` away, and message 0 is never inserted again (`AcceptedInv`).
That a stream completes needs the opposite direction (`CompletionInv`): as long as a
message is missing, the buffer of a proposal with a stream id of its own is sorted and
holds exactly what arrived. When the last message comes, whichever it is, position
and sequence number agree, and what is assembled is the block.

**Node.** The invariant has two halves. The channel: the engine runs ahead, but the
`StartedRound` before a `GetValue` in the channel says which round the application
will be in when it gets there (`RoundAt`), and behind a `ConsensusReady` or `Decided`
the engine waits (`Waits`). The database: every transaction, and so every prefix of
the transactions of a handler, keeps the tables in order; a crash leaves one of these
prefixes.

**Node and Ledger.** `commit` finds a proposal by height and round alone. It finds
the decided one because only one was ever streamed for that height and round
(`StreamInv`): a peer streams one, and this node is asked for a value once in a round
while the height is not decided (`QueueInv`, `RoundInv`); when a height starts again
after a commit that found nothing, more is streamed but the store keeps the first
(`ProposalInv`). Then the decided tables hold exactly the last heights (`TableInv`),
and what was handed to execution is the decisions in order (`SpawnInv`), which is what
the refinement maps to `Ledger`.

**Execution.** A task computes its writes on a snapshot that others may overwrite
before it commits. It cannot be stale in the signer's account: an executed task holds
a block whose nonce is the account's (`ExecutedInv`), and until a proposer restarts no
two blocks of a signer have one nonce (`OrderInv`). What it wrote to the recipient
may be stale, which is the finding of `execution_overlap`. How stale has a bound: the
recipient holds at most as many credits as there are blocks appended, and so does what
an executed task is about to write, plus its own (`RecipientInv`). An append is
therefore one block applied to the committed accounts, except that the recipient's
balance becomes some number from 1 to the count of blocks appended: a step of
`Settlement`. None of this limits how many tasks run.

**Execution without overlap.** While `early` is empty every block was executed before
the next was decided; the snapshot of a task is then the committed state (`PacedInv`)
and each append is a step of `SequentialExecution`, credits included. Only a restart
empties `early` again, and leaves no task behind, so that the argument starts anew.

**Execution and its log.** The invariant (`LogIInv`) has three phases. As long as
`early` is empty the blocks appended ascend in height and each took one unit from its
signer (`AscendInv`), and the executions in the log ascend too (`ReadInv`): a task that
runs is the last one in it, so the final balance it prints finds its own execution, and
the last execution of each signer holds the balance of its account, whether its block
was appended or failed (`UpToDate`). Two consecutive executions of a signer then agree
(`Follows`), which is all that `verify` compares. When executions first overlap and the
earlier of them is above the heights checked, the checked heights are over for good:
their executions are in the log, their report is what it will be, and their blocks are
the first of those appended, with the states around them in `history` (`Frozen`). From
then on nothing is said of the log but that no line changes an execution at a checked
height: the last height printed is above them. If a checked height overlapped,
nothing is said until the next restart. The blocks an RPC server has at the heights
checked, none missing, are those appended, and its state at a height and the one before
are the states around that block in `history`, between which the signer was charged.

**Wire.** The invariant says that what is on the wire is the encoding of what was
sent with one damage done to it; all the work is in the conversions, one lemma for each
type and direction. They need `MarksApart`: the mark of a missing field, of malformed
bytes, of an error and of a panic is none of the data a message holds, which the types of the code
guarantee; TLC evaluates it for the instance of `codec`. `VoteSetFromProto` decodes one vote
after the other; the theorems are about sets of two votes and certificates of two
signatures, the messages of `Wire`.

**Certificates.** Rows of the store and responses are encodings of a certificate that
verifies for the value beside it; the conversions give back what they were given, for
which it matters that marks and data are told apart; and `SetToSeq` lists every vote of
the quorum. That the value is that of the certificate comes from `Decide`, as said above.

**Validators.** In rounds of one height fewer than validators, proposers differ
(the rotation is injective over a cycle), so each round that passed without a
decision is charged to a crashed validator of its own or to a round cut short.

**Testnet.** A command that makes a network overwrites, and each of its writes is of a
file of its own: what it has written so far is what will be there in the end
(`MakingInv`), and no network counts as made while it runs. `init` without `--overwrite`
changes only files that are absent, and in a network made none is (`NetworkInv`).

## Only model-checked, not modelled

Beyond the prover: liveness under fairness and `ENABLED` (`CatchesUp`,
`EveryHeightDecided`); and, since it takes induction over the data, the conversion of
vote sets of any length (certificates of any length are in `CertificatesProofs`). Properties whose violation is the expected answer are not proved false: their runs show it.

Not modelled:

- The engine, the network stack, the write-ahead log, `redb`, Reth's provider
  and EVM are libraries outside the repository; the actions that stand for them
  are marked `external` in the map.
- `RestreamProposal` (not implemented in the code), `ExtendVote` and
  `VerifyVoteExtension` (constant answers), `PeerJoined`/`PeerLeft` (a set
  nothing reads), metrics, log output.
- The RPC server (queries are answered by Reth), metrics, logging and the set-up
  of the runtime: nothing in the program reads what they do. Parsing of options
  and the settings a configuration only passes on to the libraries.
- The byte formats below the level of protobuf fields and the encoding of
  database keys, except for the order of keys, which pruning uses.

Abstractions that matter: hashes and signatures are ideal (a value is identified
with its data, although the code's value id is a 64-bit SipHash); one receiver
per `Streaming` instance (receivers share nothing); one node per `Node`
instance, the rest of the network being its decisions. A log line appears with
the step that computes it, and the RPC server answers for a number without a
block with the state of the last block below it.

## Plan

1. *Done.* `Streaming` with its refinement and proofs; `Store` and `Node` with
   `Ledger`; `Execution` with `SequentialExecution`; `Codec`, `Wire`,
   `Certificates`; `Validators`.
2. *Done.* The start of a node on the store of an earlier network
   (`ReusedSpec`); heights without a block and
   restarts in the sequential specification; the generator and the verifier of
   `bin/utils.rs` (`ExecutionLog`); the commands that set up networks (`Testnet`);
   `Wire` and `Certificates` checked in one run.
3. *Done.* Every safety property of a passing run and the four refinements, proved.
4. Worth extending: `Node` composed with `Streaming` instead of its summary, with
   two nodes exchanging proposals; `Node` composed with `Execution` so that a
   crash loses running executions.
