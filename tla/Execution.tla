------------------------------- MODULE Execution -------------------------------
(* The execution of decided blocks on the node that runs the RPC server         *)
(* (BlockExecutor).  commit hands each block to a blocking task of its own and  *)
(* does not wait for it: next_block runs concurrently with the next blocks'.    *)
(* A task reads the accounts twice, each time a snapshot of what is committed   *)
(* then, and writes the accounts it computed in one transaction.                *)
(*                                                                              *)
(* The blocks are those the generator writes: all transactions of a block have  *)
(* the same signer, with consecutive nonces over the blocks of one file, and    *)
(* pay the same recipient.  A block is one transfer of 1, and Recipient stands  *)
(* for every account that blocks of several signers credit.  The node whose     *)
(* file a block is from is also its signer.                                     *)
(*                                                                              *)
(* The provider (reth) is external: latest() gives a consistent snapshot, and   *)
(* one read-write transaction at a time overwrites what it writes.              *)
EXTENDS Integers, FiniteSets, SequencesExt

CONSTANTS
  Signers,      \* the nodes that propose blocks
  Recipient,    \* the account they pay
  Funds,        \* balance of a signer at genesis
  MaxHeight,    \* bound on the heights decided
  NoBlock,      \* a height decided without data to execute
  MaxSkipped,   \* bound on those heights
  MaxRunning,   \* bound on the tasks that run at the same time
  MaxLost,      \* bound on the blocks proposed but not decided
  MaxRereads,   \* bound on the restarts of proposers
  MaxRestarts   \* bound on the restarts of this node

ASSUME SignersAssumption == Recipient \notin Signers
ASSUME FundsAssumption == Funds \in Nat
ASSUME BoundsAssumption ==
  /\ MaxHeight \in Nat /\ MaxSkipped \in Nat /\ MaxRunning \in Nat
  /\ MaxLost \in Nat /\ MaxRereads \in Nat /\ MaxRestarts \in Nat
ASSUME NoBlockAssumption == NoBlock \notin [signer : Signers, nonce : Nat]

VARIABLES
  next,       \* per signer: the nonce of the next block of its file
  chain,      \* what was decided, by height: the block handed to execution or NoBlock
  tasks,      \* per height: the task of next_block
  accounts,   \* the committed state: nonce and balance per account
  appended,   \* the heights of the blocks appended, in order
  lost, rereads, restarts

counters == <<lost, rereads, restarts>>
vars == <<next, chain, tasks, accounts, appended, counters>>

-------------------------------------------------------------------------------
AllAccounts == Signers \cup {Recipient}
Genesis == [a \in AllAccounts |-> [nonce |-> 0, balance |-> IF a \in Signers THEN Funds ELSE 0]]

Block(signer, nonce) == [signer |-> signer, nonce |-> nonce]

(* What executing a block on a snapshot requires, and the accounts it writes.   *)
Applies(snapshot, block) ==
  /\ snapshot[block.signer].nonce = block.nonce
  /\ snapshot[block.signer].balance > 0

WritesOfAll(snapshot, block) ==    \* mutant: the whole snapshot is written back
  [a \in AllAccounts |->
     IF a = block.signer
     THEN [nonce |-> block.nonce + 1, balance |-> snapshot[a].balance - 1]
     ELSE IF a = Recipient THEN [snapshot[a] EXCEPT !.balance = @ + 1] ELSE snapshot[a]]
Writes(snapshot, block) ==
  [a \in {block.signer, Recipient} |->
     IF a = block.signer
     THEN [nonce |-> block.nonce + 1, balance |-> snapshot[a].balance - 1]
     ELSE [snapshot[a] EXCEPT !.balance = @ + 1]]

Overwritten(state, writes) ==
  [a \in AllAccounts |-> IF a \in DOMAIN writes THEN writes[a] ELSE state[a]]
After(state, block) == Overwritten(state, Writes(state, block))

Task(step, initial, writes) == [step |-> step, initial |-> initial, writes |-> writes]
NoTask == Task("none", 0, <<>>)
Running == {h \in 1..MaxHeight : tasks[h].step \in {"spawned", "read", "executed", "appended"}}

-------------------------------------------------------------------------------
(* A proposed block is decided and committed; commit spawns a task for it.      *)
Spawn(s) ==
  LET h == Len(chain) + 1 IN
  /\ h <= MaxHeight /\ Cardinality(Running) < MaxRunning
  /\ chain' = Append(chain, Block(s, next[s]))
  /\ next' = [next EXCEPT ![s] = @ + 1]
  /\ tasks' = [tasks EXCEPT ![h] = Task("spawned", 0, <<>>)]
  /\ UNCHANGED <<accounts, appended, counters>>

(* A height is decided whose data is empty, its proposer being at the end of    *)
(* its file, or was not stored here: commit hands nothing to execution.         *)
Skipped == {h \in DOMAIN chain : chain[h] = NoBlock}
Skip ==
  /\ Len(chain) < MaxHeight /\ Cardinality(Running) < MaxRunning
  /\ Cardinality(Skipped) < MaxSkipped
  /\ chain' = Append(chain, NoBlock)
  /\ UNCHANGED <<next, tasks, accounts, appended, counters>>

(* A block read from a file for a round that did not decide, or decided while   *)
(* this node did not have its data: the next block read is the one after it.    *)
Lose(s) ==
  /\ lost < MaxLost
  /\ lost' = lost + 1
  /\ next' = [next EXCEPT ![s] = @ + 1]
  /\ UNCHANGED <<chain, tasks, accounts, appended, rereads, restarts>>

(* A proposer restarts and reads its file from the beginning.                   *)
Reread(s) ==
  /\ rereads < MaxRereads /\ next[s] # 0
  /\ rereads' = rereads + 1
  /\ next' = [next EXCEPT ![s] = 0]
  /\ UNCHANGED <<chain, tasks, accounts, appended, lost, restarts>>

(* next_block: the initial balance of the signer.                               *)
ReadInitial(h) ==
  /\ tasks[h].step = "spawned"
  /\ tasks' = [tasks EXCEPT ![h] = Task("read", accounts[chain[h].signer].balance, <<>>)]
  /\ UNCHANGED <<next, chain, accounts, appended, counters>>

(* Another snapshot, and the block executed on it.                              *)
Execute(h) ==
  /\ tasks[h].step = "read"
  /\ Applies(accounts, chain[h])
  /\ tasks' = [tasks EXCEPT ![h].step = "executed", ![h].writes = Writes(accounts, chain[h])]
  /\ UNCHANGED <<next, chain, accounts, appended, counters>>

(* The executor returns an error; it is logged.                                 *)
FailToExecute(h) ==
  /\ tasks[h].step = "read"
  /\ ~Applies(accounts, chain[h])
  /\ tasks' = [tasks EXCEPT ![h] = Task("failed", 0, <<>>)]
  /\ UNCHANGED <<next, chain, accounts, appended, counters>>

(* append_blocks_with_state and commit.                                         *)
AppendUncommitted(h) ==    \* mutant: without provider_rw.commit()
  /\ tasks[h].step = "executed"
  /\ tasks' = [tasks EXCEPT ![h].step = "appended"]
  /\ UNCHANGED <<next, chain, accounts, appended, counters>>

AppendBlock(h) ==
  /\ tasks[h].step = "executed"
  /\ accounts' = Overwritten(accounts, tasks[h].writes)
  /\ appended' = Append(appended, h)
  /\ tasks' = [tasks EXCEPT ![h].step = "appended"]
  /\ UNCHANGED <<next, chain, counters>>

(* The balance of the signer must not have increased; the block stays appended  *)
(* in either case.                                                              *)
FinalNotBelow(h) == accounts[chain[h].signer].balance = tasks[h].initial  \* mutant
FinalAccepted(h) == accounts[chain[h].signer].balance <= tasks[h].initial
Finish(h) ==
  /\ tasks[h].step = "appended"
  /\ tasks' = [tasks EXCEPT ![h] =
                 Task(IF FinalAccepted(h) THEN "succeeded" ELSE "failed", 0, <<>>)]
  /\ UNCHANGED <<next, chain, accounts, appended, counters>>

(* BlockExecutor::new deletes eth_db and starts from genesis; what was decided  *)
(* before is not executed again.                                                *)
AccountsKept == accounts      \* mutant: the existing database is opened
NoAccounts == <<>>            \* mutant: the genesis state is not initialized
AccountsAtStart == Genesis
Restart ==
  /\ restarts < MaxRestarts
  /\ restarts' = restarts + 1
  /\ accounts' = AccountsAtStart
  /\ appended' = <<>>
  /\ tasks' = [h \in 1..MaxHeight |-> NoTask]
  /\ UNCHANGED <<next, chain, lost, rereads>>

-------------------------------------------------------------------------------
Init ==
  /\ next = [s \in Signers |-> 0]
  /\ chain = <<>>
  /\ tasks = [h \in 1..MaxHeight |-> NoTask]
  /\ accounts = Genesis
  /\ appended = <<>>
  /\ lost = 0
  /\ rereads = 0
  /\ restarts = 0

TaskStep(h) ==
  ReadInitial(h) \/ Execute(h) \/ FailToExecute(h) \/ AppendBlock(h) \/ Finish(h)

Next ==
  \/ \E s \in Signers : Spawn(s) \/ Lose(s) \/ Reread(s)
  \/ \E h \in 1..MaxHeight : TaskStep(h)
  \/ Skip
  \/ Restart

Spec == Init /\ [][Next]_vars

-------------------------------------------------------------------------------
(* Properties.                                                                  *)

TypeOK ==
  /\ next \in [Signers -> Nat]
  /\ chain \in Seq([signer : Signers, nonce : Nat] \cup {NoBlock})
  /\ Len(chain) <= MaxHeight
  /\ accounts \in [AllAccounts -> [nonce : Nat, balance : Nat]]
  /\ appended \in Seq(1..Len(chain))
  /\ DOMAIN tasks = 1..MaxHeight
  /\ \A h \in 1..MaxHeight : tasks[h].step # "none" => h \in DOMAIN chain \ Skipped

(* Where the blocks of a signer are among those appended.                       *)
OwnPlaces(s) == {i \in DOMAIN appended : chain[appended[i]].signer = s}

(* However the tasks overlap and whatever fails, the blocks of one signer are   *)
(* appended in the order of its file without a gap, each once, and its account  *)
(* is exactly what they leave: a task that read a stale account fails instead.  *)
(* This is so as long as no proposer restarts and proposes its blocks again:    *)
(* the same block may then be executed twice on the same accounts.              *)
SignersExact ==
  rereads = 0 => \A s \in Signers :
    LET count == Cardinality(OwnPlaces(s)) IN
    /\ \A i \in OwnPlaces(s) :
         chain[appended[i]].nonce = Cardinality({j \in OwnPlaces(s) : j < i})
    /\ accounts[s] = [nonce |-> count, balance |-> Funds - count]

(* The log tells what happened: what is reported as successfully executed was   *)
(* appended, and what is reported as failed was not, although the last check    *)
(* comes after the commit and other tasks may commit in between.  The second    *)
(* half is lost with SignersExact: a proposer that restarts can make a block    *)
(* execute twice, and the older execution may then raise the balance again.     *)
ReportedAsAppended ==
  \A h \in 1..MaxHeight :
    /\ tasks[h].step = "succeeded" => h \in Range(appended)
    /\ tasks[h].step = "failed" /\ rereads = 0 => h \notin Range(appended)

(* The account that blocks of several signers credit holds what every appended  *)
(* block paid it: no execution overwrites another's (state.rs spawns them       *)
(* without waiting; README.md: "The RPC server is then able to serve queries    *)
(* against that state").                                                        *)
RecipientPaid == accounts[Recipient].balance = Len(appended)

AppliesTo(state, block) == block # NoBlock /\ Applies(state, block)

Settled == INSTANCE Settlement WITH Shared <- Recipient, Applies <- AppliesTo

(* However the executions overlap, they implement Settlement, until a proposer  *)
(* restarts: a block takes effect at most once and only on accounts it applies  *)
(* to when it is committed, it changes the account of its signer and of no      *)
(* other, and the account all blocks credit may lose a credit but never gains   *)
(* one (state.rs:270 spawns the executions without waiting for them).           *)
ImplementsSettlement ==
  Settled!Init /\ [][rereads' = 0 => Settled!Next]_<<chain, appended, accounts, restarts>>
===============================================================================
