---------------------------- MODULE ExecutionProofs ----------------------------
(* What modules Execution and ExecutionLog promise, proved for every value of   *)
(* the constants.                                                               *)
(*                                                                              *)
(* Tasks overlap, and each computes its writes on a snapshot that is stale when *)
(* it commits.  A signer's account is exact all the same because a task whose   *)
(* writes are computed holds the only block that could change this account:     *)
(* its nonce is the account's, and as long as no proposer starts its file again *)
(* no two decided blocks of a signer have the same nonce.                       *)
EXTENDS ExecutionLog, TLAPS, FiniteSetTheorems, SequenceTheorems

Steps == {"none", "spawned", "read", "executed", "appended", "succeeded", "failed"}
Account == [nonce : Nat, balance : Nat]
FileBlock == [signer : Signers, nonce : Nat]
Decisions == FileBlock \cup {NoBlock}

(* What next_block holds between its steps, as far as a later step uses it.     *)
TaskTypes ==
  \A h \in 1..MaxHeight :
    /\ tasks[h] = Task(tasks[h].step, tasks[h].initial, tasks[h].writes)
    /\ tasks[h].step \in Steps
    /\ tasks[h].step # "none" => h \in DOMAIN chain \ Skipped
    /\ tasks[h].step \in {"read", "executed", "appended"} => tasks[h].initial \in Nat
    /\ tasks[h].step = "executed" =>
         tasks[h].writes \in [{chain[h].signer, Recipient} -> Account]

TypeInv ==
  /\ TypeOK
  /\ rereads \in Nat
  /\ tasks = [h \in 1..MaxHeight |-> tasks[h]]
  /\ TaskTypes

(* The blocks of a file are decided in their order.                             *)
OrderInv ==
  \A h \in DOMAIN chain \ Skipped :
    /\ chain[h].nonce < next[chain[h].signer]
    /\ \A g \in DOMAIN chain \ Skipped :
         g < h /\ chain[g].signer = chain[h].signer => chain[g].nonce < chain[h].nonce

(* A block executed and not appended yet is still the next one of its signer,   *)
(* and what was read of the signer's account has not changed since.             *)
ExecutedInv ==
  \A h \in 1..MaxHeight : tasks[h].step = "executed" =>
    LET account == accounts[chain[h].signer] IN
    /\ Applies(accounts, chain[h])
    /\ tasks[h].writes[chain[h].signer] =
         [nonce |-> account.nonce + 1, balance |-> account.balance - 1]

(* The balance of a signer only falls while a task looks at it.                 *)
BalanceInv ==
  \A h \in 1..MaxHeight : tasks[h].step \in {"read", "executed", "appended"} =>
    accounts[chain[h].signer].balance <= tasks[h].initial

AppendedInv ==
  \A h \in 1..MaxHeight :
    /\ tasks[h].step \in {"appended", "succeeded"} => h \in Range(appended)
    /\ h \in Range(appended) => tasks[h].step \in {"appended", "succeeded", "failed"}

(* The inductive invariant.  Its last part holds until a proposer restarts.     *)
ExecutionInv ==
  /\ TypeInv
  /\ AppendedInv
  /\ ReportedAsAppended
  /\ SignersExact
  /\ rereads = 0 => OrderInv /\ ExecutedInv /\ BalanceInv

-------------------------------------------------------------------------------
(* What appending to the chain and to the appended blocks does.                 *)
LEMMA AppendFacts ==
  ASSUME NEW S, NEW q \in Seq(S), NEW e \in S
  PROVE  /\ Append(q, e) \in Seq(S)
         /\ Len(q) \in Nat
         /\ DOMAIN q = 1..Len(q)
         /\ DOMAIN Append(q, e) = 1..Len(q) + 1
         /\ Len(Append(q, e)) = Len(q) + 1
         /\ \A i \in 1..Len(q) : Append(q, e)[i] = q[i]
         /\ Append(q, e)[Len(q) + 1] = e
BY AppendProperties, LenProperties

(* What the types say of a task that has a block.                               *)
LEMMA TaskFacts ==
  ASSUME TypeInv
  PROVE  /\ chain \in Seq(Decisions) /\ Len(chain) \in Nat /\ DOMAIN chain = 1..Len(chain)
         /\ \A h \in DOMAIN chain \ Skipped :
              /\ h \in 1..MaxHeight /\ chain[h] \in FileBlock
              /\ chain[h].signer \in Signers /\ chain[h].nonce \in Nat
              /\ chain[h] # NoBlock
         /\ \A s \in Signers : s \in AllAccounts /\ s # Recipient
         /\ \A a \in AllAccounts : /\ accounts[a] \in Account
                                   /\ accounts[a].nonce \in Nat /\ accounts[a].balance \in Nat
<1>1. chain \in Seq(Decisions) /\ Len(chain) <= MaxHeight
  BY DEF TypeInv, TypeOK, Decisions, FileBlock
<1>2. Len(chain) \in Nat /\ DOMAIN chain = 1..Len(chain)
  BY <1>1, LenProperties
<1>3. \A h \in DOMAIN chain : chain[h] \in Decisions
  BY <1>1, <1>2, ElementOfSeq
<1>4. \A h \in DOMAIN chain \ Skipped : h \in 1..MaxHeight /\ chain[h] \in FileBlock
  BY <1>1, <1>2, <1>3, BoundsAssumption DEF Skipped, Decisions
<1>5. \A h \in DOMAIN chain \ Skipped : chain[h].signer \in Signers /\ chain[h].nonce \in Nat
  BY <1>4 DEF FileBlock
<1>6. \A a \in AllAccounts : accounts[a] \in Account
  BY DEF TypeInv, TypeOK, Account
<1>7. \A a \in AllAccounts : accounts[a].nonce \in Nat /\ accounts[a].balance \in Nat
  BY <1>6 DEF Account
<1>8. \A s \in Signers : s \in AllAccounts /\ s # Recipient
  BY SignersAssumption DEF AllAccounts
<1> QED BY <1>1, <1>2, <1>4, <1>5, <1>6, <1>7, <1>8, NoBlockAssumption DEF FileBlock

(* A step of a task writes well-typed accounts.                                 *)
LEMMA WritesType ==
  ASSUME NEW state \in [AllAccounts -> Account], NEW block \in FileBlock, Applies(state, block)
  PROVE  /\ Writes(state, block) \in [{block.signer, Recipient} -> Account]
         /\ Writes(state, block)[block.signer] =
              [nonce |-> state[block.signer].nonce + 1,
               balance |-> state[block.signer].balance - 1]
<1>1. /\ block.signer \in Signers /\ block.nonce \in Nat
      /\ block.signer \in AllAccounts /\ Recipient \in AllAccounts
      /\ block.signer # Recipient
  BY SignersAssumption DEF FileBlock, AllAccounts
<1>2. /\ state[block.signer] \in Account /\ state[Recipient] \in Account
  BY <1>1
<1>3. /\ state[block.signer].nonce = block.nonce /\ state[block.signer].balance > 0
      /\ state[block.signer].balance \in Nat
  BY <1>2 DEF Applies, Account
<1>4. /\ [nonce |-> block.nonce + 1, balance |-> state[block.signer].balance - 1] \in Account
      /\ [state[Recipient] EXCEPT !.balance = @ + 1] \in Account
  BY <1>1, <1>2, <1>3 DEF Account
<1> QED BY <1>1, <1>3, <1>4 DEF Writes

(* Writes change no other account.                                              *)
LEMMA OverwrittenType ==
  ASSUME NEW state \in [AllAccounts -> Account], NEW s \in Signers,
         NEW writes \in [{s, Recipient} -> Account]
  PROVE  /\ Overwritten(state, writes) \in [AllAccounts -> Account]
         /\ \A a \in Signers : Overwritten(state, writes)[a] = IF a = s THEN writes[s] ELSE state[a]
BY SignersAssumption DEF Overwritten, AllAccounts

-------------------------------------------------------------------------------
(* A step of next_block for the block of a height.                              *)
LEMMA TaskChange ==
  ASSUME TypeInv, NEW h \in 1..MaxHeight, tasks[h].step # "none",
         NEW task, task = Task(task.step, task.initial, task.writes),
         task.step \in Steps,
         task.step \in {"read", "executed", "appended"} => task.initial \in Nat,
         task.step = "executed" => task.writes \in [{chain[h].signer, Recipient} -> Account],
         tasks' = [tasks EXCEPT ![h] = task], chain' = chain
  PROVE  /\ tasks' = [g \in 1..MaxHeight |-> tasks'[g]]
         /\ TaskTypes'
         /\ DOMAIN tasks' = 1..MaxHeight
         /\ \A g \in 1..MaxHeight : tasks'[g].step # "none" => g \in (DOMAIN chain \ Skipped)'
<1>1. tasks = [g \in 1..MaxHeight |-> tasks[g]]
  BY DEF TypeInv
<1>2. /\ tasks' = [g \in 1..MaxHeight |-> tasks'[g]]
      /\ tasks'[h] = task /\ \A g \in 1..MaxHeight : g # h => tasks'[g] = tasks[g]
  BY <1>1
<1>3. TaskTypes /\ (DOMAIN chain \ Skipped)' = DOMAIN chain \ Skipped
  BY DEF TypeInv, Skipped
<1>4. TaskTypes'
  BY <1>2, <1>3 DEF TaskTypes
<1> QED BY <1>2, <1>3, <1>4 DEF TaskTypes

(* The types of the tasks when a height is decided.                             *)
LEMMA ChainGrows ==
  ASSUME TypeInv, NEW block \in Decisions, chain' = Append(chain, block), Len(chain) < MaxHeight
  PROVE  /\ chain' \in Seq(Decisions) /\ Len(chain') = Len(chain) + 1 /\ Len(chain') <= MaxHeight
         /\ DOMAIN chain' = 1..Len(chain) + 1
         /\ \A h \in DOMAIN chain : chain'[h] = chain[h]
         /\ chain'[Len(chain) + 1] = block
         /\ appended \in Seq(1..Len(chain'))
         /\ (DOMAIN chain \ Skipped)' =
              (DOMAIN chain \ Skipped) \cup (IF block = NoBlock THEN {} ELSE {Len(chain) + 1})
<1>1. /\ chain \in Seq(Decisions) /\ Len(chain) \in Nat /\ DOMAIN chain = 1..Len(chain)
  BY TaskFacts
<1>2. /\ chain' \in Seq(Decisions) /\ Len(chain') = Len(chain) + 1
      /\ DOMAIN chain' = 1..Len(chain) + 1
      /\ \A h \in DOMAIN chain : chain'[h] = chain[h]
      /\ chain'[Len(chain) + 1] = block
  BY <1>1, AppendFacts
<1>3. appended \in Seq(1..Len(chain'))
  <2>1. appended \in Seq(1..Len(chain)) /\ 1..Len(chain) \subseteq 1..Len(chain')
    BY <1>1, <1>2 DEF TypeInv, TypeOK
  <2> QED BY <2>1, SeqMonotonic
<1>4. (DOMAIN chain \ Skipped)' =
        (DOMAIN chain \ Skipped) \cup (IF block = NoBlock THEN {} ELSE {Len(chain) + 1})
  <2>1. DOMAIN chain' = DOMAIN chain \cup {Len(chain) + 1} /\ Len(chain) + 1 \notin DOMAIN chain
    BY <1>1, <1>2
  <2> QED BY <1>2, <2>1 DEF Skipped
<1> QED BY <1>1, <1>2, <1>3, <1>4, BoundsAssumption

-------------------------------------------------------------------------------
(* Every state the node starts in has the right types.                          *)
LEMMA TypeInit == Init => TypeInv
<1>. SUFFICES ASSUME Init PROVE TypeInv
  OBVIOUS
<1>1. accounts \in [AllAccounts -> [nonce : Nat, balance : Nat]]
  BY FundsAssumption DEF Init, Genesis
<1>2. /\ chain \in Seq(Decisions) /\ appended \in Seq(1..Len(chain)) /\ Len(chain) = 0
  BY EmptySeq DEF Init
<1>3. /\ tasks = [h \in 1..MaxHeight |-> NoTask]
      /\ \A h \in 1..MaxHeight : tasks[h] = NoTask
  BY DEF Init
<1>4. NoTask = Task(NoTask.step, NoTask.initial, NoTask.writes) /\ NoTask.step = "none"
  BY DEF NoTask, Task
<1>5. next \in [Signers -> Nat] /\ rereads \in Nat
  BY DEF Init
<1>6. TaskTypes
  BY <1>3, <1>4 DEF TaskTypes, Steps
<1> QED BY <1>1, <1>2, <1>3, <1>4, <1>5, <1>6, BoundsAssumption
        DEF TypeInv, TypeOK, Decisions, FileBlock

(* Every step of a task, of a proposer or of the network keeps the types.       *)
LEMMA TypeStep ==
  ASSUME TypeInv, [Next]_vars
  PROVE  TypeInv'
<1>1. /\ chain \in Seq(Decisions) /\ Len(chain) \in Nat /\ DOMAIN chain = 1..Len(chain)
      /\ Len(chain) <= MaxHeight /\ MaxHeight \in Nat
      /\ next \in [Signers -> Nat] /\ rereads \in Nat
      /\ accounts \in [AllAccounts -> Account]
      /\ appended \in Seq(1..Len(chain))
      /\ tasks = [h \in 1..MaxHeight |-> tasks[h]] /\ TaskTypes
  BY TaskFacts, BoundsAssumption DEF TypeInv, TypeOK, Account
<1>2. ASSUME NEW s \in Signers, Spawn(s)
      PROVE  TypeInv'
  <2>1. PICK h : h = Len(chain) + 1
    OBVIOUS
  <2>2. h \in 1..MaxHeight /\ Len(chain) < MaxHeight
    BY <1>1, <1>2, <2>1 DEF Spawn
  <2>3. PICK block : block = Block(s, next[s])
    OBVIOUS
  <2>4. block \in FileBlock /\ block \in Decisions /\ block # NoBlock
    BY <1>1, <2>3, NoBlockAssumption DEF Block, FileBlock, Decisions
  <2>5. chain' = Append(chain, block)
    BY <1>2, <2>3 DEF Spawn
  <2>6. /\ chain' \in Seq(Decisions) /\ Len(chain') <= MaxHeight
        /\ appended \in Seq(1..Len(chain'))
        /\ \A g \in DOMAIN chain : chain'[g] = chain[g]
        /\ (DOMAIN chain \ Skipped)' = (DOMAIN chain \ Skipped) \cup {h}
    BY <2>1, <2>2, <2>4, <2>5, ChainGrows
  <2>7. PICK task : task = Task("spawned", 0, <<>>)
    OBVIOUS
  <2>8. task = Task(task.step, task.initial, task.writes) /\ task.step = "spawned"
    BY <2>7 DEF Task
  <2>9. tasks' = [tasks EXCEPT ![h] = task]
    BY <1>2, <2>1, <2>7 DEF Spawn
  <2>10. /\ tasks' = [g \in 1..MaxHeight |-> tasks'[g]] /\ DOMAIN tasks' = 1..MaxHeight
         /\ tasks'[h] = task /\ \A g \in 1..MaxHeight : g # h => tasks'[g] = tasks[g]
    BY <1>1, <2>2, <2>9
  <2>11. TaskTypes'
    BY <1>1, <2>6, <2>8, <2>10 DEF TaskTypes, Steps
  <2>12. next' \in [Signers -> Nat]
    BY <1>1, <1>2 DEF Spawn
  <2> QED BY <1>1, <1>2, <2>6, <2>10, <2>11, <2>12
          DEF Spawn, counters, TypeInv, TypeOK, TaskTypes, Account, Decisions, FileBlock
<1>3. ASSUME NEW s \in Signers, Lose(s) \/ Reread(s)
      PROVE  TypeInv'
  <2>1. next' \in [Signers -> Nat] /\ rereads' \in Nat
    BY <1>1, <1>3 DEF Lose, Reread
  <2> QED BY <1>1, <1>3, <2>1 DEF Lose, Reread, TypeInv, TypeOK, TaskTypes, Skipped
<1>4. ASSUME NEW h \in 1..MaxHeight, TaskStep(h)
      PROVE  TypeInv'
  <2>1. tasks[h].step # "none" /\ h \in DOMAIN chain \ Skipped
    BY <1>1, <1>4 DEF TaskStep, ReadInitial, Execute, FailToExecute, AppendBlock, Finish, TaskTypes
  <2>2. /\ chain[h] \in FileBlock /\ chain[h].signer \in Signers
        /\ accounts[chain[h].signer].balance \in Nat
    BY <2>1, TaskFacts
  <2>3. UNCHANGED <<next, chain, rereads>>
    BY <1>4 DEF TaskStep, ReadInitial, Execute, FailToExecute, AppendBlock, Finish, counters
  <2>4. /\ tasks' = [g \in 1..MaxHeight |-> tasks'[g]] /\ TaskTypes'
        /\ DOMAIN tasks' = 1..MaxHeight
        /\ \A g \in 1..MaxHeight : tasks'[g].step # "none" => g \in (DOMAIN chain \ Skipped)'
    <3>1. CASE ReadInitial(h)
      <4>1. PICK task : task = Task("read", accounts[chain[h].signer].balance, <<>>)
        OBVIOUS
      <4>2. task = Task(task.step, task.initial, task.writes)
            /\ task.step = "read" /\ task.initial \in Nat
        BY <2>2, <4>1 DEF Task
      <4>3. tasks' = [tasks EXCEPT ![h] = task]
        BY <3>1, <4>1 DEF ReadInitial
      <4> QED BY <2>1, <2>3, <4>2, <4>3, TaskChange DEF Steps
    <3>2. CASE Execute(h)
      <4>1. PICK task : task = Task("executed", tasks[h].initial, Writes(accounts, chain[h]))
        OBVIOUS
      <4>2. task = Task(task.step, task.initial, task.writes) /\ task.step = "executed"
            /\ task.initial = tasks[h].initial /\ task.writes = Writes(accounts, chain[h])
        BY <4>1 DEF Task
      <4>3. tasks' = [tasks EXCEPT ![h] = task]
        <5>1. tasks[h] = Task(tasks[h].step, tasks[h].initial, tasks[h].writes)
          BY <1>1 DEF TaskTypes
        <5>2. tasks' = [tasks EXCEPT ![h] = [[tasks[h] EXCEPT !.step = "executed"]
                                                EXCEPT !.writes = Writes(accounts, chain[h])]]
          BY <1>1, <3>2 DEF Execute
        <5>3. [[tasks[h] EXCEPT !.step = "executed"]
                  EXCEPT !.writes = Writes(accounts, chain[h])] = task
          <6>1. PICK e : e = [tasks[h] EXCEPT !.step = "executed"]
            OBVIOUS
          <6>2. e = [step |-> "executed", initial |-> tasks[h].initial, writes |-> tasks[h].writes]
            BY <5>1, <6>1 DEF Task
          <6>3. [e EXCEPT !.writes = Writes(accounts, chain[h])] = task
            BY <4>1, <6>2 DEF Task
          <6> QED BY <6>1, <6>3, Zenon
        <5> QED BY <5>2, <5>3
      <4>4. task.writes \in [{chain[h].signer, Recipient} -> Account]
        BY <1>1, <2>2, <3>2, <4>2, WritesType DEF Execute
      <4>5. task.initial \in Nat
        BY <1>1, <3>2, <4>2 DEF Execute, TaskTypes
      <4> QED BY <2>1, <2>3, <4>2, <4>3, <4>4, <4>5, TaskChange DEF Steps
    <3>3. CASE FailToExecute(h)
      <4>1. PICK task : task = Task("failed", 0, <<>>)
        OBVIOUS
      <4>2. task = Task(task.step, task.initial, task.writes) /\ task.step = "failed"
        BY <4>1 DEF Task
      <4>3. tasks' = [tasks EXCEPT ![h] = task]
        BY <3>3, <4>1 DEF FailToExecute
      <4> QED BY <2>1, <2>3, <4>2, <4>3, TaskChange DEF Steps
    <3>4. CASE AppendBlock(h)
      <4>1. PICK task : task = Task("appended", tasks[h].initial, tasks[h].writes)
        OBVIOUS
      <4>2. task = Task(task.step, task.initial, task.writes) /\ task.step = "appended"
            /\ task.initial = tasks[h].initial
        BY <4>1 DEF Task
      <4>3. tasks' = [tasks EXCEPT ![h] = task]
        <5>1. tasks[h] = Task(tasks[h].step, tasks[h].initial, tasks[h].writes)
          BY <1>1 DEF TaskTypes
        <5>2. tasks' = [tasks EXCEPT ![h] = [tasks[h] EXCEPT !.step = "appended"]]
          BY <1>1, <3>4 DEF AppendBlock
        <5>3. [tasks[h] EXCEPT !.step = "appended"] = task
          BY <4>1, <5>1 DEF Task
        <5> QED BY <5>2, <5>3
      <4>4. task.initial \in Nat
        BY <1>1, <3>4, <4>2 DEF AppendBlock, TaskTypes
      <4> QED BY <2>1, <2>3, <4>2, <4>3, <4>4, TaskChange DEF Steps
    <3>5. CASE Finish(h)
      <4>1. PICK task : task = Task(IF FinalAccepted(h) THEN "succeeded" ELSE "failed", 0, <<>>)
        OBVIOUS
      <4>2. task = Task(task.step, task.initial, task.writes) /\ task.step \in {"succeeded", "failed"}
        BY <4>1 DEF Task
      <4>3. tasks' = [tasks EXCEPT ![h] = task]
        BY <3>5, <4>1 DEF Finish
      <4> QED BY <2>1, <2>3, <4>2, <4>3, TaskChange DEF Steps
    <3> QED BY <1>4, <3>1, <3>2, <3>3, <3>4, <3>5 DEF TaskStep
  <2>5. accounts' \in [AllAccounts -> Account] /\ appended' \in Seq(1..Len(chain))
    <3>1. CASE AppendBlock(h)
      <4>1. tasks[h].writes \in [{chain[h].signer, Recipient} -> Account]
        BY <1>1, <3>1 DEF AppendBlock, TaskTypes
      <4>2. accounts' = Overwritten(accounts, tasks[h].writes) /\ appended' = Append(appended, h)
        BY <3>1 DEF AppendBlock
      <4>3. accounts' \in [AllAccounts -> Account]
        BY <1>1, <2>2, <4>1, <4>2, OverwrittenType
      <4>4. h \in 1..Len(chain)
        BY <1>1, <2>1
      <4> QED BY <1>1, <4>2, <4>3, <4>4, AppendFacts
    <3>2. CASE ~AppendBlock(h)
      BY <1>1, <1>4, <3>2 DEF TaskStep, ReadInitial, Execute, FailToExecute, Finish
    <3> QED BY <3>1, <3>2
  <2> QED BY <1>1, <2>3, <2>4, <2>5 DEF TypeInv, TypeOK, Account
<1>5. ASSUME Skip
      PROVE  TypeInv'
  <2>1. chain' = Append(chain, NoBlock) /\ Len(chain) < MaxHeight /\ NoBlock \in Decisions
    BY <1>5 DEF Skip, Decisions
  <2>2. /\ chain' \in Seq(Decisions) /\ Len(chain') <= MaxHeight
        /\ appended \in Seq(1..Len(chain'))
        /\ \A g \in DOMAIN chain : chain'[g] = chain[g]
        /\ (DOMAIN chain \ Skipped)' = DOMAIN chain \ Skipped
    BY <2>1, ChainGrows
  <2>3. UNCHANGED <<next, tasks, accounts, appended, rereads>>
    BY <1>5 DEF Skip, counters
  <2>4. TaskTypes'
    BY <1>1, <2>2, <2>3 DEF TaskTypes
  <2> QED BY <1>1, <2>2, <2>3, <2>4 DEF TypeInv, TypeOK, TaskTypes, Account, Decisions, FileBlock
<1>6. ASSUME Restart
      PROVE  TypeInv'
  <2>1. accounts' \in [AllAccounts -> Account]
    BY <1>6, FundsAssumption DEF Restart, AccountsAtStart, Genesis, Account
  <2>2. /\ tasks' = [h \in 1..MaxHeight |-> NoTask]
        /\ \A h \in 1..MaxHeight : tasks'[h] = NoTask
    BY <1>6 DEF Restart
  <2>3. NoTask = Task(NoTask.step, NoTask.initial, NoTask.writes) /\ NoTask.step = "none"
    BY DEF NoTask, Task
  <2>4. TaskTypes'
    BY <2>2, <2>3 DEF TaskTypes, Steps
  <2>5. appended' \in Seq(1..Len(chain)) /\ UNCHANGED <<chain, next, rereads>>
    BY <1>6, EmptySeq DEF Restart
  <2> QED BY <1>1, <2>1, <2>2, <2>3, <2>4, <2>5
          DEF TypeInv, TypeOK, Account, Decisions, FileBlock
<1>7. CASE UNCHANGED vars
  BY <1>1, <1>7 DEF vars, counters, TypeInv, TypeOK, TaskTypes, Skipped
<1> QED BY <1>2, <1>3, <1>4, <1>5, <1>6, <1>7 DEF Next

-------------------------------------------------------------------------------
(* The steps of next_block for the block of a height, by what they leave behind. *)
ReadsInitial(h) ==
  /\ tasks[h].step = "spawned" /\ tasks'[h].step = "read"
  /\ tasks'[h].initial = accounts[chain[h].signer].balance
  /\ UNCHANGED <<accounts, appended>>
Executes(h) ==
  /\ tasks[h].step = "read" /\ tasks'[h].step = "executed"
  /\ Applies(accounts, chain[h])
  /\ tasks'[h].writes = Writes(accounts, chain[h])
  /\ tasks'[h].initial = tasks[h].initial
  /\ UNCHANGED <<accounts, appended>>
Fails(h) ==
  /\ tasks[h].step = "read" /\ tasks'[h].step = "failed"
  /\ ~Applies(accounts, chain[h])
  /\ UNCHANGED <<accounts, appended>>
Appends(h) ==
  /\ tasks[h].step = "executed" /\ tasks'[h].step = "appended"
  /\ tasks'[h].initial = tasks[h].initial
  /\ accounts' = Overwritten(accounts, tasks[h].writes)
  /\ appended' = Append(appended, h)
Finishes(h) ==
  /\ tasks[h].step = "appended"
  /\ tasks'[h].step = IF FinalAccepted(h) THEN "succeeded" ELSE "failed"
  /\ UNCHANGED <<accounts, appended>>

(* Every step of a task is one of the five effects, on its own task only.       *)
LEMMA TaskEffect ==
  ASSUME TypeInv, NEW h \in 1..MaxHeight, TaskStep(h)
  PROVE  /\ UNCHANGED <<next, chain, rereads>>
         /\ h \in DOMAIN chain \ Skipped
         /\ \A g \in 1..MaxHeight : g # h => tasks'[g] = tasks[g]
         /\ ReadsInitial(h) \/ Executes(h) \/ Fails(h) \/ Appends(h) \/ Finishes(h)
<1>1. /\ tasks = [g \in 1..MaxHeight |-> tasks[g]]
      /\ tasks[h] = Task(tasks[h].step, tasks[h].initial, tasks[h].writes)
      /\ tasks[h].step # "none" => h \in DOMAIN chain \ Skipped
  BY DEF TypeInv, TaskTypes
<1>2. CASE ReadInitial(h)
  BY <1>1, <1>2 DEF ReadInitial, ReadsInitial, Task, counters
<1>3. CASE Execute(h)
  <2>1. \A g \in 1..MaxHeight : g # h => tasks'[g] = tasks[g]
    BY <1>1, <1>3 DEF Execute
  <2>2. tasks'[h] = [[tasks[h] EXCEPT !.step = "executed"]
                        EXCEPT !.writes = Writes(accounts, chain[h])]
    BY <1>1, <1>3 DEF Execute
  <2>3. PICK e : e = [tasks[h] EXCEPT !.step = "executed"]
    OBVIOUS
  <2>4. tasks'[h] = [e EXCEPT !.writes = Writes(accounts, chain[h])]
    BY <2>2, <2>3, Zenon
  <2>5. e = [step |-> "executed", initial |-> tasks[h].initial, writes |-> tasks[h].writes]
    BY <1>1, <2>3 DEF Task
  <2>6. /\ tasks'[h].step = "executed" /\ tasks'[h].initial = tasks[h].initial
        /\ tasks'[h].writes = Writes(accounts, chain[h])
    BY <2>4, <2>5
  <2> QED BY <1>1, <1>3, <2>1, <2>6 DEF Execute, Executes, counters
<1>4. CASE FailToExecute(h)
  BY <1>1, <1>4 DEF FailToExecute, Fails, Task, counters
<1>5. CASE AppendBlock(h)
  <2>1. /\ \A g \in 1..MaxHeight : g # h => tasks'[g] = tasks[g]
        /\ tasks'[h] = [tasks[h] EXCEPT !.step = "appended"]
    BY <1>1, <1>5 DEF AppendBlock
  <2>2. tasks'[h].step = "appended" /\ tasks'[h].initial = tasks[h].initial
    BY <1>1, <2>1 DEF Task
  <2> QED BY <1>1, <1>5, <2>1, <2>2 DEF AppendBlock, Appends, counters
<1>6. CASE Finish(h)
  BY <1>1, <1>6 DEF Finish, Finishes, Task, counters
<1> QED BY <1>2, <1>3, <1>4, <1>5, <1>6 DEF TaskStep

(* The places of a signer's blocks are counted by their number.                 *)
LEMMA PlacesFinite ==
  ASSUME TypeInv, NEW s \in Signers
  PROVE  /\ IsFiniteSet(OwnPlaces(s)) /\ Cardinality(OwnPlaces(s)) \in Nat
         /\ OwnPlaces(s) \subseteq 1..Len(appended) /\ Len(appended) \in Nat
<1>1. DOMAIN appended = 1..Len(appended) /\ Len(appended) \in Nat
  BY LenProperties DEF TypeInv, TypeOK
<1>2. OwnPlaces(s) \in SUBSET (1..Len(appended))
  BY <1>1 DEF OwnPlaces
<1>3. IsFiniteSet(1..Len(appended))
  BY <1>1, FS_Interval
<1> QED BY <1>1, <1>2, <1>3, FS_Subset, FS_CardinalityType

(* The accounts of the signers: a task that appends its block leaves the next   *)
(* nonce and one less to spend, and touches no other signer.                    *)
LEMMA SignerWritten ==
  ASSUME TypeInv, ExecutedInv, NEW h \in 1..MaxHeight, h \in DOMAIN chain \ Skipped, Appends(h)
  PROVE  /\ accounts[chain[h].signer].nonce = chain[h].nonce
         /\ accounts[chain[h].signer].balance > 0
         /\ \A s \in Signers :
              accounts'[s] = IF s = chain[h].signer
                             THEN [nonce |-> accounts[s].nonce + 1,
                                   balance |-> accounts[s].balance - 1]
                             ELSE accounts[s]
<1>1. /\ chain[h].signer \in Signers /\ accounts \in [AllAccounts -> Account]
  BY TaskFacts DEF TypeInv, TypeOK, Account
<1>2. /\ tasks[h].writes \in [{chain[h].signer, Recipient} -> Account]
      /\ accounts' = Overwritten(accounts, tasks[h].writes)
  BY DEF TypeInv, TaskTypes, Appends
<1>3. \A s \in Signers : accounts'[s] = IF s = chain[h].signer
                                        THEN tasks[h].writes[s] ELSE accounts[s]
  BY <1>1, <1>2, OverwrittenType
<1>4. /\ Applies(accounts, chain[h])
      /\ tasks[h].writes[chain[h].signer] =
           [nonce |-> accounts[chain[h].signer].nonce + 1,
            balance |-> accounts[chain[h].signer].balance - 1]
  BY DEF ExecutedInv, Appends
<1> QED BY <1>3, <1>4 DEF Applies

(* Two blocks of one signer cannot both be executed and not appended.           *)
LEMMA OnlyOneApplies ==
  ASSUME TypeInv, OrderInv, NEW g \in DOMAIN chain \ Skipped, NEW h \in DOMAIN chain \ Skipped,
         chain[g].signer = chain[h].signer, chain[g].nonce = chain[h].nonce
  PROVE  g = h
<1>1. g \in Nat /\ h \in Nat /\ chain[g].nonce \in Nat /\ chain[h].nonce \in Nat
  BY TaskFacts
<1>2. ~(g < h) /\ ~(h < g)
  BY <1>1 DEF OrderInv
<1> QED BY <1>1, <1>2

(* A step of a task keeps what is reported with what is appended.               *)
LEMMA TaskReports ==
  ASSUME ExecutionInv, NEW h \in 1..MaxHeight, TaskStep(h)
  PROVE  AppendedInv' /\ ReportedAsAppended'
<1>1. /\ UNCHANGED <<next, chain, rereads>> /\ h \in DOMAIN chain \ Skipped
      /\ \A g \in 1..MaxHeight : g # h => tasks'[g] = tasks[g]
      /\ ReadsInitial(h) \/ Executes(h) \/ Fails(h) \/ Appends(h) \/ Finishes(h)
  BY TaskEffect DEF ExecutionInv
<1>2. AppendedInv /\ ReportedAsAppended
  BY DEF ExecutionInv
<1>3. CASE ReadsInitial(h) \/ Executes(h) \/ Fails(h)
  <2>1. Range(appended)' = Range(appended)
    BY <1>3 DEF ReadsInitial, Executes, Fails
  <2>2. /\ tasks'[h].step \in {"read", "executed", "failed"}
        /\ tasks[h].step \in {"spawned", "read"}
    BY <1>3 DEF ReadsInitial, Executes, Fails
  <2> QED BY <1>1, <1>2, <2>1, <2>2 DEF AppendedInv, ReportedAsAppended
<1>4. CASE Appends(h)
  <2>1. Range(appended)' = Range(appended) \cup {h}
    <3>1. /\ appended \in Seq(1..Len(chain)) /\ h \in 1..Len(chain)
          /\ appended' = Append(appended, h)
      BY <1>1, <1>4, TaskFacts DEF ExecutionInv, TypeInv, TypeOK, Appends
    <3>2. /\ DOMAIN appended = 1..Len(appended) /\ DOMAIN appended' = 1..Len(appended) + 1
          /\ \A i \in 1..Len(appended) : appended'[i] = appended[i]
          /\ appended'[Len(appended) + 1] = h /\ Len(appended) \in Nat
      BY <3>1, AppendFacts
    <3>3. DOMAIN appended' = DOMAIN appended \cup {Len(appended) + 1}
      BY <3>2
    <3> QED BY <3>2, <3>3 DEF Range
  <2>2. tasks'[h].step = "appended"
    BY <1>4 DEF Appends
  <2> QED BY <1>1, <1>2, <2>1, <2>2 DEF AppendedInv, ReportedAsAppended
<1>5. CASE Finishes(h)
  <2>1. Range(appended)' = Range(appended)
    BY <1>5 DEF Finishes
  <2>2. tasks[h].step = "appended" /\ h \in Range(appended)
    BY <1>2, <1>5 DEF Finishes, AppendedInv
  <2>3. rereads = 0 => tasks'[h].step = "succeeded"
    BY <1>5, <2>2 DEF Finishes, FinalAccepted, ExecutionInv, BalanceInv
  <2>4. tasks'[h].step \in {"succeeded", "failed"}
    BY <1>5 DEF Finishes
  <2> QED BY <1>1, <1>2, <2>1, <2>2, <2>3, <2>4 DEF AppendedInv, ReportedAsAppended
<1> QED BY <1>1, <1>3, <1>4, <1>5

(* A step of a task keeps the accounts of the signers exact.                    *)
LEMMA TaskKeepsExact ==
  ASSUME ExecutionInv, NEW h \in 1..MaxHeight, TaskStep(h)
  PROVE  SignersExact'
<1>1. /\ UNCHANGED <<next, chain, rereads>> /\ h \in DOMAIN chain \ Skipped
      /\ ReadsInitial(h) \/ Executes(h) \/ Fails(h) \/ Appends(h) \/ Finishes(h)
  BY TaskEffect DEF ExecutionInv
<1>2. CASE ~Appends(h)
  <2>1. UNCHANGED <<appended, accounts>>
    BY <1>1, <1>2 DEF ReadsInitial, Executes, Fails, Finishes
  <2>2. SignersExact
    BY DEF ExecutionInv
  <2> QED BY <1>1, <2>1, <2>2 DEF SignersExact, OwnPlaces
<1>3. CASE Appends(h)
  <2>1. SUFFICES ASSUME rereads = 0, NEW s \in Signers
                 PROVE  /\ \A i \in OwnPlaces(s)' :
                             chain[appended'[i]].nonce = Cardinality({j \in OwnPlaces(s)' : j < i})
                        /\ accounts'[s] = [nonce |-> Cardinality(OwnPlaces(s)'),
                                           balance |-> Funds - Cardinality(OwnPlaces(s)')]
    BY <1>1 DEF SignersExact
  <2>2. PICK n : n = Len(appended)
    OBVIOUS
  <2>3. PICK count : count = Cardinality(OwnPlaces(s))
    OBVIOUS
  <2>4. /\ n \in Nat /\ OwnPlaces(s) \subseteq 1..n
        /\ IsFiniteSet(OwnPlaces(s)) /\ count \in Nat
    BY <2>2, <2>3, PlacesFinite DEF ExecutionInv
  <2>5. /\ \A i \in OwnPlaces(s) :
             chain[appended[i]].nonce = Cardinality({j \in OwnPlaces(s) : j < i})
        /\ accounts[s] = [nonce |-> count, balance |-> Funds - count]
    BY <2>1, <2>3 DEF ExecutionInv, SignersExact
  <2>6. /\ DOMAIN appended = 1..n /\ DOMAIN appended' = 1..n + 1
        /\ \A i \in 1..n : appended'[i] = appended[i]
        /\ appended'[n + 1] = h
    <3>1. /\ appended \in Seq(1..Len(chain)) /\ h \in 1..Len(chain)
          /\ appended' = Append(appended, h)
      BY <1>1, <1>3, TaskFacts DEF ExecutionInv, TypeInv, TypeOK, Appends
    <3> QED BY <2>2, <3>1, AppendFacts
  <2>7. /\ chain[h].signer \in Signers
        /\ accounts[chain[h].signer].nonce = chain[h].nonce
        /\ accounts'[s] = IF s = chain[h].signer
                          THEN [nonce |-> accounts[s].nonce + 1, balance |-> accounts[s].balance - 1]
                          ELSE accounts[s]
    BY <1>1, <1>3, <2>1, SignerWritten, TaskFacts DEF ExecutionInv
  <2>8. OwnPlaces(s)' = OwnPlaces(s) \cup (IF s = chain[h].signer THEN {n + 1} ELSE {})
    <3>1. DOMAIN appended' = DOMAIN appended \cup {n + 1} /\ n + 1 \notin DOMAIN appended
      BY <2>4, <2>6
    <3> QED BY <1>1, <2>6, <3>1 DEF OwnPlaces
  <2>9. CASE s # chain[h].signer
    <3>1. OwnPlaces(s)' = OwnPlaces(s) /\ accounts'[s] = accounts[s]
      BY <2>7, <2>8, <2>9
    <3>2. \A i \in OwnPlaces(s) : appended'[i] = appended[i]
      BY <2>4, <2>6
    <3> QED BY <2>3, <2>5, <3>1, <3>2
  <2>10. CASE s = chain[h].signer
    <3>1. OwnPlaces(s)' = OwnPlaces(s) \cup {n + 1} /\ n + 1 \notin OwnPlaces(s)
      BY <2>4, <2>8, <2>10
    <3>2. Cardinality(OwnPlaces(s)') = count + 1
      BY <2>3, <2>4, <3>1, FS_AddElement
    <3>3. accounts'[s] = [nonce |-> count + 1, balance |-> Funds - (count + 1)]
      BY <2>4, <2>5, <2>7, <2>10, FundsAssumption
    <3>4. \A i \in OwnPlaces(s) :
            chain[appended'[i]].nonce = Cardinality({j \in OwnPlaces(s)' : j < i})
      <4>1. ASSUME NEW i \in OwnPlaces(s)
            PROVE  /\ {j \in OwnPlaces(s)' : j < i} = {j \in OwnPlaces(s) : j < i}
                   /\ appended'[i] = appended[i]
        BY <2>4, <2>6, <3>1
      <4> QED BY <2>5, <4>1
    <3>5. {j \in OwnPlaces(s)' : j < n + 1} = OwnPlaces(s)
      BY <2>4, <3>1
    <3>6. chain[appended'[n + 1]].nonce = count
      BY <2>5, <2>6, <2>7, <2>10
    <3> QED BY <2>3, <3>1, <3>2, <3>3, <3>4, <3>5, <3>6
  <2> QED BY <2>9, <2>10
<1> QED BY <1>2, <1>3

(* A step of a task keeps what the other tasks rely on.                         *)
LEMMA TaskKeepsOthers ==
  ASSUME ExecutionInv, rereads = 0, NEW h \in 1..MaxHeight, TaskStep(h)
  PROVE  OrderInv' /\ ExecutedInv' /\ BalanceInv'
<1>1. /\ UNCHANGED <<next, chain, rereads>> /\ h \in DOMAIN chain \ Skipped
      /\ \A g \in 1..MaxHeight : g # h => tasks'[g] = tasks[g]
      /\ ReadsInitial(h) \/ Executes(h) \/ Fails(h) \/ Appends(h) \/ Finishes(h)
  BY TaskEffect DEF ExecutionInv
<1>2. TypeInv /\ TaskTypes /\ OrderInv /\ ExecutedInv /\ BalanceInv
  BY DEF ExecutionInv, TypeInv
<1>3. /\ accounts \in [AllAccounts -> Account] /\ chain[h] \in FileBlock
      /\ chain[h].signer \in Signers
      /\ \A s \in Signers : accounts[s].balance \in Nat
  BY <1>1, <1>2, TaskFacts DEF TypeInv, TypeOK, Account
<1>4. OrderInv'
  BY <1>1, <1>2 DEF OrderInv, Skipped
<1>5. ASSUME NEW g \in 1..MaxHeight, tasks'[g].step \in {"read", "executed", "appended"}
      PROVE  /\ tasks'[g].step = "executed" =>
                  /\ Applies(accounts', chain[g])
                  /\ tasks'[g].writes[chain[g].signer] =
                       [nonce |-> accounts'[chain[g].signer].nonce + 1,
                        balance |-> accounts'[chain[g].signer].balance - 1]
             /\ accounts'[chain[g].signer].balance <= tasks'[g].initial
  <2>1. CASE ~Appends(h)
    <3>1. accounts' = accounts
      BY <1>1, <2>1 DEF ReadsInitial, Executes, Fails, Finishes
    <3>2. CASE g # h
      BY <1>1, <1>2, <1>5, <3>1, <3>2 DEF ExecutedInv, BalanceInv
    <3>3. CASE g = h
      <4>1. ReadsInitial(h) \/ Executes(h)
        BY <1>1, <1>5, <2>1, <3>3 DEF Fails, Finishes
      <4>2. CASE ReadsInitial(h)
        BY <1>3, <3>1, <3>3, <4>2 DEF ReadsInitial
      <4>3. CASE Executes(h)
        <5>1. /\ Applies(accounts, chain[h]) /\ tasks'[h].writes = Writes(accounts, chain[h])
              /\ tasks'[h].initial = tasks[h].initial /\ tasks[h].step = "read"
          BY <4>3 DEF Executes
        <5>2. Writes(accounts, chain[h])[chain[h].signer] =
                [nonce |-> accounts[chain[h].signer].nonce + 1,
                 balance |-> accounts[chain[h].signer].balance - 1]
          BY <1>3, <5>1, WritesType
        <5>3. accounts[chain[h].signer].balance <= tasks[h].initial
          BY <1>2, <5>1 DEF BalanceInv
        <5> QED BY <3>1, <3>3, <5>1, <5>2, <5>3
      <4> QED BY <4>1, <4>2, <4>3
    <3> QED BY <3>2, <3>3
  <2>2. CASE Appends(h)
    <3>1. /\ accounts[chain[h].signer].nonce = chain[h].nonce
          /\ accounts[chain[h].signer].balance > 0
          /\ \A s \in Signers :
               accounts'[s] = IF s = chain[h].signer
                              THEN [nonce |-> accounts[s].nonce + 1,
                                    balance |-> accounts[s].balance - 1]
                              ELSE accounts[s]
      BY <1>1, <1>2, <2>2, SignerWritten
    <3>2. tasks[g].step \in {"read", "executed", "appended"}
      BY <1>1, <1>5, <2>2 DEF Appends
    <3>3. /\ g \in DOMAIN chain \ Skipped
          /\ tasks'[g].initial = tasks[g].initial /\ tasks[g].initial \in Nat
      BY <1>1, <1>2, <2>2, <3>2 DEF TaskTypes, Appends
    <3>4. chain[g].signer \in Signers
      BY <1>2, <3>3, TaskFacts
    <3>5. accounts'[chain[g].signer].balance <= tasks'[g].initial
      <4>1. accounts[chain[g].signer].balance <= tasks[g].initial
        BY <1>2, <3>2 DEF BalanceInv
      <4>2. PICK s : s = chain[g].signer
        OBVIOUS
      <4>3. s \in Signers /\ accounts[s].balance \in Nat
        BY <1>3, <3>4, <4>2
      <4>4. accounts'[s].balance \in {accounts[s].balance, accounts[s].balance - 1}
        <5>1. accounts'[s] = IF s = chain[h].signer
                             THEN [nonce |-> accounts[s].nonce + 1,
                                   balance |-> accounts[s].balance - 1]
                             ELSE accounts[s]
          BY <3>1, <4>3
        <5> QED BY <5>1
      <4>5. accounts'[s].balance <= tasks[g].initial
        BY <3>3, <4>1, <4>2, <4>3, <4>4
      <4> QED BY <3>3, <4>2, <4>5
    <3>6. ASSUME tasks'[g].step = "executed"
          PROVE  /\ Applies(accounts', chain[g])
                 /\ tasks'[g].writes[chain[g].signer] =
                       [nonce |-> accounts'[chain[g].signer].nonce + 1,
                        balance |-> accounts'[chain[g].signer].balance - 1]
      <4>1. g # h /\ tasks'[g] = tasks[g] /\ tasks[g].step = "executed"
        BY <1>1, <2>2, <3>6 DEF Appends
      <4>2. Applies(accounts, chain[g])
        BY <1>2, <4>1 DEF ExecutedInv
      <4>3. chain[g].signer # chain[h].signer
        BY <1>1, <1>2, <3>1, <3>3, <4>1, <4>2, OnlyOneApplies DEF Applies
      <4>4. accounts'[chain[g].signer] = accounts[chain[g].signer]
        BY <3>1, <3>4, <4>3
      <4> QED BY <1>2, <4>1, <4>2, <4>4 DEF ExecutedInv, Applies
    <3> QED BY <3>5, <3>6
  <2> QED BY <2>1, <2>2
<1>6. ExecutedInv' /\ BalanceInv'
  BY <1>1, <1>5 DEF ExecutedInv, BalanceInv
<1> QED BY <1>4, <1>6

(* Whatever is decided, lost or proposed again, the accounts stay exact.        *)
LEMMA ExecutionStep ==
  ASSUME ExecutionInv, [Next]_vars
  PROVE  ExecutionInv'
<1>1. TypeInv' /\ TypeInv /\ AppendedInv /\ ReportedAsAppended /\ SignersExact
  BY TypeStep DEF ExecutionInv
<1>2. /\ chain \in Seq(Decisions) /\ Len(chain) \in Nat /\ DOMAIN chain = 1..Len(chain)
      /\ \A h \in DOMAIN chain \ Skipped :
           chain[h].signer \in Signers /\ chain[h].nonce \in Nat /\ h \in 1..MaxHeight
      /\ next \in [Signers -> Nat] /\ rereads \in Nat
      /\ tasks = [h \in 1..MaxHeight |-> tasks[h]]
      /\ appended \in Seq(1..Len(chain))
  BY <1>1, TaskFacts DEF TypeInv, TypeOK
<1>3. /\ DOMAIN appended = 1..Len(appended)
      /\ \A i \in DOMAIN appended : appended[i] \in DOMAIN chain
  BY <1>2, ElementOfSeq, LenProperties
<1>4. ASSUME NEW s \in Signers, Spawn(s)
      PROVE  ExecutionInv'
  <2>1. PICK h : h = Len(chain) + 1
    OBVIOUS
  <2>2. PICK block : block = Block(s, next[s])
    OBVIOUS
  <2>3. block \in Decisions /\ block # NoBlock /\ block.signer = s /\ block.nonce = next[s]
    BY <1>2, <2>2, NoBlockAssumption DEF Block, FileBlock, Decisions
  <2>4. /\ chain' = Append(chain, block) /\ Len(chain) < MaxHeight
        /\ next' = [next EXCEPT ![s] = @ + 1]
        /\ UNCHANGED <<accounts, appended, rereads>>
    BY <1>2, <1>4, <2>2, BoundsAssumption DEF Spawn, counters
  <2>5. /\ \A g \in DOMAIN chain : chain'[g] = chain[g]
        /\ chain'[h] = block
        /\ (DOMAIN chain \ Skipped)' = (DOMAIN chain \ Skipped) \cup {h}
        /\ h \in 1..MaxHeight /\ h \notin DOMAIN chain
    BY <1>1, <1>2, <2>1, <2>3, <2>4, ChainGrows, BoundsAssumption
  <2>6. /\ \A g \in 1..MaxHeight : g # h => tasks'[g] = tasks[g]
        /\ tasks[h].step = "none" /\ tasks'[h].step = "spawned"
    <3>1. tasks' = [tasks EXCEPT ![h] = Task("spawned", 0, <<>>)]
      BY <1>4, <2>1 DEF Spawn
    <3>2. tasks[h].step = "none"
      BY <1>1, <2>5 DEF TypeInv, TaskTypes
    <3> QED BY <1>2, <2>5, <3>1, <3>2 DEF Task
  <2>7. AppendedInv' /\ ReportedAsAppended'
    BY <1>1, <2>4, <2>6 DEF AppendedInv, ReportedAsAppended
  <2>8. SignersExact'
    <3>1. \A t : OwnPlaces(t)' = OwnPlaces(t)
      BY <1>3, <2>4, <2>5 DEF OwnPlaces
    <3>2. \A t \in Signers : \A i \in OwnPlaces(t) : chain'[appended[i]] = chain[appended[i]]
      BY <1>3, <2>5 DEF OwnPlaces
    <3> QED BY <1>1, <2>4, <3>1, <3>2 DEF SignersExact
  <2>9. ASSUME rereads = 0
        PROVE  OrderInv' /\ ExecutedInv' /\ BalanceInv'
    <3>1. OrderInv /\ ExecutedInv /\ BalanceInv /\ TaskTypes
      BY <1>1, <2>9 DEF ExecutionInv, TypeInv
    <3>2. \A g \in DOMAIN chain \ Skipped : next[chain[g].signer] <= next'[chain[g].signer]
      BY <1>2, <2>4
    <3>3. \A g \in DOMAIN chain \ Skipped : chain'[g] = chain[g] /\ ~(h < g) /\ g # h
      BY <1>2, <2>1, <2>5
    <3>4. next[s] \in Nat /\ next'[s] = next[s] + 1 /\ next' \in [Signers -> Nat] /\ h \in Nat
      BY <1>2, <2>1, <2>4
    <3>5. ASSUME NEW g \in (DOMAIN chain \ Skipped) \cup {h}
          PROVE  /\ chain'[g].nonce < next'[chain'[g].signer]
                 /\ \A k \in (DOMAIN chain \ Skipped) \cup {h} :
                      k < g /\ chain'[k].signer = chain'[g].signer
                        => chain'[k].nonce < chain'[g].nonce
      <4>1. CASE g = h
        <5>1. \A k \in DOMAIN chain \ Skipped :
                chain'[k].signer = s => chain'[k].nonce < next[s]
          BY <3>1, <3>3 DEF OrderInv
        <5> QED BY <2>3, <2>5, <3>4, <4>1, <5>1
      <4>2. CASE g # h
        <5>1. g \in DOMAIN chain \ Skipped /\ chain'[g] = chain[g] /\ ~(h < g)
          BY <3>3, <3>5, <4>2
        <5>2. /\ chain[g].nonce < next[chain[g].signer]
              /\ next[chain[g].signer] <= next'[chain[g].signer]
              /\ chain[g].nonce \in Nat /\ next[chain[g].signer] \in Nat
              /\ next'[chain[g].signer] \in Nat
          BY <1>2, <3>1, <3>2, <3>4, <5>1 DEF OrderInv
        <5>3. \A k \in DOMAIN chain \ Skipped :
                k < g /\ chain'[k].signer = chain'[g].signer => chain'[k].nonce < chain'[g].nonce
          BY <3>1, <3>3, <5>1 DEF OrderInv
        <5> QED BY <5>1, <5>2, <5>3
      <4> QED BY <4>1, <4>2
    <3>6. OrderInv'
      BY <2>5, <3>5 DEF OrderInv
    <3>7. \A g \in 1..MaxHeight : tasks'[g].step \in {"read", "executed", "appended"} =>
            g # h /\ tasks'[g] = tasks[g] /\ chain'[g] = chain[g]
      BY <2>5, <2>6, <3>1 DEF TaskTypes
    <3>8. ExecutedInv' /\ BalanceInv'
      BY <2>4, <3>1, <3>7 DEF ExecutedInv, BalanceInv, Applies
    <3> QED BY <3>6, <3>8
  <2> QED BY <1>1, <2>4, <2>7, <2>8, <2>9 DEF ExecutionInv
<1>5. ASSUME NEW s \in Signers, Lose(s)
      PROVE  ExecutionInv'
  <2>1. /\ next' = [next EXCEPT ![s] = @ + 1]
        /\ UNCHANGED <<chain, tasks, accounts, appended, rereads>>
    BY <1>5 DEF Lose
  <2>2. AppendedInv' /\ ReportedAsAppended' /\ SignersExact'
    BY <1>1, <2>1 DEF AppendedInv, ReportedAsAppended, SignersExact, OwnPlaces
  <2>3. ASSUME OrderInv, ExecutedInv, BalanceInv
        PROVE  OrderInv' /\ ExecutedInv' /\ BalanceInv'
    <3>1. \A t \in Signers : next[t] \in Nat /\ next'[t] \in Nat /\ next[t] <= next'[t]
      BY <1>2, <2>1
    <3>2. \A h \in DOMAIN chain \ Skipped : chain[h].nonce < next'[chain[h].signer]
      <4>1. SUFFICES ASSUME NEW h \in DOMAIN chain \ Skipped
                     PROVE  chain[h].nonce < next'[chain[h].signer]
        OBVIOUS
      <4>2. /\ chain[h].nonce < next[chain[h].signer] /\ chain[h].nonce \in Nat
            /\ chain[h].signer \in Signers
        BY <1>2, <2>3 DEF OrderInv
      <4> QED BY <3>1, <4>2
    <3>3. OrderInv'
      BY <2>1, <2>3, <3>2 DEF OrderInv, Skipped
    <3> QED BY <2>1, <2>3, <3>3 DEF ExecutedInv, BalanceInv, Applies
  <2> QED BY <1>1, <2>1, <2>2, <2>3 DEF ExecutionInv
<1>6. ASSUME NEW s \in Signers, Reread(s)
      PROVE  ExecutionInv'
  <2>1. /\ rereads' # 0
        /\ UNCHANGED <<chain, tasks, accounts, appended>>
    BY <1>2, <1>6 DEF Reread
  <2>2. AppendedInv' /\ ReportedAsAppended' /\ SignersExact'
    BY <1>1, <2>1 DEF AppendedInv, ReportedAsAppended, SignersExact
  <2> QED BY <1>1, <2>1, <2>2 DEF ExecutionInv
<1>7. ASSUME NEW h \in 1..MaxHeight, TaskStep(h)
      PROVE  ExecutionInv'
  <2>1. rereads' = rereads
    BY <1>1, <1>7, TaskEffect
  <2> QED BY <1>1, <1>7, <2>1, TaskReports, TaskKeepsExact, TaskKeepsOthers DEF ExecutionInv
<1>8. ASSUME Skip
      PROVE  ExecutionInv'
  <2>1. /\ chain' = Append(chain, NoBlock) /\ Len(chain) < MaxHeight /\ NoBlock \in Decisions
        /\ UNCHANGED <<next, tasks, accounts, appended, rereads>>
    BY <1>8 DEF Skip, Decisions, counters
  <2>2. /\ \A g \in DOMAIN chain : chain'[g] = chain[g]
        /\ (DOMAIN chain \ Skipped)' = DOMAIN chain \ Skipped
    BY <1>1, <2>1, ChainGrows
  <2>3. AppendedInv' /\ ReportedAsAppended'
    BY <1>1, <2>1 DEF AppendedInv, ReportedAsAppended
  <2>4. SignersExact'
    <3>1. \A t : OwnPlaces(t)' = OwnPlaces(t)
      BY <1>3, <2>1, <2>2 DEF OwnPlaces
    <3>2. \A t \in Signers : \A i \in OwnPlaces(t) : chain'[appended[i]] = chain[appended[i]]
      BY <1>3, <2>2 DEF OwnPlaces
    <3> QED BY <1>1, <2>1, <3>1, <3>2 DEF SignersExact
  <2>5. ASSUME OrderInv, ExecutedInv, BalanceInv
        PROVE  OrderInv' /\ ExecutedInv' /\ BalanceInv'
    <3>1. OrderInv'
      BY <2>1, <2>2, <2>5 DEF OrderInv
    <3>2. \A g \in 1..MaxHeight : tasks[g].step # "none" => chain'[g] = chain[g]
      BY <1>1, <2>2 DEF TypeInv, TaskTypes
    <3> QED BY <2>1, <2>5, <3>1, <3>2 DEF ExecutedInv, BalanceInv, Applies
  <2> QED BY <1>1, <2>1, <2>3, <2>4, <2>5 DEF ExecutionInv
<1>9. ASSUME Restart
      PROVE  ExecutionInv'
  <2>1. /\ \A h \in 1..MaxHeight : tasks'[h].step = "none"
        /\ accounts' = Genesis /\ appended' = <<>>
        /\ UNCHANGED <<next, chain, rereads>>
    BY <1>9 DEF Restart, AccountsAtStart, NoTask, Task
  <2>2. DOMAIN appended' = {} /\ Range(appended') = {}
    BY <2>1 DEF Range
  <2>3. AppendedInv' /\ ReportedAsAppended'
    BY <2>1, <2>2 DEF AppendedInv, ReportedAsAppended
  <2>4. SignersExact'
    <3>1. \A s : OwnPlaces(s)' = {}
      BY <2>2 DEF OwnPlaces
    <3>2. \A s \in Signers : accounts'[s] = [nonce |-> 0, balance |-> Funds - 0]
      BY <2>1, FundsAssumption DEF Genesis, AllAccounts
    <3> QED BY <3>1, <3>2, FS_EmptySet DEF SignersExact
  <2>5. ASSUME OrderInv
        PROVE  OrderInv' /\ ExecutedInv' /\ BalanceInv'
    BY <2>1, <2>5 DEF OrderInv, Skipped, ExecutedInv, BalanceInv
  <2> QED BY <1>1, <2>1, <2>3, <2>4, <2>5 DEF ExecutionInv
<1>10. CASE UNCHANGED vars
  <2>1. UNCHANGED <<next, chain, tasks, accounts, appended, rereads>>
    BY <1>10 DEF vars, counters
  <2>2. AppendedInv' /\ ReportedAsAppended' /\ SignersExact'
    BY <1>1, <2>1 DEF AppendedInv, ReportedAsAppended, SignersExact, OwnPlaces
  <2>3. ASSUME OrderInv, ExecutedInv, BalanceInv
        PROVE  OrderInv' /\ ExecutedInv' /\ BalanceInv'
    BY <2>1, <2>3 DEF OrderInv, Skipped, ExecutedInv, BalanceInv, Applies
  <2> QED BY <1>1, <2>1, <2>2, <2>3 DEF ExecutionInv
<1> QED BY <1>4, <1>5, <1>6, <1>7, <1>8, <1>9, <1>10 DEF Next

(* The first state of the node.                                                 *)
LEMMA ExecutionInit == Init => ExecutionInv
<1>. SUFFICES ASSUME Init PROVE ExecutionInv
  OBVIOUS
<1>1. TypeInv
  BY TypeInit
<1>2. /\ \A h \in 1..MaxHeight : tasks[h].step = "none"
      /\ accounts = Genesis /\ appended = <<>> /\ chain = <<>>
  BY DEF Init, NoTask, Task
<1>3. DOMAIN appended = {} /\ Range(appended) = {} /\ DOMAIN chain = {}
  BY <1>2 DEF Range
<1>4. SignersExact
  <2>1. \A s : OwnPlaces(s) = {}
    BY <1>3 DEF OwnPlaces
  <2>2. \A s \in Signers : accounts[s] = [nonce |-> 0, balance |-> Funds - 0]
    BY <1>2, FundsAssumption DEF Genesis, AllAccounts
  <2> QED BY <2>1, <2>2, FS_EmptySet DEF SignersExact
<1>5. AppendedInv /\ ReportedAsAppended /\ OrderInv /\ ExecutedInv /\ BalanceInv
  BY <1>2, <1>3 DEF AppendedInv, ReportedAsAppended, OrderInv, ExecutedInv, BalanceInv
<1> QED BY <1>1, <1>4, <1>5 DEF ExecutionInv

(* The invariant holds however the tasks overlap.                               *)
LEMMA ExecutionInvariance == Spec => []ExecutionInv
<1>1. ExecutionInv /\ [Next]_vars => ExecutionInv'
  BY ExecutionStep
<1> QED BY <1>1, ExecutionInit, PTL DEF Spec

-------------------------------------------------------------------------------
(* The types of the accounts and tasks (TypeOK): no execution spends what a     *)
(* signer does not have, and no task runs for a height without a block.         *)
THEOREM TypeCorrect == Spec => []TypeOK
<1>1. ExecutionInv => TypeOK
  BY DEF ExecutionInv, TypeInv
<1> QED BY <1>1, ExecutionInvariance, PTL

(* The blocks of one signer are appended in the order of its file, each once,   *)
(* and its account is what they leave (SignersExact).                           *)
THEOREM SignersStayExact == Spec => []SignersExact
<1>1. ExecutionInv => SignersExact
  BY DEF ExecutionInv
<1> QED BY <1>1, ExecutionInvariance, PTL

(* What is reported as executed was appended, and until a proposer restarts     *)
(* nothing that was appended is reported as failed (ReportedAsAppended).        *)
THEOREM ReportsAreTrue == Spec => []ReportedAsAppended
<1>1. ExecutionInv => ReportedAsAppended
  BY DEF ExecutionInv
<1> QED BY <1>1, ExecutionInvariance, PTL

-------------------------------------------------------------------------------
(* The blocks as they take effect one by one (Settlement).                      *)

(* The account that all blocks credit counts at most one credit per block       *)
(* appended, and so does what a task has computed for it.                       *)
RecipientInv ==
  /\ accounts[Recipient].nonce = 0 /\ accounts[Recipient].balance \in 0..Len(appended)
  /\ \A h \in 1..MaxHeight : tasks[h].step = "executed" =>
       /\ tasks[h].writes[Recipient].nonce = 0
       /\ tasks[h].writes[Recipient].balance \in 1..Len(appended) + 1

(* Deciding extends the chain.                                                  *)
LEMMA DecidedNext ==
  ASSUME TypeInv, NEW block \in Decisions, chain' = Append(chain, block), Len(chain) < MaxHeight
  PROVE  /\ Len(chain') = Len(chain) + 1 /\ SubSeq(chain', 1, Len(chain)) = chain
         /\ chain'[Len(chain')] = block
<1>1. /\ chain \in Seq(Decisions) /\ Len(chain) \in Nat
      /\ chain' \in Seq(Decisions) /\ Len(chain') = Len(chain) + 1
      /\ \A h \in 1..Len(chain) : chain'[h] = chain[h]
      /\ chain'[Len(chain) + 1] = block
  BY TaskFacts, ChainGrows
<1>2. PICK prefix : prefix = SubSeq(chain', 1, Len(chain))
  OBVIOUS
<1>3. \A h \in 1..Len(chain) : chain'[h] \in Decisions
  BY <1>1, ElementOfSeq
<1>4. /\ prefix \in Seq(Decisions) /\ Len(prefix) = Len(chain)
      /\ \A h \in 1..Len(chain) : prefix[h] = chain'[h]
  BY <1>1, <1>2, <1>3, SubSeqProperties
<1>5. prefix = chain
  BY <1>1, <1>4, SeqEqual
<1> QED BY <1>1, <1>2, <1>5

(* Every step counts the credits.                                               *)
LEMMA RecipientStep ==
  ASSUME TypeInv, TypeInv', RecipientInv, [Next]_vars
  PROVE  RecipientInv'
<1>1. /\ Recipient \in AllAccounts /\ accounts \in [AllAccounts -> Account]
      /\ tasks = [h \in 1..MaxHeight |-> tasks[h]]
  BY DEF TypeInv, TypeOK, Account, AllAccounts
<1>2. PICK n : n = Len(appended)
  OBVIOUS
<1>3. n \in Nat /\ appended \in Seq(1..Len(chain))
  BY <1>2, LenProperties DEF TypeInv, TypeOK
<1>4. ASSUME UNCHANGED <<accounts, appended>>,
             \A h \in 1..MaxHeight : tasks'[h].step = "executed" => tasks'[h] = tasks[h]
      PROVE  RecipientInv'
  BY <1>4 DEF RecipientInv
<1>5. ASSUME NEW s \in Signers, Spawn(s)
      PROVE  RecipientInv'
  <2>1. PICK g : g = Len(chain) + 1
    OBVIOUS
  <2>2. tasks' = [tasks EXCEPT ![g] = Task("spawned", 0, <<>>)]
    BY <1>5, <2>1 DEF Spawn
  <2>3. \A h \in 1..MaxHeight : tasks'[h].step = "executed" => tasks'[h] = tasks[h]
    BY <1>1, <2>2 DEF Task
  <2> QED BY <1>4, <1>5, <2>3 DEF Spawn
<1>6. ASSUME NEW s \in Signers, Lose(s) \/ Reread(s)
      PROVE  RecipientInv'
  BY <1>4, <1>6 DEF Lose, Reread
<1>7. ASSUME NEW h \in 1..MaxHeight, TaskStep(h)
      PROVE  RecipientInv'
  <2>1. /\ UNCHANGED chain /\ h \in DOMAIN chain \ Skipped
        /\ \A g \in 1..MaxHeight : g # h => tasks'[g] = tasks[g]
        /\ ReadsInitial(h) \/ Executes(h) \/ Fails(h) \/ Appends(h) \/ Finishes(h)
    BY <1>7, TaskEffect
  <2>2. CASE ReadsInitial(h) \/ Fails(h) \/ Finishes(h)
    <3>1. \A g \in 1..MaxHeight : tasks'[g].step = "executed" => tasks'[g] = tasks[g]
      BY <2>1, <2>2 DEF ReadsInitial, Fails, Finishes
    <3> QED BY <1>4, <2>2, <3>1 DEF ReadsInitial, Fails, Finishes
  <2>3. CASE Executes(h)
    <3>1. PICK w : w = Writes(accounts, chain[h])
      OBVIOUS
    <3>2. chain[h].signer # Recipient
      BY <2>1, TaskFacts
    <3>3. w[Recipient] = [accounts[Recipient] EXCEPT !.balance = @ + 1]
      BY <3>1, <3>2 DEF Writes
    <3>4. accounts[Recipient] = [nonce |-> 0, balance |-> accounts[Recipient].balance]
          /\ accounts[Recipient].balance \in 0..n
      <4>1. accounts[Recipient] \in Account
        BY <1>1
      <4> QED BY <1>2, <4>1 DEF RecipientInv, Account
    <3>5. w[Recipient].nonce = 0 /\ w[Recipient].balance = accounts[Recipient].balance + 1
      BY <3>3, <3>4
    <3>6. w[Recipient].balance \in 1..n + 1
      BY <1>3, <3>4, <3>5
    <3> QED BY <1>2, <2>1, <2>3, <3>1, <3>5, <3>6 DEF Executes, RecipientInv
  <2>4. CASE Appends(h)
    <3>1. Len(appended') = n + 1
      <4>1. h \in 1..Len(chain)
        BY <2>1, TaskFacts
      <4> QED BY <1>2, <1>3, <2>4, <4>1, AppendFacts DEF Appends
    <3>2. /\ tasks[h].writes[Recipient].nonce = 0
          /\ tasks[h].writes[Recipient].balance \in 1..n + 1
      BY <1>2, <2>4 DEF Appends, RecipientInv
    <3>3. accounts'[Recipient] = tasks[h].writes[Recipient]
      <4>1. DOMAIN tasks[h].writes = {chain[h].signer, Recipient}
        BY <2>4 DEF Appends, TypeInv, TaskTypes
      <4> QED BY <1>1, <2>4, <4>1 DEF Appends, Overwritten
    <3>4. accounts'[Recipient].nonce = 0 /\ accounts'[Recipient].balance \in 0..n + 1
      BY <1>3, <3>2, <3>3
    <3>5. \A g \in 1..MaxHeight : tasks'[g].step = "executed" =>
            /\ tasks'[g].writes[Recipient].nonce = 0
            /\ tasks'[g].writes[Recipient].balance \in 1..n + 2
      <4>1. SUFFICES ASSUME NEW g \in 1..MaxHeight, tasks'[g].step = "executed"
                     PROVE  /\ tasks'[g].writes[Recipient].nonce = 0
                            /\ tasks'[g].writes[Recipient].balance \in 1..n + 2
        OBVIOUS
      <4>2. tasks'[g] = tasks[g]
        BY <2>1, <2>4, <4>1 DEF Appends
      <4>3. /\ tasks[g].writes[Recipient].nonce = 0
            /\ tasks[g].writes[Recipient].balance \in 1..n + 1
        BY <1>2, <4>1, <4>2 DEF RecipientInv
      <4> QED BY <1>3, <4>2, <4>3
    <3>6. (n + 1) + 1 = n + 2
      BY <1>3
    <3> QED BY <3>1, <3>4, <3>5, <3>6 DEF RecipientInv
  <2> QED BY <2>1, <2>2, <2>3, <2>4
<1>8. CASE Skip
  BY <1>4, <1>8 DEF Skip
<1>9. CASE Restart
  <2>1. /\ accounts' = Genesis /\ Len(appended') = 0
        /\ \A h \in 1..MaxHeight : tasks'[h].step = "none"
    BY <1>9 DEF Restart, AccountsAtStart, NoTask, Task
  <2>2. accounts'[Recipient].nonce = 0 /\ accounts'[Recipient].balance = 0
    BY <1>1, <2>1, SignersAssumption DEF Genesis
  <2> QED BY <2>1, <2>2 DEF RecipientInv
<1>10. CASE UNCHANGED vars
  BY <1>4, <1>10 DEF vars
<1> QED BY <1>5, <1>6, <1>7, <1>8, <1>9, <1>10 DEF Next

(* A block that is appended changes the accounts as if it were alone, but for   *)
(* the credits.                                                                 *)
LEMMA AppendSettles ==
  ASSUME ExecutionInv, RecipientInv, rereads = 0,
         NEW h \in 1..MaxHeight, h \in DOMAIN chain \ Skipped, Appends(h)
  PROVE  \E credits \in 1..Len(appended) + 1 :
           accounts' = [After(accounts, chain[h]) EXCEPT ![Recipient].balance = credits]
<1>1. /\ TypeInv /\ ExecutedInv /\ accounts \in [AllAccounts -> Account]
      /\ tasks[h].step = "executed"
  BY DEF ExecutionInv, TypeInv, TypeOK, Account, Appends
<1>2. PICK s : s = chain[h].signer
  OBVIOUS
<1>3. /\ s \in Signers /\ s \in AllAccounts /\ s # Recipient /\ Recipient \in AllAccounts
  BY <1>1, <1>2, TaskFacts DEF AllAccounts
<1>4. PICK w : w = tasks[h].writes
  OBVIOUS
<1>5. PICK c : c = w[Recipient].balance
  OBVIOUS
<1>6. /\ w \in [{s, Recipient} -> Account] /\ w[Recipient].nonce = 0 /\ c \in 1..Len(appended) + 1
      /\ accounts' = Overwritten(accounts, w)
  BY <1>1, <1>2, <1>4, <1>5 DEF TypeInv, TaskTypes, RecipientInv, Appends
<1>7. w[s] = [nonce |-> chain[h].nonce + 1, balance |-> accounts[s].balance - 1]
  BY <1>1, <1>2, <1>4 DEF ExecutedInv, Applies
<1>8. w[Recipient] = [nonce |-> 0, balance |-> c]
  <2>1. w[Recipient] \in Account
    BY <1>6
  <2> QED BY <1>5, <1>6, <2>1 DEF Account
<1>9. PICK v : v = Writes(accounts, chain[h])
  OBVIOUS
<1>10. /\ DOMAIN v = {s, Recipient} /\ v[s] = w[s]
       /\ v[Recipient] = [accounts[Recipient] EXCEPT !.balance = @ + 1]
  BY <1>2, <1>3, <1>7, <1>9 DEF Writes
<1>11. [v[Recipient] EXCEPT !.balance = c] = w[Recipient]
  <2>1. accounts[Recipient] = [nonce |-> 0, balance |-> accounts[Recipient].balance]
    <3>1. accounts[Recipient] \in Account
      BY <1>1, <1>3
    <3> QED BY <3>1 DEF RecipientInv, Account
  <2>2. v[Recipient] = [nonce |-> 0, balance |-> accounts[Recipient].balance + 1]
    BY <1>10, <2>1
  <2> QED BY <1>8, <2>2
<1>12. PICK after : after = After(accounts, chain[h])
  OBVIOUS
<1>13. after = [a \in AllAccounts |-> IF a \in {s, Recipient} THEN v[a] ELSE accounts[a]]
  BY <1>9, <1>10, <1>12 DEF After, Overwritten
<1>14. PICK r : r = [v[Recipient] EXCEPT !.balance = c]
  OBVIOUS
<1>15. [after EXCEPT ![Recipient].balance = c] = [after EXCEPT ![Recipient] = r]
  BY <1>3, <1>13, <1>14
<1>16. accounts' = [a \in AllAccounts |-> IF a \in {s, Recipient} THEN w[a] ELSE accounts[a]]
  BY <1>6 DEF Overwritten
<1>17. accounts' = [after EXCEPT ![Recipient] = r]
  BY <1>3, <1>10, <1>11, <1>13, <1>14, <1>16
<1> QED BY <1>6, <1>12, <1>15, <1>17, Zenon

(* One step of execution is one step of Settlement, or changes nothing of it.   *)
LEMMA SettlementStep ==
  ASSUME ExecutionInv, RecipientInv, [Next]_vars, rereads' = 0
  PROVE  Settled!Next \/ UNCHANGED <<chain, appended, accounts, restarts>>
<1>1. TypeInv /\ AppendedInv /\ rereads \in Nat
  BY DEF ExecutionInv, TypeInv
<1>2. rereads = 0
  BY <1>1, TaskEffect DEF Next, Spawn, Lose, Reread, Skip, Restart, vars, counters
<1>3. ASSUME NEW s \in Signers, Spawn(s)
      PROVE  Settled!Next
  <2>1. PICK block : block = Block(s, next[s])
    OBVIOUS
  <2>2. block \in Decisions
    BY <1>1, <2>1 DEF Block, FileBlock, Decisions, TypeInv, TypeOK
  <2>3. chain' = Append(chain, block) /\ Len(chain) < MaxHeight
    BY <1>1, <1>3, <2>1, TaskFacts, BoundsAssumption DEF Spawn
  <2>4. Len(chain') = Len(chain) + 1 /\ SubSeq(chain', 1, Len(chain)) = chain
    BY <1>1, <2>2, <2>3, DecidedNext
  <2> QED BY <1>3, <2>4 DEF Spawn, counters, Settled!Next, Settled!Decide
<1>4. ASSUME NEW s \in Signers, Lose(s) \/ Reread(s)
      PROVE  UNCHANGED <<chain, appended, accounts, restarts>>
  BY <1>4 DEF Lose, Reread
<1>5. ASSUME NEW h \in 1..MaxHeight, TaskStep(h)
      PROVE  Settled!Next \/ UNCHANGED <<chain, appended, accounts, restarts>>
  <2>1. /\ UNCHANGED <<chain, restarts>> /\ h \in DOMAIN chain \ Skipped
        /\ ReadsInitial(h) \/ Executes(h) \/ Fails(h) \/ Appends(h) \/ Finishes(h)
    BY <1>1, <1>5, TaskEffect DEF TaskStep, ReadInitial, Execute, FailToExecute, AppendBlock,
                                  Finish, counters
  <2>2. CASE Appends(h)
    <3>1. h \notin Settled!Range(appended)
      <4>1. tasks[h].step = "executed"
        BY <2>2 DEF Appends
      <4> QED BY <1>1, <4>1 DEF AppendedInv, Range, Settled!Range
    <3>2. AppliesTo(accounts, chain[h])
      BY <1>1, <1>2, <2>1, <2>2, TaskFacts DEF ExecutionInv, ExecutedInv, Appends, AppliesTo
    <3>3. \E credits \in 1..Len(appended) + 1 :
            accounts' = [After(accounts, chain[h]) EXCEPT ![Recipient].balance = credits]
      BY <1>2, <2>1, <2>2, AppendSettles
    <3>4. appended' = Append(appended, h)
      BY <2>2 DEF Appends
    <3>5. Settled!Apply(h)
      BY <2>1, <3>1, <3>2, <3>3, <3>4 DEF Settled!Apply
    <3> QED BY <2>1, <3>5 DEF Settled!Next
  <2>3. CASE ~Appends(h)
    BY <2>1, <2>3 DEF ReadsInitial, Executes, Fails, Finishes
  <2> QED BY <2>2, <2>3
<1>6. ASSUME Skip
      PROVE  Settled!Next
  <2>1. chain' = Append(chain, NoBlock) /\ NoBlock \in Decisions /\ Len(chain) < MaxHeight
    BY <1>6 DEF Skip, Decisions
  <2>2. Len(chain') = Len(chain) + 1 /\ SubSeq(chain', 1, Len(chain)) = chain
    BY <1>1, <2>1, DecidedNext
  <2> QED BY <1>6, <2>2 DEF Skip, counters, Settled!Next, Settled!Decide
<1>7. ASSUME Restart
      PROVE  Settled!Next
  BY <1>7 DEF Restart, AccountsAtStart, Settled!Next, Settled!Restart
<1>8. CASE UNCHANGED vars
  BY <1>8 DEF vars, counters
<1> QED BY <1>3, <1>4, <1>5, <1>6, <1>7, <1>8 DEF Next

(* However many executions overlap, they settle the blocks one by one, each at  *)
(* most once and only on accounts it applies to (ImplementsSettlement).         *)
THEOREM SettlementRefinement == Spec => ImplementsSettlement
<1>1. Init => RecipientInv
  <2>1. SUFFICES ASSUME Init PROVE RecipientInv
    OBVIOUS
  <2>2. /\ accounts = Genesis /\ Len(appended) = 0
        /\ \A h \in 1..MaxHeight : tasks[h].step = "none"
    BY <2>1 DEF Init, NoTask, Task
  <2>3. accounts[Recipient].nonce = 0 /\ accounts[Recipient].balance = 0
    BY <2>2, SignersAssumption DEF Genesis, AllAccounts
  <2> QED BY <2>2, <2>3 DEF RecipientInv
<1>2. ExecutionInv => TypeInv
  BY DEF ExecutionInv
<1>3. TypeInv /\ TypeInv' /\ RecipientInv /\ [Next]_vars => RecipientInv'
  BY RecipientStep
<1>4. Init => Settled!Init
  BY DEF Init, Settled!Init
<1>5. ExecutionInv /\ RecipientInv /\ [Next]_vars
        => [rereads' = 0 => Settled!Next]_<<chain, appended, accounts, restarts>>
  BY SettlementStep
<1> QED BY <1>1, <1>2, <1>3, <1>4, <1>5, ExecutionInvariance, PTL DEF Spec, ImplementsSettlement

-------------------------------------------------------------------------------
(* One task at a time: what holds as long as every block was executed before    *)
(* the next one was decided.                                                    *)
Pending == {"spawned", "read", "executed"}

(* Only the last block decided can be under execution, and nothing changes the  *)
(* accounts between its execution and its append.                               *)
PacedInv ==
  /\ TypeInv
  /\ \A h \in 1..MaxHeight : tasks[h].step \in Pending \cup {"appended"} => h = Len(chain)
  /\ \A h \in 1..MaxHeight : tasks[h].step = "executed" =>
       Applies(accounts, chain[h]) /\ tasks[h].writes = Writes(accounts, chain[h])

(* All blocks but the last, or all of them, are dealt with.                     *)
IsPending == Len(chain) > 0 /\ tasks[Len(chain)].step \in Pending
ExecutedIsKnown == Executed = IF IsPending THEN Len(chain) - 1 ELSE Len(chain)

(* What counts as executed then follows from the last height alone: every       *)
(* height below it is.                                                          *)
LEMMA ExecutedKnown == PacedInv => ExecutedIsKnown
<1>. SUFFICES ASSUME PacedInv PROVE ExecutedIsKnown
  OBVIOUS
<1>1. /\ Len(chain) \in Nat /\ DOMAIN chain = 1..Len(chain)
      /\ \A h \in DOMAIN chain : h \in 1..MaxHeight /\ tasks[h].step \in Steps
      /\ \A h \in DOMAIN chain : tasks[h].step \in Pending => h = Len(chain)
  <2>1. Len(chain) \in Nat /\ DOMAIN chain = 1..Len(chain) /\ Len(chain) <= MaxHeight
    BY TaskFacts DEF PacedInv, TypeInv, TypeOK
  <2>2. \A h \in DOMAIN chain : h \in 1..MaxHeight
    BY <2>1, BoundsAssumption
  <2> QED BY <2>1, <2>2 DEF PacedInv, TypeInv, TaskTypes
<1>2. PICK n : n = IF IsPending THEN Len(chain) - 1 ELSE Len(chain)
  OBVIOUS
<1>3. n \in Nat
  <2>1. CASE IsPending
    BY <1>1, <1>2, <2>1 DEF IsPending
  <2>2. CASE ~IsPending
    BY <1>1, <1>2, <2>2
  <2> QED BY <2>1, <2>2
<1>4. {h \in DOMAIN chain : tasks[h].step \in {"none", "appended", "succeeded", "failed"}} = 1..n
  <2>1. \A h \in DOMAIN chain :
          tasks[h].step \in {"none", "appended", "succeeded", "failed"} <=> h \in 1..n
    <3>1. CASE IsPending
      <4>1. n = Len(chain) - 1 /\ tasks[Len(chain)].step \in Pending
        BY <1>2, <3>1 DEF IsPending
      <4>2. \A h \in DOMAIN chain : tasks[h].step \in Pending <=> h = Len(chain)
        BY <1>1, <4>1
      <4>3. \A h \in DOMAIN chain : h \in 1..n <=> h # Len(chain)
        BY <1>1, <4>1
      <4> QED BY <1>1, <4>2, <4>3 DEF Steps, Pending
    <3>2. CASE ~IsPending
      <4>1. n = Len(chain)
        BY <1>2, <3>2
      <4>2. \A h \in DOMAIN chain : tasks[h].step \notin Pending
        BY <1>1, <3>2 DEF IsPending
      <4> QED BY <1>1, <4>1, <4>2 DEF Steps, Pending
    <3> QED BY <3>1, <3>2
  <2>2. 1..n \subseteq DOMAIN chain
    <3>1. n = Len(chain) - 1 \/ n = Len(chain)
      BY <1>2, Zenon
    <3>2. PICK l : l = Len(chain)
      OBVIOUS
    <3>3. l \in Nat /\ DOMAIN chain = 1..l /\ (n = l - 1 \/ n = l)
      BY <1>1, <3>1, <3>2, Zenon
    <3>4. n <= l
      BY <1>3, <3>3
    <3>5. \A h \in 1..n : h \in 1..l
      BY <1>3, <3>3, <3>4
    <3> QED BY <3>3, <3>5, Zenon
  <2> QED BY <2>1, <2>2, Zenon
<1>5. Cardinality(1..n) = n
  BY <1>3, FS_Interval
<1> QED BY <1>2, <1>4, <1>5 DEF Executed, ExecutedIsKnown

(* The same of the next state.                                                  *)
LEMMA ExecutedKnownNext == PacedInv' => ExecutedIsKnown'
  BY ExecutedKnown, PTL

(* A height is decided while nothing is under execution.                        *)
PacedNext ==
  \/ \E s \in Signers : (Spawn(s) /\ Running = {}) \/ Lose(s) \/ Reread(s)
  \/ \E h \in 1..MaxHeight : TaskStep(h)
  \/ Skip /\ Running = {}
  \/ Restart

(* A step of the log is a step of execution, ...                                *)
LEMMA LogNextIsNext ==
  ASSUME [LogNext]_logVars
  PROVE  [Next]_vars
BY DEF LogNext, LoggedTaskStep, Logged, Unlogged, Decided, StartLog, Next, TaskStep, logVars

(* ... and a paced one as long as early stays empty; only a restart empties it. *)
LEMMA LogNextIsPaced ==
  ASSUME [LogNext]_logVars, early' = {}
  PROVE  [PacedNext]_vars /\ (early = {} \/ Restart)
BY DEF LogNext, LoggedTaskStep, Logged, Unlogged, Decided, StartLog, PacedNext, TaskStep, logVars

(* Every step keeps to the last block.                                          *)
LEMMA PacedStep ==
  ASSUME PacedInv, [PacedNext]_vars
  PROVE  PacedInv'
<1>0. [Next]_vars
  BY DEF PacedNext, Next
<1>1. TypeInv' /\ TypeInv
  BY <1>0, TypeStep DEF PacedInv
<1>2. /\ chain \in Seq(Decisions) /\ Len(chain) \in Nat /\ DOMAIN chain = 1..Len(chain)
      /\ tasks = [h \in 1..MaxHeight |-> tasks[h]]
  BY <1>1, TaskFacts DEF TypeInv
<1>3. ASSUME NEW s \in Signers, Spawn(s), Running = {}
      PROVE  PacedInv'
  <2>1. PICK h : h = Len(chain) + 1
    OBVIOUS
  <2>2. PICK block : block = Block(s, next[s])
    OBVIOUS
  <2>3. block \in Decisions
    BY <1>1, <2>2 DEF Block, FileBlock, Decisions, TypeInv, TypeOK
  <2>4. chain' = Append(chain, block) /\ Running = {} /\ Len(chain) < MaxHeight
    BY <1>2, <1>3, <2>2, BoundsAssumption DEF Spawn
  <2>5. Len(chain') = h
    BY <2>1, <2>3, <2>4, <1>1, ChainGrows
  <2>6. \A g \in 1..MaxHeight : tasks'[g].step \in Pending \cup {"appended"} =>
          g = h /\ tasks'[g].step = "spawned"
    <3>1. tasks' = [tasks EXCEPT ![h] = Task("spawned", 0, <<>>)]
      BY <1>3, <2>1 DEF Spawn
    <3>2. \A g \in 1..MaxHeight : tasks[g].step \notin Pending \cup {"appended"}
      BY <2>4 DEF Running, Pending
    <3> QED BY <1>2, <3>1, <3>2 DEF Task
  <2> QED BY <1>1, <2>5, <2>6 DEF PacedInv, Pending
<1>4. ASSUME NEW s \in Signers, Lose(s) \/ Reread(s)
      PROVE  PacedInv'
  <2>1. UNCHANGED <<chain, tasks, accounts>>
    BY <1>4 DEF Lose, Reread
  <2> QED BY <1>1, <2>1 DEF PacedInv, Applies, Writes
<1>5. ASSUME NEW h \in 1..MaxHeight, TaskStep(h)
      PROVE  PacedInv'
  <2>1. /\ chain' = chain /\ h \in DOMAIN chain \ Skipped
        /\ \A g \in 1..MaxHeight : g # h => tasks'[g] = tasks[g]
        /\ ReadsInitial(h) \/ Executes(h) \/ Fails(h) \/ Appends(h) \/ Finishes(h)
    BY <1>1, <1>5, TaskEffect
  <2>2. tasks[h].step \in Pending \cup {"appended"}
    BY <2>1 DEF ReadsInitial, Executes, Fails, Appends, Finishes, Pending
  <2>3. h = Len(chain) /\ \A g \in 1..MaxHeight : tasks'[g].step \in Pending \cup {"appended"} => g = h
    BY <2>1, <2>2 DEF PacedInv
  <2>4. ASSUME tasks'[h].step = "executed"
        PROVE  Applies(accounts', chain'[h]) /\ tasks'[h].writes = Writes(accounts', chain'[h])
    BY <2>1, <2>4 DEF ReadsInitial, Executes, Fails, Appends, Finishes
  <2> QED BY <1>1, <2>1, <2>3, <2>4 DEF PacedInv, Pending
<1>6. ASSUME Skip, Running = {}
      PROVE  PacedInv'
  <2>1. /\ \A g \in 1..MaxHeight : tasks[g].step \notin Pending \cup {"appended"}
        /\ tasks' = tasks
    BY <1>6 DEF Skip, Running, Pending
  <2> QED BY <1>1, <2>1 DEF PacedInv, Pending
<1>7. ASSUME Restart
      PROVE  PacedInv'
  BY <1>1, <1>7 DEF Restart, NoTask, Task, PacedInv, Pending
<1>8. CASE UNCHANGED vars
  BY <1>1, <1>8 DEF vars, PacedInv, Applies, Writes
<1> QED BY <1>3, <1>4, <1>5, <1>6, <1>7, <1>8 DEF PacedNext

(* A restart puts everything to rest.                                           *)
LEMMA PacedRestart ==
  ASSUME TypeInv', Restart
  PROVE  PacedInv'
BY DEF Restart, NoTask, Task, PacedInv, Pending

(* A restart is one, whatever was under execution.                              *)
LEMMA SequentialRestart ==
  ASSUME TypeInv, PacedInv', Restart
  PROVE  Sequential!Next
<1>1. /\ \A h \in 1..MaxHeight : tasks'[h].step = "none"
      /\ accounts' = Genesis /\ restarts' = restarts + 1 /\ chain' = chain
  BY DEF Restart, AccountsAtStart, NoTask, Task
<1>2. ~IsPending'
  <2>1. Len(chain) <= MaxHeight /\ Len(chain) \in Nat
    BY TaskFacts DEF TypeInv, TypeOK
  <2> QED BY <1>1, <2>1, BoundsAssumption DEF IsPending, Pending
<1>3. Executed' = Len(chain)
  BY <1>1, <1>2, ExecutedKnownNext DEF ExecutedIsKnown
<1> QED BY <1>1, <1>3 DEF Sequential!Next, Sequential!Restart

(* One step of the paced execution is one step of SequentialExecution.          *)
LEMMA SequentialStep ==
  ASSUME PacedInv, PacedInv', [PacedNext]_vars
  PROVE  Sequential!Next \/ UNCHANGED <<chain, Executed, accounts, restarts>>
<1>1. /\ TypeInv /\ TypeInv' /\ Len(chain) \in Nat
      /\ tasks = [h \in 1..MaxHeight |-> tasks[h]]
  BY TaskFacts DEF PacedInv, TypeInv
<1>2. /\ Executed = IF IsPending THEN Len(chain) - 1 ELSE Len(chain)
      /\ Executed' = IF IsPending' THEN Len(chain') - 1 ELSE Len(chain')
  BY ExecutedKnown, ExecutedKnownNext DEF ExecutedIsKnown
<1>3. ASSUME Running = {}
      PROVE  Executed = Len(chain)
  <2>1. \A h \in 1..MaxHeight : tasks[h].step \notin Pending
    BY <1>3 DEF Running, Pending
  <2>2. Len(chain) <= MaxHeight
    BY <1>1 DEF TypeInv, TypeOK
  <2>3. ~IsPending
    BY <1>1, <2>1, <2>2, BoundsAssumption DEF IsPending
  <2> QED BY <1>2, <2>3
<1>4. ASSUME NEW s \in Signers, Spawn(s), Running = {}
      PROVE  Sequential!Next
  <2>1. PICK block : block = Block(s, next[s])
    OBVIOUS
  <2>2. block \in Decisions
    BY <1>1, <2>1 DEF Block, FileBlock, Decisions, TypeInv, TypeOK
  <2>3. chain' = Append(chain, block) /\ Running = {} /\ Len(chain) < MaxHeight
    BY <1>1, <1>4, <2>1, BoundsAssumption DEF Spawn
  <2>4. Sequential!NextDecided /\ Len(chain') = Len(chain) + 1
    BY <1>1, <2>2, <2>3, DecidedNext DEF Sequential!NextDecided
  <2>5. tasks'[Len(chain) + 1].step = "spawned" /\ UNCHANGED <<accounts, restarts>>
    <3>1. Len(chain) + 1 \in 1..MaxHeight
      BY <1>1, <2>3, BoundsAssumption
    <3> QED BY <1>1, <1>4, <3>1 DEF Spawn, Task, counters
  <2>6. Executed' = Executed
    BY <1>1, <1>2, <1>3, <2>3, <2>4, <2>5 DEF IsPending, Pending
  <2> QED BY <2>4, <2>5, <2>6 DEF Sequential!Next, Sequential!Decide
<1>5. ASSUME NEW s \in Signers, Lose(s) \/ Reread(s)
      PROVE  UNCHANGED <<chain, Executed, accounts, restarts>>
  BY <1>5 DEF Lose, Reread, Executed
<1>6. ASSUME NEW h \in 1..MaxHeight, TaskStep(h)
      PROVE  Sequential!Next \/ UNCHANGED <<chain, Executed, accounts, restarts>>
  <2>1. /\ chain' = chain /\ h \in DOMAIN chain \ Skipped /\ restarts' = restarts
        /\ ReadsInitial(h) \/ Executes(h) \/ Fails(h) \/ Appends(h) \/ Finishes(h)
    BY <1>1, <1>6, TaskEffect DEF TaskStep, ReadInitial, Execute, FailToExecute, AppendBlock,
                                  Finish, counters
  <2>2. h = Len(chain) /\ chain[h] # NoBlock /\ h > 0
    <3>1. tasks[h].step \in Pending \cup {"appended"}
      BY <2>1 DEF ReadsInitial, Executes, Fails, Appends, Finishes, Pending
    <3> QED BY <1>1, <2>1, <3>1, TaskFacts DEF PacedInv
  <2>3. CASE ReadsInitial(h) \/ Executes(h) \/ Finishes(h)
    <3>1. IsPending' = IsPending /\ accounts' = accounts
      BY <2>1, <2>2, <2>3 DEF ReadsInitial, Executes, Finishes, IsPending, Pending
    <3> QED BY <1>2, <2>1, <3>1
  <2>4. CASE Fails(h)
    <3>1. IsPending /\ ~IsPending' /\ accounts' = accounts
      BY <1>1, <2>1, <2>2, <2>4 DEF Fails, IsPending, Pending
    <3>2. Executed = Len(chain) - 1 /\ Executed' = Len(chain)
      BY <1>2, <2>1, <3>1
    <3>3. ~Applies(accounts, chain[h])
      BY <2>4 DEF Fails
    <3>4. chain[Executed + 1] = chain[h] /\ Executed < Len(chain) /\ Executed' = Executed + 1
      BY <1>1, <2>2, <3>2
    <3> QED BY <2>1, <3>1, <3>3, <3>4 DEF Sequential!Next, Sequential!Execute, AppliesTo
  <2>5. CASE Appends(h)
    <3>1. IsPending /\ ~IsPending'
      BY <1>1, <2>1, <2>2, <2>5 DEF Appends, IsPending, Pending
    <3>2. Executed = Len(chain) - 1 /\ Executed' = Len(chain)
      BY <1>2, <2>1, <3>1
    <3>3. Applies(accounts, chain[h]) /\ accounts' = After(accounts, chain[h])
      BY <2>5 DEF PacedInv, Appends, After
    <3>4. chain[Executed + 1] = chain[h] /\ Executed < Len(chain) /\ Executed' = Executed + 1
      BY <1>1, <2>2, <3>2
    <3> QED BY <2>1, <2>2, <3>3, <3>4 DEF Sequential!Next, Sequential!Execute, AppliesTo
  <2> QED BY <2>1, <2>3, <2>4, <2>5
<1>7. ASSUME Skip, Running = {}
      PROVE  Sequential!Next
  <2>1. /\ chain' = Append(chain, NoBlock) /\ NoBlock \in Decisions /\ Running = {}
        /\ Len(chain) < MaxHeight /\ UNCHANGED <<tasks, accounts, restarts>>
    BY <1>7 DEF Skip, Decisions, counters
  <2>2. Sequential!NextDecided /\ Sequential!Last(chain') = NoBlock /\ Len(chain') = Len(chain) + 1
    BY <1>1, <2>1, DecidedNext DEF Sequential!NextDecided, Sequential!Last
  <2>3. tasks'[Len(chain) + 1].step \notin Pending
    <3>1. Len(chain) + 1 \in 1..MaxHeight
      BY <1>1, <2>1, BoundsAssumption
    <3> QED BY <2>1, <3>1 DEF Running, Pending
  <2>4. Executed = Len(chain) /\ Executed' = Executed + 1
    BY <1>1, <1>2, <1>3, <2>1, <2>2, <2>3 DEF IsPending
  <2> QED BY <2>1, <2>2, <2>4 DEF Sequential!Next, Sequential!Skip, AppliesTo
<1>8. ASSUME Restart
      PROVE  Sequential!Next
  BY <1>1, <1>8, SequentialRestart
<1>9. CASE UNCHANGED vars
  BY <1>9 DEF vars, counters, Executed
<1> QED BY <1>4, <1>5, <1>6, <1>7, <1>8, <1>9 DEF PacedNext

(* As long as every block is executed before the next one is decided, execution *)
(* is the application of the decided blocks in the order of their heights, and  *)
(* it is again after a restart, whatever overlapped before                      *)
(* (ImplementsSequential).                                                      *)
THEOREM SequentialRefinement == LogSpec => ImplementsSequential
<1>. DEFINE Inv == TypeInv /\ (early = {} => PacedInv)
<1>1. LogInit => Inv
  BY TypeInit DEF LogInit, Init, NoTask, Task, PacedInv, Pending
<1>2. Inv /\ [LogNext]_logVars => Inv'
  <2>1. SUFFICES ASSUME Inv, [LogNext]_logVars PROVE Inv'
    OBVIOUS
  <2>2. TypeInv'
    BY <2>1, LogNextIsNext, TypeStep
  <2>3. ASSUME early' = {}
        PROVE  PacedInv'
    <3>1. [PacedNext]_vars /\ (early = {} \/ Restart)
      BY <2>1, <2>3, LogNextIsPaced
    <3> QED BY <2>1, <2>2, <3>1, PacedStep, PacedRestart
  <2> QED BY <2>2, <2>3
<1>3. LogInit => Sequential!Init
  <2>1. SUFFICES ASSUME LogInit PROVE Sequential!Init
    OBVIOUS
  <2>2. chain = <<>> /\ accounts = Genesis /\ restarts = 0
    BY <2>1 DEF LogInit, Init
  <2>3. Executed = 0
    BY <2>2, FS_EmptySet DEF Executed
  <2> QED BY <2>2, <2>3 DEF Sequential!Init
<1>4. Inv /\ Inv' /\ [LogNext]_logVars
        => [early' = {} => Sequential!Next]_<<chain, Executed, accounts, restarts>>
  <2>1. SUFFICES ASSUME Inv, Inv', [LogNext]_logVars, early' = {}
                 PROVE  Sequential!Next \/ UNCHANGED <<chain, Executed, accounts, restarts>>
    OBVIOUS
  <2>2. [PacedNext]_vars /\ (early = {} \/ Restart) /\ PacedInv'
    BY <2>1, LogNextIsPaced
  <2>3. CASE early = {}
    BY <2>1, <2>2, <2>3, SequentialStep
  <2>4. CASE Restart
    BY <2>1, <2>2, <2>4, SequentialRestart
  <2> QED BY <2>2, <2>3, <2>4
<1> HIDE DEF Inv
<1> QED BY <1>1, <1>2, <1>3, <1>4, PTL DEF LogSpec, ImplementsSequential

-------------------------------------------------------------------------------
(* The log.  What verify and verify-all conclude is right when the heights they *)
(* check were executed one at a time: until executions overlap, PacedInv holds, *)
(* the blocks appended are in ascending order of their heights, and so are the  *)
(* executions in the log (LogInv).  When they first overlap, at a height above  *)
(* those checked, nothing is said of what follows but that it leaves alone what *)
(* the checks look at (Frozen).                                                 *)

WithBlock == DOMAIN chain \ Skipped
Committed == {"appended", "succeeded", "failed"}
States == [AllAccounts -> Account]

(* The accounts a block appended was executed on, and what its signer paid.     *)
Before(i) == IF i = 1 THEN Genesis ELSE history[i - 1]
Charged(i) ==
  LET s == chain[appended[i]].signer IN history[i][s].balance = Before(i)[s].balance - 1

HistoryInv ==
  /\ history \in Seq(States) /\ Len(history) = Len(appended)
  /\ accounts = IF Len(appended) = 0 THEN Genesis ELSE history[Len(appended)]

AscendInv ==
  \A i \in 1..Len(appended) :
    /\ appended[i] \in WithBlock
    /\ tasks[appended[i]].step \in Committed
    /\ \A j \in 1..Len(appended) : j < i => appended[j] < appended[i]
    /\ Charged(i)

-------------------------------------------------------------------------------
(* A step that touches neither accounts nor what is appended: the chain may     *)
(* grow, and one task may start, be executed or fail.                           *)
Quiet ==
  /\ UNCHANGED <<accounts, appended>>
  /\ \A g \in WithBlock : g \in WithBlock' /\ chain'[g] = chain[g]
  /\ \A g \in 1..MaxHeight :
       \/ tasks'[g].step = tasks[g].step
       \/ tasks[g].step = "none" /\ tasks'[g].step = "spawned"
       \/ tasks[g].step = "read" /\ tasks'[g].step \in {"executed", "failed"}

(* Deciding a height is such a step.                                            *)
LEMMA DecidedQuiet ==
  ASSUME TypeInv, NEW block \in Decisions, chain' = Append(chain, block), Len(chain) < MaxHeight
  PROVE  \A g \in WithBlock : g \in WithBlock' /\ chain'[g] = chain[g]
BY ChainGrows DEF WithBlock

(* A signer's block is decided.                                                 *)
LEMMA SpawnQuiet ==
  ASSUME TypeInv, NEW s \in Signers, Spawn(s)
  PROVE  Quiet
<1>1. PICK h : h = Len(chain) + 1
  OBVIOUS
<1>2. PICK block : block = Block(s, next[s])
  OBVIOUS
<1>3. block \in Decisions
  BY <1>2 DEF Block, FileBlock, Decisions, TypeInv, TypeOK
<1>4. /\ chain' = Append(chain, block) /\ Len(chain) \in Nat /\ Len(chain) < MaxHeight
      /\ h \in 1..MaxHeight /\ UNCHANGED <<accounts, appended>>
  BY <1>1, <1>2, TaskFacts, BoundsAssumption DEF Spawn
<1>5. tasks' = [tasks EXCEPT ![h] = Task("spawned", 0, <<>>)]
  BY <1>1 DEF Spawn
<1>6. tasks[h].step = "none"
  <2>1. h \notin DOMAIN chain
    BY <1>1, <1>4, TaskFacts
  <2> QED BY <1>4, <2>1 DEF TypeInv, TaskTypes
<1>7. tasks'[h].step = "spawned" /\ \A g \in 1..MaxHeight : g # h => tasks'[g] = tasks[g]
  BY <1>4, <1>5 DEF TypeInv, Task
<1> QED BY <1>3, <1>4, <1>6, <1>7, DecidedQuiet DEF Quiet

(* A height without a block is decided.                                         *)
LEMMA SkipQuiet ==
  ASSUME TypeInv, Skip
  PROVE  Quiet
<1>1. NoBlock \in Decisions
  BY DEF Decisions
<1> QED BY <1>1, DecidedQuiet DEF Skip, Quiet

(* A block is lost, or its proposer starts again.                               *)
LEMMA LoseQuiet ==
  ASSUME TypeInv, NEW s \in Signers, Lose(s) \/ Reread(s)
  PROVE  Quiet
BY DEF Lose, Reread, Quiet, WithBlock, Skipped

(* A block is executed on its snapshot, or cannot be.                           *)
LEMMA ExecuteQuiet ==
  ASSUME TypeInv, NEW h \in 1..MaxHeight, Execute(h) \/ FailToExecute(h)
  PROVE  Quiet
<1>1. /\ UNCHANGED chain /\ TaskStep(h)
      /\ \A g \in 1..MaxHeight : g # h => tasks'[g] = tasks[g]
  BY TaskEffect DEF TaskStep
<1>2. tasks[h].step = "read" /\ UNCHANGED <<accounts, appended>>
  BY DEF Execute, FailToExecute
<1>3. tasks'[h].step \in {"executed", "failed"}
  BY <1>1, <1>2, TaskEffect DEF ReadsInitial, Executes, Fails, Appends, Finishes
<1> QED BY <1>1, <1>2, <1>3 DEF Quiet, WithBlock, Skipped

-------------------------------------------------------------------------------
(* The blocks appended and the accounts after each.                             *)

(* What the types say of the blocks appended.                                   *)
LEMMA AppendedFacts ==
  ASSUME TypeInv
  PROVE  /\ Len(appended) \in Nat /\ DOMAIN appended = 1..Len(appended)
         /\ appended \in Seq(Nat) /\ \A i \in 1..Len(appended) : appended[i] \in Nat
<1>1. Len(chain) \in Nat /\ appended \in Seq(1..Len(chain))
  BY TaskFacts DEF TypeInv, TypeOK
<1>2. Len(appended) \in Nat /\ DOMAIN appended = 1..Len(appended)
  BY <1>1, LenProperties
<1>3. \A i \in 1..Len(appended) : appended[i] \in Nat
  BY <1>1, <1>2, ElementOfSeq
<1> QED BY <1>1, <1>2, <1>3, SeqDef

(* Nothing changes about them in a step that is quiet.                          *)
LEMMA HistoryKept ==
  ASSUME TypeInv, HistoryInv, AscendInv, Quiet, UNCHANGED history
  PROVE  HistoryInv' /\ AscendInv'
<1>1. HistoryInv'
  BY DEF HistoryInv, Quiet
<1>2. ASSUME NEW i \in 1..Len(appended)
      PROVE  /\ appended[i] \in WithBlock' /\ chain'[appended[i]] = chain[appended[i]]
             /\ tasks'[appended[i]].step \in Committed
  <2>1. appended[i] \in WithBlock /\ tasks[appended[i]].step \in Committed
    BY DEF AscendInv
  <2>2. appended[i] \in 1..MaxHeight
    BY <2>1, TaskFacts DEF WithBlock
  <2> QED BY <2>1, <2>2 DEF Quiet, Committed
<1>3. AscendInv'
  BY <1>2 DEF AscendInv, Quiet, Charged, Before
<1> QED BY <1>1, <1>3

(* A step that only changes the step of a task that has committed, or starts to *)
(* read, leaves them alone, too.                                                *)
LEMMA HistoryOfTasks ==
  ASSUME TypeInv, HistoryInv, AscendInv, UNCHANGED <<chain, accounts, appended, history>>,
         NEW h \in 1..MaxHeight,
         \A g \in 1..MaxHeight : g # h => tasks'[g] = tasks[g],
         tasks[h].step \in Committed => tasks'[h].step \in Committed
  PROVE  HistoryInv' /\ AscendInv'
<1>1. HistoryInv'
  BY DEF HistoryInv
<1>2. ASSUME NEW i \in 1..Len(appended)
      PROVE  appended[i] \in WithBlock' /\ tasks'[appended[i]].step \in Committed
  <2>1. appended[i] \in WithBlock /\ tasks[appended[i]].step \in Committed
    BY DEF AscendInv
  <2>2. appended[i] \in 1..MaxHeight
    BY <2>1, TaskFacts DEF WithBlock
  <2> QED BY <2>1, <2>2 DEF WithBlock, Skipped
<1>3. AscendInv'
  BY <1>2 DEF AscendInv, Charged, Before
<1> QED BY <1>1, <1>3

(* A block appended is the last one decided, and its signer paid.               *)
LEMMA HistoryAppended ==
  ASSUME PacedInv, TypeInv', HistoryInv, AscendInv, NEW h \in 1..MaxHeight, AppendBlock(h),
         history' = Append(history, accounts')
  PROVE  HistoryInv' /\ AscendInv'
<1>1. TypeInv /\ TaskStep(h)
  BY DEF PacedInv, TaskStep
<1>2. /\ UNCHANGED chain /\ h \in WithBlock /\ h \in Nat
      /\ \A g \in 1..MaxHeight : g # h => tasks'[g] = tasks[g]
      /\ ReadsInitial(h) \/ Executes(h) \/ Fails(h) \/ Appends(h) \/ Finishes(h)
  BY <1>1, TaskEffect, BoundsAssumption DEF WithBlock
<1>3. tasks[h].step = "executed"
  BY DEF AppendBlock
<1>4. Appends(h)
  BY <1>2, <1>3 DEF ReadsInitial, Executes, Fails, Finishes
<1>5. PICK n : n = Len(appended)
  OBVIOUS
<1>6. /\ n \in Nat /\ appended \in Seq(Nat) /\ \A i \in 1..n : appended[i] \in Nat
      /\ history \in Seq(States) /\ Len(history) = n
  BY <1>1, <1>5, AppendedFacts DEF HistoryInv
<1>7. /\ Len(appended') = n + 1 /\ appended'[n + 1] = h
      /\ \A i \in 1..n : appended'[i] = appended[i]
  BY <1>2, <1>4, <1>5, <1>6, AppendFacts DEF Appends
<1>8. accounts' \in States
  BY DEF TypeInv, TypeOK, States, Account
<1>9. /\ history' \in Seq(States) /\ Len(history') = n + 1 /\ history'[n + 1] = accounts'
      /\ \A i \in 1..n : history'[i] = history[i]
  BY <1>6, <1>8, AppendFacts
<1>10. PICK s : s = chain[h].signer
  OBVIOUS
<1>11. chain[h] \in FileBlock /\ s \in Signers /\ s \in AllAccounts
  BY <1>1, <1>2, <1>10, TaskFacts DEF WithBlock
<1>12. accounts'[s].balance = accounts[s].balance - 1
  <2>1. tasks[h].writes = Writes(accounts, chain[h])
    BY <1>3 DEF PacedInv
  <2>2. PICK w : w = Writes(accounts, chain[h])
    OBVIOUS
  <2>3. DOMAIN w = {s, Recipient}
        /\ w[s] = [nonce |-> chain[h].nonce + 1, balance |-> accounts[s].balance - 1]
    BY <1>10, <2>2 DEF Writes
  <2>4. accounts' = [a \in AllAccounts |-> IF a \in DOMAIN w THEN w[a] ELSE accounts[a]]
    BY <1>4, <2>1, <2>2 DEF Appends, Overwritten
  <2> QED BY <1>11, <2>3, <2>4
<1>13. accounts = IF n = 0 THEN Genesis ELSE history[n]
  BY <1>5 DEF HistoryInv
<1>14. HistoryInv'
  BY <1>6, <1>7, <1>9 DEF HistoryInv
<1>15. ASSUME NEW i \in 1..n
       PROVE  /\ appended'[i] \in WithBlock' /\ tasks'[appended'[i]].step \in Committed
              /\ appended'[i] < h /\ Charged(i)'
              /\ \A j \in 1..n : j < i => appended'[j] < appended'[i]
  <2>1. /\ appended[i] \in WithBlock /\ tasks[appended[i]].step \in Committed /\ Charged(i)
        /\ \A j \in 1..n : j < i => appended[j] < appended[i]
    BY <1>5 DEF AscendInv
  <2>2. appended[i] # h
    BY <1>3, <2>1 DEF Committed
  <2>3. appended[i] \in 1..MaxHeight /\ appended[i] <= Len(chain) /\ h = Len(chain)
    <3>1. appended[i] \in 1..MaxHeight /\ appended[i] \in 1..Len(chain) /\ Len(chain) \in Nat
      BY <1>1, <2>1, TaskFacts DEF WithBlock
    <3>2. h = Len(chain)
      BY <1>3 DEF PacedInv, Pending
    <3> QED BY <3>1, <3>2
  <2>4. appended'[i] = appended[i] /\ history'[i] = history[i]
    BY <1>7, <1>9
  <2>5. Before(i)' = Before(i)
    <3>1. CASE i = 1
      BY <3>1 DEF Before
    <3>2. CASE i # 1
      <4>1. i - 1 \in 1..n
        BY <1>6, <3>2
      <4> QED BY <1>9, <3>2, <4>1 DEF Before
    <3> QED BY <3>1, <3>2
  <2>6. Charged(i)'
    BY <1>2, <2>1, <2>4, <2>5 DEF Charged
  <2>7. appended[i] < h
    BY <1>2, <1>6, <2>2, <2>3
  <2>8. tasks'[appended[i]].step \in Committed /\ appended[i] \in WithBlock'
    BY <1>2, <2>1, <2>2, <2>3 DEF WithBlock, Skipped
  <2> QED BY <1>7, <2>1, <2>4, <2>6, <2>7, <2>8
<1>16. /\ h \in WithBlock' /\ tasks'[h].step \in Committed
  BY <1>2, <1>4 DEF Appends, Committed, WithBlock, Skipped
<1>17. Charged(n + 1)'
  <2>1. Before(n + 1)' = accounts
    <3>1. CASE n = 0
      BY <1>13, <3>1 DEF Before
    <3>2. CASE n # 0
      <4>1. n + 1 # 1 /\ (n + 1) - 1 = n /\ n \in 1..n
        BY <1>6, <3>2
      <4> QED BY <1>9, <1>13, <3>2, <4>1 DEF Before
    <3> QED BY <3>1, <3>2
  <2>2. chain'[appended'[n + 1]].signer = s
    BY <1>2, <1>7, <1>10
  <2> QED BY <1>9, <1>12, <2>1, <2>2 DEF Charged
<1>18. ASSUME NEW i \in 1..Len(appended')
       PROVE  /\ appended'[i] \in WithBlock' /\ tasks'[appended'[i]].step \in Committed
              /\ \A j \in 1..Len(appended') : j < i => appended'[j] < appended'[i]
              /\ Charged(i)'
  <2>1. CASE i \in 1..n
    <3>1. \A j \in 1..Len(appended') : j < i => j \in 1..n
      BY <1>6, <1>7, <2>1
    <3> QED BY <1>15, <2>1, <3>1
  <2>2. CASE i \notin 1..n
    <3>1. i = n + 1 /\ \A j \in 1..Len(appended') : j < i => j \in 1..n
      BY <1>6, <1>7, <2>2
    <3> QED BY <1>7, <1>15, <1>16, <1>17, <3>1
  <2> QED BY <2>1, <2>2
<1> QED BY <1>14, <1>18 DEF AscendInv

(* A restart forgets both.                                                      *)
LEMMA HistoryRestarted ==
  ASSUME Restart, history' = <<>>
  PROVE  HistoryInv' /\ AscendInv'
<1>1. Len(appended') = 0 /\ Len(history') = 0 /\ history' \in Seq(States) /\ accounts' = Genesis
  BY EmptySeq DEF Restart, AccountsAtStart
<1> QED BY <1>1 DEF HistoryInv, AscendInv

-------------------------------------------------------------------------------
(* The executions read from the log.                                            *)

Executions == [height : 1..MaxHeight, signer : Signers, initial : Nat, final : Nat]
Begun == {"read", "executed"} \cup Committed

(* The next execution of the same signer, and the last one there is.            *)
NextOfSigner(e, j, i) ==
  /\ j < i /\ e[j].signer = e[i].signer
  /\ \A k \in 1..Len(e) : j < k /\ k < i => e[k].signer # e[i].signer
LastOfSigner(e, i) == \A j \in 1..Len(e) : i < j => e[j].signer # e[i].signer

(* An execution in the log is of a block decided whose task has begun, ...      *)
OfTask(e, i) ==
  /\ e[i].height \in WithBlock /\ e[i].signer = chain[e[i].height].signer
  /\ tasks[e[i].height].step \in Begun

(* ... is above those read before it, and consistent with them, ...             *)
Follows(e, i) ==
  /\ e[i].final <= e[i].initial
  /\ \A j \in 1..Len(e) : j < i => e[j].height < e[i].height
  /\ \A j \in 1..Len(e) : NextOfSigner(e, j, i) => e[i].initial = e[j].final

(* ... and the last one of a signer has the balance of its account, unless the  *)
(* block is committed and the final balance not printed yet.                    *)
UpToDate(e, i) ==
  LastOfSigner(e, i) =>
    LET balance == accounts[e[i].signer].balance IN
    IF tasks[e[i].height].step = "appended" THEN balance <= e[i].initial
    ELSE balance = e[i].final

ReadTypes ==
  /\ read.executions \in Seq(Executions)
  /\ read = [height |-> read.height, signer |-> read.signer, executions |-> read.executions]

(* The reader still knows the height and signer of the last execution.          *)
AtLast ==
  LET e == read.executions IN
  Len(e) # 0 => read.height = e[Len(e)].height /\ read.signer = e[Len(e)].signer

(* Each task that has begun is in the log.                                      *)
AllRead ==
  \A h \in 1..MaxHeight : tasks[h].step \in Begun =>
    \E i \in 1..Len(read.executions) : read.executions[i].height = h

ReadInv ==
  /\ ReadTypes /\ AtLast /\ AllRead
  /\ \A i \in 1..Len(read.executions) :
       OfTask(read.executions, i) /\ Follows(read.executions, i) /\ UpToDate(read.executions, i)

LogInv == PacedInv /\ HistoryInv /\ AscendInv /\ ReadInv

(* What the types say of the executions read.                                   *)
LEMMA ReadFacts ==
  ASSUME NEW e \in Seq(Executions)
  PROVE  /\ Len(e) \in Nat /\ DOMAIN e = 1..Len(e)
         /\ \A i \in 1..Len(e) :
              /\ e[i] \in Executions /\ e[i].height \in 1..MaxHeight /\ e[i].signer \in Signers
              /\ e[i].initial \in Nat /\ e[i].final \in Nat
              /\ e[i] = BlockExecution(e[i].height, e[i].signer, e[i].initial, e[i].final)
<1>1. Len(e) \in Nat /\ DOMAIN e = 1..Len(e)
  BY LenProperties
<1>2. \A i \in 1..Len(e) : e[i] \in Executions
  BY <1>1, ElementOfSeq
<1> QED BY <1>1, <1>2 DEF Executions, BlockExecution

(* Reading the three lines of a task that begins.                               *)
LEMMA StartIsRead ==
  ASSUME ReadTypes, NEW h, NEW s, s = chain[h].signer, NEW b, b = accounts[s].balance
  PROVE  PrintStart(h) = [height |-> h, signer |-> s,
                          executions |-> Append(read.executions, BlockExecution(h, s, b, b))]
<1>1. PICK e : e = read.executions
  OBVIOUS
<1>2. read = [height |-> read.height, signer |-> read.signer, executions |-> e]
  BY <1>1 DEF ReadTypes
<1>3. PICK r : r = ReadLine(read, Line("Executing block", h))
  OBVIOUS
<1>4. r = [height |-> h, signer |-> read.signer, executions |-> e]
  BY <1>2, <1>3 DEF ReadLine, Line
<1>5. PICK q : q = ReadLine(r, Line("Transaction signer", s))
  OBVIOUS
<1>6. q = [height |-> h, signer |-> s, executions |-> e]
  BY <1>4, <1>5 DEF ReadLine, Line
<1>7. ReadLine(q, Line("Initial balance", b)) =
        [height |-> h, signer |-> s, executions |-> Append(e, BlockExecution(h, s, b, b))]
  BY <1>6 DEF ReadLine, Line
<1> QED BY <1>1, <1>3, <1>5, <1>7, Zenon DEF PrintStart

(* The final balance of an execution.                                           *)
Ended(e, n, b) == [e EXCEPT ![n].final = b]

(* The final balance belongs to the last execution, whose height and signer are *)
(* the ones read last.                                                          *)
LEMMA FinalOfLast ==
  ASSUME NEW e \in Seq(Executions), NEW n \in Nat \ {0}, n = Len(e),
         NEW height, height = e[n].height, NEW s, s = e[n].signer, NEW b
  PROVE  WithFinal(e, height, s, b) = Ended(e, n, b)
<1>1. PICK I : I = {i \in 1..Len(e) : e[i].height = height /\ e[i].signer = s}
  OBVIOUS
<1>2. n \in I /\ \A i \in I : i \in Nat /\ i <= n
  BY <1>1
<1>3. Max(I) = n
  <2>1. \A m \in I : (\A y \in I : m >= y) => m = n
    BY <1>2
  <2> QED BY <1>2, <2>1 DEF Max
<1>4. I # {}
  BY <1>2
<1> QED BY <1>1, <1>3, <1>4 DEF WithFinal, SelectLastInSeq, Ended

(* Reading the line of a task that ends.                                        *)
LEMMA EndIsRead ==
  ASSUME ReadTypes, AtLast, NEW h, NEW b, b = accounts[chain[h].signer].balance,
         NEW e, e = read.executions, NEW n \in Nat \ {0}, n = Len(e)
  PROVE  PrintEnd(h) = [height |-> read.height, signer |-> read.signer,
                        executions |-> Ended(e, n, b)]
<1>1. e \in Seq(Executions)
      /\ read = [height |-> read.height, signer |-> read.signer, executions |-> e]
  BY DEF ReadTypes
<1>2. read.height = e[n].height /\ read.signer = e[n].signer
  BY DEF AtLast
<1>3. PICK f : f = WithFinal(e, read.height, read.signer, b)
  OBVIOUS
<1>4. f = Ended(e, n, b)
  <2>1. PICK height : height = read.height
    OBVIOUS
  <2>2. PICK s : s = read.signer
    OBVIOUS
  <2>3. height = e[n].height /\ s = e[n].signer
    BY <1>2, <2>1, <2>2, Zenon
  <2>4. WithFinal(e, height, s, b) = Ended(e, n, b)
    BY <1>1, <2>3, FinalOfLast
  <2> QED BY <1>3, <2>1, <2>2, <2>4, Zenon
<1>5. ReadLine(read, Line("Final balance", b)) =
        [height |-> read.height, signer |-> read.signer, executions |-> f]
  BY <1>1, <1>3 DEF ReadLine, Line
<1> QED BY <1>4, <1>5 DEF PrintEnd

(* The invariant of the next state, over what has been read then.               *)
LEMMA ReadInvNext ==
  ASSUME NEW f \in Seq(Executions), f = read'.executions,
         read' = [height |-> read'.height, signer |-> read'.signer, executions |-> f],
         Len(f) # 0 => read'.height = f[Len(f)].height /\ read'.signer = f[Len(f)].signer,
         \A h \in 1..MaxHeight : tasks'[h].step \in Begun => \E i \in 1..Len(f) : f[i].height = h,
         \A i \in 1..Len(f) : OfTask(f, i)' /\ Follows(f, i) /\ UpToDate(f, i)'
  PROVE  ReadInv'
<1>1. ReadTypes' /\ AtLast' /\ AllRead'
  BY DEF ReadTypes, AtLast, AllRead
<1>2. ASSUME NEW i \in 1..Len(f)
      PROVE  /\ OfTask(read.executions, i)' /\ Follows(read.executions, i)'
             /\ UpToDate(read.executions, i)'
  <2>1. OfTask(f, i)' /\ Follows(f, i) /\ UpToDate(f, i)'
    OBVIOUS
  <2>2. OfTask(read.executions, i)'
    BY <2>1, Zenon DEF OfTask
  <2>3. Follows(read.executions, i)'
    BY <2>1, Zenon DEF Follows, NextOfSigner
  <2>4. UpToDate(read.executions, i)'
    BY <2>1, Zenon DEF UpToDate, LastOfSigner
  <2> QED BY <2>2, <2>3, <2>4
<1> QED BY <1>1, <1>2 DEF ReadInv

(* A task past its start is the last in the log.                                *)
LEMMA LastIsRead ==
  ASSUME PacedInv, ReadInv, NEW h \in 1..MaxHeight, tasks[h].step \in {"executed", "appended"},
         NEW e, e = read.executions
  PROVE  /\ Len(e) \in Nat \ {0} /\ e[Len(e)].height = h /\ e[Len(e)].signer = chain[h].signer
         /\ \A i \in 1..Len(e) : i # Len(e) => e[i].height \in 1..MaxHeight /\ e[i].height < h
<1>1. /\ e \in Seq(Executions) /\ Len(e) \in Nat
      /\ \A i \in 1..Len(e) : e[i].height \in 1..MaxHeight
  BY ReadFacts DEF ReadInv, ReadTypes
<1>2. PICK i \in 1..Len(e) : e[i].height = h
  BY DEF ReadInv, AllRead, Begun, Committed
<1>3. h = Len(chain) /\ DOMAIN chain = 1..Len(chain)
  BY TaskFacts DEF PacedInv, Pending
<1>4. \A k \in 1..Len(e) : /\ e[k].height \in WithBlock /\ e[k].signer = chain[e[k].height].signer
                           /\ \A j \in 1..Len(e) : j < k => e[j].height < e[k].height
  BY DEF ReadInv, OfTask, Follows
<1>5. PICK n \in Nat \ {0} : n = Len(e)
  BY <1>1, <1>2
<1>6. n \in 1..n /\ e[n].height \in 1..h
  BY <1>3, <1>4, <1>5 DEF WithBlock
<1>7. i = n
  BY <1>1, <1>2, <1>4, <1>5, <1>6
<1> QED BY <1>1, <1>2, <1>4, <1>5, <1>7

(* Nothing is printed in a step that is quiet.                                  *)
LEMMA ReadKept ==
  ASSUME TypeInv, ReadInv, Quiet, UNCHANGED read
  PROVE  ReadInv'
<1>1. PICK e \in Seq(Executions) : e = read.executions
  BY DEF ReadInv, ReadTypes
<1>2. ASSUME NEW i \in 1..Len(e)
      PROVE  OfTask(e, i)' /\ Follows(e, i) /\ UpToDate(e, i)'
  <2>1. OfTask(e, i) /\ Follows(e, i) /\ UpToDate(e, i)
    BY <1>1 DEF ReadInv
  <2>2. PICK h : h = e[i].height
    OBVIOUS
  <2>3. /\ h \in 1..MaxHeight /\ h \in WithBlock /\ h \in WithBlock' /\ chain'[h] = chain[h]
        /\ accounts' = accounts
    BY <2>1, <2>2, TaskFacts DEF OfTask, Quiet, WithBlock
  <2>4. /\ tasks[h].step \in Begun => tasks'[h].step \in Begun
        /\ tasks[h].step = "appended" <=> tasks'[h].step = "appended"
    BY <2>3 DEF Quiet, Begun, Committed
  <2>5. OfTask(e, i)'
    BY <2>1, <2>2, <2>3, <2>4 DEF OfTask
  <2>6. UpToDate(e, i)'
    BY <2>1, <2>2, <2>3, <2>4 DEF UpToDate
  <2> QED BY <2>1, <2>5, <2>6
<1>3. \A h \in 1..MaxHeight : tasks'[h].step \in Begun => \E i \in 1..Len(e) : e[i].height = h
  BY <1>1 DEF ReadInv, AllRead, Quiet, Begun, Committed
<1>4. /\ read' = [height |-> read'.height, signer |-> read'.signer, executions |-> e]
      /\ e = read'.executions
      /\ Len(e) # 0 => read'.height = e[Len(e)].height /\ read'.signer = e[Len(e)].signer
  BY <1>1 DEF ReadInv, ReadTypes, AtLast
<1> QED BY <1>1, <1>2, <1>3, <1>4, ReadInvNext

(* A block is committed: the balance of its signer is below what was printed,   *)
(* and no other execution is the last one of this signer.                       *)
LEMMA ReadAppended ==
  ASSUME PacedInv, ReadInv, NEW h \in 1..MaxHeight, AppendBlock(h), UNCHANGED read
  PROVE  ReadInv'
<1>1. PICK e \in Seq(Executions) : e = read.executions
  BY DEF ReadInv, ReadTypes
<1>2. TypeInv /\ TaskStep(h) /\ tasks[h].step = "executed"
  BY DEF PacedInv, TaskStep, AppendBlock
<1>3. /\ UNCHANGED chain /\ h \in WithBlock
      /\ \A g \in 1..MaxHeight : g # h => tasks'[g] = tasks[g]
      /\ tasks'[h].step = "appended"
      /\ accounts' = Overwritten(accounts, tasks[h].writes)
  BY <1>2, TaskEffect DEF WithBlock, ReadsInitial, Executes, Fails, Appends, Finishes
<1>4. PICK s : s = chain[h].signer
  OBVIOUS
<1>5. /\ s \in Signers /\ s \in AllAccounts /\ s # Recipient
      /\ \A a \in Signers : a \in AllAccounts /\ a # Recipient
      /\ \A a \in AllAccounts : accounts[a].balance \in Nat
  BY <1>2, <1>3, <1>4, TaskFacts DEF WithBlock
<1>6. PICK w : w = Writes(accounts, chain[h])
  OBVIOUS
<1>7. /\ DOMAIN w = {s, Recipient}
      /\ w[s] = [nonce |-> chain[h].nonce + 1, balance |-> accounts[s].balance - 1]
  BY <1>4, <1>6 DEF Writes
<1>8. accounts' = [a \in AllAccounts |-> IF a \in DOMAIN w THEN w[a] ELSE accounts[a]]
  BY <1>2, <1>3, <1>6 DEF PacedInv, Overwritten
<1>9. /\ accounts'[s].balance = accounts[s].balance - 1
      /\ \A a \in Signers : a # s => accounts'[a] = accounts[a]
  BY <1>5, <1>7, <1>8
<1>10. PICK n \in Nat \ {0} : n = Len(e)
  BY <1>1, <1>2, LastIsRead
<1>11. /\ e[n].height = h /\ e[n].signer = s
       /\ \A i \in 1..n : i # n => e[i].height \in 1..MaxHeight /\ e[i].height < h
  BY <1>1, <1>2, <1>4, <1>10, LastIsRead
<1>12. ASSUME NEW i \in 1..n
       PROVE  OfTask(e, i)' /\ Follows(e, i) /\ UpToDate(e, i)'
  <2>1. /\ OfTask(e, i) /\ Follows(e, i) /\ UpToDate(e, i)
        /\ e[i].signer \in Signers /\ e[i].initial \in Nat /\ e[i].final \in Nat
    BY <1>1, <1>10, ReadFacts DEF ReadInv
  <2>2. CASE i = n
    <3>1. LastOfSigner(e, i)
      BY <1>10, <2>2 DEF LastOfSigner
    <3>2. accounts[s].balance = e[i].final /\ e[i].final <= e[i].initial
      BY <1>2, <1>11, <2>1, <2>2, <3>1 DEF UpToDate, Follows
    <3>3. accounts'[s].balance <= e[i].initial
      BY <1>5, <1>9, <2>1, <3>2
    <3>4. UpToDate(e, i)'
      BY <1>3, <1>11, <2>2, <3>3 DEF UpToDate
    <3>5. OfTask(e, i)'
      BY <1>3, <1>11, <2>1, <2>2 DEF OfTask, WithBlock, Skipped, Begun, Committed
    <3> QED BY <2>1, <3>4, <3>5
  <2>3. CASE i # n
    <3>1. e[i].height \in 1..MaxHeight /\ e[i].height # h
      BY <1>11, <2>3, BoundsAssumption
    <3>2. tasks'[e[i].height] = tasks[e[i].height]
      BY <1>3, <3>1
    <3>3. OfTask(e, i)'
      BY <1>3, <2>1, <3>2 DEF OfTask, WithBlock, Skipped
    <3>4. LastOfSigner(e, i) => accounts'[e[i].signer] = accounts[e[i].signer]
      <4>1. LastOfSigner(e, i) => e[i].signer # s
        BY <1>10, <1>11, <2>3 DEF LastOfSigner
      <4> QED BY <1>9, <2>1, <4>1
    <3>5. UpToDate(e, i)'
      BY <2>1, <3>2, <3>4 DEF UpToDate
    <3> QED BY <2>1, <3>3, <3>5
  <2> QED BY <2>2, <2>3
<1>13. \A g \in 1..MaxHeight : tasks'[g].step \in Begun => \E i \in 1..Len(e) : e[i].height = g
  BY <1>1, <1>2, <1>3 DEF ReadInv, AllRead, Begun, Committed
<1>14. /\ read' = [height |-> read'.height, signer |-> read'.signer, executions |-> e]
       /\ e = read'.executions
       /\ Len(e) # 0 => read'.height = e[Len(e)].height /\ read'.signer = e[Len(e)].signer
  BY <1>1 DEF ReadInv, ReadTypes, AtLast
<1> QED BY <1>1, <1>10, <1>12, <1>13, <1>14, ReadInvNext

(* A task begins: its three lines are read as an execution at the end of the    *)
(* list, whose initial balance is what the last one of the signer left.         *)
LEMMA ReadBegun ==
  ASSUME PacedInv, ReadInv, NEW h \in 1..MaxHeight, ReadInitial(h), read' = PrintStart(h)
  PROVE  ReadInv'
<1>1. PICK e \in Seq(Executions) : e = read.executions
  BY DEF ReadInv, ReadTypes
<1>2. TypeInv /\ TaskStep(h) /\ tasks[h].step = "spawned"
  BY DEF PacedInv, TaskStep, ReadInitial
<1>3. /\ UNCHANGED <<chain, accounts>> /\ h \in WithBlock /\ h = Len(chain)
      /\ \A g \in 1..MaxHeight : g # h => tasks'[g] = tasks[g]
      /\ tasks'[h].step = "read"
  BY <1>2, TaskEffect
     DEF WithBlock, ReadsInitial, Executes, Fails, Appends, Finishes, PacedInv, Pending
<1>4. PICK s : s = chain[h].signer
  OBVIOUS
<1>5. PICK b : b = accounts[s].balance
  OBVIOUS
<1>6. s \in Signers /\ b \in Nat
  BY <1>2, <1>3, <1>4, <1>5, TaskFacts DEF WithBlock
<1>7. PICK x : x = BlockExecution(h, s, b, b)
  OBVIOUS
<1>8. PICK f : f = Append(e, x)
  OBVIOUS
<1>9. /\ x \in Executions /\ x.height = h /\ x.signer = s /\ x.initial = b /\ x.final = b
  BY <1>6, <1>7 DEF BlockExecution, Executions
<1>10. read' = [height |-> h, signer |-> s, executions |-> f]
  BY <1>1, <1>4, <1>5, <1>7, <1>8, StartIsRead DEF ReadInv
<1>11. PICK n : n = Len(e)
  OBVIOUS
<1>12. /\ n \in Nat /\ f \in Seq(Executions) /\ Len(f) = n + 1 /\ f[n + 1] = x
       /\ \A i \in 1..n : f[i] = e[i]
  BY <1>8, <1>9, <1>11, AppendFacts
<1>13. ASSUME NEW i \in 1..n
       PROVE  /\ OfTask(e, i) /\ Follows(e, i) /\ UpToDate(e, i)
              /\ e[i].height \in 1..MaxHeight /\ e[i].height < h
  <2>1. OfTask(e, i) /\ Follows(e, i) /\ UpToDate(e, i)
    BY <1>1, <1>11 DEF ReadInv
  <2>2. e[i].height \in 1..MaxHeight /\ e[i].height \in 1..h /\ e[i].height # h
    BY <1>2, <1>3, <2>1, TaskFacts DEF OfTask, WithBlock, Begun, Committed
  <2> QED BY <2>1, <2>2, BoundsAssumption
<1>14. ASSUME NEW i \in 1..n
       PROVE  OfTask(f, i)' /\ Follows(f, i) /\ UpToDate(f, i)'
  <2>1. f[i] = e[i] /\ tasks'[e[i].height] = tasks[e[i].height]
    BY <1>3, <1>12, <1>13, BoundsAssumption
  <2>2. OfTask(f, i)'
    BY <1>3, <1>13, <2>1 DEF OfTask, WithBlock, Skipped
  <2>3. \A j \in 1..n + 1 : j < i => j \in 1..n
    BY <1>12
  <2>4. Follows(f, i)
    <3>1. \A j \in 1..n + 1 : NextOfSigner(f, j, i) => j \in 1..n /\ NextOfSigner(e, j, i)
      BY <1>11, <1>12, <2>3 DEF NextOfSigner
    <3> QED BY <1>11, <1>12, <1>13, <2>1, <2>3, <3>1 DEF Follows
  <2>5. LastOfSigner(f, i) => LastOfSigner(e, i)
    BY <1>11, <1>12 DEF LastOfSigner
  <2>6. UpToDate(f, i)'
    BY <1>3, <1>13, <2>1, <2>5 DEF UpToDate
  <2> QED BY <2>2, <2>4, <2>6
<1>15. OfTask(f, n + 1)' /\ Follows(f, n + 1) /\ UpToDate(f, n + 1)'
  <2>1. OfTask(f, n + 1)'
    BY <1>3, <1>4, <1>9, <1>12 DEF OfTask, WithBlock, Skipped, Begun
  <2>2. UpToDate(f, n + 1)'
    BY <1>3, <1>5, <1>9, <1>12 DEF UpToDate
  <2>3. ASSUME NEW j \in 1..n + 1, NextOfSigner(f, j, n + 1)
        PROVE  b = f[j].final
    <3>1. j \in 1..n /\ f[j] = e[j] /\ e[j].signer = s
      BY <1>9, <1>12, <2>3 DEF NextOfSigner
    <3>2. LastOfSigner(e, j)
      BY <1>9, <1>11, <1>12, <2>3, <3>1 DEF NextOfSigner, LastOfSigner
    <3>3. tasks[e[j].height].step # "appended"
      BY <1>3, <1>13, <3>1, BoundsAssumption DEF PacedInv
    <3> QED BY <1>5, <1>13, <3>1, <3>2, <3>3 DEF UpToDate
  <2>4. \A j \in 1..n + 1 : j < n + 1 => f[j].height < h
    BY <1>12, <1>13
  <2>5. Follows(f, n + 1)
    BY <1>6, <1>9, <1>12, <2>3, <2>4 DEF Follows
  <2> QED BY <2>1, <2>2, <2>5
<1>16. \A i \in 1..n + 1 : OfTask(f, i)' /\ Follows(f, i) /\ UpToDate(f, i)'
  <2>1. \A i \in 1..n + 1 : i \in 1..n \/ i = n + 1
    BY <1>12
  <2> QED BY <1>14, <1>15, <2>1
<1>17. ASSUME NEW g \in 1..MaxHeight, tasks'[g].step \in Begun
       PROVE  \E i \in 1..n + 1 : f[i].height = g
  <2>1. CASE g = h
    BY <1>9, <1>12, <2>1
  <2>2. CASE g # h
    <3>1. PICK i \in 1..n : e[i].height = g
      BY <1>1, <1>3, <1>11, <1>17, <2>2 DEF ReadInv, AllRead
    <3> QED BY <1>12, <3>1
  <2> QED BY <2>1, <2>2
<1>18. read'.executions = f /\ read'.height = h /\ read'.signer = s
  BY <1>10
<1>19. /\ f \in Seq(Executions) /\ f = read'.executions
       /\ read' = [height |-> read'.height, signer |-> read'.signer, executions |-> f]
       /\ Len(f) # 0 => read'.height = f[Len(f)].height /\ read'.signer = f[Len(f)].signer
  BY <1>9, <1>10, <1>12, <1>18
<1>20. /\ \A g \in 1..MaxHeight : tasks'[g].step \in Begun => \E i \in 1..Len(f) : f[i].height = g
       /\ \A i \in 1..Len(f) : OfTask(f, i)' /\ Follows(f, i) /\ UpToDate(f, i)'
  BY <1>12, <1>16, <1>17
<1> QED BY <1>19, <1>20, ReadInvNext, Zenon

(* A task ends: its line is the final balance of the last execution.            *)
LEMMA ReadEnded ==
  ASSUME PacedInv, ReadInv, NEW h \in 1..MaxHeight, Finish(h), read' = PrintEnd(h)
  PROVE  ReadInv'
<1>1. PICK e \in Seq(Executions) : e = read.executions
  BY DEF ReadInv, ReadTypes
<1>2. TypeInv /\ TaskStep(h) /\ tasks[h].step = "appended"
  BY DEF PacedInv, TaskStep, Finish
<1>3. /\ UNCHANGED <<chain, accounts>> /\ h \in WithBlock
      /\ \A g \in 1..MaxHeight : g # h => tasks'[g] = tasks[g]
      /\ tasks'[h].step \in {"succeeded", "failed"}
  BY <1>2, TaskEffect DEF WithBlock, ReadsInitial, Executes, Fails, Appends, Finishes
<1>4. PICK s : s = chain[h].signer
  OBVIOUS
<1>5. PICK b : b = accounts[s].balance
  OBVIOUS
<1>6. s \in Signers /\ b \in Nat
  BY <1>2, <1>3, <1>4, <1>5, TaskFacts DEF WithBlock
<1>7. PICK n \in Nat \ {0} : n = Len(e)
  BY <1>1, <1>2, LastIsRead
<1>8. /\ e[n].height = h /\ e[n].signer = s
      /\ \A i \in 1..n : i # n => e[i].height \in 1..MaxHeight /\ e[i].height < h
  BY <1>1, <1>2, <1>4, <1>7, LastIsRead
<1>9. PICK f : f = Ended(e, n, b)
  OBVIOUS
<1>10. read' = [height |-> read.height, signer |-> read.signer, executions |-> f]
  BY <1>1, <1>4, <1>5, <1>7, <1>9, EndIsRead DEF ReadInv
<1>11. ASSUME NEW i \in 1..n
       PROVE  /\ OfTask(e, i) /\ Follows(e, i) /\ UpToDate(e, i) /\ e[i] \in Executions
              /\ e[i] = BlockExecution(e[i].height, e[i].signer, e[i].initial, e[i].final)
  BY <1>1, <1>7, ReadFacts DEF ReadInv
<1>12. PICK x : x = [e[n] EXCEPT !.final = b]
  OBVIOUS
<1>13. /\ x.height = h /\ x.signer = s /\ x.initial = e[n].initial /\ x.final = b
       /\ x \in Executions
  <2>1. n \in 1..n
    BY <1>7
  <2>2. /\ e[n] = [height |-> h, signer |-> s, initial |-> e[n].initial, final |-> e[n].final]
        /\ e[n].initial \in Nat
    BY <1>8, <1>11, <2>1 DEF BlockExecution, Executions
  <2>3. x = [height |-> h, signer |-> s, initial |-> e[n].initial, final |-> b]
    BY <1>12, <2>2
  <2> QED BY <1>6, <2>2, <2>3 DEF Executions
<1>14. /\ DOMAIN e = 1..n
       /\ f = [i \in 1..n |-> IF i = n THEN x ELSE e[i]]
  <2>1. DOMAIN e = 1..n
    BY <1>1, <1>7, ReadFacts
  <2>2. f = [e EXCEPT ![n] = x]
    BY <1>9, <1>12 DEF Ended
  <2> QED BY <2>1, <2>2
<1>15. /\ f \in Seq(Executions) /\ Len(f) = n /\ f[n] = x
       /\ \A i \in 1..n : i # n => f[i] = e[i]
  BY <1>7, <1>11, <1>13, <1>14
<1>16. \A i \in 1..n : /\ f[i].height = e[i].height /\ f[i].signer = e[i].signer
                       /\ f[i].initial = e[i].initial
  BY <1>8, <1>13, <1>15
<1>17. b <= e[n].initial
  <2>1. n \in 1..n /\ LastOfSigner(e, n)
    BY <1>7 DEF LastOfSigner
  <2> QED BY <1>2, <1>5, <1>8, <1>11, <2>1 DEF UpToDate
<1>18. ASSUME NEW i \in 1..n
       PROVE  OfTask(f, i)' /\ Follows(f, i) /\ UpToDate(f, i)'
  <2>1. f[i].height = h \/ tasks'[f[i].height] = tasks[f[i].height]
    BY <1>3, <1>8, <1>16, BoundsAssumption
  <2>2. OfTask(f, i)'
    BY <1>3, <1>11, <1>16, <2>1 DEF OfTask, WithBlock, Skipped, Begun, Committed
  <2>3. \A j \in 1..n : j < i => f[j] = e[j]
    BY <1>7, <1>15
  <2>4. \A j \in 1..n : NextOfSigner(f, j, i) => NextOfSigner(e, j, i)
    BY <1>7, <1>15, <1>16 DEF NextOfSigner
  <2>5. f[i].final <= f[i].initial
    BY <1>11, <1>13, <1>15, <1>17 DEF Follows
  <2>6. Follows(f, i)
    <3>1. \A j \in 1..n : j < i => f[j].height < f[i].height
      BY <1>7, <1>11, <1>16 DEF Follows
    <3>2. \A j \in 1..n : NextOfSigner(f, j, i) => f[i].initial = f[j].final
      BY <1>7, <1>11, <1>16, <2>3, <2>4 DEF Follows, NextOfSigner
    <3> QED BY <1>15, <2>5, <3>1, <3>2 DEF Follows
  <2>7. UpToDate(f, i)'
    <3>1. CASE i = n
      BY <1>3, <1>5, <1>13, <1>15, <3>1 DEF UpToDate
    <3>2. CASE i # n
      <4>1. f[i] = e[i] /\ f[i].height # h
        BY <1>8, <1>15, <3>2, BoundsAssumption
      <4>2. LastOfSigner(f, i) => LastOfSigner(e, i)
        BY <1>7, <1>15, <1>16 DEF LastOfSigner
      <4> QED BY <1>3, <1>11, <2>1, <4>1, <4>2 DEF UpToDate
    <3> QED BY <3>1, <3>2
  <2> QED BY <2>2, <2>6, <2>7
<1>19. ASSUME NEW g \in 1..MaxHeight, tasks'[g].step \in Begun
       PROVE  \E i \in 1..n : f[i].height = g
  <2>1. tasks[g].step \in Begun
    BY <1>2, <1>3, <1>19 DEF Begun, Committed
  <2>2. PICK i \in 1..n : e[i].height = g
    BY <1>1, <1>7, <2>1 DEF ReadInv, AllRead
  <2> QED BY <1>16, <2>2
<1>20. read'.executions = f /\ read'.height = f[n].height /\ read'.signer = f[n].signer
  <2>1. n # 0 /\ n \in 1..n
    BY <1>7
  <2>2. read.height = e[n].height /\ read.signer = e[n].signer
    BY <1>1, <1>7, <2>1 DEF ReadInv, AtLast
  <2> QED BY <1>10, <1>16, <2>1, <2>2
<1> QED BY <1>10, <1>15, <1>18, <1>19, <1>20, ReadInvNext

(* A restart starts on an empty log.                                            *)
LEMMA ReadRestarted ==
  ASSUME Restart, read' = NothingRead
  PROVE  ReadInv'
<1>1. \A h \in 1..MaxHeight : tasks'[h].step = "none"
  BY DEF Restart, NoTask, Task
<1>2. PICK f : f = <<>>
  OBVIOUS
<1>3. f \in Seq(Executions) /\ Len(f) = 0
  BY <1>2, EmptySeq
<1>4. read'.executions = f
      /\ read' = [height |-> read'.height, signer |-> read'.signer, executions |-> f]
  BY <1>2 DEF NothingRead
<1>5. \A h \in 1..MaxHeight : tasks'[h].step \notin Begun
  BY <1>1 DEF Begun, Committed
<1>6. \A i \in 1..Len(f) : OfTask(f, i)' /\ Follows(f, i) /\ UpToDate(f, i)'
  BY <1>3
<1>7. Len(f) # 0 => read'.height = f[Len(f)].height /\ read'.signer = f[Len(f)].signer
  BY <1>3
<1> QED BY <1>3, <1>4, <1>5, <1>6, <1>7, ReadInvNext, Zenon

-------------------------------------------------------------------------------
(* The invariant and what follows from it.                                      *)

(* As long as the executions do not overlap, every step keeps it.               *)
LEMMA LogStep ==
  ASSUME LogInv, [LogNext]_logVars, early = {}, early' = {}
  PROVE  LogInv'
<1>1. PacedInv /\ TypeInv /\ HistoryInv /\ AscendInv /\ ReadInv
  BY DEF LogInv, PacedInv
<1>2. [PacedNext]_vars
  BY LogNextIsPaced
<1>3. PacedInv' /\ TypeInv'
  BY <1>1, <1>2, PacedStep DEF PacedInv
<1>4. CASE Quiet /\ UNCHANGED <<read, history>>
  BY <1>1, <1>3, <1>4, HistoryKept, ReadKept DEF LogInv
<1>5. ASSUME NEW s \in Signers, Decided(Spawn(s)) \/ Unlogged(Lose(s)) \/ Unlogged(Reread(s))
      PROVE  LogInv'
  BY <1>1, <1>4, <1>5, SpawnQuiet, LoseQuiet DEF Unlogged, Decided
<1>6. ASSUME NEW h \in 1..MaxHeight, LoggedTaskStep(h)
      PROVE  LogInv'
  <2>1. CASE Logged(ReadInitial(h), PrintStart(h))
    <3>1. ReadInitial(h) /\ read' = PrintStart(h) /\ UNCHANGED history
      BY <2>1 DEF Logged
    <3>2. /\ \A g \in 1..MaxHeight : g # h => tasks'[g] = tasks[g]
          /\ UNCHANGED <<chain, accounts, appended>>
          /\ tasks[h].step = "spawned"
      BY <1>1, <3>1, TaskEffect DEF TaskStep, ReadInitial
    <3>3. HistoryInv' /\ AscendInv'
      BY <1>1, <3>1, <3>2, HistoryOfTasks DEF Committed
    <3> QED BY <1>1, <1>3, <3>1, <3>3, ReadBegun DEF LogInv
  <2>2. CASE Logged(Finish(h), PrintEnd(h))
    <3>1. Finish(h) /\ read' = PrintEnd(h) /\ UNCHANGED history
      BY <2>2 DEF Logged
    <3>2. /\ \A g \in 1..MaxHeight : g # h => tasks'[g] = tasks[g]
          /\ UNCHANGED <<chain, accounts, appended>> /\ tasks[h].step = "appended"
      BY <1>1, <3>1, TaskEffect DEF TaskStep, Finish
    <3>3. tasks'[h].step \in Committed
      BY <1>1, <3>1, <3>2, TaskEffect
         DEF TaskStep, ReadsInitial, Executes, Fails, Appends, Finishes, Committed
    <3>4. HistoryInv' /\ AscendInv'
      BY <1>1, <3>1, <3>2, <3>3, HistoryOfTasks
    <3> QED BY <1>1, <1>3, <3>1, <3>4, ReadEnded DEF LogInv
  <2>3. CASE Unlogged(Execute(h)) \/ Unlogged(FailToExecute(h))
    BY <1>1, <1>4, <2>3, ExecuteQuiet DEF Unlogged
  <2>4. CASE AppendBlock(h) /\ history' = Append(history, accounts') /\ UNCHANGED <<read, early>>
    BY <1>1, <1>3, <2>4, HistoryAppended, ReadAppended DEF LogInv
  <2> QED BY <1>6, <2>1, <2>2, <2>3, <2>4 DEF LoggedTaskStep
<1>7. CASE Decided(Skip)
  BY <1>1, <1>4, <1>7, SkipQuiet DEF Decided
<1>8. CASE StartLog
  BY <1>3, <1>8, HistoryRestarted, ReadRestarted DEF StartLog, LogInv
<1>9. CASE UNCHANGED logVars
  <2>1. Quiet
    BY <1>9 DEF logVars, vars, Quiet, WithBlock, Skipped
  <2> QED BY <1>4, <1>9, <2>1 DEF logVars
<1> QED BY <1>5, <1>6, <1>7, <1>8, <1>9 DEF LogNext

(* It holds at the start.                                                       *)
LEMMA LogStart == LogInit => LogInv
<1>. SUFFICES ASSUME LogInit PROVE LogInv
  OBVIOUS
<1>1. PacedInv
  BY TypeInit DEF LogInit, Init, NoTask, Task, PacedInv, Pending
<1>2. HistoryInv /\ AscendInv
  <2>1. Len(appended) = 0 /\ Len(history) = 0 /\ history \in Seq(States) /\ accounts = Genesis
    BY EmptySeq DEF LogInit, Init
  <2> QED BY <2>1 DEF HistoryInv, AscendInv
<1>3. ReadInv
  <2>1. \A h \in 1..MaxHeight : tasks[h].step \notin Begun
    BY DEF LogInit, Init, NoTask, Task, Begun, Committed
  <2>2. /\ read.executions \in Seq(Executions) /\ Len(read.executions) = 0
        /\ read = [height |-> read.height, signer |-> read.signer, executions |-> read.executions]
    BY EmptySeq DEF LogInit, NothingRead
  <2>3. ReadTypes /\ AtLast /\ AllRead
    BY <2>1, <2>2 DEF ReadTypes, AtLast, AllRead
  <2> QED BY <2>2, <2>3 DEF ReadInv
<1> QED BY <1>1, <1>2, <1>3 DEF LogInv

(* What verify has to report on executions that are consistent: the heights     *)
(* nothing was executed for.                                                    *)
MissesSkipped ==
  LogReport = [Clean EXCEPT !.missing = {h \in 1..Checked : tasks[h].step = "none"}]

(* It is so once no task of these heights is still to begin.                    *)
LEMMA ReportMisses ==
  ASSUME LogInv, \A h \in 1..Checked : tasks[h].step # "spawned"
  PROVE  MissesSkipped
<1>1. PICK e \in Seq(Executions) : e = read.executions
  BY DEF LogInv, ReadInv, ReadTypes
<1>2. PICK n : n = Len(e)
  OBVIOUS
<1>3. n \in Nat /\ LoggedExecutions = {e[i] : i \in 1..n}
  BY <1>1, <1>2, ReadFacts DEF LoggedExecutions, Range
<1>4. ASSUME NEW i \in 1..n
      PROVE  /\ OfTask(e, i) /\ Follows(e, i)
             /\ e[i].height \in 1..MaxHeight /\ e[i].height \in Nat
             /\ e[i].initial \in Nat /\ e[i].final \in Nat
  BY <1>1, <1>2, ReadFacts, BoundsAssumption DEF LogInv, ReadInv
<1>5. Checked \in Nat /\ MaxHeight \in Nat /\ Checked <= MaxHeight
  BY CheckedAssumption, BoundsAssumption
<1>6. PICK S : S = {x \in LoggedExecutions : x.height <= Checked}
  OBVIOUS
<1>7. \A x \in S : \E i \in 1..n : x = e[i] /\ e[i].height <= Checked
  BY <1>3, <1>6
<1>8. ASSUME NEW x \in S, NEW y \in S, Consecutive(x, y, S)
      PROVE  y.initial = x.final
  <2>1. PICK j \in 1..n : x = e[j]
    BY <1>7
  <2>2. PICK i \in 1..n : y = e[i] /\ e[i].height <= Checked
    BY <1>7
  <2>3. e[j].signer = e[i].signer /\ e[j].height < e[i].height
    BY <1>8, <2>1, <2>2 DEF Consecutive
  <2>4. j < i
    <3>1. i < j => e[i].height < e[j].height
      BY <1>2, <1>4 DEF Follows
    <3>2. i # j
      BY <1>4, <2>3
    <3>3. ~(i < j)
      BY <1>4, <2>3, <3>1
    <3> QED BY <1>3, <3>2, <3>3
  <2>5. ASSUME NEW k \in 1..n, j < k, k < i
        PROVE  e[k].signer # e[i].signer
    <3>1. e[j].height < e[k].height /\ e[k].height < e[i].height
      BY <1>2, <1>4, <2>5 DEF Follows
    <3>2. e[k].height <= Checked
      BY <1>4, <1>5, <2>2, <3>1
    <3>3. e[k] \in S
      BY <1>3, <1>6, <3>2
    <3> QED BY <1>8, <2>1, <2>2, <2>3, <3>1, <3>3 DEF Consecutive
  <2>6. NextOfSigner(e, j, i)
    BY <1>2, <2>3, <2>4, <2>5 DEF NextOfSigner
  <2> QED BY <1>2, <1>4, <2>1, <2>2, <2>6 DEF Follows
<1>9. \A x \in S : ~(x.final > x.initial)
  BY <1>4, <1>7 DEF Follows
<1>10. ASSUME NEW h \in 1..Checked
       PROVE  (\E x \in S : x.height = h) <=> tasks[h].step # "none"
  <2>1. h \in 1..MaxHeight /\ h \in Nat
    BY <1>5
  <2>2. ASSUME NEW x \in S, x.height = h
        PROVE  tasks[h].step # "none"
    BY <1>4, <1>7, <2>2 DEF OfTask, Begun, Committed
  <2>3. ASSUME tasks[h].step # "none"
        PROVE  \E x \in S : x.height = h
    <3>3. tasks[h].step # "spawned"
      OBVIOUS
    <3>4. tasks[h].step \in Steps
      BY <2>1 DEF LogInv, PacedInv, TypeInv, TaskTypes
    <3>5. tasks[h].step \in Begun
      BY <2>3, <3>3, <3>4 DEF Steps, Begun, Committed
    <3>6. PICK i \in 1..n : e[i].height = h
      BY <1>1, <1>2, <2>1, <3>5 DEF LogInv, ReadInv, AllRead
    <3>7. e[i] \in S
      BY <1>3, <1>5, <1>6, <3>6
    <3> QED BY <3>6, <3>7
  <2> QED BY <2>2, <2>3
<1>11. Missing(S, Checked) = {h \in 1..Checked : tasks[h].step = "none"}
  BY <1>10 DEF Missing
<1>12. {f.height : f \in {f \in S : \E x \in S : Consecutive(x, f, S) /\ f.initial # x.final}} = {}
  BY <1>8
<1>13. {x.height : x \in {x \in S : x.final > x.initial}} = {}
  BY <1>9
<1>14. Report(S, Checked) = [inconsistent |-> {}, increased |-> {},
                             missing |-> {h \in 1..Checked : tasks[h].step = "none"}]
  BY <1>11, <1>12, <1>13 DEF Report
<1>15. LogReport = Report(S, Checked)
  BY <1>6 DEF LogReport
<1>16. PICK missing : missing = {h \in 1..Checked : tasks[h].step = "none"}
  OBVIOUS
<1>17. PICK none : none = {}
  OBVIOUS
<1>18. [[inconsistent |-> none, increased |-> none, missing |-> none] EXCEPT !.missing = missing]
         = [inconsistent |-> none, increased |-> none, missing |-> missing]
  OBVIOUS
<1>19. LogReport = [inconsistent |-> none, increased |-> none, missing |-> missing]
  BY <1>14, <1>15, <1>16, <1>17, Zenon
<1>20. Clean = [inconsistent |-> none, increased |-> none, missing |-> none]
  BY <1>17, Zenon DEF Clean
<1> QED BY <1>16, <1>18, <1>19, <1>20, Zenon DEF MissesSkipped

(* When the log reaches the last height to check, all these tasks have begun.   *)
LEMMA ReportAccepts == LogInv => LogAccepted
<1>. SUFFICES ASSUME LogInv, EnoughLogged PROVE MissesSkipped
  BY DEF LogAccepted, MissesSkipped
<1>1. PICK e \in Seq(Executions) : e = read.executions
  BY DEF LogInv, ReadInv, ReadTypes
<1>2. PICK m \in 1..Len(e) : e[m].height >= Checked
  <2>1. LoggedExecutions = {e[i] : i \in 1..Len(e)}
    BY <1>1, ReadFacts DEF LoggedExecutions, Range
  <2> QED BY <2>1 DEF EnoughLogged
<1>3. PICK g : g = e[m].height
  OBVIOUS
<1>4. /\ g \in 1..Len(chain) /\ Len(chain) \in Nat /\ tasks[g].step \in Begun /\ g >= Checked
  BY <1>1, <1>2, <1>3, TaskFacts DEF LogInv, PacedInv, ReadInv, OfTask, WithBlock
<1>5. ASSUME NEW h \in 1..Checked
      PROVE  tasks[h].step # "spawned"
  <2>1. h \in 1..MaxHeight /\ h \in Nat /\ Checked \in Nat
    BY CheckedAssumption, BoundsAssumption
  <2>2. CASE h = g
    BY <1>4, <2>2 DEF Begun, Committed
  <2>3. CASE h # g
    <3>1. h < Len(chain)
      BY <1>4, <2>1, <2>3
    <3> QED BY <2>1, <3>1 DEF LogInv, PacedInv, Pending
  <2> QED BY <2>2, <2>3
<1> QED BY <1>5, ReportMisses

(* The blocks appended for the heights that are checked are in ascending order, *)
(* before any other, and were paid for.                                         *)
PaidInOrder ==
  \A i \in 1..Len(appended) :
    /\ appended[i] \in WithBlock
    /\ appended[i] <= Checked =>
         Charged(i) /\ \A j \in 1..Len(appended) : j < i => appended[j] < appended[i]

(* One of them is the last, if any.                                             *)
HasLatest ==
  \E top \in Range(appended) \cup {0} : \A h \in Range(appended) : top >= h

(* It is so as long as the executions do not overlap.                           *)
LEMMA AscendPaid ==
  ASSUME LogInv
  PROVE  PaidInOrder /\ HasLatest
<1>1. TypeInv /\ AscendInv
  BY DEF LogInv, PacedInv
<1>2. PICK n : n = Len(appended)
  OBVIOUS
<1>3. n \in Nat /\ DOMAIN appended = 1..n /\ \A i \in 1..n : appended[i] \in Nat
  BY <1>1, <1>2, AppendedFacts
<1>4. Range(appended) = {appended[i] : i \in 1..n}
  BY <1>3 DEF Range
<1>5. PICK R : R = Range(appended)
  OBVIOUS
<1>6. \E top \in R \cup {0} : \A h \in R : top >= h
  <2>1. CASE n = 0
    BY <1>3, <1>4, <1>5, <2>1
  <2>2. CASE n # 0
    <3>1. n \in 1..n /\ \A i \in 1..n : i = n \/ i < n
      BY <1>3, <2>2
    <3>2. \A i \in 1..n : appended[n] >= appended[i]
      BY <1>1, <1>2, <1>3, <3>1 DEF AscendInv
    <3>3. appended[n] \in R /\ \A h \in R : appended[n] >= h
      BY <1>4, <1>5, <3>1, <3>2
    <3> QED BY <3>3
  <2> QED BY <2>1, <2>2
<1>7. PaidInOrder
  BY <1>1 DEF AscendInv, PaidInOrder
<1> QED BY <1>5, <1>6, <1>7, Zenon DEF HasLatest

(* When the server has the blocks of all heights checked, each was executed on  *)
(* what the one below it left.                                                  *)
LEMMA ReportIsExecuted == TypeInv /\ PaidInOrder /\ HasLatest => VerifiedExecuted
<1>. SUFFICES ASSUME TypeInv, PaidInOrder, HasLatest,
                     Latest >= Checked, RpcReport = Clean, NEW h \in 1..Checked
              PROVE  /\ chain[h] # NoBlock /\ h \in Range(appended)
                     /\ StateAt(h)[chain[h].signer].balance
                          = StateAt(h - 1)[chain[h].signer].balance - 1
  BY DEF VerifiedExecuted
<1>2. PICK n : n = Len(appended)
  OBVIOUS
<1>3. n \in Nat /\ DOMAIN appended = 1..n /\ \A i \in 1..n : appended[i] \in Nat
  BY <1>2, AppendedFacts
<1>4. Range(appended) = {appended[i] : i \in 1..n}
  BY <1>3 DEF Range
<1>5. \A i \in 1..n : /\ appended[i] \in WithBlock
                      /\ appended[i] <= Checked =>
                           Charged(i) /\ \A j \in 1..n : j < i => appended[j] < appended[i]
  BY <1>2 DEF PaidInOrder
<1>6. Checked \in Nat /\ h \in Nat
  BY CheckedAssumption, BoundsAssumption
<1>7. Latest \in Nat
  <2>1. PICK R : R = Range(appended) \cup {0}
    OBVIOUS
  <2>2. \A x \in R : x \in Nat
    BY <1>3, <1>4, <2>1
  <2>3. \E x \in R : \A y \in R : x >= y
    <3>1. PICK top \in Range(appended) \cup {0} : \A x \in Range(appended) : top >= x
      BY Zenon DEF HasLatest
    <3>2. top \in R /\ top \in Nat
      BY <2>1, <2>2, <3>1
    <3>3. \A y \in R : top >= y
      BY <2>1, <2>2, <3>1, <3>2
    <3> QED BY <3>2, <3>3
  <2>4. Max(R) \in R
    BY <2>3 DEF Max
  <2> QED BY <2>1, <2>2, <2>4 DEF Latest
<1>8. LastChecked = Checked
  <2>1. PICK l : l = Latest
    OBVIOUS
  <2>2. l \in Nat /\ l >= Checked
    BY <1>7, <2>1
  <2>3. \A x \in {Checked, l} : (\A y \in {Checked, l} : x <= y) <=> x = Checked
    BY <1>6, <2>2
  <2>4. Min({Checked, l}) = Checked
    BY <2>3 DEF Min
  <2> QED BY <2>1, <2>4 DEF LastChecked
<1>9. h \in Range(appended)
  <2>1. PICK S : S = ServedExecutions
    OBVIOUS
  <2>2. Missing(S, Checked) = {}
    BY <1>8, <2>1 DEF RpcReport, Report, Clean
  <2>3. PICK x \in S : x.height = h
    BY <2>2 DEF Missing
  <2>4. PICK g \in Range(appended) \cap 1..LastChecked :
          x = BlockExecution(g, chain[g].signer, StateAt(g - 1)[chain[g].signer].balance,
                             StateAt(g)[chain[g].signer].balance)
    BY <2>1, <2>3 DEF ServedExecutions
  <2>5. x.height = g
    BY <2>4 DEF BlockExecution
  <2> QED BY <2>3, <2>4, <2>5
<1>10. PICK m \in 1..n : appended[m] = h
  BY <1>4, <1>9
<1>11. chain[h] # NoBlock
  BY <1>5, <1>10, TaskFacts DEF WithBlock
<1>12. StateAt(h) = history[m]
  <2>1. PICK I : I = {i \in 1..n : appended[i] <= h}
    OBVIOUS
  <2>2. m \in I /\ \A i \in I : i \in Nat /\ i <= m
    <3>1. \A i \in 1..n : m < i => h < appended[i]
      BY <1>3, <1>5, <1>6, <1>10
    <3>2. \A i \in I : ~(m < i)
      BY <1>3, <1>6, <2>1, <3>1
    <3> QED BY <1>3, <1>6, <1>10, <2>1, <3>2
  <2>3. Max(I) = m
    <3>1. \A x \in I : (\A y \in I : x >= y) <=> x = m
      BY <2>2
    <3> QED BY <2>2, <3>1 DEF Max
  <2>4. I # {} /\ m # 0
    BY <2>2
  <2> QED BY <1>2, <2>1, <2>3, <2>4 DEF StateAt, SelectLastInSeq
<1>13. StateAt(h - 1) = Before(m)
  <2>1. PICK I : I = {i \in 1..n : appended[i] <= h - 1}
    OBVIOUS
  <2>2. \A i \in 1..n : i \in I <=> i < m
    <3>1. \A i \in 1..n : i < m => appended[i] < h
      BY <1>3, <1>5, <1>6, <1>10
    <3>2. \A i \in 1..n : m < i => h < appended[i]
      BY <1>3, <1>5, <1>6, <1>10
    <3>3. \A i \in 1..n : appended[i] <= h - 1 <=> appended[i] < h
      BY <1>3, <1>6
    <3>4. \A i \in 1..n : appended[i] < h <=> i < m
      BY <1>3, <1>6, <1>10, <3>1, <3>2
    <3> QED BY <2>1, <3>3, <3>4
  <2>3. CASE m = 1
    <3>1. I = {}
      BY <1>3, <2>1, <2>2, <2>3
    <3>2. StateAt(h - 1) = Genesis
      BY <1>2, <2>1, <3>1 DEF StateAt, SelectLastInSeq
    <3> QED BY <2>3, <3>2 DEF Before
  <2>4. CASE m # 1
    <3>1. m - 1 \in I /\ \A i \in I : i \in Nat /\ i <= m - 1
      BY <1>3, <2>1, <2>2, <2>4
    <3>2. Max(I) = m - 1
      <4>1. \A x \in I : (\A y \in I : x >= y) <=> x = m - 1
        BY <3>1
      <4> QED BY <3>1, <4>1 DEF Max
    <3>3. I # {} /\ m - 1 # 0
      BY <2>4, <3>1
    <3>4. StateAt(h - 1) = history[m - 1]
      BY <1>2, <2>1, <3>2, <3>3 DEF StateAt, SelectLastInSeq
    <3> QED BY <2>4, <3>4 DEF Before
  <2> QED BY <2>3, <2>4
<1>14. Charged(m)
  BY <1>3, <1>5, <1>6, <1>10
<1> QED BY <1>9, <1>10, <1>11, <1>12, <1>13, <1>14 DEF Charged

-------------------------------------------------------------------------------
(* Once executions overlap.                                                     *)

(* The executions in the log that the checks look at.                           *)
LoggedBelow == {e \in LoggedExecutions : e.height <= Checked}

(* The tasks of the heights checked are over, and the log ends with a block     *)
(* above them if any of those has begun: what is printed from now on changes    *)
(* no execution that verify looks at.                                           *)
TasksOver ==
  /\ Len(chain) > Checked
  /\ \A h \in 1..Checked : tasks[h].step \in {"none", "succeeded", "failed"}
LogAbove ==
  LET e == read.executions IN
  /\ ReadTypes /\ AtLast
  /\ \A h \in 1..MaxHeight : h > Checked /\ tasks[h].step \in Begun =>
       Len(e) # 0 /\ e[Len(e)].height > Checked

Frozen ==
  /\ TasksOver /\ LogAbove /\ MissesSkipped
  /\ history \in Seq(States) /\ Len(history) = Len(appended)
  /\ PaidInOrder /\ HasLatest

(* When executions first overlap, it is so unless one of them is checked.       *)
LEMMA FrozenStart ==
  ASSUME LogInv, Running # {}, Running \cap 1..Checked = {}
  PROVE  Frozen
<1>1. PacedInv /\ TypeInv /\ HistoryInv /\ ReadInv
  BY DEF LogInv, PacedInv
<1>2. Checked \in Nat /\ Checked <= MaxHeight /\ MaxHeight \in Nat
  BY CheckedAssumption, BoundsAssumption
<1>3. TasksOver
  <2>1. PICK h \in Running : TRUE
    OBVIOUS
  <2>2. h = Len(chain) /\ h \in 1..MaxHeight /\ h \notin 1..Checked
    BY <1>1, <2>1 DEF Running, PacedInv, Pending
  <2>3. Len(chain) > Checked
    BY <1>2, <2>2
  <2>4. ASSUME NEW g \in 1..Checked
        PROVE  tasks[g].step \in {"none", "succeeded", "failed"}
    <3>1. g \in 1..MaxHeight /\ g \notin Running
      BY <1>2
    <3>2. tasks[g].step \in Steps
      BY <1>1, <3>1 DEF TypeInv, TaskTypes
    <3> QED BY <3>1, <3>2 DEF Running, Steps
  <2> QED BY <2>3, <2>4 DEF TasksOver
<1>4. LogAbove
  <2>1. PICK e \in Seq(Executions) : e = read.executions
    BY <1>1 DEF ReadInv, ReadTypes
  <2>2. ASSUME NEW h \in 1..MaxHeight, h > Checked, tasks[h].step \in Begun
        PROVE  Len(e) # 0 /\ e[Len(e)].height > Checked
    <3>1. PICK i \in 1..Len(e) : e[i].height = h
      BY <1>1, <2>1, <2>2 DEF ReadInv, AllRead
    <3>2. PICK n : n = Len(e)
      OBVIOUS
    <3>3. n \in Nat /\ n # 0 /\ n \in 1..n /\ e[n].height \in 1..MaxHeight
      BY <2>1, <3>1, <3>2, ReadFacts
    <3>4. i = n \/ i < n
      BY <3>1, <3>2, <3>3
    <3>5. i < n => h < e[n].height
      <4>1. Follows(e, n)
        BY <1>1, <2>1, <3>2, <3>3 DEF ReadInv
      <4> QED BY <3>1, <3>2, <4>1 DEF Follows
    <3> QED BY <1>2, <2>2, <3>1, <3>2, <3>3, <3>4, <3>5
  <2> QED BY <1>1, <2>1, <2>2 DEF LogAbove, ReadInv
<1>5. MissesSkipped
  BY <1>3, ReportMisses DEF TasksOver
<1> QED BY <1>1, <1>3, <1>4, <1>5, AscendPaid DEF Frozen, HistoryInv

(* The report depends on nothing else.                                          *)
LEMMA ReportKept ==
  ASSUME MissesSkipped, LoggedBelow' = LoggedBelow,
         \A h \in 1..Checked : tasks'[h].step = "none" <=> tasks[h].step = "none"
  PROVE  MissesSkipped'
<1>1. PICK S : S = LoggedBelow
  OBVIOUS
<1>2. LogReport = Report(S, Checked) /\ LogReport' = Report(S, Checked)
  <2>1. LogReport = Report(S, Checked)
    BY <1>1 DEF LogReport, LoggedBelow
  <2>2. LogReport' = Report(S, Checked)
    BY <1>1, Zenon DEF LogReport, LoggedBelow
  <2> QED BY <2>1, <2>2
<1>3. {h \in 1..Checked : tasks'[h].step = "none"} = {h \in 1..Checked : tasks[h].step = "none"}
  OBVIOUS
<1> QED BY <1>2, <1>3, Zenon DEF MissesSkipped

(* What tasks above the heights checked do while nothing is appended.           *)
LEMMA PaidKept ==
  ASSUME TypeInv, Frozen, UNCHANGED <<appended, history>>,
         \A g \in WithBlock : g \in WithBlock' /\ chain'[g] = chain[g]
  PROVE  PaidInOrder' /\ HasLatest'
<1>1. HasLatest'
  BY DEF Frozen, HasLatest
<1>2. PaidInOrder'
  BY DEF Frozen, PaidInOrder, Charged, Before
<1> QED BY <1>1, <1>2

(* A step that is quiet and above the heights checked.                          *)
LEMMA FrozenKept ==
  ASSUME TypeInv, Frozen, Quiet, UNCHANGED <<read, history>>, TasksOver'
  PROVE  Frozen'
<1>1. Checked \in Nat /\ Checked <= MaxHeight /\ MaxHeight \in Nat
  BY CheckedAssumption, BoundsAssumption
<1>2. LogAbove'
  BY DEF Frozen, LogAbove, ReadTypes, AtLast, Quiet, Begun, Committed
<1>3. MissesSkipped'
  <2>1. \A h \in 1..Checked : tasks'[h].step = "none" <=> tasks[h].step = "none"
    <3>1. \A h \in 1..Checked : h \in 1..MaxHeight
      BY <1>1
    <3> QED BY <3>1 DEF Frozen, TasksOver, Quiet
  <2>2. LoggedBelow' = LoggedBelow
    BY DEF LoggedBelow, LoggedExecutions
  <2> QED BY <2>1, <2>2, ReportKept DEF Frozen
<1>4. PaidInOrder' /\ HasLatest'
  BY PaidKept DEF Frozen, Quiet
<1> QED BY <1>2, <1>3, <1>4 DEF Frozen, Quiet

(* Only tasks above the heights checked take steps.                             *)
LEMMA TasksStayOver ==
  ASSUME TypeInv, Frozen, NEW h \in 1..MaxHeight, TaskStep(h)
  PROVE  /\ TasksOver' /\ h \in Nat /\ h > Checked
         /\ \A g \in 1..Checked : tasks'[g] = tasks[g]
<1>1. Checked \in Nat /\ Checked <= MaxHeight /\ MaxHeight \in Nat
  BY CheckedAssumption, BoundsAssumption
<1>2. /\ UNCHANGED chain
      /\ \A g \in 1..MaxHeight : g # h => tasks'[g] = tasks[g]
      /\ tasks[h].step \in {"spawned", "read", "executed", "appended"}
  BY TaskEffect DEF ReadsInitial, Executes, Fails, Appends, Finishes
<1>3. h \notin 1..Checked
  BY <1>2 DEF Frozen, TasksOver
<1>4. \A g \in 1..Checked : g \in 1..MaxHeight /\ g # h
  BY <1>1, <1>3
<1>5. h \in Nat /\ h > Checked
  BY <1>1, <1>3
<1> QED BY <1>2, <1>4, <1>5 DEF Frozen, TasksOver

(* What a task prints that begins or ends.                                      *)
LEMMA FrozenPrinted ==
  ASSUME TypeInv, TypeInv', Frozen, NEW h \in 1..MaxHeight, UNCHANGED history,
         \/ ReadInitial(h) /\ read' = PrintStart(h)
         \/ Finish(h) /\ read' = PrintEnd(h)
  PROVE  Frozen'
<1>1. TaskStep(h)
  BY DEF TaskStep
<1>2. /\ TasksOver' /\ h \in Nat /\ h > Checked /\ \A g \in 1..Checked : tasks'[g] = tasks[g]
  BY <1>1, TasksStayOver
<1>3. /\ UNCHANGED <<chain, accounts, appended>> /\ h \in WithBlock
      /\ \A g \in 1..MaxHeight : g # h => tasks'[g] = tasks[g]
  BY <1>1, TaskEffect DEF ReadInitial, Finish, WithBlock
<1>4. PaidInOrder' /\ HasLatest'
  <2>1. WithBlock' = WithBlock
    BY <1>3 DEF WithBlock, Skipped
  <2> QED BY <1>3, <2>1, PaidKept
<1>5. PICK e \in Seq(Executions) : e = read.executions
  BY DEF Frozen, LogAbove, ReadTypes
<1>6. PICK n : n = Len(e)
  OBVIOUS
<1>7. n \in Nat /\ DOMAIN e = 1..n /\ \A i \in 1..n : e[i] \in Executions
  BY <1>6, ReadFacts
<1>8. LoggedBelow = {x \in {e[i] : i \in 1..n} : x.height <= Checked}
  BY <1>5, <1>7 DEF LoggedBelow, LoggedExecutions, Range
<1>9. PICK s : s = chain[h].signer
  OBVIOUS
<1>10. PICK b : b = accounts[s].balance
  OBVIOUS
<1>11. s \in Signers /\ b \in Nat
  BY <1>3, <1>9, <1>10, TaskFacts DEF WithBlock
<1>12. Checked \in Nat
  BY CheckedAssumption, BoundsAssumption
<1>13. ASSUME LogAbove', LoggedBelow' = LoggedBelow
       PROVE  Frozen'
  <2>1. MissesSkipped'
    BY <1>2, <1>13, ReportKept DEF Frozen
  <2> QED BY <1>2, <1>3, <1>4, <1>13, <2>1 DEF Frozen
<1>14. CASE ReadInitial(h) /\ read' = PrintStart(h)
  <2>1. PICK x : x = BlockExecution(h, s, b, b)
    OBVIOUS
  <2>2. PICK f : f = Append(e, x)
    OBVIOUS
  <2>3. x \in Executions /\ x.height = h /\ x.signer = s
    BY <1>11, <2>1 DEF BlockExecution, Executions
  <2>4. read' = [height |-> h, signer |-> s, executions |-> f]
    BY <1>5, <1>9, <1>10, <1>14, <2>1, <2>2, StartIsRead DEF Frozen, LogAbove
  <2>5. /\ f \in Seq(Executions) /\ Len(f) = n + 1 /\ f[n + 1] = x /\ DOMAIN f = 1..n + 1
        /\ \A i \in 1..n : f[i] = e[i]
    BY <1>6, <2>2, <2>3, AppendFacts
  <2>6. /\ read'.executions = f /\ read'.height = h /\ read'.signer = s
        /\ read' = [height |-> read'.height, signer |-> read'.signer, executions |-> f]
    BY <2>4
  <2>7. Len(f) # 0 /\ f[Len(f)] = x
    BY <1>7, <2>5
  <2>8. LogAbove'
    BY <1>2, <2>3, <2>5, <2>6, <2>7 DEF LogAbove, ReadTypes, AtLast
  <2>9. LoggedBelow' = {y \in {f[i] : i \in 1..n + 1} : y.height <= Checked}
    BY <2>5, <2>6 DEF LoggedBelow, LoggedExecutions, Range
  <2>10. {f[i] : i \in 1..n + 1} = {e[i] : i \in 1..n} \cup {x}
    <3>1. \A i : i \in 1..n + 1 <=> i \in 1..n \/ i = n + 1
      BY <1>7
    <3> QED BY <2>5, <3>1
  <2>11. ~(x.height <= Checked)
    BY <1>2, <1>12, <2>3
  <2>12. LoggedBelow' = LoggedBelow
    BY <1>8, <2>9, <2>10, <2>11
  <2> QED BY <1>13, <2>8, <2>12
<1>15. CASE Finish(h) /\ read' = PrintEnd(h)
  <2>1. tasks[h].step = "appended"
    BY <1>15 DEF Finish
  <2>2. n # 0 /\ n \in 1..n /\ e[n].height > Checked
    BY <1>2, <1>5, <1>6, <1>7, <2>1 DEF Frozen, LogAbove, Begun, Committed
  <2>3. PICK f : f = Ended(e, n, b)
    OBVIOUS
  <2>4. read' = [height |-> read.height, signer |-> read.signer, executions |-> f]
    BY <1>5, <1>6, <1>7, <1>9, <1>10, <1>15, <2>2, <2>3, EndIsRead DEF Frozen, LogAbove
  <2>5. PICK x : x = [e[n] EXCEPT !.final = b]
    OBVIOUS
  <2>6. /\ x \in Executions /\ x.height = e[n].height /\ x.signer = e[n].signer
    <3>1. e[n] \in Executions
      BY <1>7, <2>2
    <3> QED BY <1>11, <2>5, <3>1 DEF Executions
  <2>7. f = [i \in 1..n |-> IF i = n THEN x ELSE e[i]]
    <3>1. f = [e EXCEPT ![n] = x]
      BY <2>3, <2>5 DEF Ended
    <3> QED BY <1>7, <3>1
  <2>8. /\ f \in Seq(Executions) /\ Len(f) = n /\ f[n] = x /\ DOMAIN f = 1..n
        /\ \A i \in 1..n : i # n => f[i] = e[i]
    BY <1>7, <2>2, <2>6, <2>7
  <2>9. /\ read'.executions = f /\ read'.height = read.height /\ read'.signer = read.signer
        /\ read' = [height |-> read'.height, signer |-> read'.signer, executions |-> f]
    BY <2>4
  <2>10. read.height = e[n].height /\ read.signer = e[n].signer
    BY <1>5, <1>6, <2>2 DEF Frozen, LogAbove, AtLast
  <2>11. LogAbove'
    BY <2>2, <2>6, <2>8, <2>9, <2>10 DEF LogAbove, ReadTypes, AtLast
  <2>12. LoggedBelow' = {y \in {f[i] : i \in 1..n} : y.height <= Checked}
    BY <2>8, <2>9 DEF LoggedBelow, LoggedExecutions, Range
  <2>13. ~(x.height <= Checked) /\ ~(e[n].height <= Checked)
    <3>1. e[n].height \in Nat
      BY <2>2, <1>7, BoundsAssumption DEF Executions
    <3> QED BY <1>12, <2>2, <2>6, <3>1
  <2>14. \A y : (y \in {f[i] : i \in 1..n} /\ y.height <= Checked)
                  <=> (y \in {e[i] : i \in 1..n} /\ y.height <= Checked)
    BY <2>2, <2>8, <2>13
  <2>15. LoggedBelow' = LoggedBelow
    BY <1>8, <2>12, <2>14
  <2> QED BY <1>13, <2>11, <2>15
<1> QED BY <1>14, <1>15

(* A block above those checked is appended.                                     *)
LEMMA FrozenAppended ==
  ASSUME TypeInv, TypeInv', Frozen, NEW h \in 1..MaxHeight, AppendBlock(h),
         history' = Append(history, accounts'), UNCHANGED read
  PROVE  Frozen'
<1>1. TaskStep(h) /\ tasks[h].step = "executed" /\ appended' = Append(appended, h)
  BY DEF TaskStep, AppendBlock
<1>2. /\ TasksOver' /\ h \in Nat /\ h > Checked /\ \A g \in 1..Checked : tasks'[g] = tasks[g]
  BY <1>1, TasksStayOver
<1>3. /\ UNCHANGED chain /\ h \in WithBlock /\ WithBlock' = WithBlock
      /\ \A g \in 1..MaxHeight : g # h => tasks'[g] = tasks[g]
  BY <1>1, TaskEffect DEF WithBlock, Skipped
<1>4. Checked \in Nat
  BY CheckedAssumption, BoundsAssumption
<1>5. LogAbove'
  <2>1. LogAbove
    BY DEF Frozen
  <2>2. \A g \in 1..MaxHeight : tasks'[g].step \in Begun => tasks[g].step \in Begun
    BY <1>1, <1>3 DEF Begun
  <2> QED BY <2>1, <2>2 DEF LogAbove, ReadTypes, AtLast
<1>6. MissesSkipped'
  <2>1. LoggedBelow' = LoggedBelow
    BY DEF LoggedBelow, LoggedExecutions
  <2> QED BY <1>2, <2>1, ReportKept DEF Frozen
<1>7. PICK n : n = Len(appended)
  OBVIOUS
<1>8. /\ n \in Nat /\ appended \in Seq(Nat) /\ \A i \in 1..n : appended[i] \in Nat
      /\ DOMAIN appended = 1..n /\ history \in Seq(States) /\ Len(history) = n
  BY <1>7, AppendedFacts DEF Frozen
<1>9. /\ Len(appended') = n + 1 /\ appended'[n + 1] = h /\ DOMAIN appended' = 1..n + 1
      /\ \A i \in 1..n : appended'[i] = appended[i]
  BY <1>1, <1>2, <1>7, <1>8, AppendFacts
<1>10. /\ history' \in Seq(States) /\ Len(history') = n + 1
       /\ \A i \in 1..n : history'[i] = history[i]
  <2>1. accounts' \in States
    BY DEF TypeInv, TypeOK, States, Account
  <2> QED BY <1>8, <2>1, AppendFacts
<1>11. HasLatest'
  <2>1. Range(appended)' = Range(appended) \cup {h}
    <3>1. \A i : i \in 1..n + 1 <=> i \in 1..n \/ i = n + 1
      BY <1>8
    <3> QED BY <1>8, <1>9, <3>1 DEF Range
  <2>2. PICK top \in Range(appended) \cup {0} : \A g \in Range(appended) : top >= g
    BY Zenon DEF Frozen, HasLatest
  <2>3. \A g \in Range(appended) \cup {0} : g \in Nat
    BY <1>8 DEF Range
  <2>4. PICK R : R = Range(appended)
    OBVIOUS
  <2>5. CASE top >= h
    <3>1. top \in R \cup {h} \cup {0} /\ \A g \in R \cup {h} : top >= g
      BY <2>2, <2>4, <2>5
    <3> QED BY <2>1, <2>4, <3>1, Zenon DEF HasLatest
  <2>6. CASE ~(top >= h)
    <3>1. h \in R \cup {h} \cup {0} /\ \A g \in R \cup {h} : h >= g
      BY <1>2, <2>2, <2>3, <2>4, <2>6
    <3> QED BY <2>1, <2>4, <3>1, Zenon DEF HasLatest
  <2> QED BY <2>5, <2>6
<1>12. PaidInOrder'
  <2>1. ASSUME NEW i \in 1..n
        PROVE  /\ appended'[i] \in WithBlock'
               /\ appended'[i] <= Checked =>
                    Charged(i)' /\ \A j \in 1..n + 1 : j < i => appended'[j] < appended'[i]
    <3>1. appended'[i] = appended[i] /\ history'[i] = history[i]
      BY <1>9, <1>10
    <3>2. Before(i)' = Before(i)
      <4>1. CASE i = 1
        BY <4>1 DEF Before
      <4>2. CASE i # 1
        <5>1. i - 1 \in 1..n
          BY <1>8, <4>2
        <5> QED BY <1>10, <4>2, <5>1 DEF Before
      <4> QED BY <4>1, <4>2
    <3>3. Charged(i) => Charged(i)'
      BY <1>3, <3>1, <3>2 DEF Charged
    <3>4. \A j \in 1..n + 1 : j < i => j \in 1..n
      BY <1>8
    <3> QED BY <1>3, <1>7, <1>9, <3>1, <3>3, <3>4 DEF Frozen, PaidInOrder
  <2>2. /\ appended'[n + 1] \in WithBlock' /\ ~(appended'[n + 1] <= Checked)
    BY <1>2, <1>3, <1>4, <1>9
  <2>3. \A i \in 1..n + 1 : i \in 1..n \/ i = n + 1
    BY <1>8
  <2> QED BY <1>9, <2>1, <2>2, <2>3 DEF PaidInOrder
<1> QED BY <1>2, <1>5, <1>6, <1>9, <1>10, <1>11, <1>12 DEF Frozen

(* Every step keeps what is frozen, until a restart.                            *)
LEMMA FrozenStep ==
  ASSUME TypeInv, TypeInv', Frozen, [LogNext]_logVars, early' # {}
  PROVE  Frozen'
<1>1. Checked \in Nat /\ Checked <= MaxHeight /\ MaxHeight \in Nat
  BY CheckedAssumption, BoundsAssumption
<1>2. /\ chain \in Seq(Decisions) /\ Len(chain) \in Nat /\ Len(chain) > Checked
      /\ tasks = [h \in 1..MaxHeight |-> tasks[h]]
  BY TaskFacts DEF TypeInv, Frozen, TasksOver
<1>3. ASSUME Quiet, UNCHANGED <<read, history>>, Len(chain') >= Len(chain),
             \A g \in 1..Checked : tasks'[g] = tasks[g]
      PROVE  Frozen'
  <2>1. Len(chain') \in Nat
    <3>1. chain' \in Seq([signer : Signers, nonce : Nat] \cup {NoBlock})
      BY DEF TypeInv, TypeOK
    <3> QED BY <3>1, LenProperties
  <2>2. TasksOver'
    <3>1. PICK l : l = Len(chain)
      OBVIOUS
    <3>2. PICK m : m = Len(chain')
      OBVIOUS
    <3>3. m > Checked
      BY <1>1, <1>2, <1>3, <2>1, <3>1, <3>2
    <3>4. \A h \in 1..Checked : tasks'[h].step \in {"none", "succeeded", "failed"}
      BY <1>3 DEF Frozen, TasksOver
    <3> QED BY <3>2, <3>3, <3>4 DEF TasksOver
  <2> QED BY <1>3, <2>2, FrozenKept
<1>4. ASSUME NEW s \in Signers, Decided(Spawn(s))
      PROVE  Frozen'
  <2>1. Spawn(s) /\ UNCHANGED <<read, history>>
    BY <1>4 DEF Decided
  <2>2. PICK h : h = Len(chain) + 1
    OBVIOUS
  <2>3. tasks' = [tasks EXCEPT ![h] = Task("spawned", 0, <<>>)]
    BY <2>1, <2>2 DEF Spawn
  <2>4. \A g \in 1..Checked : tasks'[g] = tasks[g]
    <3>1. \A g \in 1..Checked : g \in 1..MaxHeight /\ g # h
      BY <1>1, <1>2, <2>2
    <3> QED BY <1>2, <2>3, <3>1
  <2>5. PICK block : block = Block(s, next[s])
    OBVIOUS
  <2>6. block \in Decisions /\ chain' = Append(chain, block)
    BY <2>1, <2>5 DEF Block, FileBlock, Decisions, TypeInv, TypeOK, Spawn
  <2>7. Len(chain') >= Len(chain)
    BY <1>2, <2>6, AppendFacts
  <2> QED BY <1>3, <2>1, <2>4, <2>7, SpawnQuiet
<1>5. ASSUME NEW s \in Signers, Unlogged(Lose(s)) \/ Unlogged(Reread(s))
      PROVE  Frozen'
  <2>1. UNCHANGED <<chain, tasks, read, history>>
    BY <1>5 DEF Unlogged, Lose, Reread
  <2>2. Quiet
    BY <1>5, LoseQuiet DEF Unlogged
  <2> QED BY <1>2, <1>3, <2>1, <2>2
<1>6. ASSUME NEW h \in 1..MaxHeight, LoggedTaskStep(h)
      PROVE  Frozen'
  <2>1. CASE Logged(ReadInitial(h), PrintStart(h)) \/ Logged(Finish(h), PrintEnd(h))
    BY <2>1, FrozenPrinted DEF Logged
  <2>2. CASE Unlogged(Execute(h)) \/ Unlogged(FailToExecute(h))
    <3>1. (Execute(h) \/ FailToExecute(h)) /\ UNCHANGED <<read, history>>
      BY <2>2 DEF Unlogged
    <3>2. TaskStep(h) /\ UNCHANGED chain
      <4>1. TaskStep(h)
        BY <3>1, Zenon DEF TaskStep
      <4> QED BY <4>1, TaskEffect
    <3>3. \A g \in 1..Checked : tasks'[g] = tasks[g]
      BY <3>2, TasksStayOver
    <3>4. Quiet
      BY <3>1, ExecuteQuiet, Zenon
    <3>5. Len(chain') >= Len(chain)
      BY <1>2, <3>2
    <3> QED BY <1>3, <3>1, <3>3, <3>4, <3>5
  <2>3. CASE AppendBlock(h) /\ history' = Append(history, accounts') /\ UNCHANGED <<read, early>>
    BY <2>3, FrozenAppended
  <2> QED BY <1>6, <2>1, <2>2, <2>3 DEF LoggedTaskStep
<1>7. CASE Decided(Skip)
  <2>1. Skip /\ UNCHANGED <<read, history>>
    BY <1>7 DEF Decided
  <2>2. chain' = Append(chain, NoBlock) /\ NoBlock \in Decisions /\ UNCHANGED tasks
    BY <2>1 DEF Skip, Decisions
  <2>3. Len(chain') >= Len(chain)
    BY <1>2, <2>2, AppendFacts
  <2> QED BY <1>3, <2>1, <2>2, <2>3, SkipQuiet
<1>8. CASE StartLog
  BY <1>8 DEF StartLog
<1>9. CASE UNCHANGED logVars
  <2>1. Quiet /\ UNCHANGED <<read, history, chain, tasks>>
    BY <1>9 DEF logVars, vars, Quiet, WithBlock, Skipped
  <2> QED BY <1>2, <1>3, <2>1
<1> QED BY <1>4, <1>5, <1>6, <1>7, <1>8, <1>9 DEF LogNext

-------------------------------------------------------------------------------
(* The invariant of the log, however the executions overlap.                    *)
LogIInv ==
  /\ TypeInv
  /\ early = {} => LogInv
  /\ early # {} /\ CheckedApart => Frozen

(* Every step keeps it.                                                         *)
LEMMA LogIStep ==
  ASSUME LogIInv, [LogNext]_logVars
  PROVE  LogIInv'
<1>1. TypeInv /\ TypeInv'
  BY LogNextIsNext, TypeStep DEF LogIInv
<1>2. ASSUME early' = {}
      PROVE  LogInv'
  <2>1. early = {} \/ Restart
    BY <1>2, LogNextIsPaced
  <2>2. CASE early = {}
    BY <1>2, <2>2, LogStep DEF LogIInv
  <2>3. CASE early # {}
    <3>1. StartLog
      BY <1>2, <2>3 DEF LogNext, LoggedTaskStep, Logged, Unlogged, Decided, logVars
    <3> QED BY <1>1, <3>1, PacedRestart, HistoryRestarted, ReadRestarted DEF StartLog, LogInv
  <2> QED BY <2>2, <2>3
<1>3. ASSUME early' # {}, CheckedApart'
      PROVE  Frozen'
  <2>1. early \subseteq early'
    BY <1>3 DEF LogNext, LoggedTaskStep, Logged, Unlogged, Decided, StartLog, logVars
  <2>2. CASE early # {}
    <3>1. Frozen
      BY <1>3, <2>1, <2>2 DEF LogIInv, CheckedApart
    <3> QED BY <1>1, <1>3, <3>1, FrozenStep
  <2>3. CASE early = {}
    <3>1. early' = Running
      BY <1>3, <2>3 DEF LogNext, LoggedTaskStep, Logged, Unlogged, Decided, StartLog, logVars
    <3>2. LogInv /\ Running # {} /\ Running \cap 1..Checked = {}
      BY <1>3, <2>3, <3>1 DEF LogIInv, CheckedApart
    <3> QED BY <1>1, <1>3, <3>2, FrozenStart, FrozenStep
  <2> QED BY <2>2, <2>3
<1> QED BY <1>1, <1>2, <1>3 DEF LogIInv

(* It holds of every state, whatever overlaps, fails, is lost or proposed       *)
(* again, and after every restart.                                              *)
THEOREM LogInvariant == LogSpec => []LogIInv
<1>1. LogInit => LogIInv
  <2>1. SUFFICES ASSUME LogInit PROVE LogIInv
    OBVIOUS
  <2>2. LogInv /\ TypeInv /\ early = {}
    BY <2>1, LogStart DEF LogInit, LogInv, PacedInv
  <2> QED BY <2>2 DEF LogIInv
<1>2. LogIInv /\ [LogNext]_logVars => LogIInv'
  BY LogIStep
<1> QED BY <1>1, <1>2, PTL DEF LogSpec

(* verify raises no false alarm about heights that were executed one at a time, *)
(* and its report of the heights it misses is exact, whatever overlaps above    *)
(* them (LogAccepted).                                                          *)
THEOREM LogIsAccepted == LogSpec => []LogAccepted
<1>1. LogIInv => LogAccepted
  <2>1. SUFFICES ASSUME LogIInv, CheckedApart PROVE LogAccepted
    BY DEF LogAccepted
  <2>2. CASE early = {}
    BY <2>1, <2>2, ReportAccepts DEF LogIInv
  <2>3. CASE early # {}
    BY <2>1, <2>3 DEF LogIInv, Frozen, MissesSkipped, LogAccepted
  <2> QED BY <2>2, <2>3
<1> QED BY <1>1, LogInvariant, PTL

(* What verify-all has nothing to report of was executed, at every height it    *)
(* checks, and the signers paid for it, whatever overlaps above these heights   *)
(* (VerifiedExecuted).                                                          *)
THEOREM VerifiedIsExecuted == LogSpec => []VerifiedExecuted
<1>1. LogIInv => VerifiedExecuted
  <2>1. SUFFICES ASSUME LogIInv, CheckedApart PROVE VerifiedExecuted
    BY DEF VerifiedExecuted
  <2>2. TypeInv
    BY <2>1 DEF LogIInv
  <2>3. CASE early = {}
    BY <2>1, <2>2, <2>3, AscendPaid, ReportIsExecuted DEF LogIInv
  <2>4. CASE early # {}
    BY <2>1, <2>2, <2>4, ReportIsExecuted DEF LogIInv, Frozen
  <2> QED BY <2>3, <2>4
<1> QED BY <1>1, LogInvariant, PTL
===============================================================================
