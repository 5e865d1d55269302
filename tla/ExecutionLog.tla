----------------------------- MODULE ExecutionLog -----------------------------
(* How the execution of blocks is verified: next_block prints what it executes  *)
(* and the balances it reads, and the commands verify and verify-all of the     *)
(* utils program read them back from the log of the node and from its RPC       *)
(* server (bin/utils.rs).                                                       *)
(*                                                                              *)
(* A line appears in the log with the step that computes what it says.  As the  *)
(* log is only added to and read from its first line to its last, one line at a *)
(* time, it is represented by what verify holds after reading it.  The RPC      *)
(* server is external: it answers from the blocks and states appended, the      *)
(* state at a number without a block being that of the last block below it.     *)
(*                                                                              *)
(* Lines of executions that overlap may be mixed in ways that are not modelled  *)
(* (the three lines of a start are read as one), and the commands cannot tell   *)
(* them apart.  The history variable early records which executions overlapped  *)
(* with a later one, so that what is said of the commands can say for which     *)
(* logs; the steps themselves do not depend on it.                              *)
EXTENDS Execution

CONSTANT Checked    \* how many heights are verified (10)

ASSUME CheckedAssumption == Checked \in 1..MaxHeight

VARIABLES
  read,       \* what verify has read when it has read the lines printed so far
  history,    \* the accounts after each block appended, in the order of appended
  early       \* the heights still under execution when a further one was decided

logVars == <<vars, read, history, early>>

-------------------------------------------------------------------------------
(* Reading the log: the execution each balance belongs to is known from the     *)
(* last height and the last signer printed before it.                           *)
Line(what, value) == [what |-> what, value |-> value]
BlockExecution(height, signer, initial, final) ==
  [height |-> height, signer |-> signer, initial |-> initial, final |-> final]

WithFinalIgnored(executions, height, signer, balance) == executions    \* mutant
WithFinal(executions, height, signer, balance) ==
  LET IsMatch(e) == e.height = height /\ e.signer = signer
      i == SelectLastInSeq(executions, IsMatch)
  IN  IF i = 0 THEN executions ELSE [executions EXCEPT ![i].final = balance]

ReadLine(seen, line) ==
  CASE line.what = "Executing block" -> [seen EXCEPT !.height = line.value]
    [] line.what = "Transaction signer" -> [seen EXCEPT !.signer = line.value]
    [] line.what = "Initial balance" ->
         [seen EXCEPT !.executions =
            Append(@, BlockExecution(seen.height, seen.signer, line.value, line.value))]
    [] line.what = "Final balance" ->
         [seen EXCEPT !.executions = WithFinal(@, seen.height, seen.signer, line.value)]

LoggedExecutions == Range(read.executions)

NothingRead == [height |-> 0, signer |-> Recipient, executions |-> <<>>]

-------------------------------------------------------------------------------
(* What next_block prints, as it is read.                                       *)
PrintStart(h) ==
  LET signer == chain[h].signer
      height == ReadLine(read, Line("Executing block", h))
  IN  ReadLine(ReadLine(height, Line("Transaction signer", signer)),
               Line("Initial balance", accounts[signer].balance))
PrintEnd(h) == ReadLine(read, Line("Final balance", accounts[chain[h].signer].balance))

Logged(step, printed) == step /\ read' = printed /\ UNCHANGED <<history, early>>
Unlogged(step) == step /\ UNCHANGED <<read, history, early>>
Decided(step) == step /\ early' = early \cup Running /\ UNCHANGED <<read, history>>

(* spawn.bash starts every process on an empty log.                             *)
StartLog == Restart /\ read' = NothingRead /\ history' = <<>> /\ early' = {}

LogInit == Init /\ read = NothingRead /\ history = <<>> /\ early = {}

LoggedTaskStep(h) ==
  \/ Logged(ReadInitial(h), PrintStart(h))
  \/ Logged(Finish(h), PrintEnd(h))
  \/ Unlogged(Execute(h)) \/ Unlogged(FailToExecute(h))
  \/ AppendBlock(h) /\ history' = Append(history, accounts') /\ UNCHANGED <<read, early>>

LogNext ==
  \/ \E s \in Signers : Decided(Spawn(s)) \/ Unlogged(Lose(s)) \/ Unlogged(Reread(s))
  \/ \E h \in 1..MaxHeight : LoggedTaskStep(h)
  \/ Decided(Skip)
  \/ StartLog

LogSpec == LogInit /\ [][LogNext]_logVars

-------------------------------------------------------------------------------
(* The checks both commands make on the executions they found: the balance of a *)
(* signer is the one its previous block left, no block increases it, and every  *)
(* height up to a last one was executed.  Sorted by height, as the code does.   *)
Consecutive(e, f, executions) ==
  /\ e.signer = f.signer /\ e.height < f.height
  /\ ~ \E g \in executions : /\ g.signer = e.signer
                             /\ e.height < g.height /\ g.height < f.height

MissingAtEnd(executions, last) == {last} \ {e.height : e \in executions}   \* mutant
Missing(executions, last) == (1..last) \ {e.height : e \in executions}

Report(executions, last) ==
  [inconsistent |-> {f.height : f \in {f \in executions :
                       \E e \in executions : /\ Consecutive(e, f, executions)
                                             /\ f.initial # e.final}},
   increased |-> {e.height : e \in {e \in executions : e.final > e.initial}},
   missing |-> Missing(executions, last)]

Clean == [inconsistent |-> {}, increased |-> {}, missing |-> {}]

(* verify: an error unless the log reaches the last height to check.            *)
EnoughLogged == \E e \in LoggedExecutions : e.height >= Checked
LogReport == Report({e \in LoggedExecutions : e.height <= Checked}, Checked)

(* verify-all also asks the RPC server, about the heights it has.               *)
Latest == Max(Range(appended) \cup {0})
LastChecked == Min({Checked, Latest})

StateAt(number) ==
  LET IsBelow(h) == h <= number
      i == SelectLastInSeq(appended, IsBelow)
  IN  IF i = 0 THEN Genesis ELSE history[i]

ServedExecutions ==
  {BlockExecution(h, chain[h].signer, StateAt(h - 1)[chain[h].signer].balance,
                  StateAt(h)[chain[h].signer].balance) : h \in Range(appended) \cap 1..LastChecked}
RpcReport == Report(ServedExecutions, LastChecked)

-------------------------------------------------------------------------------
(* Properties.                                                                  *)

(* Each of the heights checked was executed before the next one was decided.    *)
(* The heights above may overlap in any way.                                    *)
CheckedApart == early \cap 1..Checked = {}

(* verify raises no false alarm on such heights: whatever is lost, proposed     *)
(* again or fails to execute, the balances it reads are consistent, and the     *)
(* heights it misses are those nothing was executed for since the node started  *)
(* ("Missing block execution for height", utils.rs).  It does not report a      *)
(* block that failed to execute.                                                *)
LogAccepted ==
  EnoughLogged /\ CheckedApart =>
    LogReport = [Clean EXCEPT !.missing = {h \in 1..Checked : tasks[h].step = "none"}]

(* verify-all does: when it finds nothing to report in the log nor at an RPC    *)
(* server that has all these heights, each height holds a block that was        *)
(* appended, and the signers paid for exactly these ("check that balance        *)
(* changes indicate that blocks have been executed properly", README.md).       *)
VerifiedExecuted ==
  EnoughLogged /\ CheckedApart /\ Latest >= Checked /\ LogReport = Clean /\ RpcReport = Clean =>
    \A h \in 1..Checked :
      /\ chain[h] # NoBlock /\ h \in Range(appended)
      /\ StateAt(h)[chain[h].signer].balance = StateAt(h - 1)[chain[h].signer].balance - 1

(* How many heights are past their commit, failed, or have nothing to execute:  *)
(* skipped, or decided before the node restarted.                               *)
Executed ==
  Cardinality({h \in DOMAIN chain :
                 tasks[h].step \in {"none", "appended", "succeeded", "failed"}})

Sequential ==
  INSTANCE SequentialExecution WITH executed <- Executed, Applies <- AppliesTo

(* As long as every block was executed before the next one was decided since    *)
(* the node started, execution implements SequentialExecution, credits and all. *)
ImplementsSequential ==
  /\ Sequential!Init
  /\ [][early' = {} => Sequential!Next]_<<chain, Executed, accounts, restarts>>
===============================================================================
