-------------------------- MODULE SequentialExecution --------------------------
(* What execution is for: the decided blocks are applied to the accounts one    *)
(* after the other, in the order of their heights; a block that cannot be       *)
(* applied leaves no trace, and a restart starts over from genesis.             *)
EXTENDS Naturals, SequencesExt

CONSTANTS
  Genesis,        \* the accounts at genesis
  Applies(_, _),  \* whether a block can be applied to the accounts
  After(_, _)     \* the accounts after it

VARIABLES
  chain,          \* the decided blocks, in the order of their heights
  executed,       \* how many of them have been dealt with
  accounts,
  restarts        \* how often the process was started again

Init == chain = <<>> /\ executed = 0 /\ accounts = Genesis /\ restarts = 0

NextDecided ==
  /\ Len(chain') = Len(chain) + 1
  /\ SubSeq(chain', 1, Len(chain)) = chain

Decide == NextDecided /\ UNCHANGED <<executed, accounts, restarts>>

(* Decided and dealt with at once: nothing to apply.                            *)
Skip ==
  /\ executed = Len(chain)
  /\ NextDecided
  /\ ~ Applies(accounts, Last(chain'))
  /\ executed' = executed + 1
  /\ UNCHANGED <<accounts, restarts>>

Execute ==
  /\ executed < Len(chain)
  /\ executed' = executed + 1
  /\ accounts' = IF Applies(accounts, chain[executed + 1])
                 THEN After(accounts, chain[executed + 1])
                 ELSE accounts
  /\ UNCHANGED <<chain, restarts>>

(* The accounts are lost with the process, and what was decided before is not   *)
(* executed again.                                                              *)
Restart ==
  /\ executed' = Len(chain)
  /\ accounts' = Genesis
  /\ restarts' = restarts + 1
  /\ UNCHANGED chain

Next == Decide \/ Skip \/ Execute \/ Restart

Spec == Init /\ [][Next]_<<chain, executed, accounts, restarts>>
===============================================================================
