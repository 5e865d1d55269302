------------------------------ MODULE Settlement -------------------------------
(* What execution promises however the executions of several blocks overlap:    *)
(* blocks take effect one at a time, each at most once and only on accounts it  *)
(* applies to; a block changes these accounts as if it were alone, except that  *)
(* in the account which all blocks credit a credit may be lost, though none is  *)
(* ever made up.  A restart starts over from genesis.                           *)
EXTENDS Naturals, SequencesExt

CONSTANTS
  Genesis,        \* the accounts at genesis
  Shared,         \* the account which all blocks credit
  Applies(_, _),  \* whether a block can be applied to the accounts
  After(_, _)     \* the accounts after it

VARIABLES
  chain,          \* the decided blocks, in the order of their heights
  appended,       \* the heights of those that took effect, in that order
  accounts,
  restarts        \* how often the process was started again

Init == chain = <<>> /\ appended = <<>> /\ accounts = Genesis /\ restarts = 0

Decide ==
  /\ Len(chain') = Len(chain) + 1
  /\ SubSeq(chain', 1, Len(chain)) = chain
  /\ UNCHANGED <<appended, accounts, restarts>>

Apply(h) ==
  /\ h \notin Range(appended)
  /\ Applies(accounts, chain[h])
  /\ appended' = Append(appended, h)
  /\ \E credits \in 1..Len(appended) + 1 :
       accounts' = [After(accounts, chain[h]) EXCEPT ![Shared].balance = credits]
  /\ UNCHANGED <<chain, restarts>>

Restart ==
  /\ appended' = <<>>
  /\ accounts' = Genesis
  /\ restarts' = restarts + 1
  /\ UNCHANGED chain

Next == Decide \/ (\E h \in DOMAIN chain : Apply(h)) \/ Restart

Spec == Init /\ [][Next]_<<chain, appended, accounts, restarts>>
===============================================================================
