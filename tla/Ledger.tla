-------------------------------- MODULE Ledger --------------------------------
(* What a node that does not crash makes of the decisions of the network: it    *)
(* adopts them one height after the other, without leaving one out, each with   *)
(* the round it was decided in, and keeps the last MaxHistory + 1 of them.      *)
EXTENDS Naturals

CONSTANTS MaxHeight, MaxHistory, Absent

VARIABLES
  chain,    \* the network's decision per height
  next,     \* the height the node will adopt next
  entries   \* the decisions it holds

Heights == 1..MaxHeight

Init ==
  /\ chain = [h \in Heights |-> Absent]
  /\ next = 1
  /\ entries = [h \in Heights |-> Absent]

(* The network decides one more height; decisions are final.                    *)
Decide ==
  /\ \E h \in Heights :
       /\ chain[h] = Absent /\ \A k \in 1..h-1 : chain[k] # Absent
       /\ chain'[h] # Absent
       /\ chain' = [chain EXCEPT ![h] = chain'[h]]
  /\ UNCHANGED <<next, entries>>

Adopt ==
  /\ next \in Heights /\ chain[next] # Absent
  /\ entries' = [h \in Heights |-> IF h = next THEN chain[h]
                                   ELSE IF h + MaxHistory < next THEN Absent
                                   ELSE entries[h]]
  /\ next' = next + 1
  /\ UNCHANGED chain

Next == Decide \/ Adopt

Spec == Init /\ [][Next]_<<chain, next, entries>>
===============================================================================
