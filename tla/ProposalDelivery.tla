--------------------------- MODULE ProposalDelivery ---------------------------
(* What proposal streaming promises one receiving node, without messages,       *)
(* buffers or signatures: a proposal is accepted only if it was sent on that    *)
(* stream, at most once per stream, and never for a height already left behind. *)
(* Nothing is promised about proposals that are never accepted.                 *)
EXTENDS Naturals, Sequences

VARIABLES
  sent,      \* the proposals sent, with their streams: [key, proposal] records
  accepted,  \* the sequence of those accepted since the receiver started
  height     \* the receiver's height

Send ==
  /\ sent \subseteq sent'
  /\ UNCHANGED <<accepted, height>>

Accept(m) ==
  /\ m.proposal.height >= height
  /\ \A i \in DOMAIN accepted : accepted[i].key # m.key
  /\ accepted' = Append(accepted, m)
  /\ UNCHANGED <<sent, height>>

NextHeight ==
  /\ height' = height + 1
  /\ UNCHANGED <<sent, accepted>>

Restart ==
  /\ accepted' = <<>>
  /\ height' = 1
  /\ UNCHANGED sent

Init == sent = {} /\ accepted = <<>> /\ height = 1

Next ==
  \/ Send
  \/ \E m \in sent : Accept(m)
  \/ NextHeight
  \/ Restart

Spec == Init /\ [][Next]_<<sent, accepted, height>>
===============================================================================
