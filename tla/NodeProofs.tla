------------------------------ MODULE NodeProofs ------------------------------
(* What module Node promises whatever crashes, restarts, stores left by an      *)
(* earlier network and proposals streamed again do, proved for every value of   *)
(* the constants.                                                               *)
(*                                                                              *)
(* The argument has two halves.  The channel: the engine runs ahead of the      *)
(* application, but the StartedRound before a GetValue says what the round will *)
(* be when that GetValue is handled, and the engine sends nothing behind a      *)
(* Decided until it is answered.  The database: every transaction, and so every *)
(* prefix of a handler's transactions, keeps a value with its certificate, data *)
(* with its proposal, and under a certificate's round the proposal decided.     *)
EXTENDS Node, TLAPS, FiniteSetTheorems, SequenceTheorems

(* The round the application is in when it gets to place i of the channel q, if *)
(* it is in round c now: that of the last StartedRound before i.                *)
RoundAt(q, c, i, r) ==
  \/ c = r /\ \A k \in 1..i-1 : q[k].type # "StartedRound"
  \/ \E j \in 1..i-1 : /\ q[j].type = "StartedRound" /\ q[j].round = r
                       /\ \A k \in j+1..i-1 : q[k].type # "StartedRound"

(* The parts of the inductive invariant that are about the channel.             *)
Rounded == {"StartedRound", "GetValue", "Decided"}
WithBlock == {"ReceivedProposal", "ProcessSyncedValue", "Decided"}
Ready == {"ConsensusReady", "Decided"}

Contents(q, h, ch) ==
  \A i \in 1..Len(q) :
    /\ q[i].type \in WithBlock => q[i].block \in Blocks
    /\ q[i].type \in Rounded => q[i].height = h
    /\ q[i].type = "Decided" => ch[q[i].height] = [round |-> q[i].round, value_id |-> q[i].block]

RoundsKnown(q, c) ==
  \A i \in 1..Len(q) : q[i].type = "GetValue" => RoundAt(q, c, i, q[i].round)

(* The engine waits behind a ConsensusReady or Decided, of which there is one.  *)
Waits(q, phase) ==
  \A i \in 1..Len(q) : q[i].type \in Ready =>
    /\ phase = "wait"
    /\ \A j \in 1..Len(q) : j # i => q[j].type \notin Ready
    /\ \A j \in 1..Len(q) : j > i => q[j].type \notin Rounded

ChannelInv ==
  /\ inbox \in Seq(Messages)
  /\ Contents(inbox, current_height, chain)
  /\ RoundsKnown(inbox, current_round)
  /\ Waits(inbox, engine.phase)

EngineInv ==
  /\ engine \in [phase : {"wait", "enter", "propose", "round"},
                 height : 1..MaxHeight+1, round : Rounds]
  /\ engine.height = current_height
  /\ engine.phase \in {"propose", "round"} => engine.height \in Heights
  /\ engine.phase = "propose" => RoundAt(inbox, current_round, Len(inbox) + 1, engine.round)

-------------------------------------------------------------------------------
(* The channel after its first message is taken, or one more is sent.           *)
LEMMA TailFacts ==
  ASSUME NEW q \in Seq(Messages), q # <<>>
  PROVE  /\ Tail(q) \in Seq(Messages)
         /\ Len(q) \in Nat /\ Len(q) >= 1
         /\ Len(Tail(q)) = Len(q) - 1
         /\ Head(q) = q[1] /\ q[1] \in Messages
         /\ \A i \in 1..Len(q)-1 : Tail(q)[i] = q[i+1]
<1>1. Len(q) \in Nat /\ Len(q) # 0
  BY EmptySeq, LenProperties
<1>2. Tail(q) \in Seq(Messages) /\ Len(Tail(q)) = Len(q) - 1
  BY HeadTailProperties
<1>3. \A i \in 1..Len(q)-1 : Tail(q)[i] = q[i+1]
  BY <1>2, HeadTailProperties
<1>4. Head(q) = q[1]
  OBVIOUS
<1>5. q[1] \in Messages
  BY <1>1, ElementOfSeq
<1> QED BY <1>1, <1>2, <1>3, <1>4, <1>5

(* What appending a message to the channel does.                                *)
LEMMA AppendFacts ==
  ASSUME NEW q \in Seq(Messages), NEW m \in Messages
  PROVE  /\ Append(q, m) \in Seq(Messages)
         /\ Len(q) \in Nat
         /\ Len(Append(q, m)) = Len(q) + 1
         /\ \A i \in 1..Len(q) : Append(q, m)[i] = q[i]
         /\ Append(q, m)[Len(q) + 1] = m
BY AppendProperties, LenProperties

(* RoundAt names the same round after a message is handled or sent.             *)
LEMMA RoundAtTail ==
  ASSUME NEW q \in Seq(Messages), q # <<>>, NEW c, NEW d, NEW i \in 1..Len(q), NEW r,
         RoundAt(q, c, i + 1, r),
         d = IF q[1].type = "StartedRound" THEN q[1].round ELSE c
  PROVE  RoundAt(Tail(q), d, i, r)
<1>1. /\ Len(q) \in Nat /\ \A k \in 1..Len(q)-1 : Tail(q)[k] = q[k+1]
  BY TailFacts
<1>2. CASE c = r /\ \A k \in 1..(i+1)-1 : q[k].type # "StartedRound"
  <2>1. \A k \in 1..i-1 : k \in 1..Len(q)-1 /\ k+1 \in 1..(i+1)-1
    BY <1>1
  <2>2. 1 \in 1..(i+1)-1
    BY <1>1
  <2> QED BY <1>1, <1>2, <2>1, <2>2 DEF RoundAt
<1>3. CASE \E j \in 1..(i+1)-1 : /\ q[j].type = "StartedRound" /\ q[j].round = r
                                 /\ \A k \in j+1..(i+1)-1 : q[k].type # "StartedRound"
  <2>1. PICK j \in 1..(i+1)-1 : /\ q[j].type = "StartedRound" /\ q[j].round = r
                                /\ \A k \in j+1..(i+1)-1 : q[k].type # "StartedRound"
    BY <1>3
  <2>2. \A k \in 1..i-1 : k \in 1..Len(q)-1 /\ k+1 \in 1..(i+1)-1
    BY <1>1
  <2>3. CASE j = 1
    <3>1. \A k \in 1..i-1 : k+1 \in j+1..(i+1)-1
      BY <2>3
    <3> QED BY <2>1, <2>2, <2>3, <3>1, <1>1 DEF RoundAt
  <2>4. CASE j # 1
    <3>1. j-1 \in 1..i-1 /\ (j-1)+1 = j
      BY <2>4
    <3>2. \A k \in (j-1)+1..i-1 : k \in 1..i-1 /\ k+1 \in j+1..(i+1)-1
      BY <2>4
    <3>3. /\ Tail(q)[j-1].type = "StartedRound" /\ Tail(q)[j-1].round = r
          /\ \A k \in (j-1)+1..i-1 : Tail(q)[k].type # "StartedRound"
      BY <2>1, <2>2, <3>1, <3>2, <1>1
    <3> QED BY <3>1, <3>3 DEF RoundAt
  <2> QED BY <2>3, <2>4
<1> QED BY <1>2, <1>3 DEF RoundAt

(* The round current at a place of the channel does not depend on what is       *)
(* sent after it.                                                               *)
LEMMA RoundAtAppend ==
  ASSUME NEW q \in Seq(Messages), NEW m \in Messages, NEW c, NEW i \in 1..Len(q)+1, NEW r,
         RoundAt(q, c, i, r)
  PROVE  RoundAt(Append(q, m), c, i, r)
<1>1. Len(q) \in Nat /\ \A k \in 1..Len(q) : Append(q, m)[k] = q[k]
  BY AppendFacts
<1>2. \A k \in 1..i-1 : k \in 1..Len(q)
  BY <1>1
<1>3. \A j \in 1..i-1 : \A k \in j+1..i-1 : k \in 1..i-1
  OBVIOUS
<1> QED BY <1>1, <1>2, <1>3 DEF RoundAt

(* The round current behind a message that was just sent.                       *)
LEMMA RoundAtEnd ==
  ASSUME NEW q \in Seq(Messages), NEW m \in Messages, NEW c, NEW r,
         IF m.type = "StartedRound" THEN m.round = r ELSE RoundAt(q, c, Len(q) + 1, r)
  PROVE  RoundAt(Append(q, m), c, Len(q) + 2, r)
<1>1. /\ Len(q) \in Nat /\ \A k \in 1..Len(q) : Append(q, m)[k] = q[k]
      /\ Append(q, m)[Len(q) + 1] = m
  BY AppendFacts
<1> DEFINE p == Append(q, m)
           n == Len(q)
<1>2. (n + 2) - 1 = n + 1 /\ (n + 1) - 1 = n /\ n + 1 \in 1..n+1
  BY <1>1
<1>3. CASE m.type = "StartedRound"
  <2>1. \A k \in (n+1)+1..n+1 : FALSE
    BY <1>1
  <2> QED BY <1>1, <1>2, <1>3, <2>1 DEF RoundAt
<1>4. CASE m.type # "StartedRound"
  <2>1. \A k \in 1..n+1 : k \in 1..n \/ k = n+1
    BY <1>1
  <2>2. \A j \in 1..n : j \in 1..n+1 /\ \A k \in j+1..n+1 : k \in j+1..n \/ k = n+1
    BY <1>1
  <2>3. \A j \in 1..n : \A k \in j+1..n : k \in 1..n
    BY <1>1
  <2>4. RoundAt(q, c, n + 1, r)
    BY <1>4
  <2> HIDE DEF p, n
  <2>5. /\ \A k \in 1..n : p[k] = q[k]
        /\ p[n+1] = m
    BY <1>1 DEF p, n
  <2>6. RoundAt(p, c, n + 2, r)
    <3>1. CASE c = r /\ \A k \in 1..(n+1)-1 : q[k].type # "StartedRound"
      BY <3>1, <1>2, <1>4, <2>1, <2>5 DEF RoundAt
    <3>2. CASE \E j \in 1..(n+1)-1 : /\ q[j].type = "StartedRound" /\ q[j].round = r
                                     /\ \A k \in j+1..(n+1)-1 : q[k].type # "StartedRound"
      <4>1. PICK j \in 1..n : /\ q[j].type = "StartedRound" /\ q[j].round = r
                              /\ \A k \in j+1..n : q[k].type # "StartedRound"
        BY <3>2, <1>2
      <4>2. \A k \in j+1..n+1 : p[k].type # "StartedRound"
        BY <4>1, <1>4, <2>2, <2>3, <2>5
      <4> QED BY <4>1, <4>2, <1>2, <2>2, <2>5 DEF RoundAt
    <3> QED BY <3>1, <3>2, <2>4 DEF RoundAt
  <2> QED BY <2>6 DEF p, n
<1> QED BY <1>3, <1>4

(* What the channel promises when its first message is taken: the application   *)
(* goes to round d, and stays at its height unless the message was Decided.     *)
LEMMA ChannelTail ==
  ASSUME NEW q \in Seq(Messages), q # <<>>, NEW h, NEW c, NEW ch, NEW phase,
         Contents(q, h, ch), RoundsKnown(q, c), Waits(q, phase)
  PROVE  /\ Contents(Tail(q), h, ch)
         /\ \A d : d = (IF q[1].type = "StartedRound" THEN q[1].round ELSE c)
                    => RoundsKnown(Tail(q), d)
         /\ Waits(Tail(q), phase)
         /\ q[1].type \in Ready =>
              \A g, d, p : /\ Contents(Tail(q), g, ch)
                           /\ RoundsKnown(Tail(q), d)
                           /\ Waits(Tail(q), p)
<1> DEFINE t == Tail(q)
<1>1. /\ Len(q) \in Nat /\ Len(q) >= 1 /\ Len(t) = Len(q) - 1
      /\ \A i \in 1..Len(q)-1 : t[i] = q[i+1]
  BY TailFacts
<1> HIDE DEF t
<1>2. \A i \in 1..Len(t) : i \in 1..Len(q)-1 /\ i+1 \in 1..Len(q) /\ t[i] = q[i+1]
  BY <1>1
<1>3. Contents(t, h, ch)
  BY <1>2 DEF Contents
<1>4. ASSUME NEW d, d = IF q[1].type = "StartedRound" THEN q[1].round ELSE c
      PROVE  RoundsKnown(t, d)
  <2>1. ASSUME NEW i \in 1..Len(t), t[i].type = "GetValue"
        PROVE  RoundAt(t, d, i, t[i].round)
    <3>1. RoundAt(q, c, i + 1, t[i].round) /\ i \in 1..Len(q)
      BY <1>1, <1>2, <2>1 DEF RoundsKnown
    <3> QED BY <1>4, <3>1, RoundAtTail DEF t
  <2> QED BY <2>1 DEF RoundsKnown
<1>5. Waits(t, phase)
  <2>1. \A i, j \in 1..Len(t) : (i # j => i+1 # j+1) /\ (j > i => j+1 > i+1)
    BY <1>1
  <2> QED BY <1>2, <2>1 DEF Waits
<1>6. ASSUME q[1].type \in Ready, NEW g, NEW d, NEW p
      PROVE  Contents(t, g, ch) /\ RoundsKnown(t, d) /\ Waits(t, p)
  <2>1. 1 \in 1..Len(q) /\ \A i \in 1..Len(t) : i+1 # 1 /\ i+1 > 1
    BY <1>1
  <2>2. \A i \in 1..Len(t) : t[i].type \notin Ready /\ t[i].type \notin Rounded
    BY <1>2, <1>6, <2>1 DEF Waits
  <2> QED BY <1>3, <2>2 DEF Contents, RoundsKnown, Waits, Rounded, Ready
<1> QED BY <1>3, <1>4, <1>5, <1>6 DEF t

(* And when a message is sent.  Only an engine that waits for nothing sends     *)
(* StartedRound, GetValue or Decided, and behind Decided it waits.              *)
LEMMA ChannelAppend ==
  ASSUME NEW q \in Seq(Messages), NEW m \in Messages, NEW h, NEW c, NEW ch, NEW phase, NEW p,
         Contents(q, h, ch), RoundsKnown(q, c), Waits(q, phase),
         m.type \in WithBlock => m.block \in Blocks,
         m.type \in Rounded => m.height = h /\ phase # "wait",
         m.type = "GetValue" => RoundAt(q, c, Len(q) + 1, m.round),
         m.type = "Decided" => /\ ch[m.height] = [round |-> m.round, value_id |-> m.block]
                               /\ p = "wait",
         m.type # "ConsensusReady",
         p = phase \/ phase # "wait"
  PROVE  Contents(Append(q, m), h, ch) /\ RoundsKnown(Append(q, m), c) /\ Waits(Append(q, m), p)
<1> DEFINE a == Append(q, m)
           n == Len(q)
<1>1. /\ n \in Nat /\ Len(a) = n + 1
      /\ \A i \in 1..n : a[i] = q[i]
      /\ a[n+1] = m
  BY AppendFacts
<1> HIDE DEF a
<1>2. \A i \in 1..Len(a) : (i \in 1..n /\ a[i] = q[i]) \/ (i = n+1 /\ a[i] = m)
  BY <1>1
<1>3. Contents(a, h, ch)
  BY <1>2 DEF Contents
<1>4. RoundsKnown(a, c)
  <2>1. ASSUME NEW i \in 1..Len(a), a[i].type = "GetValue"
        PROVE  RoundAt(a, c, i, a[i].round)
    <3>1. i \in 1..n+1 /\ RoundAt(q, c, i, a[i].round)
      BY <1>1, <1>2, <2>1 DEF RoundsKnown
    <3> QED BY <3>1, RoundAtAppend DEF a
  <2> QED BY <2>1 DEF RoundsKnown
<1>5. Waits(a, p)
  <2>1. ASSUME NEW i \in 1..Len(a), a[i].type \in Ready
        PROVE  /\ p = "wait"
               /\ \A j \in 1..Len(a) : j # i => a[j].type \notin Ready
               /\ \A j \in 1..Len(a) : j > i => a[j].type \notin Rounded
    <3>1. CASE i \in 1..n
      <4>1. /\ phase = "wait" /\ q[i].type \in Ready
            /\ \A j \in 1..n : j # i => q[j].type \notin Ready
            /\ \A j \in 1..n : j > i => q[j].type \notin Rounded
        BY <1>1, <2>1, <3>1 DEF Waits
      <4>2. m.type \notin Rounded /\ m.type \notin Ready /\ p = "wait"
        BY <4>1 DEF Rounded, Ready
      <4> QED BY <1>2, <4>1, <4>2
    <3>2. CASE i = n+1
      <4>1. m.type = "Decided" /\ p = "wait" /\ phase # "wait"
        BY <1>1, <2>1, <3>2 DEF Ready, Rounded
      <4>2. \A j \in 1..n : q[j].type \notin Ready
        BY <4>1 DEF Waits
      <4>3. \A j \in 1..Len(a) : ~(j > i)
        BY <1>1, <3>2
      <4> QED BY <1>2, <3>2, <4>1, <4>2, <4>3
    <3> QED BY <1>2, <3>1, <3>2
  <2> QED BY <2>1 DEF Waits
<1> QED BY <1>3, <1>4, <1>5 DEF a

-------------------------------------------------------------------------------
(* The database.  A certificate names the round whose proposal is the value     *)
(* stored with it, and that proposal is still there.                            *)
CertificateInv(d) ==
  \A h \in Heights : d.certificates[h] # Absent =>
    /\ d.certificates[h].height = h
    /\ d.undecided_proposals[<<h, d.certificates[h].round>>] = d.decided_values[h]

ValueInv(d) ==
  \A h \in Heights : d.decided_values[h] # Absent <=> d.certificates[h] # Absent

DataInv(d) ==
  /\ \A k \in UndecidedKeys :
       d.undecided_block_data[k] # Absent => d.undecided_proposals[k] # Absent
  /\ \A h \in Heights : d.decided_block_data[h] # Absent => d.decided_values[h] # Absent

DbInv(d) == d \in Databases /\ ValueInv(d) /\ DataInv(d) /\ CertificateInv(d)

(* What each transaction makes of a database d.                                 *)
ProposedTo(e, d, h, r, block) ==
  /\ e.undecided_proposals = [d.undecided_proposals EXCEPT ![<<h, r>>] = IfAbsent(@, block)]
  /\ e.undecided_block_data = d.undecided_block_data
  /\ e.decided_values = d.decided_values
  /\ e.certificates = d.certificates
  /\ e.decided_block_data = d.decided_block_data

DataAddedTo(e, d, h, r, data) ==
  /\ e.undecided_block_data = [d.undecided_block_data EXCEPT ![<<h, r>>] = IfAbsent(@, data)]
  /\ e.undecided_proposals = d.undecided_proposals
  /\ e.decided_values = d.decided_values
  /\ e.certificates = d.certificates
  /\ e.decided_block_data = d.decided_block_data

DecidedTo(e, d, h, value, certificate) ==
  /\ e.decided_values = [d.decided_values EXCEPT ![h] = value]
  /\ e.certificates = [d.certificates EXCEPT ![h] = certificate]
  /\ e.undecided_proposals = d.undecided_proposals
  /\ e.undecided_block_data = d.undecided_block_data
  /\ e.decided_block_data = d.decided_block_data

DecidedDataTo(e, d, h, data) ==
  /\ e.decided_block_data = [d.decided_block_data EXCEPT ![h] = IfAbsent(@, data)]
  /\ e.undecided_proposals = d.undecided_proposals
  /\ e.undecided_block_data = d.undecided_block_data
  /\ e.decided_values = d.decided_values
  /\ e.certificates = d.certificates

(* Each transaction keeps the invariant, under what the handlers know when they *)
(* make it.                                                                     *)
LEMMA EmptyDbInv == DbInv(EmptyDb)
BY DEF DbInv, ValueInv, DataInv, CertificateInv, EmptyDb, Databases, Rows

(* Storing an undecided proposal keeps the tables in order; one stored before   *)
(* stays.                                                                       *)
LEMMA UndecidedProposalInv ==
  ASSUME NEW d, DbInv(d), NEW h \in Heights, NEW r \in Rounds, NEW block \in Blocks,
         NEW e, e = InsertUndecidedProposal(d, h, r, block)
  PROVE  /\ DbInv(e) /\ ProposedTo(e, d, h, r, block)
         /\ e.undecided_proposals[<<h, r>>] =
              IF d.undecided_proposals[<<h, r>>] = Absent THEN block
              ELSE d.undecided_proposals[<<h, r>>]
         /\ e.undecided_proposals[<<h, r>>] # Absent
<1>1. /\ d \in Databases /\ <<h, r>> \in UndecidedKeys /\ block # Absent
      /\ d.undecided_proposals \in [UndecidedKeys -> Rows]
  BY AbsentAssumption DEF DbInv, UndecidedKeys, Databases
<1>2. /\ ProposedTo(e, d, h, r, block)
      /\ e \in Databases
  BY <1>1 DEF InsertUndecidedProposal, ProposedTo, IfAbsent, Databases, Rows
<1>3. /\ \A k \in UndecidedKeys :
           d.undecided_proposals[k] # Absent => e.undecided_proposals[k] = d.undecided_proposals[k]
      /\ e.undecided_proposals[<<h, r>>] # Absent
      /\ e.undecided_proposals[<<h, r>>] =
           IF d.undecided_proposals[<<h, r>>] = Absent THEN block
           ELSE d.undecided_proposals[<<h, r>>]
  BY <1>1, <1>2 DEF ProposedTo, IfAbsent
<1>4. ValueInv(e) /\ DataInv(e)
  BY <1>2, <1>3 DEF DbInv, ValueInv, DataInv, ProposedTo
<1>5. CertificateInv(e)
  <2>1. ASSUME NEW k \in Heights, d.certificates[k] # Absent
        PROVE  <<k, d.certificates[k].round>> \in UndecidedKeys /\ d.decided_values[k] # Absent
    BY <2>1, <1>1 DEF DbInv, ValueInv, UndecidedKeys, Databases, Certificates
  <2> QED BY <1>2, <1>3, <2>1 DEF DbInv, CertificateInv, ProposedTo
<1> QED BY <1>2, <1>3, <1>4, <1>5 DEF DbInv

(* So does storing the data of a proposal that is stored.                       *)
LEMMA UndecidedBlockDataInv ==
  ASSUME NEW d, DbInv(d), NEW h \in Heights, NEW r \in Rounds, NEW block \in Blocks,
         d.undecided_proposals[<<h, r>>] # Absent,
         NEW e, e = InsertUndecidedBlockData(d, h, r, block)
  PROVE  DbInv(e) /\ DataAddedTo(e, d, h, r, block)
<1>1. d \in Databases /\ <<h, r>> \in UndecidedKeys
  BY DEF DbInv, UndecidedKeys
<1>2. /\ DataAddedTo(e, d, h, r, block)
      /\ \A k \in UndecidedKeys : k # <<h, r>> =>
           e.undecided_block_data[k] = d.undecided_block_data[k]
      /\ e \in Databases
  BY <1>1 DEF InsertUndecidedBlockData, DataAddedTo, IfAbsent, Databases, Rows
<1> QED BY <1>2 DEF DbInv, ValueInv, DataInv, CertificateInv, DataAddedTo

(* So does storing the value decided with its certificate.                      *)
LEMMA DecidedValueInv ==
  ASSUME NEW d, DbInv(d), NEW h \in Heights, NEW r \in Rounds, NEW value_id \in Blocks,
         NEW value, value = d.undecided_proposals[<<h, r>>], value # Absent,
         NEW e, e = InsertDecidedValue(d, Certificate(h, r, value_id), value)
  PROVE  DbInv(e) /\ DecidedTo(e, d, h, value, Certificate(h, r, value_id))
<1> DEFINE certificate == Certificate(h, r, value_id)
<1>1. /\ d \in Databases /\ <<h, r>> \in UndecidedKeys
      /\ value \in Rows /\ value # Absent
      /\ certificate \in Certificates /\ certificate # Absent
      /\ certificate.height = h /\ certificate.round = r
  <2>1. d \in Databases /\ <<h, r>> \in UndecidedKeys /\ value # Absent
    BY DEF DbInv, UndecidedKeys
  <2>2. /\ certificate \in Certificates
        /\ certificate.height = h /\ certificate.round = r
    BY DEF Certificate, Certificates
  <2>3. value \in Rows
    BY <2>1 DEF Databases
  <2> QED BY <2>1, <2>2, <2>3, AbsentAssumption
<1>0. e = InsertDecidedValue(d, certificate, value)
  OBVIOUS
<1> HIDE DEF certificate
<1>2. /\ e.decided_values = [d.decided_values EXCEPT ![h] = value]
      /\ e.certificates = [d.certificates EXCEPT ![h] = certificate]
      /\ e.decided_block_data = d.decided_block_data
      /\ e.undecided_proposals = d.undecided_proposals
      /\ e.undecided_block_data = d.undecided_block_data
      /\ e \in Databases
  <2>1. /\ e.decided_values = [d.decided_values EXCEPT ![h] = value]
        /\ e.certificates = [d.certificates EXCEPT ![h] = certificate]
        /\ e.decided_block_data = d.decided_block_data
        /\ e.undecided_proposals = d.undecided_proposals
        /\ e.undecided_block_data = d.undecided_block_data
        /\ e = [decided_values |-> e.decided_values, certificates |-> e.certificates,
                decided_block_data |-> e.decided_block_data,
                undecided_proposals |-> e.undecided_proposals,
                undecided_block_data |-> e.undecided_block_data]
    <3>1. e = [d EXCEPT !.decided_values[h] = value, !.certificates[h] = certificate]
      BY <1>0, <1>1 DEF InsertDecidedValue
    <3> QED BY <1>1, <3>1 DEF Databases
  <2>2. /\ e.decided_values \in [Heights -> Rows]
        /\ e.certificates \in [Heights -> Certificates \cup {Absent}]
    BY <1>1, <2>1 DEF Databases
  <2> QED BY <1>1, <2>1, <2>2 DEF Databases
<1>3. /\ \A k \in Heights : e.decided_values[k] = IF k = h THEN value ELSE d.decided_values[k]
      /\ \A k \in Heights : e.certificates[k] = IF k = h THEN certificate ELSE d.certificates[k]
  BY <1>1, <1>2 DEF Databases
<1>4. ValueInv(e) /\ DataInv(e)
  BY <1>1, <1>2, <1>3 DEF DbInv, ValueInv, DataInv
<1>5. CertificateInv(e)
  BY <1>1, <1>2, <1>3 DEF DbInv, CertificateInv
<1> QED BY <1>2, <1>4, <1>5 DEF DbInv, DecidedTo, certificate

(* So does storing the data of a height that has a decided value.               *)
LEMMA DecidedBlockDataInv ==
  ASSUME NEW d, DbInv(d), NEW h \in Heights, NEW data \in Blocks, d.decided_values[h] # Absent,
         NEW e, e = InsertDecidedBlockData(d, h, data)
  PROVE  DbInv(e) /\ DecidedDataTo(e, d, h, data)
<1>1. d \in Databases
  BY DEF DbInv
<1>2. /\ DecidedDataTo(e, d, h, data)
      /\ \A k \in Heights : k # h => e.decided_block_data[k] = d.decided_block_data[k]
      /\ e \in Databases
  BY <1>1 DEF InsertDecidedBlockData, DecidedDataTo, IfAbsent, Databases, Rows
<1> QED BY <1>2 DEF DbInv, ValueInv, DataInv, CertificateInv, DecidedDataTo

(* Pruning drops a decided value with its certificate and data, and everything  *)
(* that is undecided below the same height.                                     *)
PrunedTo(e, d, retain) ==
  /\ \A h \in Heights :
       IF h < retain
       THEN /\ e.decided_values[h] = Absent /\ e.certificates[h] = Absent
            /\ e.decided_block_data[h] = Absent
       ELSE /\ e.decided_values[h] = d.decided_values[h]
            /\ e.certificates[h] = d.certificates[h]
            /\ e.decided_block_data[h] = d.decided_block_data[h]
  /\ \A h \in Heights, r \in Rounds :
       IF h < retain
       THEN /\ e.undecided_proposals[<<h, r>>] = Absent
            /\ e.undecided_block_data[<<h, r>>] = Absent
       ELSE /\ e.undecided_proposals[<<h, r>>] = d.undecided_proposals[<<h, r>>]
            /\ e.undecided_block_data[<<h, r>>] = d.undecided_block_data[<<h, r>>]

(* Pruning drops whole heights: what it leaves is in order.                     *)
LEMMA PruneInv ==
  ASSUME NEW d, DbInv(d), NEW retain \in Nat, NEW e, e = Prune(d, retain)
  PROVE  DbInv(e) /\ PrunedTo(e, d, retain)
<1> DEFINE old == {h \in DecidedHeights(d) : h < retain}
           Drop(table) == [h \in Heights |-> IF h \in old THEN Absent ELSE table[h]]
           DropUndecided(table) ==
             [k \in UndecidedKeys |-> IF KeyBefore(k, <<retain, Nil>>) THEN Absent ELSE table[k]]
<1>1. e = [decided_values |-> Drop(d.decided_values), certificates |-> Drop(d.certificates),
           decided_block_data |-> Drop(d.decided_block_data),
           undecided_proposals |-> DropUndecided(d.undecided_proposals),
           undecided_block_data |-> DropUndecided(d.undecided_block_data)]
  BY DEF Prune
<1>2. d \in Databases /\ ValueInv(d) /\ DataInv(d) /\ CertificateInv(d)
  BY DEF DbInv
<1>3. \A h \in Heights, r \in Rounds :
        /\ <<h, r>> \in UndecidedKeys
        /\ KeyBefore(<<h, r>>, <<retain, Nil>>) <=> h < retain
  BY MaxHeightAssumption, MaxRoundAssumption DEF Heights, Rounds, UndecidedKeys, KeyBefore, Nil
<1>4. \A k \in UndecidedKeys : \E h \in Heights, r \in Rounds : k = <<h, r>>
  BY DEF UndecidedKeys
<1>5. \A h \in Heights, r \in Rounds :
        IF h < retain
        THEN /\ e.undecided_proposals[<<h, r>>] = Absent
             /\ e.undecided_block_data[<<h, r>>] = Absent
        ELSE /\ e.undecided_proposals[<<h, r>>] = d.undecided_proposals[<<h, r>>]
             /\ e.undecided_block_data[<<h, r>>] = d.undecided_block_data[<<h, r>>]
  <2>1. ASSUME NEW table, NEW h \in Heights, NEW r \in Rounds
        PROVE  DropUndecided(table)[<<h, r>>] = IF h < retain THEN Absent ELSE table[<<h, r>>]
    <3>1. /\ <<h, r>> \in UndecidedKeys
          /\ KeyBefore(<<h, r>>, <<retain, Nil>>) <=> h < retain
      BY <1>3
    <3> QED BY <3>1
  <2>2. /\ e.undecided_proposals = DropUndecided(d.undecided_proposals)
        /\ e.undecided_block_data = DropUndecided(d.undecided_block_data)
    BY <1>1
  <2> HIDE DEF DropUndecided
  <2>3. ASSUME NEW h \in Heights, NEW r \in Rounds
        PROVE  /\ e.undecided_proposals[<<h, r>>] =
                    IF h < retain THEN Absent ELSE d.undecided_proposals[<<h, r>>]
               /\ e.undecided_block_data[<<h, r>>] =
                    IF h < retain THEN Absent ELSE d.undecided_block_data[<<h, r>>]
    <3>1. \A table : DropUndecided(table)[<<h, r>>] =
                       IF h < retain THEN Absent ELSE table[<<h, r>>]
      BY <2>1
    <3> QED BY <2>2, <3>1
  <2> QED BY <2>3
<1>6. \A h \in Heights :
        IF h < retain
        THEN /\ e.decided_values[h] = Absent /\ e.certificates[h] = Absent
             /\ e.decided_block_data[h] = Absent
        ELSE /\ e.decided_values[h] = d.decided_values[h]
             /\ e.certificates[h] = d.certificates[h]
             /\ e.decided_block_data[h] = d.decided_block_data[h]
  <2>1. \A h \in Heights : h \in old <=> d.decided_values[h] # Absent /\ h < retain
    BY DEF DecidedHeights
  <2>2. \A h \in Heights : h \notin old /\ h < retain =>
          /\ d.decided_values[h] = Absent /\ d.certificates[h] = Absent
          /\ d.decided_block_data[h] = Absent
    BY <1>2, <2>1 DEF ValueInv, DataInv
  <2> HIDE DEF old
  <2> QED BY <1>1, <2>1, <2>2
<1>7. e \in Databases
  <2>1. /\ Drop(d.decided_values) \in [Heights -> Rows]
        /\ Drop(d.certificates) \in [Heights -> Certificates \cup {Absent}]
        /\ Drop(d.decided_block_data) \in [Heights -> Rows]
    BY <1>2 DEF Databases, Rows
  <2>2. /\ DropUndecided(d.undecided_proposals) \in [UndecidedKeys -> Rows]
        /\ DropUndecided(d.undecided_block_data) \in [UndecidedKeys -> Rows]
    BY <1>2 DEF Databases, Rows
  <2> QED BY <1>1, <2>1, <2>2 DEF Databases
<1>8. ValueInv(e)
  BY <1>2, <1>6 DEF ValueInv
<1>9. DataInv(e)
  <2>1. \A k \in UndecidedKeys :
          e.undecided_block_data[k] # Absent => e.undecided_proposals[k] # Absent
    BY <1>2, <1>3, <1>4, <1>5 DEF DataInv
  <2>2. \A h \in Heights : e.decided_block_data[h] # Absent => e.decided_values[h] # Absent
    BY <1>2, <1>6 DEF DataInv
  <2> QED BY <2>1, <2>2 DEF DataInv
<1>10. CertificateInv(e)
  <2>1. ASSUME NEW h \in Heights, e.certificates[h] # Absent
        PROVE  /\ e.certificates[h].height = h
               /\ e.undecided_proposals[<<h, e.certificates[h].round>>] = e.decided_values[h]
    <3>1. /\ ~(h < retain) /\ e.certificates[h] = d.certificates[h]
          /\ e.decided_values[h] = d.decided_values[h]
      BY <1>6, <2>1
    <3>2. d.certificates[h].round \in Rounds
      BY <1>2, <2>1, <3>1 DEF Databases, Certificates
    <3>3. e.undecided_proposals[<<h, d.certificates[h].round>>]
            = d.undecided_proposals[<<h, d.certificates[h].round>>]
      BY <1>5, <3>1, <3>2
    <3> QED BY <1>2, <2>1, <3>1, <3>3 DEF CertificateInv
  <2> QED BY <2>1 DEF CertificateInv
<1> QED BY <1>5, <1>6, <1>7, <1>8, <1>9, <1>10 DEF DbInv, PrunedTo

(* The database after each transaction of a handler.                            *)
LEMMA RetainHeightType == \A h \in Heights : RetainHeight(h) \in Nat /\ RetainHeight(h) <= h
BY BoundsAssumption, MaxHeightAssumption DEF RetainHeight, Heights

(* What the reader returns is a block of the file or the empty one.             *)
LEMMA NextBlockType ==
  ASSUME reader \in 0..FileBlocks, current_height \in 1..MaxHeight+1
  PROVE  NextBlock \in Blocks
<1>1. FileBlocks \in Nat
  BY BoundsAssumption
<1>2. CASE reader < FileBlocks
  <2>1. reader \in 0..FileBlocks-1
    BY <1>1, <1>2
  <2> QED BY <1>2, <2>1 DEF NextBlock, Own, Blocks
<1>3. CASE ~(reader < FileBlocks)
  BY <1>3 DEF NextBlock, Blocks
<1> QED BY <1>2, <1>3

(* Both of the writes that store a proposal leave the tables in order.          *)
LEMMA StoreProposalInv ==
  ASSUME DbInv(db), NEW h \in Heights, NEW r \in Rounds, NEW block \in Blocks,
         NEW w, w = StoreProposal(h, r, block)
  PROVE  /\ w \in Seq(Databases) /\ Len(w) = 2
         /\ \A i \in 1..2 : DbInv(w[i]) /\ w[i].decided_values = db.decided_values
<1>1. PICK d1 : d1 = InsertUndecidedProposal(db, h, r, block)
  OBVIOUS
<1>2. PICK d2 : d2 = InsertUndecidedBlockData(d1, h, r, block)
  OBVIOUS
<1>3. /\ DbInv(d1) /\ ProposedTo(d1, db, h, r, block)
      /\ d1.undecided_proposals[<<h, r>>] # Absent
  BY <1>1, UndecidedProposalInv, Zenon
<1>4. DbInv(d2) /\ DataAddedTo(d2, d1, h, r, block)
  BY <1>2, <1>3, UndecidedBlockDataInv, Zenon
<1>5. d1 \in Databases /\ d2 \in Databases
  BY <1>3, <1>4 DEF DbInv
<1>6. d1.decided_values = db.decided_values /\ d2.decided_values = db.decided_values
  BY <1>3, <1>4 DEF ProposedTo, DataAddedTo
<1>7. w = <<d1, d2>>
  BY <1>1, <1>2 DEF StoreProposal
<1> QED BY <1>3, <1>4, <1>5, <1>6, <1>7

(* So do the writes of commit, and only they add a decided height.              *)
LEMMA StoreDecisionInv ==
  ASSUME DbInv(db), NEW h \in Heights, NEW r \in Rounds, NEW value_id \in Blocks,
         CanCommit(h, r),
         NEW value, value = db.undecided_proposals[<<h, r>>],
         NEW w, w = StoreDecision(h, r, value_id)
  PROVE  /\ w \in Seq(Databases) /\ Len(w) = 3
         /\ \A i \in 1..3 : DbInv(w[i])
         /\ \A i \in 1..3, k \in Heights :
              w[i].decided_values[k] \in {Absent, IF k = h THEN value ELSE db.decided_values[k]}
<1>0. /\ GetUndecidedProposal(db, h, r) = value /\ value # Absent
      /\ db \in Databases /\ <<h, r>> \in UndecidedKeys
  BY DEF CanCommit, GetUndecidedProposal, DbInv, UndecidedKeys
<1>1. PICK d1 : d1 = InsertDecidedValue(db, Certificate(h, r, value_id), value)
  OBVIOUS
<1>2. PICK data : data = GetBlockData(d1, h, r)
  OBVIOUS
<1>3. PICK d2 : d2 = IF data # Absent THEN InsertDecidedBlockData(d1, h, data) ELSE d1
  OBVIOUS
<1>4. PICK d3 : d3 = Prune(d2, RetainHeight(h))
  OBVIOUS
<1>5. w = <<d1, d2, d3>>
  BY <1>0, <1>1, <1>2, <1>3, <1>4 DEF StoreDecision
<1>6. /\ DbInv(d1) /\ d1.decided_values = [db.decided_values EXCEPT ![h] = value]
      /\ d1 \in Databases /\ d1.decided_values[h] # Absent
  <2>1. DbInv(d1) /\ DecidedTo(d1, db, h, value, Certificate(h, r, value_id))
    BY <1>0, <1>1, DecidedValueInv, Zenon
  <2> QED BY <1>0, <2>1 DEF DbInv, Databases, DecidedTo
<1>7. DbInv(d2) /\ d2.decided_values = d1.decided_values
  <2>1. data # Absent => data \in Blocks
    <3>1. data \in Rows
      BY <1>0, <1>2, <1>6 DEF GetBlockData, Databases
    <3> QED BY <3>1 DEF Rows
  <2>2. CASE data # Absent
    <3>1. DbInv(d2) /\ DecidedDataTo(d2, d1, h, data)
      BY <1>3, <1>6, <2>1, <2>2, DecidedBlockDataInv
    <3> QED BY <3>1 DEF DecidedDataTo
  <2> QED BY <1>3, <1>6, <2>2
<1>71. /\ DbInv(d3)
      /\ \A k \in Heights : d3.decided_values[k] \in {Absent, d2.decided_values[k]}
  <2>1. RetainHeight(h) \in Nat
    BY RetainHeightType
  <2>2. DbInv(d3) /\ PrunedTo(d3, d2, RetainHeight(h))
    BY <1>4, <1>7, <2>1, PruneInv, Zenon
  <2> QED BY <2>2 DEF PrunedTo
<1>8. d2 \in Databases /\ d3 \in Databases
  BY <1>7, <1>71 DEF DbInv
<1>9. w \in Seq(Databases) /\ Len(w) = 3 /\ w[1] = d1 /\ w[2] = d2 /\ w[3] = d3
  BY <1>5, <1>6, <1>8
<1>10. \A k \in Heights : d1.decided_values[k] = IF k = h THEN value ELSE db.decided_values[k]
  BY <1>0, <1>6 DEF Databases
<1>11. \A i \in 1..3 : DbInv(w[i])
  BY <1>6, <1>7, <1>9, <1>71
<1>12. \A i \in 1..3, k \in Heights :
         w[i].decided_values[k] \in {Absent, IF k = h THEN value ELSE db.decided_values[k]}
  BY <1>7, <1>9, <1>10, <1>71
<1> QED BY <1>9, <1>11, <1>12

(* The last of several writes is one of them.                                   *)
LEMMA RangeAndLast ==
  ASSUME NEW S, NEW w \in Seq(S), Len(w) # 0
  PROVE  /\ Last(w) = w[Len(w)] /\ Last(w) \in Range(w)
         /\ \A d \in Range(w) : \E i \in 1..Len(w) : d = w[i]
<1>1. DOMAIN w = 1..Len(w) /\ Len(w) \in 1..Len(w)
  BY LenProperties
<1> QED BY <1>1 DEF Last, Range

(* What commit finds when it handles the message m.                             *)
Committing(m, k) == m.type = "Decided" /\ CanCommit(m.height, m.round) /\ m.height = k

(* After any of the writes of a handler, a crash included, the tables are in    *)
(* order.                                                                       *)
LEMMA WritesInv ==
  ASSUME DbInv(db), NextBlock \in Blocks,
         NEW m \in Messages, m.type \in WithBlock => m.block \in Blocks,
         NEW w, w = Writes(m)
  PROVE  /\ \A d \in Range(w) :
              /\ DbInv(d)
              /\ \A k \in Heights : d.decided_values[k] \in
                   {Absent, IF Committing(m, k) THEN db.undecided_proposals[<<k, m.round>>]
                                                ELSE db.decided_values[k]}
         /\ w # <<>> => Last(w) \in Range(w)
         /\ w # <<>> <=> \/ m.type = "GetValue"
                         \/ m.type = "ReceivedProposal" /\ ~Outdated(m.height)
                         \/ m.type = "Decided" /\ CanCommit(m.height, m.round)
<1> USE DEF WithBlock
<1>0. m.height \in Heights /\ m.round \in Rounds
  BY DEF Messages
<1>1. ASSUME NEW block \in Blocks, w = StoreProposal(m.height, m.round, block),
             \A k \in Heights : ~Committing(m, k)
      PROVE  /\ w # <<>> /\ Last(w) \in Range(w)
             /\ \A d \in Range(w) :
                  /\ DbInv(d)
                  /\ \A k \in Heights : d.decided_values[k] = db.decided_values[k]
  <2>1. /\ w \in Seq(Databases) /\ Len(w) = 2
        /\ \A i \in 1..2 : DbInv(w[i]) /\ w[i].decided_values = db.decided_values
    BY <1>0, <1>1, StoreProposalInv
  <2>2. w \in Seq(Databases) /\ Len(w) # 0 /\ Len(w) = 2
    BY <2>1
  <2>3. w # <<>>
    BY <2>2
  <2>4. /\ Last(w) \in Range(w)
        /\ \A d \in Range(w) : \E i \in 1..Len(w) : d = w[i]
    BY <2>2, RangeAndLast
  <2> QED BY <2>1, <2>3, <2>4
<1>2. CASE m.type = "GetValue"
  <2>1. w = StoreProposal(m.height, m.round, NextBlock)
    BY <1>2 DEF Writes
  <2> QED BY <1>1, <1>2, <2>1 DEF Committing
<1>3. CASE m.type = "ReceivedProposal" /\ ~Outdated(m.height)
  <2>1. m.block \in Blocks /\ w = StoreProposal(m.height, m.round, m.block)
    BY <1>3 DEF Writes
  <2> QED BY <1>1, <1>3, <2>1 DEF Committing
<1>4. CASE m.type = "Decided" /\ CanCommit(m.height, m.round)
  <2>1. w = StoreDecision(m.height, m.round, m.block) /\ m.block \in Blocks
    BY <1>4 DEF Writes
  <2>2. /\ w \in Seq(Databases) /\ Len(w) = 3
        /\ \A i \in 1..3 : DbInv(w[i])
        /\ \A i \in 1..3, k \in Heights :
             w[i].decided_values[k] \in
               {Absent, IF k = m.height THEN db.undecided_proposals[<<m.height, m.round>>]
                                        ELSE db.decided_values[k]}
    BY <1>0, <1>4, <2>1, StoreDecisionInv
  <2>3. w \in Seq(Databases) /\ Len(w) # 0 /\ Len(w) = 3
    BY <2>2
  <2>4. w # <<>>
    BY <2>3
  <2>5. /\ Last(w) \in Range(w)
        /\ \A d \in Range(w) : \E i \in 1..Len(w) : d = w[i]
    BY <2>3, RangeAndLast
  <2>6. \A k \in Heights : Committing(m, k) <=> k = m.height
    BY <1>4 DEF Committing
  <2>7. ASSUME NEW d \in Range(w)
        PROVE  /\ DbInv(d)
               /\ \A k \in Heights : d.decided_values[k] \in
                    {Absent, IF Committing(m, k) THEN db.undecided_proposals[<<k, m.round>>]
                                                 ELSE db.decided_values[k]}
    <3>1. PICK i \in 1..3 : d = w[i]
      BY <2>3, <2>5
    <3> QED BY <2>2, <2>6, <3>1
  <2>8. \A d \in Range(w) :
          /\ DbInv(d)
          /\ \A k \in Heights : d.decided_values[k] \in
               {Absent, IF Committing(m, k) THEN db.undecided_proposals[<<k, m.round>>]
                                            ELSE db.decided_values[k]}
    BY <2>7
  <2> QED BY <1>4, <2>4, <2>5, <2>8
<1>5. CASE /\ m.type # "GetValue"
           /\ ~(m.type = "ReceivedProposal" /\ ~Outdated(m.height))
           /\ ~(m.type = "Decided" /\ CanCommit(m.height, m.round))
  <2>1. w = <<>>
    BY <1>5 DEF Writes
  <2> QED BY <1>5, <2>1 DEF Range
<1> QED BY <1>2, <1>3, <1>4, <1>5

(* A non-empty set of natural numbers has a least element, and one that is      *)
(* bounded has a greatest.                                                      *)
LEMMA MinOfNaturals ==
  ASSUME NEW S \in SUBSET Nat, S # {}
  PROVE  Min(S) \in S /\ \A y \in S : Min(S) <= y
<1> DEFINE R == {ss \in Nat \X Nat : ss[1] < ss[2]}
<1>1. IsWellFoundedOn(R, Nat)
  BY NatLessThanWellFounded, Zenon DEF OpToRel
<1> HIDE DEF R
<1>2. PICK x \in S : \A y \in S : ~(<<y, x>> \in R)
  BY <1>1, WFMin
<1>3. \A y \in S : x <= y
  <2>1. ASSUME NEW y \in S PROVE x <= y
    <3>1. x \in Nat /\ y \in Nat /\ ~(<<y, x>> \in R)
      BY <1>2
    <3> QED BY <3>1 DEF R
  <2> QED BY <2>1
<1> QED BY <1>2, <1>3 DEF Min

(* A bounded, non-empty set of naturals has a greatest element.                 *)
LEMMA MaxOfNaturals ==
  ASSUME NEW n \in Nat, NEW S \in SUBSET (0..n), S # {}
  PROVE  Max(S) \in S /\ \A y \in S : Max(S) >= y
<1> DEFINE T == {n - x : x \in S}
<1>1. T \in SUBSET Nat /\ T # {}
  <2>1. \A x \in S : x \in 0..n /\ n - x \in Nat
    OBVIOUS
  <2>2. T \in SUBSET Nat
    BY <2>1
  <2>3. T # {}
    <3>1. PICK x \in S : TRUE
      OBVIOUS
    <3>2. n - x \in T
      BY <3>1
    <3> QED BY <3>2
  <2> QED BY <2>2, <2>3
<1>2. Min(T) \in T /\ \A t \in T : Min(T) <= t
  BY <1>1, MinOfNaturals
<1>3. PICK x \in S : Min(T) = n - x
  BY <1>2
<1>4. \A y \in S : x >= y
  <2>1. ASSUME NEW y \in S PROVE x >= y
    <3>1. n - y \in T /\ x \in Int /\ y \in Int
      OBVIOUS
    <3>2. n - x <= n - y
      BY <1>2, <1>3, <3>1
    <3> HIDE DEF T
    <3> QED BY <3>1, <3>2
  <2> QED BY <2>1
<1> QED BY <1>4 DEF Max

(* A node restarts at a height within the bounds.                               *)
LEMMA RestartHeightsType ==
  ASSUME NEW h \in RestartHeights
  PROVE  h \in 1..MaxHeight+1
<1> DEFINE S == DecidedHeights(db) \cup {0}
<1>1. S \in SUBSET (0..MaxHeight) /\ S # {} /\ MaxHeight \in Nat
  BY MaxHeightAssumption DEF DecidedHeights, Heights
<1> HIDE DEF S
<1>2. Max(S) \in 0..MaxHeight
  BY <1>1, MaxOfNaturals
<1>3. h = 1 \/ h = Max(S) + 1
  BY DEF RestartHeights, S
<1> QED BY <1>1, <1>2, <1>3

(* There is room for the block a peer numbers by its round and the proposals    *)
(* streamed before.                                                             *)
LEMMA StreamNumber ==
  ASSUME NEW r \in Rounds, NEW c \in Nat, c <= MaxStreams
  PROVE  r * MaxStreams + c \in 0..MaxStreams*(MaxRound+1)
<1>1. MaxStreams \in Nat /\ MaxRound \in Nat /\ r \in Nat /\ r <= MaxRound
  BY BoundsAssumption, MaxRoundAssumption DEF Rounds
<1>2. PICK k \in Nat : MaxRound = r + k
  <2>1. MaxRound - r \in Nat /\ MaxRound = r + (MaxRound - r)
    BY <1>1
  <2> QED BY <2>1
<1>3. MaxStreams*(MaxRound+1) = r * MaxStreams + k * MaxStreams + MaxStreams
  BY <1>1, <1>2
<1>4. k * MaxStreams \in Nat /\ r * MaxStreams \in Nat
  BY <1>1
<1> QED BY <1>1, <1>3, <1>4

-------------------------------------------------------------------------------
(* The inductive invariant.                                                     *)
AppInv ==
  /\ current_height \in 1..MaxHeight+1
  /\ current_round \in Rounds
  /\ reader \in 0..FileBlocks
  /\ DbInv(db)
  /\ spawned \in Seq([height : Heights, block : Blocks])
  /\ known \subseteq Props

NetworkInv ==
  /\ streamed \subseteq Props /\ IsFiniteSet(streamed)
  /\ chain \in [Heights -> Decisions \cup {Absent}]
  /\ crashes \in 0..MaxCrashes

Inv == ChannelInv /\ EngineInv /\ AppInv /\ NetworkInv

(* What the application finds when it takes a message.                          *)
LEMMA HeadFacts ==
  ASSUME Inv, inbox # <<>>, NEW m, m = Head(inbox)
  PROVE  /\ m \in Messages /\ m = inbox[1] /\ m.height \in Heights /\ m.round \in Rounds
         /\ m.type \in WithBlock => m.block \in Blocks
         /\ m.type \in Rounded => m.height = current_height
         /\ m.type = "GetValue" => m.round = current_round
         /\ m.type = "Decided" =>
              chain[m.height] = [round |-> m.round, value_id |-> m.block]
<1>1. inbox \in Seq(Messages) /\ m \in Messages /\ m = inbox[1] /\ 1 \in 1..Len(inbox)
  BY TailFacts DEF Inv, ChannelInv
<1>2. m.height \in Heights /\ m.round \in Rounds
  BY <1>1 DEF Messages
<1>3. /\ m.type \in WithBlock => m.block \in Blocks
      /\ m.type \in Rounded => m.height = current_height
      /\ m.type = "Decided" => chain[m.height] = [round |-> m.round, value_id |-> m.block]
  BY <1>1 DEF Inv, ChannelInv, Contents
<1>4. m.type = "GetValue" => m.round = current_round
  <2>1. \A k : k \notin 1..1-1
    OBVIOUS
  <2> QED BY <1>1, <2>1 DEF Inv, ChannelInv, RoundsKnown, RoundAt
<1> QED BY <1>1, <1>2, <1>3, <1>4

(* The channel and the engine once a message is taken that is no Decided or     *)
(* ConsensusReady.                                                              *)
LEMMA Taken ==
  ASSUME Inv, inbox # <<>>, inbox' = Tail(inbox),
         UNCHANGED <<current_height, chain, engine>>,
         current_round' = IF Head(inbox).type = "StartedRound" THEN Head(inbox).round
                          ELSE current_round
  PROVE  ChannelInv' /\ EngineInv'
<1>1. /\ inbox \in Seq(Messages)
      /\ Contents(inbox, current_height, chain)
      /\ RoundsKnown(inbox, current_round)
      /\ Waits(inbox, engine.phase)
  BY DEF Inv, ChannelInv
<1>2. /\ Tail(inbox) \in Seq(Messages) /\ Head(inbox) = inbox[1]
      /\ Len(inbox) \in Nat /\ Len(inbox) >= 1
      /\ Len(Tail(inbox)) = Len(inbox) - 1
  BY <1>1, TailFacts
<1>3. /\ Contents(Tail(inbox), current_height, chain)
      /\ RoundsKnown(Tail(inbox), current_round')
      /\ Waits(Tail(inbox), engine.phase)
  BY <1>1, <1>2, ChannelTail, Zenon
<1>4. ChannelInv'
  BY <1>2, <1>3 DEF ChannelInv
<1>5. ASSUME engine.phase = "propose"
      PROVE  RoundAt(Tail(inbox), current_round', Len(Tail(inbox)) + 1, engine.round)
  <2>1. RoundAt(inbox, current_round, Len(inbox) + 1, engine.round)
    BY <1>5 DEF Inv, EngineInv
  <2>2. Len(inbox) \in 1..Len(inbox) /\ Len(Tail(inbox)) + 1 = Len(inbox)
    BY <1>2
  <2>3. RoundAt(Tail(inbox), current_round', Len(inbox), engine.round)
    BY <1>1, <1>2, <2>1, <2>2, RoundAtTail, Zenon
  <2> QED BY <2>2, <2>3
<1>6. EngineInv'
  BY <1>5 DEF Inv, EngineInv
<1> QED BY <1>4, <1>6

(* And once it is, when the engine is told to start height g.                   *)
LEMMA Answered ==
  ASSUME Inv, inbox # <<>>, Head(inbox).type \in Ready, inbox' = Tail(inbox),
         NEW g \in 1..MaxHeight+1, current_height' = g, engine' = Engine("enter", g, 0),
         chain' = chain
  PROVE  ChannelInv' /\ EngineInv'
<1>1. /\ inbox \in Seq(Messages)
      /\ Contents(inbox, current_height, chain)
      /\ RoundsKnown(inbox, current_round)
      /\ Waits(inbox, engine.phase)
  BY DEF Inv, ChannelInv
<1>2. Tail(inbox) \in Seq(Messages) /\ Head(inbox) = inbox[1]
  BY <1>1, TailFacts
<1>3. /\ Contents(Tail(inbox), g, chain)
      /\ RoundsKnown(Tail(inbox), current_round')
      /\ Waits(Tail(inbox), engine'.phase)
  BY <1>1, <1>2, ChannelTail, Zenon
<1>4. ChannelInv'
  BY <1>2, <1>3 DEF ChannelInv
<1>5. engine'.phase = "enter" /\ EngineInv'
  BY MaxRoundAssumption DEF EngineInv, Engine, Rounds
<1> QED BY <1>4, <1>5

(* The channel once a message is sent, and the engine with it.                  *)
LEMMA Sent ==
  ASSUME Inv, NEW m \in Messages, Send(m), UNCHANGED <<current_height, current_round, chain>>,
         m.type \in WithBlock => m.block \in Blocks,
         m.type \in Rounded => m.height = current_height /\ engine.phase # "wait",
         m.type = "GetValue" => RoundAt(inbox, current_round, Len(inbox) + 1, m.round),
         m.type = "Decided" => /\ chain[m.height] = [round |-> m.round, value_id |-> m.block]
                               /\ engine'.phase = "wait",
         m.type # "ConsensusReady",
         engine'.phase = engine.phase \/ engine.phase # "wait"
  PROVE  ChannelInv'
<1>1. /\ inbox \in Seq(Messages) /\ inbox' = Append(inbox, m)
      /\ Contents(inbox, current_height, chain)
      /\ RoundsKnown(inbox, current_round)
      /\ Waits(inbox, engine.phase)
  BY DEF Inv, ChannelInv, Send
<1>2. inbox' \in Seq(Messages)
  BY <1>1, AppendFacts
<1>3. /\ Contents(inbox', current_height, chain)
      /\ RoundsKnown(inbox', current_round)
      /\ Waits(inbox', engine'.phase)
  BY <1>1, ChannelAppend
<1> QED BY <1>2, <1>3 DEF ChannelInv

(* A message that starts no round leaves the round behind the queue as it       *)
(* was.                                                                         *)
LEMMA SentKeepsRound ==
  ASSUME Inv, NEW m \in Messages, Send(m), m.type # "StartedRound", NEW r,
         RoundAt(inbox, current_round, Len(inbox) + 1, r)
  PROVE  RoundAt(inbox', current_round, Len(inbox') + 1, r)
<1>1. inbox \in Seq(Messages) /\ inbox' = Append(inbox, m)
  BY DEF Inv, ChannelInv, Send
<1>2. Len(inbox) \in Nat /\ Len(inbox') = Len(inbox) + 1
  BY <1>1, AppendFacts
<1>3. RoundAt(inbox', current_round, Len(inbox) + 2, r)
  BY <1>1, RoundAtEnd
<1>4. Len(inbox') + 1 = Len(inbox) + 2
  BY <1>2
<1> QED BY <1>3, <1>4

(* The handlers.                                                                *)
LEMMA ConsensusReadyInv ==
  ASSUME Inv, ConsensusReady
  PROVE  Inv'
<1>1. ChannelInv' /\ EngineInv'
  BY Answered DEF ConsensusReady, app, network, Ready, Inv, AppInv
<1>2. AppInv' /\ NetworkInv'
  BY DEF ConsensusReady, app, network, Inv, AppInv, NetworkInv
<1> QED BY <1>1, <1>2 DEF Inv

(* The step that handles StartedRound keeps the invariant.                      *)
LEMMA StartedRoundInv ==
  ASSUME Inv, StartedRound
  PROVE  Inv'
<1>1. /\ inbox # <<>> /\ inbox' = Tail(inbox)
      /\ Head(inbox).type = "StartedRound"
      /\ current_height' = Head(inbox).height /\ current_round' = Head(inbox).round
      /\ UNCHANGED <<reader, db, spawned, engine, known, streamed, chain, crashes>>
  BY DEF StartedRound, network
<1>2. Head(inbox).height = current_height /\ Head(inbox).round \in Rounds
  BY <1>1, HeadFacts DEF Rounded
<1>3. ChannelInv' /\ EngineInv'
  BY <1>1, <1>2, Taken
<1>4. AppInv' /\ NetworkInv'
  BY <1>1, <1>2 DEF Inv, AppInv, NetworkInv
<1> QED BY <1>3, <1>4 DEF Inv

(* So does the one that proposes a value.                                       *)
LEMMA GetValueInv ==
  ASSUME Inv, GetValue
  PROVE  Inv'
<1> DEFINE m == Head(inbox)
           value == Prop(m.height, m.round, NextBlock)
<1>1. /\ inbox # <<>> /\ inbox' = Tail(inbox) /\ m.type = "GetValue"
      /\ reader' = IF reader < FileBlocks THEN reader + 1 ELSE reader
      /\ db' = Last(Writes(m))
      /\ known' = known \cup {value} /\ streamed' = streamed \cup {value}
      /\ UNCHANGED <<current_height, current_round, spawned, engine, chain, crashes>>
  BY DEF GetValue
<1>2. m \in Messages /\ m.height \in Heights /\ m.round \in Rounds
  BY <1>1, HeadFacts
<1>3. NextBlock \in Blocks /\ value \in Props
  <2>1. NextBlock \in Blocks
    BY NextBlockType DEF Inv, AppInv
  <2> QED BY <1>2, <2>1 DEF Prop, Props
<1>4. DbInv(db')
  <2>1. PICK w : w = Writes(m)
    OBVIOUS
  <2>2. DbInv(db) /\ m.type \notin WithBlock
    BY <1>1 DEF Inv, AppInv, WithBlock
  <2>3. /\ \A d \in Range(w) : DbInv(d)
        /\ w # <<>> => Last(w) \in Range(w)
        /\ w # <<>>
    BY <1>1, <1>2, <1>3, <2>1, <2>2, WritesInv, Zenon
  <2> QED BY <1>1, <2>1, <2>3
<1>5. ChannelInv' /\ EngineInv'
  BY <1>1, Taken
<1> HIDE DEF value
<1>6. AppInv'
  <2>1. reader' \in 0..FileBlocks
    BY <1>1, BoundsAssumption DEF Inv, AppInv
  <2> QED BY <1>1, <1>3, <1>4, <2>1 DEF Inv, AppInv
<1>7. NetworkInv'
  <2>1. IsFiniteSet(streamed')
    BY <1>1, FS_AddElement DEF Inv, NetworkInv
  <2> QED BY <1>1, <1>3, <2>1 DEF Inv, NetworkInv
<1> QED BY <1>5, <1>6, <1>7 DEF Inv

(* So does the one that stores a received proposal.                             *)
LEMMA ReceivedProposalInv ==
  ASSUME Inv, ReceivedProposal
  PROVE  Inv'
<1> DEFINE m == Head(inbox)
           value == Prop(m.height, m.round, m.block)
<1>1. /\ inbox # <<>> /\ inbox' = Tail(inbox) /\ m.type = "ReceivedProposal"
      /\ IF Outdated(m.height) THEN UNCHANGED <<db, known>>
         ELSE db' = Last(Writes(m)) /\ known' = known \cup {value}
      /\ UNCHANGED <<current_height, current_round, reader, spawned, engine,
                     streamed, chain, crashes>>
  BY DEF ReceivedProposal, network
<1>2. m \in Messages /\ m.height \in Heights /\ m.round \in Rounds /\ m.block \in Blocks
  BY <1>1, HeadFacts DEF WithBlock
<1>3. value \in Props
  BY <1>2 DEF Prop, Props
<1>4. DbInv(db')
  <2>1. PICK w : w = Writes(m)
    OBVIOUS
  <2>2. DbInv(db) /\ NextBlock \in Blocks
    BY NextBlockType DEF Inv, AppInv
  <2>3. CASE Outdated(m.height)
    BY <1>1, <2>2, <2>3
  <2>4. CASE ~Outdated(m.height)
    <3>1. /\ \A d \in Range(w) : DbInv(d)
          /\ w # <<>> => Last(w) \in Range(w)
          /\ w # <<>>
      BY <1>1, <1>2, <2>1, <2>2, <2>4, WritesInv, Zenon
    <3> QED BY <1>1, <2>1, <2>4, <3>1
  <2> QED BY <2>3, <2>4
<1>5. ChannelInv' /\ EngineInv'
  BY <1>1, Taken
<1> HIDE DEF value
<1>6. AppInv' /\ NetworkInv'
  BY <1>1, <1>3, <1>4 DEF Inv, AppInv, NetworkInv
<1> QED BY <1>5, <1>6 DEF Inv

(* So does the one that decodes a synced value.                                 *)
LEMMA ProcessSyncedValueInv ==
  ASSUME Inv, ProcessSyncedValue
  PROVE  Inv'
<1> DEFINE m == Head(inbox)
           value == Prop(m.height, m.round, m.block)
<1>1. /\ inbox # <<>> /\ inbox' = Tail(inbox) /\ m.type = "ProcessSyncedValue"
      /\ known' = known \cup {value}
      /\ UNCHANGED <<current_height, current_round, reader, db, spawned, engine,
                     streamed, chain, crashes>>
  BY DEF ProcessSyncedValue, app, network
<1>2. value \in Props
  BY <1>1, HeadFacts DEF WithBlock, Prop, Props
<1>3. ChannelInv' /\ EngineInv'
  BY <1>1, Taken
<1> HIDE DEF value
<1>4. AppInv' /\ NetworkInv'
  BY <1>1, <1>2 DEF Inv, AppInv, NetworkInv
<1> QED BY <1>3, <1>4 DEF Inv

(* So does commit: it finds the proposal that was decided.                      *)
LEMMA CommitInv ==
  ASSUME Inv, Commit
  PROVE  Inv'
<1> DEFINE m == Head(inbox)
<1>1. /\ inbox # <<>> /\ inbox' = Tail(inbox) /\ m.type = "Decided"
      /\ CanCommit(m.height, m.round)
      /\ current_height' = current_height + 1 /\ current_round' = 0
      /\ engine' = Engine("enter", current_height + 1, 0)
      /\ db' = Last(Writes(m))
      /\ known' \subseteq known
      /\ UNCHANGED <<reader, streamed, chain, crashes>>
  BY DEF Commit, network
<1>2. PICK w : w = Writes(m)
  OBVIOUS
<1>3. PICK data : data = GetBlockData(w[1], m.height, m.round)
  OBVIOUS
<1>4. spawned' = IF data \notin {Absent, Empty} /\ RunsRpc
                 THEN Append(spawned, [height |-> m.height, block |-> data]) ELSE spawned
  BY <1>2, <1>3 DEF Commit
<1>5. /\ m \in Messages /\ m.height \in Heights /\ m.round \in Rounds /\ m.block \in Blocks
      /\ m.height = current_height
  BY <1>1, HeadFacts DEF WithBlock, Rounded
<1>6. /\ current_height' \in 1..MaxHeight+1 /\ current_round' \in Rounds
  BY <1>1, <1>5, MaxHeightAssumption, MaxRoundAssumption DEF Heights, Rounds
<1>7. DbInv(w[1]) /\ DbInv(db')
  <2>1. DbInv(db) /\ NextBlock \in Blocks
    BY NextBlockType DEF Inv, AppInv
  <2>2. w = StoreDecision(m.height, m.round, m.block)
    BY <1>1, <1>2 DEF Writes
  <2>3. \A i \in 1..3 : DbInv(w[i])
    <3>1. PICK value : value = db.undecided_proposals[<<m.height, m.round>>]
      OBVIOUS
    <3>2. CanCommit(m.height, m.round) /\ DbInv(db)
      BY <1>1, <2>1
    <3> HIDE DEF m
    <3>3. /\ w \in Seq(Databases) /\ Len(w) = 3
          /\ \A i \in 1..3 : DbInv(w[i])
          /\ \A i \in 1..3, k \in Heights : w[i].decided_values[k] \in
               {Absent, IF k = m.height THEN value ELSE db.decided_values[k]}
      BY <1>5, <2>2, <3>1, <3>2, StoreDecisionInv
    <3> QED BY <3>3
  <2>4. /\ \A d \in Range(w) : DbInv(d)
        /\ w # <<>> => Last(w) \in Range(w)
        /\ w # <<>>
    BY <1>1, <1>2, <1>5, <2>1, WritesInv, Zenon
  <2> QED BY <1>1, <1>2, <2>3, <2>4
<1>8. spawned' \in Seq([height : Heights, block : Blocks])
  <2>1. data \in Rows
    <3>1. w[1] \in Databases /\ <<m.height, m.round>> \in UndecidedKeys
      BY <1>5, <1>7 DEF DbInv, UndecidedKeys
    <3> QED BY <1>3, <1>5, <3>1 DEF GetBlockData, Databases
  <2>2. data \notin {Absent, Empty} => [height |-> m.height, block |-> data]
                                       \in [height : Heights, block : Blocks]
    BY <1>5, <2>1 DEF Rows
  <2>3. spawned \in Seq([height : Heights, block : Blocks])
    BY DEF Inv, AppInv
  <2> DEFINE S == [height : Heights, block : Blocks]
             e == [height |-> m.height, block |-> data]
  <2> HIDE DEF S, e
  <2>4. spawned' = spawned \/ (e \in S /\ spawned' = Append(spawned, e))
    BY <1>4, <2>2 DEF S, e
  <2>5. spawned \in Seq(S)
    BY <2>3 DEF S
  <2>6. spawned' \in Seq(S)
    BY <2>4, <2>5
  <2> QED BY <2>6 DEF S
<1>9. ChannelInv' /\ EngineInv'
  BY <1>1, <1>6, Answered DEF Ready
<1>10. AppInv' /\ NetworkInv'
  BY <1>1, <1>6, <1>7, <1>8 DEF Inv, AppInv, NetworkInv
<1> QED BY <1>9, <1>10 DEF Inv

(* So does commit when the proposal is not stored, and the height starts        *)
(* again.                                                                       *)
LEMMA CommitNothingInv ==
  ASSUME Inv, CommitNothing
  PROVE  Inv'
<1>1. /\ inbox # <<>> /\ inbox' = Tail(inbox) /\ Head(inbox).type = "Decided"
      /\ engine' = Engine("enter", current_height, 0)
      /\ known' \subseteq known
      /\ UNCHANGED <<current_height, current_round, reader, db, spawned,
                     streamed, chain, crashes>>
  BY DEF CommitNothing, app, network
<1>2. ChannelInv' /\ EngineInv'
  BY <1>1, Answered DEF Ready, Inv, AppInv
<1>3. AppInv' /\ NetworkInv'
  BY <1>1 DEF Inv, AppInv, NetworkInv
<1> QED BY <1>2, <1>3 DEF Inv

(* The engine.                                                                  *)
LEMMA EnterRoundInv ==
  ASSUME Inv, EnterRound
  PROVE  Inv'
<1> DEFINE m == Msg("StartedRound", engine.height, engine.round, Absent)
<1>1. /\ engine.phase = "enter" /\ engine.height <= MaxHeight /\ Send(m)
      /\ engine' = [engine EXCEPT !.phase =
                      IF Mine(engine.height, engine.round) THEN "propose" ELSE "round"]
      /\ UNCHANGED <<current_height, current_round, reader, db, spawned, known,
                     streamed, chain, crashes>>
  BY DEF EnterRound, app, network
<1>2. /\ engine.height \in Heights /\ engine.round \in Rounds /\ engine.height = current_height
      /\ engine \in [phase : {"wait", "enter", "propose", "round"},
                     height : 1..MaxHeight+1, round : Rounds]
  BY <1>1, MaxHeightAssumption DEF Inv, EngineInv, Heights
<1>3. m \in Messages /\ m.type = "StartedRound" /\ m.height = engine.height /\ m.round = engine.round
  BY <1>2 DEF Msg, Messages, Rows
<1> HIDE DEF m
<1>4. ChannelInv'
  BY <1>1, <1>2, <1>3, Sent DEF WithBlock
<1>5. EngineInv'
  <2>1. inbox \in Seq(Messages) /\ inbox' = Append(inbox, m)
    BY <1>1 DEF Inv, ChannelInv, Send
  <2>2. RoundAt(inbox', current_round, Len(inbox) + 2, engine.round)
    BY <1>3, <2>1, RoundAtEnd
  <2>3. Len(inbox') + 1 = Len(inbox) + 2
    BY <1>3, <2>1, AppendFacts
  <2> QED BY <1>1, <1>2, <2>2, <2>3 DEF EngineInv
<1>6. AppInv' /\ NetworkInv'
  BY <1>1 DEF Inv, AppInv, NetworkInv
<1> QED BY <1>4, <1>5, <1>6 DEF Inv

(* So does the engine asking for a value.                                       *)
LEMMA AskValueInv ==
  ASSUME Inv, AskValue
  PROVE  Inv'
<1> DEFINE m == Msg("GetValue", engine.height, engine.round, Absent)
<1>1. /\ engine.phase = "propose" /\ Send(m) /\ engine' = [engine EXCEPT !.phase = "round"]
      /\ UNCHANGED <<current_height, current_round, reader, db, spawned, known,
                     streamed, chain, crashes>>
  BY DEF AskValue, app, network
<1>2. /\ engine.height \in Heights /\ engine.round \in Rounds /\ engine.height = current_height
      /\ engine \in [phase : {"wait", "enter", "propose", "round"},
                     height : 1..MaxHeight+1, round : Rounds]
      /\ RoundAt(inbox, current_round, Len(inbox) + 1, engine.round)
  BY <1>1 DEF Inv, EngineInv
<1>3. m \in Messages /\ m.type = "GetValue" /\ m.height = engine.height /\ m.round = engine.round
  BY <1>2 DEF Msg, Messages, Rows
<1> HIDE DEF m
<1>4. ChannelInv'
  BY <1>1, <1>2, <1>3, Sent DEF WithBlock
<1>5. EngineInv'
  BY <1>1, <1>2 DEF EngineInv
<1>6. AppInv' /\ NetworkInv'
  BY <1>1 DEF Inv, AppInv, NetworkInv
<1> QED BY <1>4, <1>5, <1>6 DEF Inv

(* So does a round that times out.                                              *)
LEMMA RoundTimeoutInv ==
  ASSUME Inv, RoundTimeout
  PROVE  Inv'
<1>1. /\ engine.phase = "round" /\ engine.round < MaxRound
      /\ engine' = Engine("enter", engine.height, engine.round + 1)
      /\ UNCHANGED <<inbox, current_height, current_round, reader, db, spawned, known,
                     streamed, chain, crashes>>
  BY DEF RoundTimeout, app, network
<1>2. EngineInv'
  BY <1>1, MaxRoundAssumption DEF Inv, EngineInv, Engine, Rounds
<1>3. ChannelInv'
  BY <1>1 DEF Inv, ChannelInv, Waits
<1>4. AppInv' /\ NetworkInv'
  BY <1>1 DEF Inv, AppInv, NetworkInv
<1> QED BY <1>2, <1>3, <1>4 DEF Inv

(* So does a value that arrives by sync.                                        *)
LEMMA ReceiveSyncedValueInv ==
  ASSUME Inv, ReceiveSyncedValue
  PROVE  Inv'
<1> DEFINE h == engine.height
           m == Msg("ProcessSyncedValue", h, chain[h].round, chain[h].value_id)
<1>1. /\ engine.phase = "round" /\ chain[h] # Absent /\ Send(m)
      /\ UNCHANGED <<engine, current_height, current_round, reader, db, spawned, known,
                     streamed, chain, crashes>>
  BY DEF ReceiveSyncedValue, app, network
<1>2. h \in Heights /\ chain[h].round \in Rounds /\ chain[h].value_id \in Blocks
  <2>1. h \in Heights
    BY <1>1 DEF Inv, EngineInv
  <2>2. chain[h] \in Decisions
    BY <1>1, <2>1 DEF Inv, NetworkInv
  <2> QED BY <2>1, <2>2 DEF Decisions
<1>3. m \in Messages /\ m.type = "ProcessSyncedValue" /\ m.block \in Blocks
  BY <1>2 DEF Msg, Messages, Rows
<1> HIDE DEF m
<1>4. ChannelInv'
  BY <1>1, <1>3, Sent DEF Rounded
<1>5. EngineInv' /\ AppInv' /\ NetworkInv'
  BY <1>1 DEF Inv, EngineInv, AppInv, NetworkInv
<1> QED BY <1>4, <1>5 DEF Inv

(* So does the engine reporting a decision.                                     *)
LEMMA DecideInv ==
  ASSUME Inv, Decide
  PROVE  Inv'
<1> DEFINE h == engine.height
           m == Msg("Decided", h, chain[h].round, chain[h].value_id)
<1>1. /\ engine.phase = "round" /\ chain[h] # Absent /\ Send(m)
      /\ engine' = [engine EXCEPT !.phase = "wait"]
      /\ UNCHANGED <<current_height, current_round, reader, db, spawned, known,
                     streamed, chain, crashes>>
  BY DEF Decide, app, network
<1>2. /\ h \in Heights /\ h = current_height
      /\ chain[h].round \in Rounds /\ chain[h].value_id \in Blocks
      /\ chain[h] = [round |-> chain[h].round, value_id |-> chain[h].value_id]
  <2>1. h \in Heights /\ h = current_height
    BY <1>1 DEF Inv, EngineInv
  <2>2. chain[h] \in Decisions
    BY <1>1, <2>1 DEF Inv, NetworkInv
  <2> QED BY <2>1, <2>2 DEF Decisions
<1>3. /\ m \in Messages /\ m.type = "Decided" /\ m.block \in Blocks /\ m.height = h
      /\ m.round = chain[h].round /\ m.block = chain[h].value_id
  BY <1>2 DEF Msg, Messages, Rows
<1> HIDE DEF m
<1>4. engine'.phase = "wait" /\ EngineInv'
  BY <1>1 DEF Inv, EngineInv
<1>5. ChannelInv'
  BY <1>1, <1>2, <1>3, <1>4, Sent DEF Rounded
<1>6. AppInv' /\ NetworkInv'
  BY <1>1 DEF Inv, AppInv, NetworkInv
<1> QED BY <1>4, <1>5, <1>6 DEF Inv

(* So does a proposal whose last part arrives.                                  *)
LEMMA ProposalArrivesInv ==
  ASSUME Inv, NEW v \in streamed, ProposalArrives(v)
  PROVE  Inv'
<1> DEFINE m == Msg("ReceivedProposal", v.height, v.round, v.block)
<1>1. /\ Send(m)
      /\ UNCHANGED <<engine, current_height, current_round, reader, db, spawned, known,
                     streamed, chain, crashes>>
  BY DEF ProposalArrives, app, network
<1>2. v.height \in Heights /\ v.round \in Rounds /\ v.block \in Blocks
  BY DEF Inv, NetworkInv, Props
<1>3. m \in Messages /\ m.type = "ReceivedProposal" /\ m.block \in Blocks
  BY <1>2 DEF Msg, Messages, Rows
<1> HIDE DEF m
<1>4. ChannelInv'
  BY <1>1, <1>3, Sent DEF Rounded
<1>5. EngineInv'
  <2>1. engine.phase = "propose" =>
          RoundAt(inbox', current_round, Len(inbox') + 1, engine.round)
    BY <1>1, <1>3, SentKeepsRound DEF Inv, EngineInv
  <2> QED BY <1>1, <2>1 DEF Inv, EngineInv
<1>6. AppInv' /\ NetworkInv'
  BY <1>1 DEF Inv, AppInv, NetworkInv
<1> QED BY <1>4, <1>5, <1>6 DEF Inv

(* The network.                                                                 *)
LEMMA RemoteStreamInv ==
  ASSUME Inv, NEW h \in Heights, NEW r \in Rounds,
         RemotePropose(h, r) \/ RemoteProposeAgain(h, r)
  PROVE  Inv'
<1> DEFINE value == Prop(h, r, RemoteBlock(h, r))
<1>1. /\ streamed' = streamed \cup {value}
      /\ UNCHANGED <<inbox, current_height, current_round, reader, db, spawned, engine, known,
                     chain, crashes>>
  BY DEF RemotePropose, RemoteProposeAgain, app
<1>2. value \in Props
  <2>1. IsFiniteSet(Streams(h, r))
    <3>1. Streams(h, r) \in SUBSET streamed /\ IsFiniteSet(streamed)
      BY DEF Streams, Inv, NetworkInv
    <3> QED BY <3>1, FS_Subset
  <2>2. Cardinality(Streams(h, r)) \in Nat /\ Cardinality(Streams(h, r)) <= MaxStreams
    <3>1. Cardinality(Streams(h, r)) \in Nat /\ MaxStreams \in Nat
      BY <2>1, FS_CardinalityType, BoundsAssumption
    <3>2. Streams(h, r) = {} \/ Cardinality(Streams(h, r)) < MaxStreams
      BY DEF RemotePropose, RemoteProposeAgain
    <3> QED BY <3>1, <3>2, FS_EmptySet
  <2>3. r * MaxStreams + Cardinality(Streams(h, r)) \in 0..MaxStreams*(MaxRound+1)
    BY <2>2, StreamNumber
  <2>4. RemoteBlock(h, r) \in Blocks
    BY <2>3 DEF RemoteBlock, Remote, Blocks
  <2> QED BY <2>4 DEF Prop, Props
<1> HIDE DEF value
<1>3. NetworkInv'
  <2>1. IsFiniteSet(streamed')
    BY <1>1, FS_AddElement DEF Inv, NetworkInv
  <2> QED BY <1>1, <1>2, <2>1 DEF Inv, NetworkInv
<1>4. ChannelInv' /\ EngineInv' /\ AppInv'
  BY <1>1 DEF Inv, ChannelInv, EngineInv, AppInv
<1> QED BY <1>3, <1>4 DEF Inv

(* So does a decision of the network: the first of a height is the only one.    *)
LEMMA NetworkDecidesInv ==
  ASSUME Inv, NEW v \in streamed, NetworkDecides(v)
  PROVE  Inv'
<1>1. /\ chain[v.height] = Absent
      /\ chain' = [chain EXCEPT ![v.height] = [round |-> v.round, value_id |-> v.block]]
      /\ UNCHANGED <<inbox, current_height, current_round, reader, db, spawned, engine, known,
                     streamed, crashes>>
  BY DEF NetworkDecides, NetworkAt, app
<1>2. v.height \in Heights /\ v.round \in Rounds /\ v.block \in Blocks
  BY DEF Inv, NetworkInv, Props
<1>3. [round |-> v.round, value_id |-> v.block] \in Decisions
  BY <1>2 DEF Decisions
<1>4. NetworkInv'
  BY <1>1, <1>3 DEF Inv, NetworkInv
<1>5. Contents(inbox, current_height, chain')
  <2>1. ASSUME NEW i \in 1..Len(inbox), inbox[i].type = "Decided"
        PROVE  chain'[inbox[i].height] = [round |-> inbox[i].round, value_id |-> inbox[i].block]
    <3>1. /\ inbox[i] \in Messages /\ inbox[i].type \in WithBlock
          /\ inbox[i].block \in Blocks
          /\ chain[inbox[i].height] = [round |-> inbox[i].round, value_id |-> inbox[i].block]
      BY <2>1, ElementOfSeq DEF Inv, ChannelInv, Contents, WithBlock
    <3>2. inbox[i].height \in Heights /\ inbox[i].round \in Rounds
      BY <3>1 DEF Messages
    <3>3. chain[inbox[i].height] # Absent
      BY <3>1, <3>2, AbsentAssumption DEF Decisions
    <3> QED BY <1>1, <3>1, <3>2, <3>3 DEF Inv, NetworkInv
  <2> QED BY <2>1 DEF Inv, ChannelInv, Contents
<1>6. ChannelInv' /\ EngineInv' /\ AppInv'
  BY <1>1, <1>5 DEF Inv, ChannelInv, EngineInv, AppInv
<1> QED BY <1>4, <1>6 DEF Inv

(* A crash leaves the database after any transaction of the handler it cuts.    *)
LEMMA CrashInv ==
  ASSUME Inv, NEW h \in RestartHeights, Crash(h)
  PROVE  Inv'
<1>1. /\ crashes < MaxCrashes /\ crashes' = crashes + 1
      /\ db' \in {db} \cup (IF inbox = <<>> THEN {} ELSE Range(Writes(Head(inbox))))
      /\ inbox' = <<Msg("ConsensusReady", 1, 0, Absent)>>
      /\ current_height' = h /\ current_round' = 0 /\ reader' = 0 /\ spawned' = <<>>
      /\ engine' = Engine("wait", h, 0)
      /\ known' = {}
      /\ UNCHANGED <<streamed, chain>>
  BY DEF Crash
<1>2. DbInv(db) /\ NextBlock \in Blocks
  BY NextBlockType DEF Inv, AppInv
<1>3. DbInv(db')
  <2>1. CASE db' = db
    BY <1>2, <2>1
  <2>2. CASE inbox # <<>> /\ db' \in Range(Writes(Head(inbox)))
    <3>1. PICK m : m = Head(inbox)
      OBVIOUS
    <3>2. PICK w : w = Writes(m)
      OBVIOUS
    <3>3. m \in Messages /\ (m.type \in WithBlock => m.block \in Blocks)
      BY <2>2, <3>1, HeadFacts
    <3>4. \A d \in Range(w) : DbInv(d)
      BY <1>2, <3>2, <3>3, WritesInv, Zenon
    <3> QED BY <2>2, <3>1, <3>2, <3>4
  <2> QED BY <1>1, <2>1, <2>2
<1>4. h \in 1..MaxHeight+1 /\ 0 \in Rounds /\ 1 \in Heights /\ MaxHeight \in Nat
  BY RestartHeightsType, MaxHeightAssumption, MaxRoundAssumption DEF Rounds, Heights
<1>5. ChannelInv'
  <2>1. /\ inbox' \in Seq(Messages) /\ Len(inbox') = 1
        /\ inbox'[1].type = "ConsensusReady"
    BY <1>1, <1>4 DEF Msg, Messages, Rows
  <2>2. \A i \in 1..Len(inbox') : i = 1
    BY <2>1
  <2>3. engine'.phase = "wait"
    BY <1>1 DEF Engine
  <2> QED BY <2>1, <2>2, <2>3
          DEF ChannelInv, Contents, RoundsKnown, Waits, WithBlock, Rounded, Ready
<1>6. EngineInv'
  BY <1>1, <1>4 DEF EngineInv, Engine
<1>7. AppInv'
  BY <1>1, <1>3, <1>4, BoundsAssumption DEF AppInv, Props
<1>8. NetworkInv'
  BY <1>1, BoundsAssumption DEF Inv, NetworkInv
<1> QED BY <1>5, <1>6, <1>7, <1>8 DEF Inv

(* A node that starts on a store with the invariant.                            *)
LEMMA StartedInv ==
  ASSUME NEW store, DbInv(store), Started(store), crashes \in {0, MaxCrashes}
  PROVE  Inv
<1>1. /\ inbox = <<Msg("ConsensusReady", 1, 0, Absent)>>
      /\ current_height = 1 /\ current_round = 0 /\ reader = 0 /\ db = store /\ spawned = <<>>
      /\ engine = Engine("wait", 1, 0) /\ known = {} /\ streamed = {}
      /\ chain = [h \in Heights |-> Absent]
  BY DEF Started
<1>2. 1 \in 1..MaxHeight+1 /\ 0 \in Rounds /\ 1 \in Heights
  BY MaxHeightAssumption, MaxRoundAssumption DEF Rounds, Heights
<1>3. ChannelInv
  <2>1. /\ inbox \in Seq(Messages) /\ Len(inbox) = 1
        /\ inbox[1].type = "ConsensusReady"
    BY <1>1, <1>2 DEF Msg, Messages, Rows
  <2>2. \A i \in 1..Len(inbox) : i = 1
    BY <2>1
  <2>3. engine.phase = "wait"
    BY <1>1 DEF Engine
  <2> QED BY <2>1, <2>2, <2>3
          DEF ChannelInv, Contents, RoundsKnown, Waits, WithBlock, Rounded, Ready
<1>4. EngineInv
  BY <1>1, <1>2 DEF EngineInv, Engine
<1>5. AppInv
  BY <1>1, <1>2, BoundsAssumption DEF AppInv, Props
<1>6. NetworkInv
  BY <1>1, BoundsAssumption, FS_EmptySet DEF NetworkInv, Props
<1> QED BY <1>3, <1>4, <1>5, <1>6 DEF Inv

(* The blocks of an earlier run are blocks.                                     *)
LEMMA EarlierBlockType ==
  ASSUME NEW h \in Heights, NEW r \in Rounds
  PROVE  EarlierBlock(h, r) \in Blocks
<1>1. /\ FileBlocks \in Nat /\ MaxStreams \in Nat /\ MaxRound \in Nat /\ MaxHeight \in Nat
  BY BoundsAssumption, MaxRoundAssumption, MaxHeightAssumption
<1>2. MaxStreams * (MaxRound + 1) \in 0..MaxStreams * (MaxRound + 1)
  <2>1. MaxStreams * (MaxRound + 1) \in Nat
    BY <1>1
  <2> QED BY <2>1
<1>3. CASE ~Mine(h, r)
  BY <1>2, <1>3 DEF EarlierBlock, Remote, Blocks
<1>4. CASE Mine(h, r) /\ FileBlocks > 0
  <2>1. 0 \in 0..FileBlocks-1 /\ h \in 1..MaxHeight+1
    BY <1>1, <1>4 DEF Heights
  <2> QED BY <1>4, <2>1 DEF EarlierBlock, Own, Blocks
<1>5. CASE Mine(h, r) /\ ~(FileBlocks > 0)
  BY <1>5 DEF EarlierBlock, Blocks
<1> QED BY <1>3, <1>4, <1>5

(* Store c holds no proposal for another height than h that d did not hold.     *)
KeepsOthersEmpty(c, d, h) ==
  \A g \in Heights, q \in Rounds :
    g # h /\ d.undecided_proposals[<<g, q>>] = Absent => c.undecided_proposals[<<g, q>>] = Absent

(* What an earlier network did at a height kept the store's invariant.          *)
LEMMA EarlierHeightInv ==
  ASSUME NEW d, DbInv(d), NEW h \in Heights, NEW r \in Rounds,
         d.undecided_proposals[<<h, r>>] = Absent,
         NEW block, block = EarlierBlock(h, r),
         NEW t, t = InsertUndecidedProposal(d, h, r, block),
         NEW w, w = InsertUndecidedBlockData(t, h, r, block),
         NEW c, c = Prune(InsertDecidedBlockData(
                            InsertDecidedValue(w, Certificate(h, r, block), block), h, block),
                          RetainHeight(h))
  PROVE  /\ DbInv(t) /\ DbInv(w) /\ DbInv(c)
         /\ KeepsOthersEmpty(c, d, h)
<1>1. block \in Blocks /\ block # Absent
  BY EarlierBlockType, AbsentAssumption
<1>2. /\ DbInv(t) /\ ProposedTo(t, d, h, r, block)
      /\ t.undecided_proposals[<<h, r>>] =
           IF d.undecided_proposals[<<h, r>>] = Absent THEN block
           ELSE d.undecided_proposals[<<h, r>>]
      /\ t.undecided_proposals[<<h, r>>] # Absent
  BY <1>1, UndecidedProposalInv, ZenonT(60)
<1>3. DbInv(w) /\ DataAddedTo(w, t, h, r, block)
  BY <1>1, <1>2, UndecidedBlockDataInv, Zenon
<1>4. w.undecided_proposals[<<h, r>>] = block
  BY <1>2, <1>3 DEF DataAddedTo
<1>5. PICK v : v = InsertDecidedValue(w, Certificate(h, r, block), block)
  OBVIOUS
<1>6. DbInv(v) /\ DecidedTo(v, w, h, block, Certificate(h, r, block))
  BY <1>1, <1>3, <1>4, <1>5, DecidedValueInv, Zenon
<1>7. v.decided_values[h] # Absent
  BY <1>1, <1>3, <1>6 DEF DecidedTo, DbInv, Databases
<1>8. PICK b : b = InsertDecidedBlockData(v, h, block)
  OBVIOUS
<1>9. DbInv(b) /\ DecidedDataTo(b, v, h, block)
  BY <1>1, <1>6, <1>7, <1>8, DecidedBlockDataInv, Zenon
<1>10. c = Prune(b, RetainHeight(h)) /\ RetainHeight(h) \in Nat
  BY <1>5, <1>8, RetainHeightType
<1>11. DbInv(c) /\ PrunedTo(c, b, RetainHeight(h))
  BY <1>9, <1>10, PruneInv, Zenon
<1>12. ASSUME NEW g \in Heights, NEW q \in Rounds,
              g # h, d.undecided_proposals[<<g, q>>] = Absent
       PROVE  c.undecided_proposals[<<g, q>>] = Absent
  <2>1. <<g, q>> \in UndecidedKeys /\ <<g, q>> # <<h, r>> /\ d \in Databases
    BY <1>12 DEF UndecidedKeys, DbInv
  <2>2. t.undecided_proposals[<<g, q>>] = Absent
    BY <1>2, <1>12, <2>1 DEF ProposedTo, Databases
  <2>3. b.undecided_proposals[<<g, q>>] = Absent
    BY <1>3, <1>6, <1>9, <2>2 DEF DataAddedTo, DecidedTo, DecidedDataTo
  <2> QED BY <1>11, <2>3 DEF PrunedTo
<1> QED BY <1>2, <1>3, <1>11, <1>12 DEF KeepsOthersEmpty

(* Whatever an earlier run left in the store is in order, cut short anywhere.   *)
LEMMA EarlierStoresInv ==
  ASSUME NEW r \in Rounds, NEW store \in EarlierStores(r)
  PROVE  DbInv(store)
<1> DEFINE Torn(d, h, k) == InsertUndecidedProposal(d, h, k, EarlierBlock(h, k))
           Whole(d, h, k) == InsertUndecidedBlockData(Torn(d, h, k), h, k, EarlierBlock(h, k))
           Committed(d, h, k) ==
             Prune(InsertDecidedBlockData(
                     InsertDecidedValue(d, Certificate(h, k, EarlierBlock(h, k)),
                                        EarlierBlock(h, k)), h, EarlierBlock(h, k)),
                   RetainHeight(h))
<1>1. PICK d1 : d1 = Whole(EmptyDb, 1, r)
  OBVIOUS
<1>2. PICK d2 : d2 = Committed(d1, 1, r)
  OBVIOUS
<1>3. PICK d3 : d3 = Whole(d2, 2, 0)
  OBVIOUS
<1>4. \/ store \in {Torn(EmptyDb, 1, r), d1, d2}
      \/ 2 \in Heights /\ store \in {d3, Committed(d3, 2, 0)}
  BY <1>1, <1>2, <1>3 DEF EarlierStores
<1>5. 1 \in Heights /\ 0 \in Rounds
  BY MaxHeightAssumption, MaxRoundAssumption DEF Heights, Rounds
<1>6. \A h \in Heights, q \in Rounds : EmptyDb.undecided_proposals[<<h, q>>] = Absent
  BY DEF EmptyDb, UndecidedKeys
<1>7. /\ DbInv(Torn(EmptyDb, 1, r)) /\ DbInv(d1) /\ DbInv(d2)
      /\ KeepsOthersEmpty(d2, EmptyDb, 1)
  <2>1. PICK block : block = EarlierBlock(1, r)
    OBVIOUS
  <2>2. PICK t : t = Torn(EmptyDb, 1, r)
    OBVIOUS
  <2>3. PICK h \in Heights : h = 1
    BY <1>5
  <2>4. /\ block = EarlierBlock(h, r)
        /\ t = InsertUndecidedProposal(EmptyDb, h, r, block)
        /\ d1 = InsertUndecidedBlockData(t, h, r, block)
        /\ d2 = Prune(InsertDecidedBlockData(
                        InsertDecidedValue(d1, Certificate(h, r, block), block), h, block),
                      RetainHeight(h))
    BY <1>1, <1>2, <2>1, <2>2, <2>3
  <2>5. DbInv(EmptyDb) /\ EmptyDb.undecided_proposals[<<h, r>>] = Absent
    BY <1>6, EmptyDbInv
  <2> HIDE DEF Torn, Whole, Committed
  <2>6. DbInv(t) /\ DbInv(d1) /\ DbInv(d2)
    BY <2>4, <2>5, EarlierHeightInv, Zenon
  <2>7. KeepsOthersEmpty(d2, EmptyDb, h)
    BY <2>4, <2>5, EarlierHeightInv, Zenon
  <2> QED BY <2>2, <2>3, <2>6, <2>7
<1>8. ASSUME 2 \in Heights
      PROVE  DbInv(d3) /\ DbInv(Committed(d3, 2, 0))
  <2>1. PICK block : block = EarlierBlock(2, 0)
    OBVIOUS
  <2>2. PICK t : t = Torn(d2, 2, 0)
    OBVIOUS
  <2>3. PICK c : c = Committed(d3, 2, 0)
    OBVIOUS
  <2>4. PICK h \in Heights, q \in Rounds : h = 2 /\ q = 0
    BY <1>5, <1>8
  <2>5. /\ block = EarlierBlock(h, q)
        /\ t = InsertUndecidedProposal(d2, h, q, block)
        /\ d3 = InsertUndecidedBlockData(t, h, q, block)
        /\ c = Prune(InsertDecidedBlockData(
                       InsertDecidedValue(d3, Certificate(h, q, block), block), h, block),
                     RetainHeight(h))
    BY <1>3, <2>1, <2>2, <2>3, <2>4
  <2>6. d2.undecided_proposals[<<h, q>>] = Absent
    BY <1>6, <1>7, <2>4 DEF KeepsOthersEmpty
  <2> HIDE DEF Torn, Whole, Committed
  <2>7. DbInv(d2)
    BY <1>7
  <2>8. DbInv(d3) /\ DbInv(c)
    BY <2>5, <2>6, <2>7, EarlierHeightInv, Zenon
  <2> QED BY <2>3, <2>8
<1> HIDE DEF Torn, Whole, Committed
<1> QED BY <1>4, <1>7, <1>8

(* A node may start on an empty store or on one an earlier run left.            *)
LEMMA InitInv ==
  ASSUME Init \/ ReusedInit
  PROVE  Inv
<1>1. CASE Init
  <2>1. Started(EmptyDb) /\ crashes \in {0, MaxCrashes}
    BY <1>1 DEF Init
  <2> QED BY <2>1, EmptyDbInv, StartedInv
<1>2. CASE ReusedInit
  <2>1. PICK r \in Rounds : \E store \in EarlierStores(r) : Started(store) /\ crashes = MaxCrashes
    BY <1>2 DEF ReusedInit
  <2>2. PICK store \in EarlierStores(r) : Started(store) /\ crashes = MaxCrashes
    BY <2>1
  <2>3. DbInv(store)
    BY <2>2, EarlierStoresInv
  <2> QED BY <2>2, <2>3, StartedInv
<1> QED BY <1>1, <1>2

(* Every step keeps the invariant, crashes and restarts included.               *)
LEMMA NextInv ==
  ASSUME Inv, [FaultyNext]_vars
  PROVE  Inv'
<1>1. CASE ConsensusReady
  BY <1>1, ConsensusReadyInv
<1>2. CASE StartedRound
  BY <1>2, StartedRoundInv
<1>3. CASE GetValue
  BY <1>3, GetValueInv
<1>4. CASE ReceivedProposal
  BY <1>4, ReceivedProposalInv
<1>5. CASE ProcessSyncedValue
  BY <1>5, ProcessSyncedValueInv
<1>6. CASE Commit
  BY <1>6, CommitInv
<1>7. CASE CommitNothing
  BY <1>7, CommitNothingInv
<1>8. CASE EnterRound
  BY <1>8, EnterRoundInv
<1>9. CASE AskValue
  BY <1>9, AskValueInv
<1>10. CASE RoundTimeout
  BY <1>10, RoundTimeoutInv
<1>11. CASE ReceiveSyncedValue
  BY <1>11, ReceiveSyncedValueInv
<1>12. CASE Decide
  BY <1>12, DecideInv
<1>13. CASE \E v \in streamed : ProposalArrives(v)
  BY <1>13, ProposalArrivesInv
<1>14. CASE \E h \in Heights, r \in Rounds : RemotePropose(h, r) \/ RemoteProposeAgain(h, r)
  BY <1>14, RemoteStreamInv
<1>15. CASE \E v \in streamed : NetworkDecides(v)
  BY <1>15, NetworkDecidesInv
<1>16. CASE \E h \in RestartHeights : Crash(h)
  BY <1>16, CrashInv
<1>17. CASE UNCHANGED vars
  BY <1>17 DEF vars, Inv, ChannelInv, EngineInv, AppInv, NetworkInv
<1> QED BY <1>1, <1>2, <1>3, <1>4, <1>5, <1>6, <1>7, <1>8, <1>9, <1>10, <1>11, <1>12, <1>13,
           <1>14, <1>15, <1>16, <1>17
        DEF FaultyNext, SteadyNext, Handle, EngineStep, NetworkStep

(* The invariant holds however the node and its peers crash, restart and reuse  *)
(* their stores.                                                                *)
LEMMA Invariance == ReusedSpec => []Inv
<1>1. Init \/ ReusedInit => Inv
  BY InitInv
<1>2. Inv /\ [FaultyNext]_vars => Inv'
  BY NextInv
<1> QED BY <1>1, <1>2, PTL DEF ReusedSpec

(* A specification without faults, or without reused stores, allows nothing     *)
(* more.                                                                        *)
LEMMA FewerFaults == (Spec => FaultySpec) /\ (FaultySpec => ReusedSpec)
<1>1. [SteadyNext]_vars => [FaultyNext]_vars
  BY DEF FaultyNext
<1>2. Init => Init \/ ReusedInit
  OBVIOUS
<1> QED BY <1>1, <1>2, PTL DEF Spec, FaultySpec, ReusedSpec

-------------------------------------------------------------------------------
(* Every variable has its type.                                                 *)
THEOREM TypeCorrect == ReusedSpec => []TypeOK
<1>1. Inv => TypeOK
  <2>1. DbInv(db) => db \in Databases
    BY DEF DbInv
  <2> QED BY <2>1 DEF Inv, ChannelInv, EngineInv, AppInv, NetworkInv, TypeOK
<1> QED BY <1>1, Invariance, PTL

(* The assertions of propose_value never fail and a decision is always taken at *)
(* the height the application is in, although the engine runs ahead of it and   *)
(* either may be cut by a crash (InStep).                                       *)
THEOREM StaysInStep == ReusedSpec => []InStep
<1>1. Inv => InStep
  BY HeadFacts DEF InStep, Rounded
<1> QED BY <1>1, Invariance, PTL

(* Wherever crashes cut the handlers, a decided value and its certificate are   *)
(* both in the store or both missing (ValueWithCertificate).                    *)
THEOREM ValuesKeepCertificates == ReusedSpec => []ValueWithCertificate
<1>1. Inv => ValueWithCertificate
  BY DEF Inv, AppInv, DbInv, ValueInv, ValueWithCertificate
<1> QED BY <1>1, Invariance, PTL

(* Wherever crashes cut the handlers, the store has no block data without the   *)
(* proposal or the decided value it belongs to (NoOrphanData).                  *)
THEOREM DataHasOwner == ReusedSpec => []NoOrphanData
<1>1. Inv => NoOrphanData
  BY DEF Inv, AppInv, DbInv, DataInv, NoOrphanData
<1> QED BY <1>1, Invariance, PTL

(* Only what its handler writes for the first message ever gets into the        *)
(* database.                                                                    *)
LEMMA DatabaseStep ==
  ASSUME Inv, [FaultyNext]_vars
  PROVE  db' = db \/ (inbox # <<>> /\ db' \in Range(Writes(Head(inbox))))
<1>1. CASE \E h \in RestartHeights : Crash(h)
  BY <1>1 DEF Crash
<1>2. CASE GetValue \/ ReceivedProposal \/ Commit
  <2>1. PICK m : m = Head(inbox)
    OBVIOUS
  <2>2. PICK w : w = Writes(m)
    OBVIOUS
  <2>3. /\ inbox # <<>>
        /\ \/ m.type = "GetValue" /\ db' = Last(w)
           \/ m.type = "ReceivedProposal" /\ Outdated(m.height) /\ db' = db
           \/ m.type = "ReceivedProposal" /\ ~Outdated(m.height) /\ db' = Last(w)
           \/ m.type = "Decided" /\ CanCommit(m.height, m.round) /\ db' = Last(w)
    BY <1>2, <2>1, <2>2 DEF GetValue, ReceivedProposal, Commit
  <2>4. m \in Messages /\ (m.type \in WithBlock => m.block \in Blocks)
    BY <2>1, <2>3, HeadFacts
  <2>5. DbInv(db) /\ NextBlock \in Blocks
    BY NextBlockType DEF Inv, AppInv
  <2>6. /\ w # <<>> => Last(w) \in Range(w)
        /\ w # <<>> <=> \/ m.type = "GetValue"
                        \/ m.type = "ReceivedProposal" /\ ~Outdated(m.height)
                        \/ m.type = "Decided" /\ CanCommit(m.height, m.round)
    BY <2>2, <2>4, <2>5, WritesInv, Zenon
  <2> QED BY <2>1, <2>2, <2>3, <2>6
<1>3. CASE \/ ConsensusReady \/ StartedRound \/ ProcessSyncedValue \/ CommitNothing
           \/ EngineStep \/ NetworkStep
           \/ \E h \in Heights, r \in Rounds : RemoteProposeAgain(h, r)
           \/ UNCHANGED vars
  BY <1>3 DEF ConsensusReady, StartedRound, ProcessSyncedValue, CommitNothing, EngineStep,
              EnterRound, AskValue, RoundTimeout, ReceiveSyncedValue, Decide, ProposalArrives,
              NetworkStep, RemotePropose, NetworkDecides, RemoteProposeAgain, app, vars
<1> QED BY <1>1, <1>2, <1>3 DEF FaultyNext, SteadyNext, Handle

(* A value stored under the certificate of this network is the proposal of the  *)
(* round it was decided in, so another commit of its height stores it again.    *)
LEMMA StableStep ==
  ASSUME Inv, [FaultyNext]_vars, NEW h \in Heights, chain[h] # Absent,
         db.certificates[h] = Certificate(h, chain[h].round, chain[h].value_id)
  PROVE  db'.decided_values[h] \in {db.decided_values[h], Absent}
<1>1. CASE inbox # <<>> /\ db' \in Range(Writes(Head(inbox)))
  <2>1. PICK m : m = Head(inbox)
    OBVIOUS
  <2>2. PICK w : w = Writes(m)
    OBVIOUS
  <2>3. /\ m \in Messages /\ (m.type \in WithBlock => m.block \in Blocks)
        /\ m.type = "Decided" =>
             chain[m.height] = [round |-> m.round, value_id |-> m.block]
    BY <1>1, <2>1, HeadFacts
  <2>4. DbInv(db) /\ NextBlock \in Blocks
    BY NextBlockType DEF Inv, AppInv
  <2>5. \A d \in Range(w) :
          /\ DbInv(d)
          /\ \A k \in Heights : d.decided_values[k] \in
               {Absent, IF Committing(m, k) THEN db.undecided_proposals[<<k, m.round>>]
                                            ELSE db.decided_values[k]}
    BY <2>2, <2>3, <2>4, WritesInv, Zenon
  <2>6. db'.decided_values[h] \in
          {Absent, IF Committing(m, h) THEN db.undecided_proposals[<<h, m.round>>]
                                       ELSE db.decided_values[h]}
    BY <1>1, <2>1, <2>2, <2>5
  <2>7. ASSUME Committing(m, h)
        PROVE  db.undecided_proposals[<<h, m.round>>] = db.decided_values[h]
    <3>1. chain[h].round = m.round
      BY <2>3, <2>7 DEF Committing
    <3>2. chain[h] \in Decisions
      BY DEF Inv, NetworkInv
    <3>3. db.certificates[h] # Absent /\ db.certificates[h].round = m.round
      <4>1. Certificate(h, chain[h].round, chain[h].value_id) \in Certificates
        BY <3>2 DEF Certificate, Certificates, Decisions
      <4> QED BY <3>1, <4>1, AbsentAssumption DEF Certificate
    <3> QED BY <2>4, <3>3 DEF DbInv, CertificateInv
  <2> QED BY <2>6, <2>7
<1> QED BY <1>1, DatabaseStep

(* A decided value stored under this network's certificate is never replaced,   *)
(* whatever a restarted node decides or is streamed again, and whatever its     *)
(* store held before: it stays until it is pruned (DecidedValuesStable).        *)
THEOREM DecisionsAreKept == ReusedSpec => DecidedValuesStable
<1>1. Inv /\ [FaultyNext]_vars =>
        [\A h \in Heights :
           chain[h] # Absent
           /\ db.certificates[h] = Certificate(h, chain[h].round, chain[h].value_id)
             => db'.decided_values[h] \in {db.decided_values[h], Absent}]_vars
  BY StableStep
<1> QED BY <1>1, Invariance, PTL DEF ReusedSpec, DecidedValuesStable

===============================================================================
