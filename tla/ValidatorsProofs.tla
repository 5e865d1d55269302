---------------------------- MODULE ValidatorsProofs ---------------------------
(* What the choice of proposers guarantees, proved for every set of validators. *)
(*                                                                              *)
(* The rounds of a height go round the validators, so that fewer rounds than    *)
(* validators have different proposers; those that decided nothing had a        *)
(* proposer that has crashed or were cut short.                                 *)
EXTENDS Validators, TLAPS, FiniteSetTheorems, SequenceTheorems

N == Cardinality(Addresses)

(* The rounds of this height whose proposers are up.                            *)
Live == {q \in 0..round-1 : SelectProposer(validators, height, q) \notin crashed}

(* Every round that passed with a proposer that is up was cut short.            *)
ValidatorsInv ==
  /\ validators \in Injection(1..N, Addresses)
  /\ crashed \in SUBSET Addresses
  /\ height \in Nat \ {0} /\ round \in Nat /\ early \in Nat
  /\ Cardinality(Live) <= early

-------------------------------------------------------------------------------
(* There is a validator.                                                        *)
LEMMA SomeValidator == N \in Nat \ {0}
BY AddressesAssumption, FS_CardinalityType, FS_EmptySet DEF N

(* Numbers of one cycle have different remainders.                              *)
LEMMA OneCycle ==
  ASSUME NEW n \in Nat \ {0}, NEW a \in Nat, NEW p \in 0..n-1, NEW q \in 0..n-1,
         (a + p) % n = (a + q) % n
  PROVE  p = q
<1>1. PICK d : d = (a + p) \div n
  OBVIOUS
<1>2. PICK e : e = (a + q) \div n
  OBVIOUS
<1>3. /\ d \in Int /\ a + p = n * d + ((a + p) % n)
      /\ e \in Int /\ a + q = n * e + ((a + q) % n)
      /\ (a + p) % n \in Int
  BY <1>1, <1>2
<1>4. p - q = n * (d - e)
  BY <1>3
<1>5. PICK k \in Int : k = d - e
  BY <1>3
<1>6. ~(k >= 1) /\ ~(k <= -1)
  BY <1>4, <1>5
<1> QED BY <1>4, <1>5, <1>6

(* A list without repetitions is the validator set it is given for.             *)
LEMMA NothingDropped ==
  ASSUME NEW list \in Injection(1..N, Addresses)
  PROVE  ValidatorSet(list) = list
<1>1. /\ N \in Nat /\ DOMAIN list = 1..N /\ list = [k \in 1..N |-> list[k]]
      /\ \A i, j \in 1..N : list[i] = list[j] => i = j
  BY SomeValidator DEF Injection, IsInjective
<1>. DEFINE kept == {i \in DOMAIN list : i > 1 => list[i] # list[i - 1]}
            Kept(k) == CHOOSE i \in kept : Cardinality({j \in kept : j <= i}) = k
<1>2. ValidatorSet(list) = [k \in 1..Cardinality(kept) |-> list[Kept(k)]]
  BY DEF ValidatorSet
<1>3. kept = 1..N
  BY <1>1
<1>. HIDE DEF kept
<1>4. Cardinality(kept) = N
  BY <1>1, <1>3, FS_Interval
<1>5. \A i \in kept : Cardinality({j \in kept : j <= i}) = i
  <2>1. SUFFICES ASSUME NEW i \in kept PROVE Cardinality({j \in kept : j <= i}) = i
    OBVIOUS
  <2>2. {j \in kept : j <= i} = 1..i /\ i \in Nat
    BY <1>1, <1>3
  <2>3. Cardinality(1..i) = i
    BY <2>2, FS_Interval
  <2> QED BY <2>2, <2>3
<1>6. \A k \in 1..N : Kept(k) = k
  BY <1>3, <1>5
<1>. HIDE DEF Kept
<1> QED BY <1>1, <1>2, <1>4, <1>6

(* The set of validators has the proposers of one cycle of rounds in it, each   *)
(* once.                                                                        *)
LEMMA ProposersDiffer ==
  ASSUME NEW set \in Injection(1..N, Addresses), NEW h \in Nat \ {0}
  PROVE  /\ \A r \in Nat : SelectProposer(set, h, r) \in Addresses
         /\ \A p, q \in 0..N-1 : SelectProposer(set, h, p) = SelectProposer(set, h, q) => p = q
<1>1. /\ N \in Nat \ {0} /\ set \in [1..N -> Addresses]
      /\ \A i, j \in 1..N : set[i] = set[j] => i = j
  BY SomeValidator DEF Injection, IsInjective
<1>2. Len(set) = N
  BY <1>1
<1>3. PICK a : a = h - 1
  OBVIOUS
<1>4. a \in Nat
  BY <1>3
<1>5. ASSUME NEW r \in Nat
      PROVE  1 + ((a + r) % N) \in 1..N
  BY <1>1, <1>4
<1>6. \A r : SelectProposer(set, h, r) = set[1 + ((a + r) % N)]
  BY <1>2, <1>3 DEF SelectProposer
<1>7. \A r \in Nat : SelectProposer(set, h, r) \in Addresses
  BY <1>1, <1>5, <1>6
<1>8. ASSUME NEW p \in 0..N-1, NEW q \in 0..N-1,
             SelectProposer(set, h, p) = SelectProposer(set, h, q)
      PROVE  p = q
  <2>1. p \in Nat /\ q \in Nat
    BY <1>1
  <2>2. 1 + ((a + p) % N) = 1 + ((a + q) % N)
    BY <1>1, <1>5, <1>6, <1>8, <2>1
  <2>3. (a + p) % N \in Int /\ (a + q) % N \in Int
    BY <1>1, <1>4, <2>1
  <2>4. (a + p) % N = (a + q) % N
    BY <2>2, <2>3
  <2> QED BY <1>1, <1>4, <2>4, OneCycle
<1> QED BY <1>7, <1>8

-------------------------------------------------------------------------------
(* The first round of the first height.                                         *)
LEMMA ValidatorsInit == Init => ValidatorsInv
<1>. SUFFICES ASSUME Init PROVE ValidatorsInv
  OBVIOUS
<1>1. PICK list \in Injection(1..N, Addresses) : validators = ValidatorSet(list)
  BY DEF Init, GenesisLists, N
<1>2. validators \in Injection(1..N, Addresses)
  BY <1>1, NothingDropped
<1>3. Live = {}
  BY DEF Init, Live
<1> QED BY <1>2, <1>3, FS_EmptySet DEF Init, ValidatorsInv

(* The rounds so far can be counted.                                            *)
LEMMA LiveFinite ==
  ASSUME ValidatorsInv
  PROVE  IsFiniteSet(Live) /\ Cardinality(Live) \in Nat
<1>1. IsFiniteSet(0..round-1) /\ Live \in SUBSET (0..round-1)
  BY FS_Interval DEF ValidatorsInv, Live
<1> QED BY <1>1, FS_Subset, FS_CardinalityType

(* Every step of consensus accounts for the round it ends.                      *)
LEMMA ValidatorsStep ==
  ASSUME ValidatorsInv, [Next]_vars
  PROVE  ValidatorsInv'
<1>1. /\ height \in Nat \ {0} /\ round \in Nat /\ early \in Nat
      /\ IsFiniteSet(Live) /\ Cardinality(Live) \in Nat /\ Cardinality(Live) <= early
  BY LiveFinite DEF ValidatorsInv
<1>2. CASE Decide
  <2>1. round' = 0 /\ height' = height + 1 /\ UNCHANGED <<validators, crashed, early>>
    BY <1>2 DEF Decide
  <2>2. Live' = {}
    BY <2>1 DEF Live
  <2>3. Cardinality(Live') = 0
    BY <2>2, FS_EmptySet
  <2> QED BY <1>1, <2>1, <2>3 DEF ValidatorsInv
<1>3. CASE Timeout
  <2>1. round' = round + 1 /\ UNCHANGED <<validators, crashed, height, early>>
    BY <1>3 DEF Timeout
  <2>2. SelectProposer(validators, height, round) \in crashed
    BY <1>3 DEF Timeout, Proposer
  <2>3. 0..round'-1 = (0..round-1) \cup {round}
    BY <1>1, <2>1
  <2>4. Live' = Live
    BY <2>1, <2>2, <2>3 DEF Live
  <2> QED BY <1>1, <2>1, <2>4 DEF ValidatorsInv
<1>4. CASE TimeoutEarly
  <2>1. round' = round + 1 /\ early' = early + 1 /\ UNCHANGED <<validators, crashed, height>>
    BY <1>4 DEF TimeoutEarly
  <2>2. 0..round'-1 = (0..round-1) \cup {round} /\ round \notin Live
    BY <1>1, <2>1 DEF Live
  <2>3. Live' \in {Live, Live \cup {round}}
    BY <2>1, <2>2 DEF Live
  <2>4. Cardinality(Live') <= Cardinality(Live) + 1 /\ Cardinality(Live') \in Nat
    BY <1>1, <2>2, <2>3, FS_AddElement
  <2> QED BY <1>1, <2>1, <2>4 DEF ValidatorsInv
<1>5. ASSUME NEW a \in Addresses, Crash(a)
      PROVE  ValidatorsInv'
  <2>1. crashed' = crashed \cup {a} /\ UNCHANGED <<validators, height, round, early>>
    BY <1>5 DEF Crash
  <2>2. Live' \in SUBSET Live
    BY <2>1 DEF Live
  <2>3. Cardinality(Live') <= Cardinality(Live) /\ Cardinality(Live') \in Nat
    BY <1>1, <2>2, FS_Subset, FS_CardinalityType
  <2> QED BY <1>1, <2>1, <2>3 DEF ValidatorsInv
<1>6. CASE UNCHANGED vars
  BY <1>6 DEF vars, ValidatorsInv, Live
<1> QED BY <1>2, <1>3, <1>4, <1>5, <1>6 DEF Next

(* Fewer crashed validators and short rounds than validators leave no room for  *)
(* another round without a decision.                                            *)
LEMMA FewWasted == ValidatorsInv => RoundsWasted
<1>. SUFFICES ASSUME ValidatorsInv, early + Cardinality(crashed) < N
              PROVE  round <= Cardinality(crashed) + early
  BY DEF RoundsWasted, N
<1>1. /\ N \in Nat \ {0} /\ round \in Nat /\ early \in Nat
      /\ IsFiniteSet(crashed) /\ Cardinality(crashed) \in Nat
      /\ IsFiniteSet(Live) /\ Cardinality(Live) \in Nat /\ Cardinality(Live) <= early
  BY SomeValidator, LiveFinite, AddressesAssumption, FS_Subset, FS_CardinalityType DEF ValidatorsInv
<1>2. PICK m : m = IF round <= N THEN round ELSE N
  OBVIOUS
<1>3. m \in Nat /\ m <= N /\ m <= round /\ (m < N => m = round)
  BY <1>1, <1>2
<1>4. PICK first : first = 0..m-1
  OBVIOUS
<1>5. IsFiniteSet(first) /\ Cardinality(first) = m
  BY <1>3, <1>4, FS_Interval
<1>6. PICK ofCrashed : ofCrashed = {q \in first : SelectProposer(validators, height, q) \in crashed}
  OBVIOUS
<1>7. PICK ofLive : ofLive = first \ ofCrashed
  OBVIOUS
<1>8. /\ first = ofCrashed \cup ofLive /\ ofCrashed \cap ofLive = {}
      /\ ofCrashed \in SUBSET first /\ ofLive \in SUBSET first
  BY <1>6, <1>7
<1>9. /\ IsFiniteSet(ofCrashed) /\ Cardinality(ofCrashed) \in Nat
      /\ IsFiniteSet(ofLive) /\ Cardinality(ofLive) \in Nat
  BY <1>5, <1>8, FS_Subset, FS_CardinalityType
<1>10. m = Cardinality(ofCrashed) + Cardinality(ofLive)
  <2>1. Cardinality(ofCrashed \cup ofLive) =
          Cardinality(ofCrashed) + Cardinality(ofLive) - Cardinality(ofCrashed \cap ofLive)
    BY <1>9, FS_Union
  <2>2. Cardinality(ofCrashed \cap ofLive) = 0
    BY <1>8, FS_EmptySet
  <2> QED BY <1>5, <1>8, <1>9, <2>1, <2>2
<1>11. Cardinality(ofLive) <= early
  <2>1. ofLive \in SUBSET Live
    BY <1>1, <1>3, <1>4, <1>6, <1>7 DEF Live
  <2>2. Cardinality(ofLive) <= Cardinality(Live)
    BY <1>1, <2>1, FS_Subset
  <2> QED BY <1>1, <1>9, <2>2
<1>12. Cardinality(ofCrashed) <= Cardinality(crashed)
  <2>1. PICK f : f = [q \in ofCrashed |-> SelectProposer(validators, height, q)]
    OBVIOUS
  <2>2. f \in [ofCrashed -> crashed]
    BY <1>6, <2>1
  <2>3. \A p, q \in ofCrashed : f[p] = f[q] => p = q
    <3>1. ofCrashed \subseteq 0..N-1
      BY <1>1, <1>3, <1>4, <1>6
    <3>2. \A p, q \in 0..N-1 :
            SelectProposer(validators, height, p) = SelectProposer(validators, height, q) => p = q
      BY ProposersDiffer DEF ValidatorsInv
    <3> QED BY <2>1, <3>1, <3>2
  <2>4. f \in Injection(ofCrashed, crashed)
    BY <2>2, <2>3 DEF Injection, IsInjective
  <2> QED BY <1>1, <2>4, FS_Injection
<1> QED BY <1>1, <1>3, <1>9, <1>10, <1>11, <1>12

(* The rounds of a height without a decision are at most the crashed validators *)
(* and the rounds cut short (RoundsWasted).                                     *)
THEOREM FewRoundsWasted == Spec => []RoundsWasted
<1>1. ValidatorsInv /\ [Next]_vars => ValidatorsInv'
  BY ValidatorsStep
<1> QED BY <1>1, ValidatorsInit, FewWasted, PTL DEF Spec

===============================================================================
