------------------------------ MODULE Validators ------------------------------
(* The validator set and the choice of proposers made from it: each round of    *)
(* each height has one proposer (TestContext::select_proposer), and a round     *)
(* whose proposer has crashed times out.                                        *)
(*                                                                              *)
(* Whether a round decides is up to the engine (Malachite): here it does if its *)
(* proposer is up and the round lasts long enough.  Rounds that are too short,  *)
(* as they may be at first, are the ones cut short by TimeoutEarly.             *)
EXTENDS Integers, FiniteSets, SequencesExt

CONSTANTS
  Addresses,      \* the addresses of validators, integers so that they are ordered
  MaxHeight,      \* bound on heights
  MaxRound,       \* bound on rounds; no more are needed than validators and early timeouts
  MaxEarly        \* bound on the rounds that are too short

ASSUME AddressesAssumption == Addresses \subseteq Nat /\ IsFiniteSet(Addresses) /\ Addresses # {}
ASSUME BoundsAssumption == {MaxHeight, MaxRound, MaxEarly} \subseteq Nat

VARIABLES
  validators,     \* ValidatorSet::validators
  crashed,        \* addresses of the validators that crashed
  height, round,  \* what the others are trying to decide
  early

vars == <<validators, crashed, height, round, early>>

-------------------------------------------------------------------------------
(* ValidatorSet::new keeps the order it is given; sort_validators only drops    *)
(* repetitions that follow each other (Vec::dedup).                             *)
ValidatorSet(list) ==
  LET kept == {i \in DOMAIN list : i > 1 => list[i] # list[i - 1]}
      Kept(k) == CHOOSE i \in kept : Cardinality({j \in kept : j <= i}) = k
  IN  [k \in 1..Cardinality(kept) |-> list[Kept(k)]]

(* The keys of a genesis file are generated, in no order of their addresses.    *)
GenesisLists == Injection(1..Cardinality(Addresses), Addresses)

ProposerOfHeight(set, h, r) == set[1 + ((h - 1) % Len(set))]   \* mutant: rounds do not rotate
SelectProposer(set, h, r) == set[1 + ((h - 1 + r) % Len(set))]

Proposer == SelectProposer(validators, height, round)

-------------------------------------------------------------------------------
Init ==
  /\ validators \in {ValidatorSet(list) : list \in GenesisLists}
  /\ crashed = {}
  /\ height = 1 /\ round = 0
  /\ early = 0

(* Consensus needs more than two thirds of the validators.                      *)
Crash(a) ==
  /\ 3 * (Cardinality(Addresses) - Cardinality(crashed \cup {a})) > 2 * Cardinality(Addresses)
  /\ crashed' = crashed \cup {a}
  /\ UNCHANGED <<validators, height, round, early>>

Decide ==
  /\ height <= MaxHeight
  /\ Proposer \notin crashed
  /\ height' = height + 1 /\ round' = 0
  /\ UNCHANGED <<validators, crashed, early>>

Timeout ==
  /\ height <= MaxHeight /\ round < MaxRound
  /\ Proposer \in crashed
  /\ round' = round + 1
  /\ UNCHANGED <<validators, crashed, height, early>>

TimeoutEarly ==
  /\ height <= MaxHeight /\ round < MaxRound
  /\ Proposer \notin crashed /\ early < MaxEarly
  /\ early' = early + 1
  /\ round' = round + 1
  /\ UNCHANGED <<validators, crashed, height>>

Next == Decide \/ Timeout \/ TimeoutEarly \/ \E a \in Addresses : Crash(a)

(* A round with a live proposer is decided unless it is too short, one without  *)
(* times out.                                                                   *)
Spec == Init /\ [][Next]_vars /\ WF_vars(Decide) /\ WF_vars(Timeout)

-------------------------------------------------------------------------------
(* Properties.                                                                  *)

(* The rotation always comes to a proposer that is up: every height is decided, *)
(* whichever validators have crashed when.                                      *)
EveryHeightDecided == \A h \in 1..MaxHeight : <>(height > h)

(* It does so without passing over one: the rounds of a height that have no     *)
(* decision are at most the crashed validators and the rounds cut short, as     *)
(* long as those are fewer than the validators that are up.                     *)
RoundsWasted ==
  early + Cardinality(crashed) < Cardinality(Addresses) => round <= Cardinality(crashed) + early
===============================================================================
