-------------------------------- MODULE MC_Codec --------------------------------
(* A small instance of the two machines that run the conversions of Codec.      *)
(* They share no state, so a behaviour is one of either: that of a message      *)
(* (Wire) when there is one, that of decisions (Certificates) otherwise.        *)
(*                                                                              *)
(* Of the three validators, one has half of the voting power, so that a         *)
(* certificate may come with or without a third vote.                           *)
EXTENDS Certificates, Wire

CONSTANTS a1, a2, a3

VotingPower == (a1 :> 2) @@ (a2 :> 1) @@ (a3 :> 1)

NoMessage == sent = Absent

(* A message, or none and decisions.                                            *)
CodecInit ==
  /\ Init
  /\ \/ WireInit
     \/ sent = Absent /\ damage = Absent /\ wire = Absent /\ received = Absent

CodecNext ==
  \/ ~NoMessage /\ WireNext /\ UNCHANGED vars
  \/ NoMessage /\ Next /\ UNCHANGED wireVars

CodecSpec == CodecInit /\ [][CodecNext]_<<vars, wireVars>>
===============================================================================
