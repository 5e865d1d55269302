------------------------------ MODULE MC_Testnet ------------------------------
(* Small instances of Testnet.                                                  *)
EXTENDS Testnet
===============================================================================
