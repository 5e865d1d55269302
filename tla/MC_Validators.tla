----------------------------- MODULE MC_Validators -----------------------------
(* Small instances of Validators.                                               *)
EXTENDS Validators
===============================================================================
