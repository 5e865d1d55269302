----------------------------- MODULE MC_Execution -----------------------------
(* Small instances of Execution.                                                *)
EXTENDS Execution
===============================================================================
