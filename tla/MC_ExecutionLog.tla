---------------------------- MODULE MC_ExecutionLog ----------------------------
(* Small instances of ExecutionLog.  Signers are interchangeable.               *)
EXTENDS ExecutionLog

Symmetry == Permutations(Signers)
===============================================================================
