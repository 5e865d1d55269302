-------------------------------- MODULE MC_Node --------------------------------
(* Small instances of Node.                                                     *)
EXTENDS Node
===============================================================================
