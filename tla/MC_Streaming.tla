----------------------------- MODULE MC_Streaming -----------------------------
(* Small instances of Streaming: two proposers, blocks of at most two chunks    *)
(* that share a chunk, so that parts of different proposals can be confused.    *)
EXTENDS Streaming

CONSTANTS c1, c2, v1, v2

MCChunks == {c1, c2}
MCBlocks == {<<>>, <<c1>>, <<c2, c1>>}
MCProposers == {v1, v2}

(* Round-robin over the two proposers, as select_proposer does.                 *)
MCProposerOf == [hr \in Heights \X Rounds |-> IF (hr[1] + hr[2]) % 2 = 1 THEN v1 ELSE v2]
===============================================================================
