-------------------------------- MODULE Store --------------------------------
(* The node's database (store.rs): five tables in one redb file, one operator   *)
(* per transaction.  A table is a total function on its keys, Absent standing   *)
(* for a key without a row; a database is the record of its tables.             *)
(*                                                                              *)
(* A stored proposal is represented by its block: its height and round are its  *)
(* key and nothing reads the other fields back.  A value stands for its block   *)
(* too, so the tables of values and of block data hold the same kind of thing.  *)
EXTENDS Integers, FiniteSetsExt

CONSTANTS
  MaxHeight,   \* bound on heights, which start at 1
  MaxRound,    \* bound on rounds, which start at 0
  Absent       \* no row

ASSUME MaxHeightAssumption == MaxHeight \in Nat \ {0}
ASSUME MaxRoundAssumption == MaxRound \in Nat

Heights == 1..MaxHeight
Rounds == 0..MaxRound
Nil == -1                  \* Round::Nil, below every round

(* UndecidedValueKey, ordered as redb orders tuples.                            *)
UndecidedKeys == Heights \X Rounds
KeyBefore(k1, k2) == k1[1] < k2[1] \/ (k1[1] = k2[1] /\ k1[2] < k2[2])

EmptyDb ==
  [decided_values |-> [h \in Heights |-> Absent],
   certificates |-> [h \in Heights |-> Absent],
   decided_block_data |-> [h \in Heights |-> Absent],
   undecided_proposals |-> [k \in UndecidedKeys |-> Absent],
   undecided_block_data |-> [k \in UndecidedKeys |-> Absent]]

(* Writes of the first two kinds keep the row that is there.                    *)
Overwrite(old, new) == new       \* mutant: the last write of a key wins
IfAbsent(old, new) == IF old = Absent THEN new ELSE old

InsertUndecidedProposal(db, h, r, value) ==
  [db EXCEPT !.undecided_proposals[<<h, r>>] = IfAbsent(@, value)]

InsertUndecidedBlockData(db, h, r, data) ==
  [db EXCEPT !.undecided_block_data[<<h, r>>] = IfAbsent(@, data)]

InsertDecidedBlockData(db, h, data) ==
  [db EXCEPT !.decided_block_data[h] = IfAbsent(@, data)]

(* The value and its certificate, in one transaction, over what was there.      *)
InsertDecidedValue(db, certificate, value) ==
  [db EXCEPT !.decided_values[certificate.height] = value,
             !.certificates[certificate.height] = certificate]

GetFirstProposal(db, h, r) == db.undecided_proposals[<<h, 0>>]   \* mutant: any round's
GetUndecidedProposal(db, h, r) == db.undecided_proposals[<<h, r>>]

GetFirstBlockData(db, h, r) == db.undecided_block_data[<<h, 0>>]   \* mutant: any round's
GetBlockData(db, h, r) ==
  IF db.undecided_block_data[<<h, r>>] # Absent
  THEN db.undecided_block_data[<<h, r>>]
  ELSE db.decided_block_data[h]

(* The decided value served to peers: both halves or nothing.                   *)
Decided(db, h) == db.decided_values[h] # Absent /\ db.certificates[h] # Absent

DecidedHeights(db) == {h \in Heights : db.decided_values[h] # Absent}
MinDecidedValueHeight(db) ==
  IF DecidedHeights(db) = {} THEN Absent ELSE Min(DecidedHeights(db))

(* Drops what is below retain_height; the decided rows are found by the keys of *)
(* decided_values.                                                              *)
Prune(db, retain_height) ==
  LET old == {h \in DecidedHeights(db) : h < retain_height}
      Drop(table) == [h \in Heights |-> IF h \in old THEN Absent ELSE table[h]]
      DropUndecided(table) ==
        [k \in UndecidedKeys |->
           IF KeyBefore(k, <<retain_height, Nil>>) THEN Absent ELSE table[k]]
  IN  [decided_values |-> Drop(db.decided_values),
       certificates |-> Drop(db.certificates),
       decided_block_data |-> Drop(db.decided_block_data),
       undecided_proposals |-> DropUndecided(db.undecided_proposals),
       undecided_block_data |-> DropUndecided(db.undecided_block_data)]
===============================================================================
