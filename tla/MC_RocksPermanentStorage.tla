--------------------- MODULE MC_RocksPermanentStorage ---------------------
(***************************************************************************)
(* Models of RocksPermanentStorage for TLC. Values are 0 and 1, enough to  *)
(* tell an original from a new value; three block numbers let a writer    *)
(* save after another one and a third block see both.                      *)
(***************************************************************************)
EXTENDS RocksPermanentStorage, TLC

CONSTANTS a1, a2, s1, w1, w2

MCValues == {0, 1}

(* Every column family save_block writes.                                 *)
AllBatches == ColumnFamilies

(* The latest and history account columns only: the runs about conflicts *)
(* read nothing else.                                                     *)
AccountBatches == {"accounts", "accounts_history"}

WriterSymmetry == Permutations({w1, w2})

(* Every account exists at genesis (save_accounts of both).               *)
GenesisAll == [a \in Addresses |-> [nonce |-> 0, balance |-> 1]]

(* Only a1 exists at genesis; any other address is created by a block.   *)
GenesisOne == [a \in Addresses |-> IF a = a1 THEN [nonce |-> 0, balance |-> 1] ELSE None]
=============================================================================
