-------------------- MODULE MC_PostgresPermanentStorage --------------------
(***************************************************************************)
(* Models of PostgresPermanentStorage for TLC: values 0 and 1, enough to  *)
(* tell the default from a new value and to let a value change back.      *)
(***************************************************************************)
EXTENDS PostgresPermanentStorage, TLC

CONSTANTS a1, a2, s1, w1, w2

MCValues == {0, 1}

(* Every account exists at genesis (save_accounts of each).               *)
GenesisAll == [a \in Addresses |-> [nonce |-> 0, balance |-> 1]]

(* Only a1 exists at genesis; any other address is created by a block.   *)
GenesisOne == [a \in Addresses |-> IF a = a1 THEN [nonce |-> 0, balance |-> 1] ELSE None]

=============================================================================
