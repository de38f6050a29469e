------------------------- MODULE MC_ImporterOnline -------------------------
(***************************************************************************)
(* Models of ImporterOnline for TLC: three upstream blocks, one empty and  *)
(* two with more transactions than the receipt window holds.              *)
(***************************************************************************)
EXTENDS ImporterOnline

MCTxCount == [b \in 1..3 |-> IF b = 2 THEN 0 ELSE 3]
=============================================================================
