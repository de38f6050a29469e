------------------------- MODULE MC_TransactionDag -------------------------
(***************************************************************************)
(* Model of TransactionDag for TLC: every block of up to three             *)
(* transactions over two addresses and one slot index, every block of two  *)
(* transactions with every shape of value change, and the three blocks of  *)
(* test_compute_tx_dag_and_take_roots (7, 10 and 12 transactions).         *)
(***************************************************************************)
EXTENDS TransactionDag

CONSTANTS a1, a2, s1

Addresses == {a1, a2}
SlotIndexes == {s1}

(* A value set and left equal, and a value changed.                        *)
Kinds == { [original |-> 0, modified |-> 0], [original |-> 0, modified |-> 1] }

(* ... plus a value only read (modified None) and one created.             *)
AllKinds == Kinds \cup { [original |-> 0, modified |-> None],
                         [original |-> None, modified |-> 1] }

AccountChange(K) ==
    [ slots : UNION { [D -> K] : D \in SUBSET SlotIndexes }, balance : K ]

Tx(K) == [ changes : UNION { [D -> AccountChange(K)] : D \in SUBSET Addresses } ]

BlocksOf(n, K) == [ 0..(n - 1) -> Tx(K) ]

(* create_tx of the test: one account, every listed slot set from None.   *)
TestTx(slots) ==
    [ changes |-> [ x \in {a1} |->
        [ slots   |-> [ s \in slots |-> [original |-> None, modified |-> 0] ],
          balance |-> [original |-> None, modified |-> None] ] ] ]

TestBlock(sets) == [ i \in 0..(Len(sets) - 1) |-> TestTx(sets[i + 1]) ]

CaseA == TestBlock(<< {1}, {2}, {1, 2, 3}, {3, 4, 5}, {4, 7}, {3, 8}, {8, 7} >>)
CaseB == TestBlock(<< {1, 2}, {1, 3}, {2, 7}, {3, 4, 5}, {7, 8, 9}, {4, 10},
                      {5, 11}, {8, 12}, {9, 13}, {10, 11, 12, 13} >>)
CaseC == TestBlock(<< {1}, {1, 2, 3}, {13}, {14, 15}, {2, 4, 5, 6, 13, 14},
                      {4, 12, 15, 16}, {5, 9, 16}, {3, 6, 7, 10}, {9, 10, 11, 12},
                      {11}, {7, 8}, {8} >>)

MCBlocks == BlocksOf(3, Kinds) \cup BlocksOf(2, AllKinds) \cup {CaseA, CaseB, CaseC}
=============================================================================
