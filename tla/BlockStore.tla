----------------------------- MODULE BlockStore -----------------------------
(***************************************************************************)
(* What PermanentStorage::save_block promises its callers (sections 4.2,   *)
(* 5 and 8.6 of the specification), stated without any storage engine:     *)
(* a block is saved in one step, under a number no saved block holds, and  *)
(* only when every value its execution modifies was read, up to            *)
(* unwrap_or_default, as the current one; the latest accounts and slots    *)
(* then hold the block's new values, and the log records the saves in the  *)
(* order they happened.                                                    *)
(***************************************************************************)
EXTENDS Naturals, Sequences

CONSTANTS
    Addresses,      \* account addresses
    SlotIndexes,    \* storage slot indexes
    Values,         \* nonce, balance and slot values (0 is the default)
    MaxBlock,       \* bound on block numbers
    None            \* Option::None

VARIABLES
    blocks,         \* the numbers of the saved blocks
    accounts,       \* latest account info, or None when the account does not exist
    slots,          \* latest slot values, or None
    log             \* the saves, in order: [number, changes]

storeVars == <<blocks, accounts, slots, log>>

SlotKeys == Addresses \X SlotIndexes
Info == [nonce : Values, balance : Values]

(* An ExecutionValueChange, and the compacted changes of one account.      *)
Change == [original : Values \cup {None}, modified : Values \cup {None}]
AccountChange ==
    [nonce : Change, balance : Change,
     slots : UNION { [D -> Change] : D \in SUBSET SlotIndexes }]
Changes == UNION { [D -> AccountChange] : D \in (SUBSET Addresses) \ {{}} }

Default(x) == IF x = None THEN 0 ELSE x
Field(a, f) == IF accounts[a] = None THEN 0 ELSE accounts[a][f]

(* Every value the block modifies was read as the current one.             *)
ReadCurrent(cs) ==
    \A a \in DOMAIN cs :
        /\ \A f \in {"nonce", "balance"} :
              cs[a][f].modified # None => Default(cs[a][f].original) = Field(a, f)
        /\ \A x \in DOMAIN cs[a].slots :
              cs[a].slots[x].modified # None =>
                  Default(cs[a].slots[x].original) = Default(slots[<<a, x>>])

(* The account after the block: its new values, the others kept.           *)
Applied(cs, a) ==
    [f \in {"nonce", "balance"} |->
        IF cs[a][f].modified # None THEN cs[a][f].modified ELSE Field(a, f)]

Written(cs, k) ==
    k[1] \in DOMAIN cs /\ k[2] \in DOMAIN cs[k[1]].slots
    /\ cs[k[1]].slots[k[2]].modified # None

Init ==
    /\ blocks = {}
    /\ accounts \in [Addresses -> Info \cup {None}]
    /\ slots = [k \in SlotKeys |-> None]
    /\ log = << >>

SaveBlock(n, cs) ==
    /\ n \notin blocks
    /\ ReadCurrent(cs)
    /\ blocks' = blocks \cup {n}
    /\ accounts' = [a \in Addresses |->
                      IF a \in DOMAIN cs THEN Applied(cs, a) ELSE accounts[a]]
    /\ slots' = [k \in SlotKeys |->
                   IF Written(cs, k) THEN cs[k[1]].slots[k[2]].modified ELSE slots[k]]
    /\ log' = Append(log, [number |-> n, changes |-> cs])

(* A step is one save: the entry the log gains names its number and its    *)
(* changes (the same as \E n \in 1..MaxBlock, cs \in Changes :            *)
(* SaveBlock(n, cs), without enumerating Changes).                         *)
Next ==
    /\ Len(log') = Len(log) + 1
    /\ LET e == log'[Len(log')]
       IN  /\ e.number \in 1..MaxBlock
           /\ e.changes \in Changes
           /\ SaveBlock(e.number, e.changes)

Spec == Init /\ [][Next]_storeVars

=============================================================================
