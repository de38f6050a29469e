--------------------------- MODULE TransactionDag ---------------------------
(***************************************************************************)
(* The transaction dependency DAG of the external relayer                  *)
(* (src/eth/relayer/transaction_dag.rs).                                   *)
(*                                                                         *)
(* TransactionDag::new turns the mined transactions of one block into a    *)
(* DAG whose vertices are transaction indexes and whose edges join two     *)
(* transactions that both modify the same (address, slot index) or the    *)
(* same address's balance, always from the lower index to the higher one. *)
(* The relayer then calls take_roots until it returns None; every call     *)
(* removes and returns the current roots: one wave of transactions that    *)
(* can be forwarded in parallel.                                           *)
(*                                                                         *)
(* A block is a function from transaction_index to a transaction; a        *)
(* transaction carries only what the DAG reads, execution.changes: a       *)
(* function from Address to [slots: SlotIndex -> change, balance: change], *)
(* where a change is ExecutionValueChange = [original, modified] and None  *)
(* stands for Option::None.                                                *)
(***************************************************************************)
EXTENDS Naturals, FiniteSets, Sequences, Graphs

CONSTANTS
    Blocks,     \* the blocks (transaction_index -> transaction) to split
    None        \* Option::None of an ExecutionValueChange side

VARIABLES
    block,      \* the input of TransactionDag::new
    dag,        \* the StableDag, as a Graphs record [node, edge]
    waves,      \* the Some(roots) returned so far, in call order
    done        \* take_roots has returned None

vars == <<block, dag, waves, done>>

-----------------------------------------------------------------------------
(* ExecutionValueChange::is_modified: a new value is set and differs from  *)
(* the original one.                                                       *)
IsModified(change) ==
    change.modified # None /\ change.modified # change.original

(* The (address, slot index) pairs a transaction modifies (lines 44-49).   *)
ModifiedSlots(tx) ==
    UNION { { <<a, s>> : s \in { i \in DOMAIN tx.changes[a].slots :
                                   IsModified(tx.changes[a].slots[i]) } }
            : a \in DOMAIN tx.changes }

(* The addresses whose balance a transaction modifies (lines 51-53).       *)
ModifiedBalances(tx) ==
    { a \in DOMAIN tx.changes : IsModified(tx.changes[a].balance) }

(* slot_conflicts / balance_conflicts: only transactions with at least one *)
(* modified entry get a key in the HashMap.                                *)
SlotConflicts(b) ==
    [ i \in { j \in DOMAIN b : ModifiedSlots(b[j]) # {} } |-> ModifiedSlots(b[i]) ]

BalanceConflicts(b) ==
    [ i \in { j \in DOMAIN b : ModifiedBalances(b[j]) # {} } |-> ModifiedBalances(b[i]) ]

(* Variant of the double loop that starts the inner loop at the entry     *)
(* itself (skip(i) for skip(i + 1)).                                       *)
ConflictEdgesSkipI(conflicts) ==
    { e \in (DOMAIN conflicts) \X (DOMAIN conflicts) :
        /\ e[1] <= e[2]
        /\ conflicts[e[1]] \cap conflicts[e[2]] # {} }

(* The double loop over the conflict map sorted by index: every entry is   *)
(* compared with the entries after it (skip(i + 1)) and an edge from the   *)
(* earlier to the later one is added when their sets intersect.            *)
ConflictEdges(conflicts) ==
    { e \in (DOMAIN conflicts) \X (DOMAIN conflicts) :
        /\ e[1] < e[2]
        /\ conflicts[e[1]] \cap conflicts[e[2]] # {} }

(* Variant of TransactionDag::new that forgets the balance edges.         *)
NewDagSlotsOnly(b) ==
    [ node |-> DOMAIN b, edge |-> ConflictEdges(SlotConflicts(b)) ]

(* TransactionDag::new: one vertex per transaction, slot edges, then       *)
(* balance edges.                                                          *)
NewDag(b) ==
    [ node |-> DOMAIN b,
      edge |-> ConflictEdges(SlotConflicts(b)) \cup ConflictEdges(BalanceConflicts(b)) ]

(* Variant of the removal that keeps the removed vertices' edges.         *)
RemoveNodesKeepEdges(g, ns) ==
    [ node |-> g.node \ ns, edge |-> g.edge ]

(* dag.remove_node on every root: the vertices go with their edges.        *)
RemoveNodes(g, ns) ==
    [ node |-> g.node \ ns,
      edge |-> { e \in g.edge : e[1] \notin ns /\ e[2] \notin ns } ]

(* The vertices with no parent (lines 92-97).                              *)
RootIndexes(g) == Roots(g)

-----------------------------------------------------------------------------
Init ==
    /\ block \in Blocks
    /\ dag = NewDag(block)
    /\ waves = << >>
    /\ done = FALSE

(* Variant of take_roots that hands out one root per call.               *)
TakeOneRoot ==
    /\ ~done
    /\ RootIndexes(dag) # {}
    /\ LET r == CHOOSE i \in RootIndexes(dag) : TRUE
       IN  /\ dag' = RemoveNodes(dag, {r})
           /\ waves' = Append(waves, {r})
    /\ UNCHANGED <<block, done>>

(* take_roots when some vertex has no parent: remove and return them.      *)
TakeRootsSome ==
    /\ ~done
    /\ RootIndexes(dag) # {}
    /\ dag' = RemoveNodes(dag, RootIndexes(dag))
    /\ waves' = Append(waves, RootIndexes(dag))
    /\ UNCHANGED <<block, done>>

(* take_roots when no vertex is a root: it returns None and the relayer's  *)
(* `while let Some(roots)` loop ends.                                      *)
TakeRootsNone ==
    /\ ~done
    /\ RootIndexes(dag) = {}
    /\ done' = TRUE
    /\ UNCHANGED <<block, dag, waves>>

Next == TakeRootsSome \/ TakeRootsNone

(* The relayer calls take_roots in a plain loop: nothing else runs in      *)
(* between, so the loop keeps taking steps.                                *)
Spec == Init /\ [][Next]_vars /\ WF_vars(Next)

-----------------------------------------------------------------------------
(***************************************************************************)
(* Reference definition, written from the edge rule of the specification  *)
(* (section 4.3) and not from the code: the keys a transaction writes, a   *)
(* conflict relation, and the depth of every transaction in the           *)
(* conflict order, i.e. the earliest wave it can be forwarded in.          *)
(***************************************************************************)
Writes(tx) ==
    LET touched == DOMAIN tx.changes
    IN  UNION { { <<"slot", a, i>> : i \in { x \in DOMAIN tx.changes[a].slots :
                                               IsModified(tx.changes[a].slots[x]) } }
                : a \in touched }
        \cup { <<"balance", a, a>> : a \in { x \in touched : IsModified(tx.changes[x].balance) } }

Conflict(b, i, j) == Writes(b[i]) \cap Writes(b[j]) # {}

Depth(b) ==
    LET d[i \in DOMAIN b] ==
            LET before == { d[j] : j \in { k \in DOMAIN b : k < i /\ Conflict(b, k, i) } }
            IN  IF before = {} THEN 1 ELSE 1 + Max(before)
    IN  d

WaveOf(i) == CHOOSE k \in 1..Len(waves) : i \in waves[k]

Taken == UNION { waves[k] : k \in 1..Len(waves) }

-----------------------------------------------------------------------------
TypeOK ==
    /\ block \in Blocks
    /\ dag.node \subseteq DOMAIN block
    /\ dag.edge \subseteq dag.node \X dag.node
    /\ waves \in Seq(SUBSET DOMAIN block)
    /\ done \in BOOLEAN

(* Two transactions that write the same slot or balance are forwarded in   *)
(* their block order: when the later one is handed out by take_roots, the  *)
(* earlier one was handed out in a strictly earlier wave. This is what     *)
(* makes forwarding the waves in parallel equivalent to the block's order. *)
ConflictOrder ==
    \A j \in Taken : \A i \in DOMAIN block :
        (i < j /\ Conflict(block, i, j)) =>
            (i \in Taken /\ WaveOf(i) < WaveOf(j))

(* The waves are the layers of the conflict order: every transaction is    *)
(* handed out in the earliest wave its conflicts allow (maximum            *)
(* parallelism, the waves the tests of transaction_dag.rs pin).            *)
WavesAreDepthLayers ==
    \A j \in Taken : WaveOf(j) = Depth(block)[j]

(* The relayer's loop ends, and when take_roots has returned None every    *)
(* transaction of the block was handed out in some wave.                   *)
AllForwarded == <>(done /\ Taken = DOMAIN block)

=============================================================================
