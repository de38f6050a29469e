------------------------ MODULE RocksPermanentStorage ------------------------
(***************************************************************************)
(* The embedded permanent storage (src/eth/storage/rocks/                  *)
(* rocks_permanent.rs) with the block writers that call it.                *)
(*                                                                         *)
(* save_block runs check_conflicts against the latest account and slot     *)
(* column families and, when nothing conflicts, spawns one blocking task   *)
(* per column family write and awaits them all with join_all. Every task   *)
(* is a separate WriteBatch step here, in any order, and another writer    *)
(* may run anywhere in between: the runtime is multi-threaded and          *)
(* run-with-importer drives the importer and the RPC server on it.         *)
(*                                                                         *)
(* A writer is the executor (not in this repository's sources, modelled    *)
(* from section 4.1 of the specification): it takes a block number with    *)
(* increment_block_number, executes against the Present state, which      *)
(* fixes the original_* of every change, and saves the block, retrying    *)
(* the execution on Conflict up to MaxRetries times.                       *)
(*                                                                         *)
(* A block is its compacted account changes (Block::compact_account_       *)
(* changes): Address -> [nonce, balance, slots: SlotIndex -> change], a    *)
(* change being ExecutionValueChange [original, modified].                 *)
(***************************************************************************)
EXTENDS Naturals, FiniteSets, Sequences, FiniteSetsExt

CONSTANTS
    Addresses,      \* account addresses
    SlotIndexes,    \* storage slot indexes
    Values,         \* nonce, balance and slot values
    Writers,        \* concurrent callers of save_block
    Genesis,        \* accounts seeded by save_accounts: Address -> info or None
    MaxBlock,       \* bound on block numbers handed out
    MaxRetries,     \* executor's retries of a block on Conflict
    Batches,        \* the column family writes of save_block a model follows
    None            \* Option::None

ASSUME MaxBlock \in Nat /\ MaxRetries \in Nat

Numbers == 0..MaxBlock
Info == [nonce : Values, balance : Values]

(* The column families written by save_block, each by its own             *)
(* spawn_blocking task (transactions and logs indexes left out: no        *)
(* property reads them). A model may follow only some of them: the others  *)
(* then keep their initial content.                                        *)
ColumnFamilies == {"blocks_by_number", "blocks_by_hash", "accounts",
                   "account_slots", "accounts_history", "account_slots_history"}

ASSUME Batches \subseteq ColumnFamilies

VARIABLES
    db,                 \* the column families: a record with one field per batch
    blockNumber,        \* the AtomicU64 block_number
    pc,                 \* writer program counter
    number,             \* block number taken by the writer
    changes,            \* the writer's compacted account changes
    pending,            \* spawned column family writes not yet done
    retries,            \* Conflicts met by the writer's current block
    returned,           \* history: blocks saved when the writer's check ran
    midSave,            \* history: another save_block was writing when the writer executed or checked
    saved               \* history: blocks whose save_block returned Ok, in return order

writers == <<pc, number, changes, pending, retries, returned, midSave>>
vars == <<db, blockNumber, writers, saved>>

(* The column families: latest account info and slot values (None when    *)
(* absent), the (address[, slot], block number) history rows, and the     *)
(* block numbers with a block row, indexed by number and by hash.          *)
SlotKeys == Addresses \X SlotIndexes

DbType ==
    [ accounts : [Addresses -> Info \cup {None}],
      account_slots : [SlotKeys -> Values \cup {None}],
      accounts_history : [Addresses -> [Numbers -> Info \cup {None}]],
      account_slots_history : [SlotKeys -> [Numbers -> Values \cup {None}]],
      blocks_by_number : SUBSET Numbers,
      blocks_by_hash : SUBSET Numbers ]

-----------------------------------------------------------------------------
(* Point-in-time reads of the storage state (rocks_state, not in this      *)
(* repository's sources; section 4.2): Present reads the latest column,    *)
(* Past(n) the history row with the largest block number <= n, or None.    *)
LatestAt(hist, n) ==
    LET ks == { k \in 0..n : hist[k] # None }
    IN  IF ks = {} THEN None ELSE hist[Max(ks)]

ReadAccountPast(a, n) == LatestAt(db.accounts_history[a], n)
ReadSlotPast(k, n) == LatestAt(db.account_slots_history[k], n)

(* The value a change leaves: modified, else original, else the default    *)
(* (new.unwrap_or(original), original.unwrap_or_default()).                *)
NewValue(change) ==
    IF change.modified # None THEN change.modified
    ELSE IF change.original # None THEN change.original ELSE 0

PostInfo(ch) == [nonce |-> NewValue(ch.nonce), balance |-> NewValue(ch.balance)]

(* The slots a change set writes, with the value written.                  *)
SlotWrites(cs) ==
    { k \in SlotKeys : k[1] \in DOMAIN cs /\ k[2] \in DOMAIN cs[k[1]].slots
                       /\ cs[k[1]].slots[k[2]].modified # None }

SlotValue(cs, k) == cs[k[1]].slots[k[2]].modified

(* Variant of check_conflicts that forgets the balance comparison.         *)
CheckConflictsNoBalance(cs) ==
    LET known == { a \in DOMAIN cs : db.accounts[a] # None }
    IN  { <<"nonce", a>> : a \in { x \in known : cs[x].nonce.original # None
                                               /\ cs[x].nonce.original # db.accounts[x].nonce } }

(* RocksPermanentStorage::check_conflicts: an account is checked only when *)
(* it is in the accounts column, a nonce or balance only when its original *)
(* is set, a slot only when it is in the account_slots column and its      *)
(* original is set.                                                        *)
CheckConflicts(cs) ==
    LET known == { a \in DOMAIN cs : db.accounts[a] # None }
        differs(a, f) == cs[a][f].original # None
                         /\ cs[a][f].original # db.accounts[a][f]
    IN  { <<f, a>> \in {"nonce", "balance"} \X known : differs(a, f) }
        \cup { <<"slot", k>> : k \in { j \in SlotKeys :
                  /\ j[1] \in known
                  /\ j[2] \in DOMAIN cs[j[1]].slots
                  /\ db.account_slots[j] # None
                  /\ cs[j[1]].slots[j[2]].original # None
                  /\ cs[j[1]].slots[j[2]].original # db.account_slots[j] } }

(* The new content of column family b once save_block's write for block n  *)
(* with change set cs has run.                                             *)
Written(b, n, cs) ==
    CASE b = "blocks_by_number" -> db.blocks_by_number \cup {n}
      [] b = "blocks_by_hash" -> db.blocks_by_hash \cup {n}
      [] b = "accounts" ->
            [a \in Addresses |-> IF a \in DOMAIN cs THEN PostInfo(cs[a]) ELSE db.accounts[a]]
      [] b = "accounts_history" ->
            [a \in Addresses |-> IF a \in DOMAIN cs
                                 THEN [db.accounts_history[a] EXCEPT ![n] = PostInfo(cs[a])]
                                 ELSE db.accounts_history[a]]
      [] b = "account_slots" ->
            [k \in SlotKeys |-> IF k \in SlotWrites(cs) THEN SlotValue(cs, k)
                                ELSE db.account_slots[k]]
      [] b = "account_slots_history" ->
            [k \in SlotKeys |-> IF k \in SlotWrites(cs)
                                THEN [db.account_slots_history[k] EXCEPT ![n] = SlotValue(cs, k)]
                                ELSE db.account_slots_history[k]]

(* The changes an execution against the Present state can produce: every   *)
(* original is the value read, every modified value is None (read only) or *)
(* a new value.                                                            *)
ValueChanges(orig) ==
    { [original |-> orig, modified |-> m] : m \in (Values \ {orig}) \cup {None} }

AccountChanges(a) ==
    LET orig(f) == IF db.accounts[a] = None THEN None ELSE db.accounts[a][f]
    IN  { [nonce |-> n, balance |-> b, slots |-> sl] :
            n \in ValueChanges(orig("nonce")),
            b \in ValueChanges(orig("balance")),
            sl \in UNION { { f \in [D -> UNION { ValueChanges(db.account_slots[<<a, x>>]) : x \in D }] :
                               \A x \in D : f[x] \in ValueChanges(db.account_slots[<<a, x>>]) }
                           : D \in SUBSET SlotIndexes } }

Executions ==
    UNION { { f \in [D -> UNION { AccountChanges(a) : a \in D }] :
                \A a \in D : f[a] \in AccountChanges(a) }
            : D \in (SUBSET Addresses) \ {{}} }

-----------------------------------------------------------------------------
(* save_accounts seeds the accounts column and the history at block 0;     *)
(* the slots columns start empty and block_number at 0.                    *)
Init ==
    /\ db = [ accounts |-> Genesis,
              account_slots |-> [k \in SlotKeys |-> None],
              accounts_history |-> [a \in Addresses |->
                                      [k \in Numbers |-> IF k = 0 THEN Genesis[a] ELSE None]],
              account_slots_history |-> [k \in SlotKeys |-> [j \in Numbers |-> None]],
              blocks_by_number |-> {},
              blocks_by_hash |-> {} ]
    /\ blockNumber = 0
    /\ pc = [w \in Writers |-> "idle"]
    /\ number = [w \in Writers |-> 0]
    /\ changes = [w \in Writers |-> None]
    /\ pending = [w \in Writers |-> {}]
    /\ retries = [w \in Writers |-> 0]
    /\ returned = [w \in Writers |-> {}]
    /\ midSave = [w \in Writers |-> FALSE]
    /\ saved = << >>

(* increment_block_number: fetch_add(1) + 1.                               *)
IncrementBlockNumber(w) ==
    /\ pc[w] = "idle"
    /\ blockNumber < MaxBlock
    /\ blockNumber' = blockNumber + 1
    /\ number' = [number EXCEPT ![w] = blockNumber + 1]
    /\ pc' = [pc EXCEPT ![w] = "execute"]
    /\ retries' = [retries EXCEPT ![w] = 0]
    /\ UNCHANGED <<db, changes, pending, returned, midSave, saved>>

(* The executor replays the block against the Present state.               *)
Execute(w) ==
    /\ pc[w] = "execute"
    /\ \E cs \in Executions : changes' = [changes EXCEPT ![w] = cs]
    /\ pc' = [pc EXCEPT ![w] = "save"]
    /\ midSave' = [midSave EXCEPT ![w] = \E v \in Writers \ {w} : pc[v] = "join"]
    /\ UNCHANGED <<db, blockNumber, number, pending, retries, returned, saved>>

(* save_block finding conflicts returns Conflict before writing; the       *)
(* executor re-executes the block when `again`, else surfaces the error.   *)
Conflict(w, again) ==
    /\ pc[w] = "save"
    /\ CheckConflicts(changes[w]) # {}
    /\ pc' = [pc EXCEPT ![w] = IF again THEN "execute" ELSE "failed"]
    /\ retries' = [retries EXCEPT ![w] = retries[w] + 1]
    /\ UNCHANGED <<db, blockNumber, number, changes, pending, returned, midSave, saved>>

(* Variant of the retry with an off-by-one bound (<= MaxRetries).          *)
SaveBlockConflictOffByOne(w) == Conflict(w, retries[w] <= MaxRetries)

SaveBlockConflict(w) == Conflict(w, retries[w] < MaxRetries)

(* save_block with no conflict spawns every column family write.           *)
SaveBlockSpawn(w) ==
    /\ pc[w] = "save"
    /\ CheckConflicts(changes[w]) = {}
    /\ pending' = [pending EXCEPT ![w] = Batches]
    /\ pc' = [pc EXCEPT ![w] = "join"]
    /\ returned' = [returned EXCEPT ![w] = { saved[i].number : i \in DOMAIN saved }]
    /\ midSave' = [midSave EXCEPT ![w] = midSave[w] \/ \E v \in Writers \ {w} : pc[v] = "join"]
    /\ UNCHANGED <<db, blockNumber, number, changes, retries, saved>>

(* One spawned blocking task runs its write.                               *)
WriteBatch(w, b) ==
    /\ pc[w] = "join"
    /\ b \in pending[w]
    /\ db' = [db EXCEPT ![b] = Written(b, number[w], changes[w])]
    /\ pending' = [pending EXCEPT ![w] = pending[w] \ {b}]
    /\ UNCHANGED <<blockNumber, pc, number, changes, retries, returned, midSave, saved>>

(* A spawned task whose write fails (an insert_batch error or a panic):    *)
(* join_all(futures) drops the task's result, so the column family keeps   *)
(* its content and save_block still goes on to return Ok.                  *)
WriteBatchFails(w, b) ==
    /\ pc[w] = "join"
    /\ b \in pending[w]
    /\ pending' = [pending EXCEPT ![w] = pending[w] \ {b}]
    /\ UNCHANGED <<db, blockNumber, pc, number, changes, retries, returned, midSave, saved>>

(* set_mined_block_number(n): block_number.store(n), whatever the current  *)
(* value (called from outside this repository's sources).                  *)
SetMinedBlockNumber(n) ==
    /\ blockNumber' = n
    /\ UNCHANGED <<db, writers, saved>>

(* join_all has every task done: save_block returns Ok.                    *)
JoinDone(w) == pending[w] = {}

(* save_block returns Ok: the block is recorded as saved.                  *)
Return(w) ==
    /\ pc[w] = "join"
    /\ pc' = [pc EXCEPT ![w] = "idle"]
    /\ saved' = Append(saved, [number |-> number[w], changes |-> changes[w],
                               checkedAfter |-> returned[w], midSave |-> midSave[w]])
    /\ UNCHANGED <<db, blockNumber, number, changes, pending, retries, returned, midSave>>

(* Variant of save_block that returns without awaiting join_all.         *)
SaveBlockReturnNoJoin(w) == Return(w)

SaveBlockReturn(w) == JoinDone(w) /\ Return(w)

(* Every writer is idle with the block numbers used up, or has surfaced an *)
(* error (the importer then ends): nothing is left to run.                 *)
Terminated ==
    \A w \in Writers : pc[w] = "failed" \/ (pc[w] = "idle" /\ blockNumber = MaxBlock)

Next ==
    \/ \E w \in Writers :
          \/ IncrementBlockNumber(w)
          \/ Execute(w)
          \/ SaveBlockConflict(w)
          \/ SaveBlockSpawn(w)
          \/ \E b \in Batches : WriteBatch(w, b)
          \/ SaveBlockReturn(w)
    \/ Terminated /\ UNCHANGED vars

Spec == Init /\ [][Next]_vars

(* The same writers where a spawned column family write may fail, and     *)
(* where set_mined_block_number may be called at any time with any block   *)
(* number: the two ways the counter and the columns escape save_block's    *)
(* checks.                                                                 *)
SpecUnguardedWrites ==
    Init /\ [][\/ Next
              \/ \E w \in Writers, b \in Batches : WriteBatchFails(w, b)
              \/ \E n \in Numbers : SetMinedBlockNumber(n)]_vars

-----------------------------------------------------------------------------
TypeOK ==
    /\ db \in DbType
    /\ blockNumber \in Numbers
    /\ pc \in [Writers -> {"idle", "execute", "save", "join", "failed"}]
    /\ number \in [Writers -> Numbers]
    /\ pending \in [Writers -> SUBSET Batches]
    /\ retries \in [Writers -> 0..(MaxRetries + 1)]
    /\ midSave \in [Writers -> BOOLEAN]

(* The account a change set found, rebuilt from its originals.             *)
PreInfo(ch) ==
    IF ch.nonce.original = None THEN None
    ELSE [nonce |-> ch.nonce.original, balance |-> ch.balance.original]

(* Section 8.1: once save_block of block n has returned, Past(n) reads     *)
(* every account and slot it touched as the block left them and Past(n-1)  *)
(* as the block found them.                                                *)
PointInTimeReads ==
    \A r \in Range(saved) :
        /\ \A a \in DOMAIN r.changes :
              /\ ReadAccountPast(a, r.number) = PostInfo(r.changes[a])
              /\ ReadAccountPast(a, r.number - 1) = PreInfo(r.changes[a])
        /\ \A k \in SlotWrites(r.changes) :
              /\ ReadSlotPast(k, r.number) = SlotValue(r.changes, k)
              /\ ReadSlotPast(k, r.number - 1) = r.changes[k[1]].slots[k[2]].original

(* The value of field f of account a, or of slot k, that the latest       *)
(* column held after the first i - 1 returned saves (in return order),     *)
(* had every save run alone: the genesis value when none wrote it.         *)
ChainAccount(i, a) ==
    LET js == { j \in 1..(i - 1) : a \in DOMAIN saved[j].changes }
    IN  IF js = {} THEN Genesis[a] ELSE PostInfo(saved[Max(js)].changes[a])

ChainField(i, a, f) ==
    IF ChainAccount(i, a) = None THEN None ELSE ChainAccount(i, a)[f]

ChainSlot(i, k) ==
    LET js == { j \in 1..(i - 1) : k \in SlotWrites(saved[j].changes) }
    IN  IF js = {} THEN None ELSE SlotValue(saved[Max(js)].changes, k)

(* Every value block i modifies was, when its execution read it, the value *)
(* the saves before it left: no save overwrote a value it never saw.       *)
UpdatesChained(i) ==
    LET cs == saved[i].changes
    IN  /\ \A a \in DOMAIN cs : \A f \in {"nonce", "balance"} :
              cs[a][f].modified # None => cs[a][f].original = ChainField(i, a, f)
        /\ \A k \in SlotWrites(cs) :
              cs[k[1]].slots[k[2]].original = ChainSlot(i, k)

(* Optimistic concurrency (sections 4.1 and 8.6): a block whose execution  *)
(* read a value that another block then changed is refused with Conflict,  *)
(* so the saved blocks form a chain in which every modified value's        *)
(* original is the value the previous saves left (no lost update).         *)
NoLostUpdate ==
    \A i \in DOMAIN saved : UpdatesChained(i)

(* The same for blocks whose save_block calls never overlap in time: every *)
(* block's conflict check ran after all blocks saved before it had         *)
(* returned, and no execution or check read a save half written. Two     *)
(* executions read the same state, one saves, then the other one's        *)
(* check_conflicts must refuse it.                                         *)
SavesSerial ==
    /\ \A i \in DOMAIN saved : ~saved[i].midSave
    /\ \A i, j \in DOMAIN saved : i < j => saved[i].number \in saved[j].checkedAfter

SerialNoLostUpdate == SavesSerial => NoLostUpdate

(* Section 5: save_block is atomic for readers: a block that a reader can  *)
(* find by number can also be found by hash, and the accounts it touched   *)
(* read at Past(number) as the block left them.                            *)
BlockVisibleAtomically ==
    \A w \in Writers :
        (pc[w] = "join" /\ number[w] \in db.blocks_by_number) =>
            /\ number[w] \in db.blocks_by_hash
            /\ \A a \in DOMAIN changes[w] :
                  ReadAccountPast(a, number[w]) = PostInfo(changes[w][a])

=============================================================================
