---------------------- MODULE PostgresPermanentStorage ----------------------
(***************************************************************************)
(* The SQL permanent storage (src/eth/storage/postgres_permanent/          *)
(* postgres_permanent.rs) with the block writers that call it.             *)
(*                                                                         *)
(* increment_block_number selects the current block number and adds one   *)
(* in Rust: nothing is reserved, and a failed query counts as 0.           *)
(* save_block runs insert_entire_block inside one database transaction:    *)
(* the block row, and for every account and slot an upsert that only       *)
(* changes a row still holding the original the execution read (the .sql  *)
(* files are not in this repository's sources; section 4.2 of the          *)
(* specification gives their semantics). The counts of rows changed are    *)
(* compared with the counts expected, and a difference rolls back with a   *)
(* Conflict. The transaction makes the whole save one step here.           *)
(*                                                                         *)
(* A writer is the executor (section 4.1) driven by one of the two writers *)
(* of run-with-importer: the online importer, which numbers blocks with    *)
(* its own loop counter (bin/importer_online.rs) and replays each one, or  *)
(* the JSON-RPC server's local mining path, which executes a transaction   *)
(* against the Present state and then takes the block number with          *)
(* increment_block_number.                                                 *)
(***************************************************************************)
EXTENDS Naturals, FiniteSets, Sequences, FiniteSetsExt

CONSTANTS
    Addresses,      \* account addresses
    SlotIndexes,    \* storage slot indexes
    Values,         \* nonce, balance and slot values (0 is the default)
    Writers,        \* concurrent callers of save_block
    Importers,      \* the writers that are online importers (the others mine locally)
    Genesis,        \* accounts seeded by save_accounts: Address -> info or None
    MaxBlock,       \* bound on block numbers handed out
    MaxRetries,     \* executor's retries of a block on Conflict
    None            \* Option::None

ASSUME MaxBlock \in Nat /\ MaxRetries \in Nat /\ 0 \in Values /\ Importers \subseteq Writers

Numbers == 0..MaxBlock
Info == [nonce : Values, balance : Values]
SlotKeys == Addresses \X SlotIndexes

(* The four queries of read_block: the header, and the transactions, logs *)
(* and topics of the block.                                                *)
Queries == {"header", "transactions", "logs", "topics"}

VARIABLES
    blocks,         \* block numbers with a row in the blocks table
    accounts,       \* latest_nonce / latest_balance of the accounts table, or None
    slots,          \* value of the account_slots table, or None
    pc,             \* writer program counter
    number,         \* block number of the writer's block (the importer's loop counter)
    changes,        \* the writer's compacted account changes
    retries,        \* Conflicts met by the writer's current block
    committed,      \* history: the committed blocks, in commit order, with
                    \* whether an importer saved them
    rpc,            \* the JSON-RPC reader of read_block: "idle", "query", "returned"
    rnum,           \* the block number its selection resolved to
    rq              \* outcome of each of its queries: "pending", "some", "none", "err"

writers == <<pc, number, changes, retries>>
reader == <<rpc, rnum, rq>>
vars == <<blocks, accounts, slots, writers, committed, reader>>

-----------------------------------------------------------------------------
(* select_current_block_number: the highest block saved, 0 when none.      *)
CurrentBlockNumber == IF blocks = {} THEN 0 ELSE Max(blocks)

(* original.unwrap_or_default() and new.unwrap_or(original) of save_block. *)
OrDefault(x) == IF x = None THEN 0 ELSE x
NewValue(change) ==
    IF change.modified # None THEN change.modified ELSE OrDefault(change.original)

PostInfo(ch) == [nonce |-> NewValue(ch.nonce), balance |-> NewValue(ch.balance)]

(* Variant that pushes every slot of the changes, the ones only read too. *)
SlotWritesAll(cs) ==
    { k \in SlotKeys : k[1] \in DOMAIN cs /\ k[2] \in DOMAIN cs[k[1]].slots }

(* The slots pushed to slot_batch: those with a new value (the others are  *)
(* skipped with `continue`).                                               *)
SlotWrites(cs) ==
    { k \in SlotKeys : k[1] \in DOMAIN cs /\ k[2] \in DOMAIN cs[k[1]].slots
                       /\ cs[k[1]].slots[k[2]].modified # None }

SlotValue(cs, k) == cs[k[1]].slots[k[2]].modified
SlotOriginal(cs, k) == OrDefault(cs[k[1]].slots[k[2]].original)

(* The upsert of insert_entire_block changes an account row when the       *)
(* account is new or still holds both defaulted originals, and a slot row  *)
(* when it is new or still holds the defaulted original value.             *)
(* Variant of the account upsert whose WHERE clause forgets the balance.  *)
AccountUpsertedNoBalance(cs, a) ==
    \/ accounts[a] = None
    \/ accounts[a].nonce = OrDefault(cs[a].nonce.original)

AccountUpserted(cs, a) ==
    \/ accounts[a] = None
    \/ accounts[a] = [nonce |-> OrDefault(cs[a].nonce.original),
                      balance |-> OrDefault(cs[a].balance.original)]

SlotUpserted(cs, k) == slots[k] = None \/ slots[k] = SlotOriginal(cs, k)

(* modified_accounts and modified_slots returned by the query, and the    *)
(* counts save_block expects: one per account change, one per slot write.  *)
ModifiedAccounts(cs) == Cardinality({ a \in DOMAIN cs : AccountUpserted(cs, a) })
ModifiedSlots(cs) == Cardinality({ k \in SlotWrites(cs) : SlotUpserted(cs, k) })
ExpectedAccounts(cs) == Cardinality(DOMAIN cs)
ExpectedSlots(cs) == Cardinality(SlotWrites(cs))

(* maybe_read_account and maybe_read_slot at StoragePointInTime::Present:  *)
(* the row of the accounts or account_slots table, or None.                *)
ReadAccountPresent(a) == accounts[a]
ReadSlotPresent(k) == slots[k]

(* The changes an execution against the Present state can produce (the     *)
(* executor, section 4.1): every original is the value read, every         *)
(* modified value None (read only) or a new value.                         *)
ValueChanges(orig) ==
    { [original |-> orig, modified |-> m] : m \in (Values \ {orig}) \cup {None} }

AccountChanges(a) ==
    LET orig(f) == IF ReadAccountPresent(a) = None THEN None ELSE ReadAccountPresent(a)[f]
    IN  { [nonce |-> n, balance |-> b, slots |-> sl] :
            n \in ValueChanges(orig("nonce")),
            b \in ValueChanges(orig("balance")),
            sl \in UNION { { f \in [D -> UNION { ValueChanges(ReadSlotPresent(<<a, x>>)) : x \in D }] :
                               \A x \in D : f[x] \in ValueChanges(ReadSlotPresent(<<a, x>>)) }
                           : D \in SUBSET SlotIndexes } }

Executions ==
    UNION { { f \in [D -> UNION { AccountChanges(a) : a \in D }] :
                \A a \in D : f[a] \in AccountChanges(a) }
            : D \in (SUBSET Addresses) \ {{}} }

-----------------------------------------------------------------------------
(* save_accounts seeds every genesis account at block 0, one transaction  *)
(* per account; the importer starts after it.                             *)
Init ==
    /\ blocks = {}
    /\ accounts = Genesis
    /\ slots = [k \in SlotKeys |-> None]
    /\ pc = [w \in Writers |-> "idle"]
    /\ number = [w \in Writers |-> 0]
    /\ changes = [w \in Writers |-> None]
    /\ retries = [w \in Writers |-> 0]
    /\ committed = << >>
    /\ rpc = "idle"
    /\ rnum = 0
    /\ rq = [q \in Queries |-> "pending"]

(* The importer's loop: number = number.next(), then the block with that  *)
(* number is fetched and replayed (importer_online.rs lines 31-47).        *)
NextImportNumber(w) ==
    /\ w \in Importers
    /\ pc[w] = "idle"
    /\ number[w] < MaxBlock
    /\ number' = [number EXCEPT ![w] = number[w] + 1]
    /\ pc' = [pc EXCEPT ![w] = "execute"]
    /\ retries' = [retries EXCEPT ![w] = 0]
    /\ UNCHANGED <<blocks, accounts, slots, changes, committed, reader>>

(* A transaction reaches the local mining path.                           *)
MineTransaction(w) ==
    /\ w \notin Importers
    /\ pc[w] = "idle"
    /\ CurrentBlockNumber < MaxBlock
    /\ pc' = [pc EXCEPT ![w] = "execute"]
    /\ retries' = [retries EXCEPT ![w] = 0]
    /\ UNCHANGED <<blocks, accounts, slots, number, changes, committed, reader>>

(* The executor replays the block against the Present state; the local    *)
(* mining path then asks for a block number, the importer already has it.  *)
Execute(w) ==
    /\ pc[w] = "execute"
    /\ \E cs \in Executions : changes' = [changes EXCEPT ![w] = cs]
    /\ pc' = [pc EXCEPT ![w] = IF w \in Importers THEN "save" ELSE "number"]
    /\ UNCHANGED <<blocks, accounts, slots, number, retries, committed, reader>>

(* The writer's block number is n; the save follows.                     *)
TakeNumber(w, n) ==
    /\ number' = [number EXCEPT ![w] = n]
    /\ pc' = [pc EXCEPT ![w] = "save"]
    /\ UNCHANGED <<blocks, accounts, slots, changes, retries, committed, reader>>

(* increment_block_number: the current number plus one, selected without  *)
(* any lock or sequence.                                                   *)
IncrementBlockNumber(w) ==
    /\ pc[w] = "number"
    /\ CurrentBlockNumber < MaxBlock
    /\ TakeNumber(w, CurrentBlockNumber + 1)

(* Variant of the error path that drops the + 1.                          *)
IncrementBlockNumberQueryErrorNoNext(w) == pc[w] = "number" /\ TakeNumber(w, 0)

(* The same call when the select fails: unwrap_or_else logs the error and *)
(* uses 0, so the block number handed out is 1.                            *)
IncrementBlockNumberQueryError(w) == pc[w] = "number" /\ TakeNumber(w, 0 + 1)

(* The executor after a Conflict: re-execute, or surface the error once   *)
(* out of retries.                                                         *)
AfterConflict(w) ==
    /\ pc' = [pc EXCEPT ![w] = IF retries[w] < MaxRetries THEN "execute" ELSE "failed"]
    /\ retries' = [retries EXCEPT ![w] = retries[w] + 1]
    /\ UNCHANGED <<blocks, accounts, slots, number, changes, committed, reader>>

(* The block row cannot be inserted: a block with this number is already  *)
(* saved. fetch_one fails, `?` returns the error (not a Conflict), the    *)
(* transaction is dropped and rolls back, and the executor surfaces it.    *)
SaveBlockInsertError(w) ==
    /\ pc[w] = "save"
    /\ number[w] \in blocks
    /\ pc' = [pc EXCEPT ![w] = "insertError"]
    /\ UNCHANGED <<blocks, accounts, slots, number, changes, retries, committed, reader>>

(* modified_accounts != expected_modified_accounts: rollback, Conflict     *)
(* Account.                                                                 *)
SaveBlockAccountConflict(w) ==
    /\ pc[w] = "save"
    /\ number[w] \notin blocks
    /\ ModifiedAccounts(changes[w]) # ExpectedAccounts(changes[w])
    /\ AfterConflict(w)

(* The accounts matched, modified_slots != expected_modified_slots:        *)
(* rollback, Conflict PgSlot.                                              *)
SaveBlockSlotConflict(w) ==
    /\ pc[w] = "save"
    /\ number[w] \notin blocks
    /\ ModifiedAccounts(changes[w]) = ExpectedAccounts(changes[w])
    /\ ModifiedSlots(changes[w]) # ExpectedSlots(changes[w])
    /\ AfterConflict(w)

(* Both counts match: commit the block, the latest account values and the  *)
(* slots written.                                                          *)
SaveBlockCommit(w) ==
    /\ pc[w] = "save"
    /\ number[w] \notin blocks
    /\ ModifiedAccounts(changes[w]) = ExpectedAccounts(changes[w])
    /\ ModifiedSlots(changes[w]) = ExpectedSlots(changes[w])
    /\ blocks' = blocks \cup {number[w]}
    /\ accounts' = [a \in Addresses |->
                      IF a \in DOMAIN changes[w] THEN PostInfo(changes[w][a]) ELSE accounts[a]]
    /\ slots' = [k \in SlotKeys |->
                   IF k \in SlotWrites(changes[w]) THEN SlotValue(changes[w], k) ELSE slots[k]]
    /\ pc' = [pc EXCEPT ![w] = "idle"]
    /\ committed' = Append(committed, [number |-> number[w], changes |-> changes[w],
                                       imported |-> w \in Importers])
    /\ UNCHANGED <<number, changes, retries, reader>>

(* The importer's `?` ended the process with the error; it is started     *)
(* again and resumes after read_mined_block_number, n.                     *)
Restart(w, n) ==
    /\ w \in Importers
    /\ pc[w] \in {"failed", "insertError"}
    /\ number' = [number EXCEPT ![w] = n]
    /\ pc' = [pc EXCEPT ![w] = "idle"]
    /\ UNCHANGED <<blocks, accounts, slots, changes, retries, committed, reader>>

(* n is the highest block saved (importer_online.rs line 28).              *)
ImporterRestart(w) == Restart(w, CurrentBlockNumber)

(* The select of read_mined_block_number fails: unwrap_or(0), so the       *)
(* importer starts again from block 1.                                     *)
ImporterRestartQueryError(w) == Restart(w, 0)

(* The JSON-RPC server answers the failed request with the error and goes *)
(* on serving the next one.                                                *)
ReturnError(w) ==
    /\ w \notin Importers
    /\ pc[w] \in {"failed", "insertError"}
    /\ pc' = [pc EXCEPT ![w] = "idle"]
    /\ UNCHANGED <<blocks, accounts, slots, number, changes, retries, committed, reader>>

(* The JSON-RPC server's read_block for a block selection: by number, by  *)
(* hash (a block's hash identifies its number), the earliest block (0), or *)
(* the latest one.                                                         *)
Selections == {"earliest"} \cup ({"number", "hash"} \X (1..MaxBlock))

(* The selection resolved to block n: the four queries are pending.       *)
StartRead(n) ==
    /\ rnum' = n
    /\ rpc' = "query"
    /\ rq' = [q \in Queries |-> "pending"]
    /\ UNCHANGED <<blocks, accounts, slots, writers, committed>>

ReadBlockSelect(sel) == rpc = "idle" /\ StartRead(IF sel = "earliest" THEN 0 ELSE sel[2])

(* BlockSelection::Latest first awaits read_mined_block_number.            *)
ReadBlockLatest == rpc = "idle" /\ StartRead(CurrentBlockNumber)

(* Its select fails: unwrap_or(0), and block 0 is read as the latest.     *)
ReadBlockLatestQueryError == rpc = "idle" /\ StartRead(0)

(* tokio::join! polls the four fetches together; each one takes its own   *)
(* connection from the pool and runs as its own statement, outside any     *)
(* transaction, so each sees the commits made before it ran. A committed  *)
(* block has rows in every table (save_block inserts them all in one       *)
(* transaction).                                                           *)
QueryAnswers(q, r) ==
    /\ rpc = "query"
    /\ rq[q] = "pending"
    /\ rq' = [rq EXCEPT ![q] = r]
    /\ UNCHANGED <<blocks, accounts, slots, writers, committed, rpc, rnum>>

ReadBlockQuery(q) == QueryAnswers(q, IF rnum \in blocks THEN "some" ELSE "none")

ReadBlockQueryFails(q) == QueryAnswers(q, "err")

(* join! resolves once every fetch has.                                    *)
ReadBlockReturn ==
    /\ rpc = "query"
    /\ \A q \in Queries : rq[q] # "pending"
    /\ rpc' = "returned"
    /\ UNCHANGED <<blocks, accounts, slots, writers, committed, rnum, rq>>

(* What read_block returns: the header's Err or None first, then the `?`   *)
(* of the other three results, then Some(block).                           *)
ReadBlockResult ==
    CASE rq["header"] = "err" -> "err"
      [] rq["header"] = "none" -> "none"
      [] \E q \in Queries : rq[q] = "err" -> "err"
      [] OTHER -> "some"

(* The reply is sent; the server takes the next request.                   *)
ReplyRead ==
    /\ rpc = "returned"
    /\ rpc' = "idle"
    /\ UNCHANGED <<blocks, accounts, slots, writers, committed, rnum, rq>>

ReaderStep ==
    \/ \E sel \in Selections : ReadBlockSelect(sel)
    \/ ReadBlockLatest \/ ReadBlockLatestQueryError
    \/ \E q \in Queries : ReadBlockQuery(q) \/ ReadBlockQueryFails(q)
    \/ ReadBlockReturn \/ ReplyRead

(* Every writer has stopped: the block numbers are used up and each one   *)
(* is idle, or asking for a number past the bound.                         *)
Terminated ==
    \A w \in Writers :
        /\ pc[w] \in {"idle", "number"}
        /\ CurrentBlockNumber = MaxBlock
        /\ w \in Importers => number[w] = MaxBlock

(* The steps of a writer when every select succeeds.                      *)
WriterStep(w) ==
    \/ NextImportNumber(w)
    \/ MineTransaction(w)
    \/ Execute(w)
    \/ IncrementBlockNumber(w)
    \/ SaveBlockInsertError(w)
    \/ SaveBlockAccountConflict(w)
    \/ SaveBlockSlotConflict(w)
    \/ SaveBlockCommit(w)
    \/ ImporterRestart(w)
    \/ ReturnError(w)

Next ==
    \/ \E w \in Writers :
          \/ WriterStep(w)
          \/ IncrementBlockNumberQueryError(w)
          \/ ImporterRestartQueryError(w)
    \/ Terminated /\ UNCHANGED vars

Spec == Init /\ [][Next]_vars

(* The same writers with a database that always answers the select.      *)
ReliableSelectNext ==
    \/ \E w \in Writers : WriterStep(w)
    \/ Terminated /\ UNCHANGED vars

SpecReliableSelect == Init /\ [][ReliableSelectNext]_vars

(* The writers with a JSON-RPC client reading blocks at the same time.    *)
SpecWithReader == Init /\ [][Next \/ ReaderStep]_vars

-----------------------------------------------------------------------------
TypeOK ==
    /\ blocks \subseteq 1..MaxBlock
    /\ accounts \in [Addresses -> Info \cup {None}]
    /\ slots \in [SlotKeys -> Values \cup {None}]
    /\ pc \in [Writers -> {"idle", "execute", "number", "save", "failed", "insertError"}]
    /\ number \in [Writers -> Numbers]
    /\ retries \in [Writers -> 0..(MaxRetries + 1)]
    /\ rpc \in {"idle", "query", "returned"}
    /\ rnum \in Numbers
    /\ rq \in [Queries -> {"pending", "some", "none", "err"}]

(* The value of account a, or of slot k, after the first i - 1 commits,    *)
(* had every save run alone: the genesis value when none wrote it.         *)
ChainAccount(i, a) ==
    LET js == { j \in 1..(i - 1) : a \in DOMAIN committed[j].changes }
    IN  IF js = {} THEN Genesis[a] ELSE PostInfo(committed[Max(js)].changes[a])

ChainSlot(i, k) ==
    LET js == { j \in 1..(i - 1) : k \in SlotWrites(committed[j].changes) }
    IN  IF js = {} THEN None ELSE SlotValue(committed[Max(js)].changes, k)

(* Optimistic concurrency (sections 4.1, 4.2 and 8.6): every value a       *)
(* committed block modifies was read, up to the unwrap_or_default of the  *)
(* originals, as the value the blocks committed before it left; the count *)
(* check of save_block refuses any other execution.                        *)
NoLostUpdate ==
    \A i \in DOMAIN committed :
        LET cs == committed[i].changes
        IN  /\ \A a \in DOMAIN cs : \A f \in {"nonce", "balance"} :
                  cs[a][f].modified # None =>
                      OrDefault(cs[a][f].original)
                          = IF ChainAccount(i, a) = None THEN 0 ELSE ChainAccount(i, a)[f]
            /\ \A k \in SlotWrites(cs) :
                  SlotOriginal(cs, k) = OrDefault(ChainSlot(i, k))

(* Sections 4.2, 5 and 8.6: the SQL storage implements BlockStore. Each    *)
(* save_block that commits is one BlockStore save (insert_entire_block    *)
(* runs in one transaction, under a number no block holds, and only when  *)
(* the conditional upserts changed every row the block expected), every   *)
(* other step leaves the store as it was, and the latest rows are the     *)
(* serial application of the committed blocks in commit order.            *)
Store == INSTANCE BlockStore
    WITH log <- [i \in DOMAIN committed |->
                   [number |-> committed[i].number, changes |-> committed[i].changes]]

ImplementsBlockStore == Store!Spec

(* Sections 4.4 and 5: the importer processes the upstream blocks        *)
(* strictly in number order, with no skipping, across restarts of the     *)
(* process: the numbers of the blocks it committed are 1..k.               *)
ImportedWithoutGap ==
    LET imported == { committed[i].number : i \in { j \in DOMAIN committed : committed[j].imported } }
    IN  imported = 1..Cardinality(imported)

(* Sections 4.2 and 5: save_block is atomic for readers, so a block that  *)
(* read_block returns comes with its transactions: a block the header      *)
(* query found was read with the transactions the same commit inserted     *)
(* (every block of the model has at least one).                           *)
ReadBlockComplete ==
    (rpc = "returned" /\ ReadBlockResult = "some") => rq["transactions"] = "some"

(* Section 4.2: increment_block_number atomically returns latest + 1, so a *)
(* block the executor has replayed is never refused because another block *)
(* already holds its number.                                               *)
NoBlockNumberCollision ==
    \A w \in Writers : pc[w] # "insertError"

=============================================================================
