# TLA+ models of stratus

This directory holds TLA+ specifications of the stratus EVM node in `src/`. TLC
checks them. Each module models one component of the code. An `MC_*` module and
its `.cfg` files instantiate that module for TLC with small constants.
`PROJECT.json` lists three things:

* every component, and whether it is modelled;
* every run, with its module, cfg, properties and expected outcome;
* for every definition, the source lines it translates (the map).

It also lists the mutants, the findings and the hazards.

## 1. The system and how its parts interact

| Part | Source | State | Operations |
|---|---|---|---|
| Online importer (binary) | `src/src/bin/importer_online.rs` | the next block number (a local variable) | loop: `fetch_block` (retries on error or null), receipts via `buffered(10)`, `executor.import_external`, advance |
| Run-with-importer (binary) | `src/src/bin/run_with_importer.rs` | none | spawns the JSON-RPC server and the importer on one runtime and `try_join!`s them |
| Relayer (binary) | `src/src/bin/relayer.rs` | none | loop: shutdown check, `relay_next_block`, retry at once on error, sleep `backoff` on None |
| Executor | not in `src/` (specification section 4.1) | none | replays a block against the Present state, then `save_block`; on `Conflict`, retries a bounded number of times |
| Embedded permanent storage | `src/src/eth/storage/rocks/rocks_permanent.rs` (with `rocks_state`, which is not in `src/`) | `AtomicU64 block_number`; column families for latest accounts and slots, account and slot history, and blocks by number and by hash | `increment_block_number`, `set_mined_block_number`, `save_accounts`, `check_conflicts` and `save_block`, `reset_at`, reads at Present or Past(n) |
| SQL permanent storage | `src/src/eth/storage/postgres_permanent/postgres_permanent.rs` (its `.sql` files are not in `src/`) | tables of blocks, accounts, slots and history | `increment_block_number` (SELECT, then +1 in Rust), `save_block` (one transaction that checks modified-row counts), `save_accounts` (one transaction per account), `reset_at` (four statements), reads |
| Transaction DAG | `src/src/eth/relayer/transaction_dag.rs` | a `StableDag` of the block's transactions | `new` (slot and balance conflict edges), `take_roots` |
| Consensus | `src/src/eth/consensus.rs`, `consensus/forward_to.rs` | node name, leader name, an mpsc channel of 32 | `new` (standalone or leader/follower), `is_leader`, `append_entries` (3 attempts, 10 ms apart), `append_entries_to_followers` |
| Primitives | `src/src/eth/primitives/block_number.rs`, `block_header.rs` | — | `BlockNumber::prev`, `next_block_number`, `count_to`, `hash`; `BlockHeader::new` (hash and parent hash) |
| Configuration, tracing | `src/src/config.rs`, `src/src/infra/tracing.rs` | — | parse flags and environment variables, build runtimes, install subscribers |

The storage engine is the only shared mutable resource. Two programs can write
blocks to it at the same time:

* the importer;
* the executor behind `eth_sendRawTransaction`, in run-with-importer.

The executor reads the Present state, so every change it makes carries the
`original` value it read. The storage refuses a block whose originals are
stale. This is optimistic concurrency: the embedded engine does the check in
`check_conflicts`; the SQL engine compares the counts of modified rows.

The relayer reads saved blocks and splits each block into waves with the
transaction DAG. It forwards each wave in parallel.

## 2. Modules and how they correspond to the code

### `TransactionDag` (transaction_dag.rs, complete)

* **State.**
  * `block` is the input of `new`, as a function from transaction index to the changes the DAG reads.
  * `dag` is the StableDag, as a `Graphs` record `[node, edge]`.
  * `waves` holds the `Some(roots)` returned so far.
  * `done` means `None` has been returned.
* **Helpers.**
  * `ModifiedSlots`, `ModifiedBalances`, `SlotConflicts` and `BalanceConflicts` build the two HashMaps of lines 37-57.
  * `ConflictEdges` is the double loop over the sorted map, with `skip(i + 1)`.
* **Actions.** `take_roots` has two outcomes, and each is an action: `TakeRootsSome` and `TakeRootsNone`.
* **Reference definition.** `Depth` is the reference. It is written from the edge rule of specification section 4.3 as a recursive function, not from the code. It gives the wave each transaction must land in.

### `RocksPermanentStorage` (rocks_permanent.rs, with the executor as writers)

* **State.**
  * `db` is a record with one field per column family.
  * `blockNumber` is the `AtomicU64`.
  * Per writer: `pc`, `number`, `changes`, `pending` (the spawned writes not yet run) and `retries`.
  * History variables for the properties: `returned` (the blocks already saved when the writer's check ran), `midSave` (another save was writing while the writer executed or checked) and `saved` (the blocks whose `save_block` returned, in order).
* **Actions.**
  * `IncrementBlockNumber` is `fetch_add`.
  * `Execute` is the executor's replay against Present. It is modelled from the specification: every original is the value read, and every modified value is None or a new value.
  * `SaveBlockConflict` is `check_conflicts` returning conflicts. The executor then retries, up to `MaxRetries`.
  * `SaveBlockSpawn` is the check passing and the tasks being spawned.
  * `WriteBatch(w, b)` is one spawned task running. The tasks run in any order, and the other writer can run in between.
  * `SaveBlockReturn` is `join_all` completing.
  * `WriteBatchFails` (used only in `SpecUnguardedWrites`) is a task that fails. Its result is dropped by `join_all`.
  * `SetMinedBlockNumber` (used only in `SpecUnguardedWrites`) is the unconditional store.
  * `Terminated` is the final stutter of the model: every writer is idle with the numbers used up, or has failed. It models no code.
* **Reads.** `ReadAccountPast` and `ReadSlotPast` are `Past(n)` reads: the history row with the largest number `<= n`.
* **What is left out.** The transaction and log indexes are left out, and so are bytecode and the TPS counter, because no property reads them. The column families a run follows are the constant `Batches`.

### `PostgresPermanentStorage` (postgres_permanent.rs, with the two writers of run-with-importer)

* **State.**
  * `blocks` is the set of block numbers with a row in the blocks table.
  * `accounts` holds the latest nonce and balance of each account, or None.
  * `slots` holds the latest value of each slot, or None.
  * Per writer: `pc`, `number`, `changes` and `retries`.
  * `committed` is a history variable: the committed blocks in commit order, each marked with whether an importer saved it.
* **Writers.** The constant `Importers` says which writers are online importers; the others are the JSON-RPC server's local mining path.
  * An importer numbers blocks with its own loop counter (`NextImportNumber`), then executes.
  * A miner executes first (`MineTransaction`, `Execute`), then asks `increment_block_number` for the number.
* **Actions.**
  * `IncrementBlockNumber` is the SELECT of the current number plus one. `IncrementBlockNumberQueryError` is the `unwrap_or_else` path, which hands out 1.
  * `save_block` is one database transaction, so each of its outcomes is one step:
    * `SaveBlockInsertError`: the block row already exists, and `?` returns the error.
    * `SaveBlockAccountConflict` and `SaveBlockSlotConflict`: the counts of rows changed by the conditional upserts differ from the counts expected, and the transaction rolls back.
    * `SaveBlockCommit`: both counts match.
  * The upserts' conditions (`AccountUpserted`, `SlotUpserted`) come from the SQL files, which are not in `src/`. They are modelled from specification section 4.2.
  * `ImporterRestart` and `ImporterRestartQueryError` are the importer process started again after its `?` ended it. It resumes after `read_mined_block_number`, which returns 0 on a failed select.
  * `ReturnError` is the JSON-RPC server answering a failed request and serving the next one.
* **The reader.** A JSON-RPC client calls `read_block`.
  * It chooses a selection: by number, by hash (which names a block number), the earliest block, or the latest one (`ReadBlockLatest`, after `read_mined_block_number`).
  * Its four queries (header, transactions, logs and topics) are joined by `tokio::join!`. Each runs as its own statement on its own pool connection, so each is a separate step (`ReadBlockQuery`, `ReadBlockQueryFails`).
  * `ReadBlockResult` is the order in which the code inspects the four results.
  * `ReadAccountPresent` and `ReadSlotPresent` are the Present reads the executor makes before it executes.
* **Refinement.** `BlockStore` is the abstract contract of `save_block` (sections 4.2, 5 and 8.6), with no storage engine. A block is saved in one step, under a number no saved block holds, and only when every value it modifies was read as the current one. The latest accounts and slots then hold the block's new values, and `log` records the saves in order. `ImplementsBlockStore` instantiates it with `log` mapped to the committed blocks (number and changes), and `blocks`, `accounts` and `slots` taken as they are. It is checked as a `PROPERTY` of `pg_writers`.
* **Specifications.** `Spec` includes the query-error paths. `SpecReliableSelect` leaves them out, so that the number race shows on its own. `SpecWithReader` adds the reader. It is used only by the run about the reader: the reader changes no shared state, so the writer runs leave it out.

### `ImporterOnline` (importer_online.rs)

* **State.**
  * `mined` is the upstream chain's height. The upstream is an environment that mines one block at a time.
  * `number` and `pc` are the loop's state.
  * `started`, `done` and `collected` are `buffered(RECEIPTS_PARALELLISM)`: the futures started, those completed, and the outputs yielded in order to `try_collect`.
  * `imported` is a history variable.
* **Actions.**
  * `fetch_block` has four outcomes, each an action:
    * `FetchBlockRetry`: an error or a null answer, followed by `continue`.
    * `FetchBlockNullExit`: the perf build's `exit(0)` on a null answer.
    * `FetchBlockOk`.
    * `FetchBlockDeserializeError`: the error is fatal through `?`.
  * The receipt stream is `StartReceipt`, `CompleteReceipt` (in any order), `YieldReceipt` (in order), `YieldReceiptError` and `ReceiptsCollected`.
  * `ImportOk` and `ImportError` are the outcomes of `import_external`.

### `Consensus` (consensus.rs, the leader's replication task)

* **State.**
  * `chan` is the mpsc channel, with its capacity.
  * `task` is the spawned task's position: discovering, `recv`, connecting a client, or making an attempt.
  * `order` is the followers found by the single discovery, in listing order. A discovery may find any subset of the pods.
  * `cur`, `fi` and `attempt` are the loop variables of `append_entries_to_followers` and `append_entries`.
  * `logs` holds what each follower appended.
  * `calls` counts the calls per string and follower.
* **Actions.**
  * A call can have three outcomes: `AttemptOk`, `AttemptLost` (the request was lost, so the follower appended nothing), and `AttemptResponseLost` (the follower appended, but the caller sees an error).
* **Duplicates.** A call whose response was lost is retried with the same `Entry { index: 0 }`, so the follower appends the string twice. Section 9 leaves the consensus a placeholder and promises no idempotency, so the model does not claim that a follower appends each string once. No property is stated against the duplicate: the code allows it, and `FollowerOrder` holds with it.
  * `Init` chooses between the two branches of `Consensus::new`. Without a hostname or a leader name, the node runs `new_stand_alone`, whose task only receives and logs (`ReceiveStandalone`). Otherwise the replication task starts with discovery.
  * `AfterFailure` is the sleep and the next attempt, or giving up after `RETRY_ATTEMPTS`.
  * `DiscoverFollowersFails` is the `.expect` panic. After it, `SendClosed` is a send that fails at once.
  * `Send(d)` is a caller of `sender.send(d).await`, which waits while the channel is full. No caller of the sender is in `src/`, so each string is sent once by a caller of its own.

## 3. Runs

| Run | Expect | What it shows |
|---|---|---|
| `dag_waves` | pass | `take_roots` behaves correctly on all of these: every block of up to 3 transactions over 2 addresses and 1 slot, with the change kinds unchanged, modified, read-only and created (blocks of 2 only for the last two), and the three blocks of the unit tests (cases A, B, C). Conflicting transactions come out in block order (`ConflictOrder`). Each transaction comes out in the earliest wave its conflicts allow (`WavesAreDepthLayers`). The loop ends with every transaction handed out (`AllForwarded`). |
| `rocks_single` | pass | One writer creates an account and a slot over 3 blocks. Once `save_block` returns, Past(n) reads the post-image and Past(n-1) reads the pre-image (section 8.1). |
| `rocks_serial` | pass | Two writers, 4 blocks, one account that exists at genesis. When the `save_block` calls do not overlap, every execution that read a value another block has since changed is refused. A value may change back (A-B-A), and the property allows that. |
| `rocks_lost_update` | violation | `NoLostUpdate` fails in two ways. Two overlapping saves both pass `check_conflicts` before either one writes; this is the counterexample TLC prints. Or two executions both found the account absent and are both saved, even though the saves do not overlap: `check_conflicts` skips None originals. `rocks_serial` starts with every account at genesis, so this second cause is shown only by this run; no run checks `SerialNoLostUpdate` with an account absent at genesis. |
| `rocks_reader_atomicity` | violation | `BlockVisibleAtomically`: a reader runs between two spawned writes. |
| `rocks_unguarded_writes` | violation | `PointInTimeReads` fails in two ways. A failed spawned write is ignored and `save_block` still returns Ok. Or a lowered counter reissues a saved block number. The counterexample TLC prints is the first; without `WriteBatchFails`, the second is found instead. |
| `pg_writers` | pass | The importer and the local mining path, on one account and one slot over two blocks, with query errors and restarts. Every committed block read exactly the values the blocks committed before it left (`NoLostUpdate`). The count check of `save_block` refuses every stale execution. The SQL storage implements the abstract `BlockStore` under the refinement mapping (`ImplementsBlockStore`). |
| `pg_number_collision` | violation | `NoBlockNumberCollision` fails in two ways. Two local mining requests select the same current number, and the second insert fails. Or a failed select hands out block 1 again, even to a single writer. `SpecReliableSelect` leaves out the second cause and still fails through the first. |
| `pg_importer_skip` | violation | `ImportedWithoutGap`: the miner takes the number the importer is importing. The importer's save fails, and the restarted importer resumes after that block, so it never imports the upstream block with that number. |
| `pg_read_block` | violation | `ReadBlockComplete`: a client reads block n by number while the miner commits it. The transactions query runs before the commit and the header query after it, so `read_block` returns the block without its transactions. |
| `importer` | pass | Both builds, with and without the perf feature (the variable `perf`, chosen in `Init`). Three upstream blocks with 3, 0 and 3 transactions, through a receipt window of 2. Blocks are imported in order, without skipping, and only once mined (`ImportedInOrder`). Every mined block is eventually imported unless the importer ended on an error (`EveryMinedBlockImported`). |
| `consensus_replication` | pass | One follower, four strings, a channel of 2 and three attempts over a lossy network. The follower appends in send order (`FollowerOrder`). A discovered follower misses a string only after all its calls failed, or when its client could not be created (`MissedOnlyAfterRetries`). Every string is eventually finished with, unless discovery panicked before anything was replicated (`EveryStringFinished`); a panic at any later point would be caught. While the task retries one string, two more fill the channel and a fourth caller waits in `send()`; that caller is eventually let through (`SendersProceed`), which a client call that never returns would break. |

`NoLostUpdate` states optimistic concurrency without naming the check. Take the
saved blocks in the order their `save_block` returned. Every value a block
modifies must have been read as the value the blocks before it left. This is
the "chain" (`UpdatesChained`). `SerialNoLostUpdate` requires the same only
when the saves never overlapped.

Every property of a passing run has a mutant in `PROJECT.json`. A mutant is a
plausible bug in the mapped code, and TLC finds the property violated when that
bug is present.

## 4. Bounds

* **Values.** Values are `{0, 1}`. That is enough to tell an original from a new value and to let a value change back.
* **Blocks.** Two writers on four blocks give each writer two saves, so every order of check, write and return happens. Three blocks are enough for A-B-A.
* **Slots.** One address and one slot are created and then changed in `rocks_single`.
* **Column families.** The conflict runs follow only the two account column families, because the conflict properties read nothing else.
* **Symmetry.** The two Rocks writers are symmetric (`WriterSymmetry`). No property names a writer. The SQL writers are not symmetric, because one is the importer.
* **SQL storage.** Two blocks are enough for every outcome of `save_block`. The miner executes, the importer commits block 1, and the miner then takes block 2 with stale originals. With three blocks the run takes minutes and shows nothing new.
* **Importer.** A receipt window of 2 under blocks of 3 transactions makes the window fill and lets completions overtake each other. The empty block exercises a `try_collect` of nothing.
* **Consensus.** The code's `RETRY_ATTEMPTS` of 3 is kept. A channel of 2 lets two strings wait, so their order matters, and a fourth string makes its caller wait on the full channel while the task retries the first. One follower is enough for every property, which speaks of each follower on its own: with two followers and four strings the state space passes 30 million states.

## 5. Fairness

* `TransactionDag` has weak fairness on `Next`. The relayer calls `take_roots` in a plain loop with nothing in between.
* The storage specifications have no fairness. They check only safety properties.
* `ImporterOnline` has weak fairness on each successful step of the importer: the block fetch, the receipt futures, the yield, the collect and the import. The importer is the only task of its current_thread runtime. Each retry is a new request, so an answer that can come does come. Transport errors are not permanent: that is an assumption about the environment, and the code's retry-forever relies on it. Error steps are not fair, because an error is possible but never forced. The upstream chain is not required to mine.
* `Consensus` has weak fairness on the task's steps as a whole, and on each caller's send. Every call ends, with Ok or with an error: `append_entries` creates its client with `new_http_ws(follower, None)`, and the model assumes that `BlockchainClient`, which is not in `src/`, then applies a default timeout. A caller blocked in `send().await` is woken when the channel has room or the receiver is dropped, as tokio's mpsc does.
* **Deadlock.** Deadlock is checked in every run except `dag_waves`. The storage specifications end in the `Terminated` stutter, so a writer stuck in `join` is reported as a deadlock. The DAG run ends when `take_roots` has returned None, which is where the relayer's loop really stops. The consensus runs do not check deadlock either: once nothing more is sent, the task waits in `recv()` for good.

## 6. Not modelled, and why

* **Configuration and tracing.** These are pure I/O and parsing.
* **JSON-RPC server and RPC client.** They are not in `src/`.
* **Reads of blocks, logs and transactions.** These are pure reads of `rocks_state`, which is not in `src/`.
* **Rocks `reset_at` and `clear`.** Nothing in `src/` calls them.
* **SQL `reset_at`, `set_mined_block_number`, `read_mined_transaction`, `read_logs` and `read_slots_sample`.** `reset_at` has no caller in `src/`, and `set_mined_block_number` does nothing. The other three are single queries that change no state. `read_block` is modelled, including its four unsynchronised queries, but the contents of the transaction, log and topic rows are not.
* **The `unwrap` of the Earliest branch of `read_block`** (line 424). The other selections use `unwrap_or_default` here, so a block 0 holding a transaction without logs would make only this branch panic. No code in `src/` saves block 0: `increment_block_number` hands out the highest number plus one, and the importer starts after `read_mined_block_number`. The Earliest branch therefore always finds no header and returns `None` first. The model answers it the same way, and the panic is not listed as a hazard of this code.
* **Consensus roles.** `is_leader`, `is_follower`, `get_chain_url` and the standalone task are pure functions of the configuration, or only log.
* **The relayer binary.** It is a loop around `ExternalRelayer`, which is not in `src/`.
* **SQL Past reads and `save_accounts`.** The Past reads go through SQL files that are not in the sources (see the plan). `save_accounts` commits one transaction per account and has no caller in `src/`, so the model starts from its completed result.
* **The primitives.** `BlockNumber` and `BlockHeader` are pure value conversions with no state. Outside its tests, nothing calls `BlockHeader::new`, the only user of `prev()` and of the parent-hash link. Nothing at all calls `count_to`, `next_block_number` or `as_i64`. The conversions that do run (`to_be_bytes` for Rocks keys, and `TryFrom<BigDecimal>` in `increment_block_number`) fail only past `u64::MAX`, which no storage run approaches. A run of their own would be needed, and all 12 runs ask questions of the stateful components.
* **Database faults inside `save_block`.** A failed `?` (begin, insert on a broken connection, commit), and a commit that the server applied but never acknowledged, are outcomes the code meets at line 722. With them, the two-writer SQL run grows from 0.6 to more than 5 million states, past its time bound. The model therefore keeps every commit acknowledged, and the hazard is listed without a property.
* **Header hashes.** `BlockHeader::new` links block n to `(n-1).hash()`, while an imported block keeps the upstream's hash (`TryFrom<&ExternalBlock>`). `BlockHeader::new` is called only by its tests, though: the mining path that would build local headers is not in `src/`. The storage models therefore reduce a block row to its number.
* **The transactions-per-second counter** of the Rocks `save_block`. It only drives a printed report and its own reset; no state the storage serves depends on it. Its load-then-add race is listed as a hazard.
* **The `run_with_importer` binary.** It refers to `importer_online::run_importer_online`, but `importer_online.rs` only defines `main`, so the binary as it is in `src/` does not build. The two-writer runs model the concurrency the binary is meant to create.

## 7. Plan

Done so far:

* the transaction DAG;
* the embedded storage;
* the SQL storage with its two writers and the `read_block` reader;
* the online importer;
* the consensus replication task;
* the refinement of `BlockStore` by the SQL storage;
* the unit-test blocks of `transaction_dag.rs`, translated into `MC_TransactionDag` (`TestTx`, `TestBlock`, `CaseA` to `CaseC`).

The project has 12 runs. A new question needs a run that asks a broader one, or two that ask the same one, merged into one.

Still to do, in order of importance:

1. **The primitives.** `BlockNumber` arithmetic at the width limits (`count_to`, `to_be_bytes`, `TryFrom<BigDecimal>`), and the parent-hash chain of `BlockHeader::new` (section 8.3). These would be operators checked against reference definitions (the big-endian value, lexicographic key order and `Cardinality(s..h)`) over a small width, such as 4 bytes of 2 bits. They need a run of their own: no storage run reaches numbers near the width limit.
2. **SQL history.** The SQL Past reads go through `select_account_at_block.sql` and `select_slot_at_block.sql`, which are not in the sources. How they combine the separate nonce and balance history rows (an account created by a block that changes only its nonce has no balance row) cannot be read from the code.
3. **The relayer loop.** Modelled from the specification (`ExternalRelayer`), composed with the transaction DAG. It also needs a run of its own.
4. **The Rocks `reset_at`** (section 8.7). It has no caller in `src/`.
