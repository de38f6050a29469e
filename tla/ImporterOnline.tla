--------------------------- MODULE ImporterOnline ---------------------------
(***************************************************************************)
(* The online importer (src/bin/importer_online.rs): a single task on a    *)
(* current_thread runtime that, from the block number the storage has      *)
(* mined, loops forever over                                               *)
(*   number = number.next();                                               *)
(*   fetch_block(number)          -- retried on error and on null;         *)
(*   fetch_receipt(tx) per tx     -- through buffered(RECEIPTS_PARALELLISM)*)
(*                                   and try_collect;                     *)
(*   executor.import_external     -- `?` ends the task on error.          *)
(* The upstream chain is an environment that mines blocks one at a time;  *)
(* its RPC answers with a transport error, with null (not mined yet) or   *)
(* with a payload that may fail to deserialize.                            *)
(***************************************************************************)
EXTENDS Naturals, Sequences, FiniteSets, SequencesExt

CONSTANTS
    MaxBlock,       \* upstream blocks mined in the model
    TxCount,        \* number of transactions of each upstream block
    Parallelism,    \* RECEIPTS_PARALELLISM, the window of buffered()
    Builds          \* the builds checked: TRUE with the `perf` feature, FALSE without

ASSUME /\ MaxBlock \in Nat \ {0}
       /\ TxCount \in [1..MaxBlock -> Nat]
       /\ Parallelism \in Nat \ {0}
       /\ Builds \subseteq BOOLEAN /\ Builds # {}

VARIABLES
    mined,          \* height of the upstream chain
    number,         \* the loop's block number
    pc,             \* "fetchBlock", "receipts", "import", "failed", "exited"
    started,        \* receipt futures buffered() has started (a prefix 1..started)
    done,           \* receipt futures that have completed (their output waits in the queue)
    collected,      \* receipts yielded by the stream to try_collect, in yield order
    imported,       \* history: the block numbers import_external returned Ok for
    perf            \* the binary was built with the `perf` feature

vars == <<mined, number, pc, started, done, collected, imported, perf>>

Txs == TxCount[number]

-----------------------------------------------------------------------------
(* The upstream chain mines its next block.                                *)
UpstreamMines ==
    /\ mined < MaxBlock
    /\ mined' = mined + 1
    /\ UNCHANGED <<number, pc, started, done, collected, imported, perf>>

(* The importer starts from storage.read_current_block_number(), the       *)
(* highest block saved (0 on an empty storage), and the first loop turn    *)
(* moves to the next number.                                               *)
Init ==
    /\ mined = 0
    /\ number = 1
    /\ pc = "fetchBlock"
    /\ started = 0
    /\ done = {}
    /\ collected = << >>
    /\ imported = << >>
    /\ perf \in Builds

(* Variant of the retry that goes back to the top of the main loop, so    *)
(* number.next() runs again.                                               *)
FetchBlockRetryNext ==
    /\ pc = "fetchBlock"
    /\ ~(perf /\ number > mined)
    /\ number' = number + 1
    /\ UNCHANGED <<mined, pc, started, done, collected, imported, perf>>

(* get_block_by_number fails, or answers null for a block not mined yet    *)
(* (without the perf feature): `continue`, the same number is asked again. *)
FetchBlockRetry ==
    /\ pc = "fetchBlock"
    /\ ~(perf /\ number > mined)
    /\ UNCHANGED vars

(* With the perf feature, a null block ends the process: exit(0).          *)
FetchBlockNullExit ==
    /\ pc = "fetchBlock"
    /\ perf /\ number > mined
    /\ pc' = "exited"
    /\ UNCHANGED <<mined, number, started, done, collected, imported, perf>>

(* The block is handed to the receipt stage: `receipts` starts empty.     *)
ToReceipts ==
    /\ pc' = "receipts"
    /\ started' = 0 /\ done' = {} /\ collected' = << >>
    /\ UNCHANGED <<mined, number, imported, perf>>

(* Variant without the is_null() test: a null answer is taken as a block. *)
FetchBlockOkNull == pc = "fetchBlock" /\ number <= MaxBlock /\ ToReceipts

(* Variant that only accepts a block once the next one is mined.         *)
FetchBlockOkBehind == pc = "fetchBlock" /\ number < mined /\ ToReceipts

(* The block is mined and its JSON deserializes: the receipts are fetched. *)
FetchBlockOk == pc = "fetchBlock" /\ number <= mined /\ ToReceipts

(* The JSON does not deserialize: fetch_block returns Err and `?` ends the *)
(* importer.                                                               *)
FetchBlockDeserializeError ==
    /\ pc = "fetchBlock"
    /\ number <= mined
    /\ pc' = "failed"
    /\ UNCHANGED <<mined, number, started, done, collected, imported, perf>>

(* buffered() polls the next receipt future when fewer than Parallelism   *)
(* futures are in its queue; a completed future stays in the queue until   *)
(* it is yielded.                                                          *)
StartReceipt ==
    /\ pc = "receipts"
    /\ started < Txs
    /\ started - Len(collected) < Parallelism
    /\ started' = started + 1
    /\ UNCHANGED <<mined, number, pc, done, collected, imported, perf>>

(* A started fetch_receipt completes, in any order with the others; its    *)
(* own retries on error and on null are internal to the future.           *)
CompleteReceipt ==
    /\ pc = "receipts"
    /\ \E i \in (1..started) \ done : done' = done \cup {i}
    /\ UNCHANGED <<mined, number, pc, started, collected, imported, perf>>

(* The stream yields the output of the oldest future in the queue once it *)
(* has completed, and try_collect pushes it.                              *)
YieldReceipt ==
    /\ pc = "receipts"
    /\ Len(collected) + 1 \in done
    /\ collected' = Append(collected, Len(collected) + 1)
    /\ UNCHANGED <<mined, number, pc, started, done, imported, perf>>

(* The oldest receipt's JSON does not deserialize: try_collect returns the *)
(* Err and `?` ends the importer.                                          *)
YieldReceiptError ==
    /\ pc = "receipts"
    /\ Len(collected) + 1 \in done
    /\ pc' = "failed"
    /\ UNCHANGED <<mined, number, started, done, collected, imported, perf>>

(* Every receipt was yielded: try_collect resolves.                       *)
ReceiptsCollected ==
    /\ pc = "receipts"
    /\ Len(collected) = Txs
    /\ pc' = "import"
    /\ UNCHANGED <<mined, number, started, done, collected, imported, perf>>

(* import_external returns Ok: the loop turns and number = number.next().  *)
ImportOk ==
    /\ pc = "import"
    /\ imported' = Append(imported, number)
    /\ number' = number + 1
    /\ pc' = "fetchBlock"
    /\ UNCHANGED <<mined, started, done, collected, perf>>

(* import_external returns Err (a mismatch, or a Conflict out of retries): *)
(* `?` ends the importer.                                                  *)
ImportError ==
    /\ pc = "import"
    /\ pc' = "failed"
    /\ UNCHANGED <<mined, number, started, done, collected, imported, perf>>

(* The process has ended, or the bounded upstream has nothing more.       *)
Stopped ==
    /\ pc \in {"failed", "exited"} \/ number > MaxBlock
    /\ UNCHANGED vars

Next ==
    \/ UpstreamMines
    \/ FetchBlockRetry
    \/ FetchBlockNullExit
    \/ FetchBlockOk
    \/ FetchBlockDeserializeError
    \/ StartReceipt
    \/ CompleteReceipt
    \/ YieldReceipt
    \/ YieldReceiptError
    \/ ReceiptsCollected
    \/ ImportOk
    \/ ImportError
    \/ Stopped

Spec == Init /\ [][Next]_vars

(* The importer is the only task of its current_thread runtime and every   *)
(* retry is a fresh request, so each of its successful steps, once enabled *)
(* for good, is taken: a mined block is eventually answered and every       *)
(* started receipt future eventually completes (transport errors are not   *)
(* permanent). Errors are possible, never forced; the upstream chain is    *)
(* not required to mine.                                                   *)
FairSpec ==
    /\ Spec
    /\ WF_vars(FetchBlockOk) /\ WF_vars(FetchBlockNullExit)
    /\ WF_vars(StartReceipt) /\ WF_vars(CompleteReceipt) /\ WF_vars(YieldReceipt)
    /\ WF_vars(ReceiptsCollected) /\ WF_vars(ImportOk)

-----------------------------------------------------------------------------
TypeOK ==
    /\ mined \in 0..MaxBlock
    /\ number \in 1..(MaxBlock + 1)
    /\ pc \in {"fetchBlock", "receipts", "import", "failed", "exited"}
    /\ started \in 0..Max(Range(TxCount))
    /\ done \subseteq 1..started
    /\ collected \in Seq(1..started)
    /\ imported \in Seq(1..MaxBlock)
    /\ perf \in BOOLEAN

(* Section 5: within the importer, blocks are processed strictly in number *)
(* order with no skipping, and only blocks the upstream has mined: the      *)
(* retries of fetch_block ask for the same number again.                   *)
ImportedInOrder ==
    /\ \A i \in DOMAIN imported : imported[i] = i
    /\ \A i \in DOMAIN imported : imported[i] <= mined

(* Every block the upstream mines is eventually imported, unless the        *)
(* importer has ended on an error or (perf) on exit(0).                     *)
EveryMinedBlockImported ==
    \A b \in 1..MaxBlock :
        mined >= b ~> (\E i \in DOMAIN imported : imported[i] = b) \/ pc \in {"failed", "exited"}

=============================================================================
