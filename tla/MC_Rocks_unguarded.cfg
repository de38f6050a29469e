\* One writer whose spawned column family writes may fail (join_all ignores
\* the task results) and calls of set_mined_block_number with any number
\* (a lowered counter hands out a block number that is already saved).
CONSTANTS
    a1 = a1
    a2 = a2
    s1 = s1
    w1 = w1
    w2 = w2
    None = None
    Values <- MCValues
    MaxRetries = 1
    Batches <- AccountBatches
    Addresses = {a2}
    SlotIndexes = {}
    Writers = {w1}
    Genesis <- GenesisOne
    MaxBlock = 2
SPECIFICATION SpecUnguardedWrites
INVARIANTS
    PointInTimeReads
