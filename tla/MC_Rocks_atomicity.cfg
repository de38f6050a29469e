\* One writer: a reader between two of the spawned column family writes.
CONSTANTS
    a1 = a1
    a2 = a2
    s1 = s1
    w1 = w1
    w2 = w2
    None = None
    Values <- MCValues
    MaxRetries = 1
    Batches <- AllBatches
    Addresses = {a2}
    SlotIndexes = {}
    Writers = {w1}
    Genesis <- GenesisOne
    MaxBlock = 1
SPECIFICATION Spec
INVARIANTS
    BlockVisibleAtomically
