\* One writer (the importer-online binary) creating an account and a slot
\* and changing them over three blocks: point-in-time reads after every
\* save.
CONSTANTS
    a1 = a1
    a2 = a2
    s1 = s1
    w1 = w1
    w2 = w2
    None = None
    Addresses = {a2}
    SlotIndexes = {s1}
    Values <- MCValues
    Writers = {w1}
    Genesis <- GenesisOne
    MaxBlock = 3
    MaxRetries = 1
    Batches <- AllBatches
SPECIFICATION Spec
INVARIANTS
    PointInTimeReads
