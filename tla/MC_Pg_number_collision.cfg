\* Two local mining requests, with the select of increment_block_number
\* allowed to fail: the number handed out is one already saved, either
\* because both requests selected the same current number or because a
\* failed select counted from 0.
CONSTANTS
    a1 = a1
    a2 = a2
    s1 = s1
    w1 = w1
    w2 = w2
    None = None
    Values <- MCValues
    MaxRetries = 1
    Genesis <- GenesisAll
    Addresses = {a1}
    SlotIndexes = {}
    Writers = {w1, w2}
    Importers = {}
    MaxBlock = 2
SPECIFICATION Spec
INVARIANT NoBlockNumberCollision
