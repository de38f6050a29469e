\* Two writers, one account that exists at genesis (a1) and one that does
\* not (a2): two overlapping saves can both pass check_conflicts, and
\* check_conflicts skips an account absent from the accounts column.
CONSTANTS
    a1 = a1
    a2 = a2
    s1 = s1
    w1 = w1
    w2 = w2
    None = None
    Values <- MCValues
    MaxRetries = 1
    Batches <- AccountBatches
    Addresses = {a1, a2}
    SlotIndexes = {}
    Writers = {w1, w2}
    Genesis <- GenesisOne
    MaxBlock = 2
SPECIFICATION Spec
SYMMETRY WriterSymmetry
INVARIANTS
    NoLostUpdate
