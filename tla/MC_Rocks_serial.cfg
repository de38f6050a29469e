\* Two writers whose saves may overlap or follow each other, on an account
\* that exists at genesis: when the saves do not overlap, check_conflicts
\* refuses every stale execution (four blocks, so a value can change back and forth).
CONSTANTS
    a1 = a1
    a2 = a2
    s1 = s1
    w1 = w1
    w2 = w2
    None = None
    Values <- MCValues
    MaxRetries = 1
    Batches <- AccountBatches
    Addresses = {a1}
    SlotIndexes = {}
    Writers = {w1, w2}
    Genesis <- GenesisAll
    MaxBlock = 4
SPECIFICATION Spec
SYMMETRY WriterSymmetry
INVARIANTS
    TypeOK
    SerialNoLostUpdate
