\* The two writers of run-with-importer, the importer (w1) and the local
\* mining path (w2), on one account that exists at genesis and one slot:
\* every commit's originals are the values the commits before it left.
CONSTANTS
    a1 = a1
    a2 = a2
    s1 = s1
    w1 = w1
    w2 = w2
    None = None
    Values <- MCValues
    MaxRetries = 1
    Addresses = {a1}
    SlotIndexes = {s1}
    Writers = {w1, w2}
    Importers = {w1}
    Genesis <- GenesisAll
    MaxBlock = 2
SPECIFICATION Spec
INVARIANTS
    TypeOK
    NoLostUpdate
PROPERTIES
    ImplementsBlockStore
