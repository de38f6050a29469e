\* One local mining request and one JSON-RPC client reading blocks: the
\* four queries of read_block run as separate statements while the block
\* commits.
CONSTANTS
    a1 = a1
    a2 = a2
    s1 = s1
    w1 = w1
    w2 = w2
    None = None
    Values <- MCValues
    MaxRetries = 1
    Genesis <- GenesisAll
    Addresses = {a1}
    SlotIndexes = {}
    Writers = {w1}
    Importers = {}
    MaxBlock = 2
SPECIFICATION SpecWithReader
INVARIANT ReadBlockComplete
