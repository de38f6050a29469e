\* The importer (w1) and the local mining path (w2) of run-with-importer:
\* the restarted importer resumes after the highest block saved.
CONSTANTS
    a1 = a1
    a2 = a2
    s1 = s1
    w1 = w1
    w2 = w2
    None = None
    Values <- MCValues
    MaxRetries = 1
    Genesis <- GenesisAll
    Addresses = {a1}
    SlotIndexes = {}
    Writers = {w1, w2}
    Importers = {w1}
    MaxBlock = 2
SPECIFICATION SpecReliableSelect
INVARIANT ImportedWithoutGap
