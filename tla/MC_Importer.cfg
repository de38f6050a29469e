\* Both builds of the importer (with and without the perf feature), three
\* upstream blocks of 3, 0 and 3 transactions through a receipt window of 2.
CONSTANTS
    MaxBlock = 3
    TxCount <- MCTxCount
    Parallelism = 2
    Builds = {FALSE, TRUE}
SPECIFICATION FairSpec
INVARIANTS
    TypeOK
    ImportedInOrder
PROPERTIES
    EveryMinedBlockImported
