CONSTANTS
    a1 = a1
    a2 = a2
    s1 = s1
    None = None
    Blocks <- MCBlocks
SPECIFICATION Spec
INVARIANTS
    TypeOK
    ConflictOrder
    WavesAreDepthLayers
PROPERTIES
    AllForwarded
CHECK_DEADLOCK FALSE
