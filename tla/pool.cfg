\* Two pairs of items, a pool of five blocks of two bytes.
CONSTANTS
    c1 = c1
    f1 = f1
    c2 = c2
    f2 = f2
    Item <- MCItem
    partner <- MCpartner
    Blocks = 5
    BLOCKSIZE = 2
    kChunkSize = 3
    Sizes = {2, 3}
    Threads = 2
SPECIFICATION Spec
SYMMETRY MCSymmetry
INVARIANTS BuffersOwned HeapTiled NodesKept
PROPERTIES HandsOutRuns
