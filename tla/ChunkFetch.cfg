SPECIFICATION FairSpec
CONSTANTS
    Callers = {c1, c2}
    Chunks <- SomeChunks
    Reads <- SomeReads
    Plan <- MCPlan
    max_fetch_chunks = 3
    max_chunk_gap = 1
    MAX_CONCURRENT_FETCHES_PER_TILESET = 2
INVARIANTS SlotsAccounted NobodyStranded
PROPERTY ReadsEnd
