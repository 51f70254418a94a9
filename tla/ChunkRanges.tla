---------------------------- MODULE ChunkRanges ----------------------------
(* The backend ranges of a set of pending chunks: contiguous_chunk_ranges of    *)
(* crates/ishikari-core/src/storage/chunked_store/coordinator.rs. A range is    *)
(* the set of its chunks.                                                       *)
EXTENDS Integers, FiniteSets, Sequences

CONSTANTS
    max_fetch_chunks,   \* chunks of one backend read
    max_chunk_gap       \* MAX_CHUNK_GAP

\* The chunks in order: the i-th is the one with i - 1 below it.
Sorted(chunks) ==
    [i \in 1..Cardinality(chunks) |->
        CHOOSE k \in chunks : Cardinality({j \in chunks : j < k}) = i - 1]

Longest == IF max_fetch_chunks = 0 THEN 1 ELSE max_fetch_chunks

\* A chunk extends the last range, which ends with its predecessor, across a small gap and up
\* to the longest range; otherwise it starts the next one.
contiguous_chunk_ranges(chunks) ==
    LET sorted == Sorted(chunks)
        ranges[i \in 0..Len(sorted)] ==
            IF i = 0 THEN <<>> ELSE
            LET earlier == ranges[i - 1]
                last == earlier[Len(earlier)]
                chunk == sorted[i]
                start == sorted[i - 1] + 1 - Cardinality(last)
            IN  IF /\ i > 1
                   /\ chunk <= sorted[i - 1] + 1 + max_chunk_gap
                   /\ chunk + 1 - start <= Longest
                THEN [earlier EXCEPT ![Len(earlier)] = start..chunk]
                ELSE Append(earlier, {chunk})
    IN  ranges[Len(sorted)]
=============================================================================
