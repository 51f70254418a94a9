---------------------------- MODULE MCChunkFetch ----------------------------
(* Instances of ChunkFetch for TLC, with the ranges of ChunkRanges. *)
EXTENDS ChunkFetch, TLC

CONSTANTS max_fetch_chunks, max_chunk_gap

Ranges == INSTANCE ChunkRanges

\* Three chunks that one range may cover, and one apart.
SomeChunks == (1..3) \cup {6}

MCPlan(pending) == Ranges!contiguous_chunk_ranges(pending)

\* contiguous_chunk_ranges partitions the pending chunks into ranges in order, each within
\* the length of a backend read and without a gap that is too wide; and it is greedy: a
\* range takes every chunk it can.
ASSUME RangesSound ==
    \A pending \in SUBSET (1..5) :
        LET ranges == Ranges!contiguous_chunk_ranges(pending)
            own(i) == pending \cap ranges[i]
        IN  /\ pending \subseteq UNION {ranges[i] : i \in 1..Len(ranges)}
            /\ \A i \in 1..Len(ranges) :
                /\ \E first, last \in pending : ranges[i] = first..last
                /\ Cardinality(ranges[i]) <= max_fetch_chunks
                /\ \A k \in ranges[i] : \E j \in own(i) : k \in j..(j + max_chunk_gap)
            /\ \A i \in 1..(Len(ranges) - 1) :
                \A last \in ranges[i], first \in ranges[i + 1] : last < first
            /\ \A i \in 1..(Len(ranges) - 1) : \A k \in own(i + 1) :
                \/ \A j \in ranges[i] : k > j + 1 + max_chunk_gap
                \/ \E j \in ranges[i] : k - j >= max_fetch_chunks

\* A read across the chunk that another one reads, and of a chunk apart.
SomeReads == {{2}, {1, 3, 6}}
=============================================================================
