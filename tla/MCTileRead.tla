------------------------------ MODULE MCTileRead ------------------------------
(* An instance of TileRead for TLC, and of the directories in an archive.  *)
EXTENDS TileRead, TLC

CONSTANTS a, b, r1, r2

MCNodes == {a, b}
MCReaders == {r1, r2}
MCTileRank == <<b, a>>
MCSetRank == <<a, b>>

---------------------------------------------------------------------------
Archive == INSTANCE DirectoryWalk WITH
    U64_MAX <- 7, U32_MAX <- 3, MAX_TILE_ID <- 3, max_directory_depth <- 2, max_range_bytes <- 2

Section(offset, length) == [offset |-> offset, length |-> length]
\* In order, and past the end of the integers.
Headers == {[root |-> Section(0, 1), metadata |-> Section(1, 0), leaf |-> Section(1, 2), data |-> Section(offset, 2)]
               : offset \in {3, 6}}
Columns(deltas, runs, lengths, offsets) == [delta: deltas, run: runs, length: lengths, offset: offsets]
Roots == SeqOf(Columns({0, 1, 2}, 0..2, {1}, 0..2), 2) \cup
         SeqOf(Columns({1, 7}, {0, 1, 4}, {1, 3, 4}, {0, 2, 7}), 1) \cup
         {<<x, y, z>> : x \in Columns({0, 1}, {0, 1}, {1}, {1}),
                        y \in Columns({1, 2}, {0, 2}, {1}, {0}), z \in Columns({1}, {1}, {1}, {1})}
\* By offset; most are the same directory under both.
Leaves == {<<x, x>> : x \in SeqOf(Columns({0, 1, 2}, 0..2, {1, 4}, 0..2), 1)}
          \cup {<<<<x>>, <<y>>>> : x \in Columns({1, 2}, {1}, {1}, {1, 2}), y \in Columns({2}, 0..2, {1}, {1, 2})}
HasLeaf(root) == \E i \in DOMAIN root : root[i].run = 0
Archives == {[header |-> h, root |-> root, leaves |-> <<<<>>, <<>>>>] : h \in Headers, root \in Roots}
            \cup {[header |-> h, root |-> root, leaves |-> leaves] :
                      h \in Headers, root \in {x \in Roots : HasLeaf(x)}, leaves \in Leaves}

\* Every read of every small archive, in order or not, finds what the archive addresses
\* and stays within it.
ASSUME ArchivesRead ==
    \A pmtiles \in Archives : \A t \in 0..4 : Archive!FindsAddressed(pmtiles, t) /\ Archive!ReadsInArchive(pmtiles, t)
=============================================================================
