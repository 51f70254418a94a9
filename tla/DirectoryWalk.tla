---------------------------- MODULE DirectoryWalk ----------------------------
(***************************************************************************)
(* Where a tile lies in a PMTiles archive: Directory::parse_with_limit,    *)
(* find_tile_id, DirectoryWalker and the loop of                           *)
(* ArchiveReader::resolve_tile_location over them.  An archive is what its *)
(* bytes hold once decompressed and split into varints: the sections of    *)
(* its header, an encoded root directory and encoded leaves by offset, a   *)
(* directory being a sequence of [delta, run, length, offset].  Anything   *)
(* may stand in them.                                                      *)
(***************************************************************************)
EXTENDS Integers, SequencesExt, RustOption

CONSTANTS U64_MAX, U32_MAX,      \* integer limits, scaled down
          MAX_TILE_ID,
          max_directory_depth,   \* ReaderLimits
          max_range_bytes

---------------------------------------------------------------------------
(* Decoding.  Invalid is an error: checked arithmetic, or a column that    *)
(* does not fit.                                                           *)

Invalid == NoVal

checked_add(x, y) == IF x = NoVal \/ x + y > U64_MAX THEN NoVal ELSE x + y

\* Tile ids are deltas; an offset of zero continues where the previous entry ends.
Decoded(before, col) ==
    LET previous == Last(before)
        id == checked_add(IF before = << >> THEN 0 ELSE previous.tile_id, col.delta)
        offset == IF col.offset > 0 THEN col.offset - 1
                  ELSE IF before = << >> THEN NoVal
                  ELSE checked_add(previous.offset, previous.length)
    IN  IF id = NoVal \/ offset = NoVal \/ col.run > U32_MAX \/ col.length > U32_MAX THEN Invalid
        ELSE Append(before, [tile_id |-> id, run_length |-> col.run, length |-> col.length, offset |-> offset])

parse_with_limit(cols) == FoldLeft(LAMBDA dir, col : IF dir = Invalid THEN dir ELSE Decoded(dir, col), << >>, cols)

---------------------------------------------------------------------------
(* Looking up.                                                             *)

is_leaf(e) == e.run_length = 0

\* binary_search_by finds an equal id, any if there are several, or the place
\* of the first greater one; the entry before that place may reach as far.
find_tile_id(dir, t) ==
    LET equal == {i \in DOMAIN dir : dir[i].tile_id = t}
        below == {i \in DOMAIN dir : dir[i].tile_id < t}
    IN  IF equal # {} THEN {dir[i] : i \in equal}
        ELSE {dir[i] : i \in {j \in below : /\ \A k \in below : k <= j
                                            /\ is_leaf(dir[j]) \/ t - dir[j].tile_id < dir[j].run_length}}

SectionEnd(section) == checked_add(section.offset, section.length)
archive_len(header) ==
    LET ends == {SectionEnd(header[s]) : s \in DOMAIN header}
    IN  IF NoVal \in ends THEN NoVal ELSE Max(ends)

checked_section_offset(section, e) ==
    LET end == checked_add(e.offset, e.length)
    IN  IF end = NoVal \/ end > section.length THEN NoVal ELSE checked_add(section.offset, e.offset)

\* get_tile and the walk both refuse what is too long to read.
check_range(offset, length) == length <= max_range_bytes /\ checked_add(offset, length) # NoVal

---------------------------------------------------------------------------
(* resolve_tile_location, and get_tile up to its read.  An outcome has the *)
(* ranges that were read on the way, with their sections.                  *)

ArchiveRange(section, header, e) ==
    [section |-> section, offset |-> checked_section_offset(header[section], e), length |-> e.length]
Readable(range) == range.offset # NoVal /\ check_range(range.offset, range.length)
Outcome(kind, reads) == [kind |-> kind, reads |-> reads]

\* The loop, from the decoded directory it is at.
RECURSIVE Walk(_, _, _, _, _)
Walk(archive, dir, t, depth, reads) ==
    LET entries == find_tile_id(dir, t)
        range(e) == ArchiveRange(IF is_leaf(e) THEN "leaf" ELSE "data", archive.header, e)
        from(e) ==
            IF (is_leaf(e) /\ depth >= max_directory_depth) \/ ~Readable(range(e)) THEN {Outcome("invalid", reads)}
            ELSE IF ~is_leaf(e) THEN {Outcome("tile", Append(reads, range(e)))}
            ELSE LET leaf == parse_with_limit(archive.leaves[range(e).offset])
                 IN  IF leaf = Invalid THEN {Outcome("invalid", Append(reads, range(e)))}
                     ELSE Walk(archive, leaf, t, depth + 1, Append(reads, range(e)))
    IN  IF entries = {} THEN {Outcome("missing", reads)} ELSE UNION {from(e) : e \in entries}

\* TileId::new, the bootstrap and DirectoryWalker::new come before the walk.
get_tile(archive, t) ==
    LET root == parse_with_limit(archive.root)
    IN  IF t > MAX_TILE_ID \/ root = Invalid \/ archive_len(archive.header) = NoVal
        THEN {Outcome("invalid", <<>>)}
        ELSE Walk(archive, root, t, 0, <<>>)

---------------------------------------------------------------------------
(* The reference: what an archive addresses, of directories in order.      *)

\* Ids rise, no run reaches the next entry, and everything lies in its section and is readable.
InOrder(header, dir) ==
    /\ dir # Invalid
    /\ \A i \in DOMAIN dir :
          /\ i > 1 => dir[i - 1].tile_id < dir[i].tile_id /\ dir[i - 1].tile_id + dir[i - 1].run_length <= dir[i].tile_id
          /\ dir[i].length <= max_range_bytes
          /\ dir[i].offset + dir[i].length <= header[IF is_leaf(dir[i]) THEN "leaf" ELSE "data"].length

\* A leaf holds ids from its own entry's to the next entry's, and no further leaf.
LeafOf(archive, e) == parse_with_limit(archive.leaves[archive.header["leaf"].offset + e.offset])
Covers(archive, dir, i) ==
    LET leaf == LeafOf(archive, dir[i])
    IN  /\ InOrder(archive.header, leaf)
        /\ \A e \in ToSet(leaf) :
              /\ ~is_leaf(e) /\ e.tile_id >= dir[i].tile_id
              /\ i < Len(dir) => e.tile_id + e.run_length <= dir[i + 1].tile_id

InOrderArchive(archive) ==
    LET dir == parse_with_limit(archive.root)
    IN  /\ archive_len(archive.header) # NoVal /\ InOrder(archive.header, dir)
        /\ \A i \in DOMAIN dir : is_leaf(dir[i]) => Covers(archive, dir, i)

\* The entries that address the tile, in whatever directory.
Addressing(archive, t) ==
    LET dir == ToSet(parse_with_limit(archive.root))
        all == dir \cup UNION {ToSet(LeafOf(archive, e)) : e \in {f \in dir : is_leaf(f)}}
    IN  {e \in all : e.run_length > 0 /\ t \in e.tile_id .. e.tile_id + e.run_length - 1}

\* In an archive that is in order a read ends with the bytes of the one entry that
\* addresses the tile, through runs and leaves, or finds the tile
\* missing when none does.
FindsAddressed(archive, t) ==
    t <= MAX_TILE_ID /\ InOrderArchive(archive) =>
        LET addressing == Addressing(archive, t)
        IN  \A o \in get_tile(archive, t) :
                IF addressing = {} THEN o.kind = "missing"
                ELSE /\ o.kind = "tile"
                     /\ \E e \in addressing : /\ Last(o.reads).offset = archive.header["data"].offset + e.offset
                                              /\ Last(o.reads).length = e.length

\* Whatever the archive says of itself, leaves that name themselves included, a read
\* takes no more leaves than the depth allows, and each range it reads lies within the
\* section it was found for, and within the archive.
ReadsInArchive(archive, t) ==
    \A o \in get_tile(archive, t) :
        /\ Len(SelectSeq(o.reads, LAMBDA range : range.section = "leaf")) <= max_directory_depth
        /\ \A i \in DOMAIN o.reads :
              LET range == o.reads[i]
                  section == archive.header[range.section]
              IN  /\ range.offset >= section.offset
                  /\ range.offset + range.length <= section.offset + section.length
                  /\ range.offset + range.length <= archive_len(archive.header)
=============================================================================
