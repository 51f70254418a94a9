SPECIFICATION TileSpec
CONSTANTS
    a = a
    b = b
    r1 = r1
    r2 = r2
    Nodes <- MCNodes
    Readers <- MCReaders
    TileRank <- MCTileRank
    SetRank <- MCSetRank
    candidate_count = 2
    MaxTurns = 1
    NoVal = NoVal
INVARIANTS FlightsSound
PROPERTIES AbsenceNotInvented TileReadsEnd
CHECK_DEADLOCK FALSE
