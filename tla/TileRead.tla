------------------------------- MODULE TileRead -------------------------------
(***************************************************************************)
(* One tile of one archive, read through a cluster of ishikari nodes.  A   *)
(* reader is a request: its stack holds the frames of the calls it is in,  *)
(* the innermost first, on whatever nodes they run.                        *)
(*   "tile"   ResourceResolver::route_tile on the node asked               *)
(*   "serve"  the internal tile endpoint of a peer                         *)
(*   "boot"   Reader::load_bootstrap: peer first, one flight per archive   *)
(*   "index"  the internal bootstrap endpoint of a peer: local, but in the *)
(*            same flight                                                  *)
(* A node that leads the flight of the archive and asks a peer for the     *)
(* bootstrap may find that peer waiting for a flight of its own.           *)
(***************************************************************************)
EXTENDS Naturals, Sequences, FiniteSets, SequencesExt, RustOption

CONSTANTS Nodes,
          Readers,
          TileRank,          \* the nodes by falling HRW weight for the tile's group
          SetRank,           \* ... and for the whole archive (group 0)
          candidate_count,   \* HrwRouter::candidate_count
          MaxTurns           \* bound: further requests, cancellations, broken
                             \* connections, evictions, expiries, changes of view

ASSUME TileReadAssumption ==
    /\ MaxTurns \in Nat /\ candidate_count \in Nat \ {0}
    /\ NoVal \notin Readers /\ NoVal \notin {"retry", "fatal", "found", "miss", "some", "none", "nothing"}
    /\ \A rank \in {TileRank, SetRank} : rank \in Seq(Nodes) /\ ToSet(rank) = Nodes

VARIABLES published,    \* whether object storage holds the archive, the tile in it
          tile,         \* TileCache: "none", "found" or "absent"
          archive,      \* ArchiveCache::archives
          absent,       \* ArchiveCache::absent
          flight,       \* Reader::bootstrap_inflight: NoVal or the leading reader
          backoff,      \* PeerBackend::retryable_failures
          routable,     \* the peers each node routes over; itself until it drains
          stack, ret,   \* of each reader: its frames, and the value the innermost is handed
          heard,        \* what the flight a reader follows has told it
          turns

tileVars == <<published, tile, archive, absent, flight, backoff, routable, stack, ret, heard, turns>>

Errors == {"retry", "fatal"}
Values == Errors \cup {"found", "miss", "some", "none"}
Ops == {"tile", "serve", "boot", "index"}
Remote == {"serve", "index"}           \* run for a caller on another node
Loading == {"route", "try", "probe"}    \* a frame that leads a flight
Phases == Loading \cup {"start", "header", "boot", "read", "begin", "wait"}
Frames == [op: Ops, node: Nodes, at: Phases, todo: SeqOf(Nodes, candidate_count)]

Frame(op, n) == [op |-> op, node |-> n, at |-> "start", todo |-> << >>]

TileTypeOK ==
    /\ published \in BOOLEAN /\ turns \in 0..MaxTurns
    /\ tile \in [Nodes -> {"none", "found", "absent"}]
    /\ archive \in [Nodes -> BOOLEAN] /\ absent \in [Nodes -> BOOLEAN]
    /\ flight \in [Nodes -> {NoVal} \cup Readers]
    /\ backoff \in [Nodes -> SUBSET (Nodes \X {"tile", "bootstrap"})]
    /\ routable \in [Nodes -> SUBSET Nodes]
    /\ \A r \in Readers : \A i \in DOMAIN stack[r] : stack[r][i] \in Frames
    /\ ret \in [Readers -> {NoVal} \cup Values]
    /\ heard \in [Readers -> {NoVal, "nothing"} \cup Errors]

TileInit ==
    /\ published \in BOOLEAN /\ turns = 0
    /\ tile = [n \in Nodes |-> "none"]
    /\ archive = [n \in Nodes |-> FALSE] /\ absent = [n \in Nodes |-> FALSE]
    /\ flight = [n \in Nodes |-> NoVal] /\ backoff = [n \in Nodes |-> {}]
    /\ routable = [n \in Nodes |-> Nodes]
    /\ \E asked \in [Readers -> Nodes] : stack = [r \in Readers |-> <<Frame("tile", asked[r])>>]
    /\ ret = [r \in Readers |-> NoVal]
    /\ heard = [r \in Readers |-> NoVal]

Top(r) == Head(stack[r])
Runs(r, ops, phase) == stack[r] # << >> /\ Top(r).op \in ops /\ Top(r).at = phase /\ ret[r] = NoVal
Handed(r, ops, phase) == stack[r] # << >> /\ Top(r).op \in ops /\ Top(r).at = phase /\ ret[r] # NoVal

GotoPhase(r, phase) ==
    stack' = [stack EXCEPT ![r] = <<[Top(r) EXCEPT !.at = phase, !.todo = << >>]>> \o Tail(@)]
Call(r, phase, todo, op, n) ==
    stack' = [stack EXCEPT ![r] = <<Frame(op, n), [Top(r) EXCEPT !.at = phase, !.todo = todo]>>
                                  \o Tail(@)]

\* What an answer is once it has crossed the internal HTTP API: every error is a 5xx, and
\* every 5xx is retryable.
Crossed(v) == IF v \in Errors THEN "retry" ELSE v

\* The answer to the client leaves with the request.
Return(r, v) ==
    /\ stack' = [stack EXCEPT ![r] = Tail(@)]
    /\ ret' = [ret EXCEPT ![r] = IF Len(stack[r]) = 1 THEN NoVal
                                 ELSE IF Top(r).op \in Remote THEN Crossed(v) ELSE v]

Consumed(r) == ret' = [ret EXCEPT ![r] = NoVal]

\* The leader's guard is dropped: the key is freed, and those who follow are told of the
\* error, or of nothing.
Landed(ns, outcome) ==
    /\ flight' = [n \in Nodes |-> IF n \in ns THEN NoVal ELSE flight[n]]
    /\ heard' = [r \in Readers |->
           IF /\ stack[r] # << >> /\ Top(r).at = "wait" /\ Top(r).node \in ns /\ heard[r] = NoVal
           THEN outcome ELSE heard[r]]

(***************************************************************************)
(* Routing: the highest ranked of the peers in view that are not backed    *)
(* off for the resource.                                                   *)
(***************************************************************************)
route_group(rank, peers) ==
    LET seen == {i \in DOMAIN rank : rank[i] \in peers}
        place(i) == Cardinality({j \in seen : j <= i})
        taken == IF Cardinality(seen) < candidate_count THEN Cardinality(seen) ELSE candidate_count
    IN  [k \in 1..taken |-> rank[CHOOSE i \in seen : place(i) = k]]

available_peers(n, resource) == {p \in routable[n] : <<p, resource>> \notin backoff[n]}

route_with_backoff(n, resource) ==
    route_group(IF resource = "tile" THEN TileRank ELSE SetRank, available_peers(n, resource))

\* fetch_from_peer, once the answer is there.
NoteFailure(n, peer, resource, v) ==
    backoff' = [backoff EXCEPT ![n] = IF v = "retry" THEN @ \cup {<<peer, resource>>}
                                                     ELSE @ \ {<<peer, resource>>}]

(***************************************************************************)
(* route_tile and load_tile_by_id_with_source.                             *)
(***************************************************************************)
Ask(r, n) ==
    /\ stack[r] = << >>
    /\ turns < MaxTurns /\ turns' = turns + 1
    /\ stack' = [stack EXCEPT ![r] = <<Frame("tile", n)>>]
    /\ UNCHANGED <<published, tile, archive, absent, flight, backoff, routable, ret, heard>>

\* load_local_tile begins with the archive.
LoadLocal(r) == Call(r, "boot", << >>, "boot", Top(r).node)

\* The candidate to ask next, or this node itself: when it is its own candidate and when the
\* candidates have run out.
TryTile(r, todo) ==
    IF todo = << >> \/ Head(todo) = Top(r).node THEN LoadLocal(r)
    ELSE Call(r, "try", todo, "serve", Head(todo))

LookTile(r) ==
    /\ Runs(r, {"tile", "serve"}, "start")
    /\ LET n == Top(r).node IN
       \/ tile[n] = "found" /\ Return(r, "found")
       \/ tile[n] = "absent" /\ Return(r, "miss")
       \/ /\ tile[n] = "none"
          /\ IF Top(r).op = "tile" THEN GotoPhase(r, "route") ELSE LoadLocal(r)
          /\ UNCHANGED ret
    /\ UNCHANGED <<published, tile, archive, absent, flight, backoff, routable, heard, turns>>

RouteTile(r) ==
    /\ Runs(r, {"tile"}, "route")
    /\ TryTile(r, route_with_backoff(Top(r).node, "tile"))
    /\ UNCHANGED <<published, tile, archive, absent, flight, backoff, routable, ret, heard, turns>>

\* Faulty: a peer that failed is taken for one that has looked.
PeerTile_failure_is_a_miss(r) ==
    /\ Handed(r, {"tile"}, "try")
    /\ tile' = [tile EXCEPT ![Top(r).node] = IF ret[r] = "found" THEN @ ELSE "absent"]
    /\ NoteFailure(Top(r).node, Head(Top(r).todo), "tile", ret[r])
    /\ IF ret[r] = "found" THEN Call(r, "header", Top(r).todo, "boot", Top(r).node) /\ Consumed(r)
                           ELSE Return(r, "miss")
    /\ UNCHANGED <<published, archive, absent, flight, routable, heard, turns>>

\* The peer's tile still needs the archive's header, which is loaded here.
PeerTile(r) ==
    /\ Handed(r, {"tile"}, "try")
    /\ NoteFailure(Top(r).node, Head(Top(r).todo), "tile", ret[r])
    /\ \/ /\ ret[r] = "found" /\ Call(r, "header", Top(r).todo, "boot", Top(r).node)
          /\ Consumed(r) /\ UNCHANGED tile
       \/ /\ ret[r] = "miss" /\ Return(r, "miss")
          /\ tile' = [tile EXCEPT ![Top(r).node] = "absent"]
       \/ ret[r] = "retry" /\ TryTile(r, Tail(Top(r).todo)) /\ Consumed(r) /\ UNCHANGED tile
       \/ ret[r] = "fatal" /\ Return(r, "fatal") /\ UNCHANGED tile
    /\ UNCHANGED <<published, archive, absent, flight, routable, heard, turns>>

Header(r) ==
    /\ Handed(r, {"tile"}, "header")
    /\ \/ /\ ret[r] = "some" /\ Return(r, "found")
          /\ tile' = [tile EXCEPT ![Top(r).node] = "found"]
       \/ ret[r] \in {"none", "retry"} /\ TryTile(r, Tail(Top(r).todo)) /\ Consumed(r) /\ UNCHANGED tile
       \/ ret[r] = "fatal" /\ Return(r, "fatal") /\ UNCHANGED tile
    /\ UNCHANGED <<published, archive, absent, flight, backoff, routable, heard, turns>>

Booted(r) ==
    /\ Handed(r, {"tile", "serve"}, "boot")
    /\ \/ ret[r] = "some" /\ GotoPhase(r, "read") /\ Consumed(r) /\ UNCHANGED tile
       \/ /\ ret[r] = "none" /\ Return(r, "miss")
          /\ tile' = [tile EXCEPT ![Top(r).node] = "absent"]
       \/ ret[r] \in Errors /\ Return(r, ret[r]) /\ UNCHANGED tile
    /\ UNCHANGED <<published, archive, absent, flight, backoff, routable, heard, turns>>

\* Leaf directories and the tile's bytes come from the chunk store, or fail.
ReadTile(r) ==
    /\ Runs(r, {"tile", "serve"}, "read")
    /\ \/ /\ Return(r, "found")
          /\ tile' = [tile EXCEPT ![Top(r).node] = "found"]
       \/ Return(r, "retry") /\ UNCHANGED tile
    /\ UNCHANGED <<published, archive, absent, flight, backoff, routable, heard, turns>>

(***************************************************************************)
(* load_bootstrap and load_bootstrap_local.                                *)
(***************************************************************************)
LookArchive(r) ==
    /\ Runs(r, {"boot", "index"}, "start")
    /\ LET n == Top(r).node IN
       \/ archive[n] /\ Return(r, "some")
       \/ ~archive[n] /\ absent[n] /\ Return(r, "none")
       \/ ~archive[n] /\ ~absent[n] /\ GotoPhase(r, "begin") /\ UNCHANGED ret
    /\ UNCHANGED <<published, tile, archive, absent, flight, backoff, routable, heard, turns>>

\* Only "boot" goes to peers; "index" must answer from here.
BeginBootstrap(r) ==
    /\ Runs(r, {"boot", "index"}, "begin")
    /\ LET n == Top(r).node IN
       \/ /\ flight[n] = NoVal /\ flight' = [flight EXCEPT ![n] = r]
          /\ GotoPhase(r, IF Top(r).op = "boot" THEN "route" ELSE "probe")
          /\ UNCHANGED heard
       \/ /\ flight[n] # NoVal /\ GotoPhase(r, "wait")
          /\ heard' = [heard EXCEPT ![r] = NoVal] /\ UNCHANGED flight
    /\ UNCHANGED <<published, tile, archive, absent, backoff, routable, ret, turns>>

Followed(r) ==
    /\ Runs(r, {"boot", "index"}, "wait") /\ heard[r] # NoVal
    /\ \/ heard[r] = "nothing" /\ GotoPhase(r, "start") /\ UNCHANGED ret
       \/ heard[r] \in Errors /\ Return(r, heard[r])
    /\ heard' = [heard EXCEPT ![r] = NoVal]
    /\ UNCHANGED <<published, tile, archive, absent, flight, backoff, routable, turns>>

\* Faulty: a node asks every other candidate before it takes its own turn.
TryBootstrap_skips_itself(r, todo) ==
    LET others == SelectSeq(todo, LAMBDA n : n # Top(r).node) IN
    IF others = << >> THEN GotoPhase(r, "probe") ELSE Call(r, "try", others, "index", Head(others))

TryBootstrap(r, todo) ==
    IF todo = << >> \/ Head(todo) = Top(r).node THEN GotoPhase(r, "probe")
    ELSE Call(r, "try", todo, "index", Head(todo))

RouteBootstrap(r) ==
    /\ Runs(r, {"boot"}, "route")
    /\ TryBootstrap(r, route_with_backoff(Top(r).node, "bootstrap"))
    /\ UNCHANGED <<published, tile, archive, absent, flight, backoff, routable, ret, heard, turns>>

\* ArchiveCache::put clears the absence entry.
PutArchive(n) ==
    /\ archive' = [archive EXCEPT ![n] = TRUE]
    /\ absent' = [absent EXCEPT ![n] = FALSE]

\* Faulty: a flight that failed keeps its key.
Finish_keeps_failed(r, v) ==
    /\ Landed(IF v \in Errors THEN {} ELSE {Top(r).node}, "nothing")
    /\ Return(r, v)

\* complete_reader_flight: only an error is passed on; anything else is in the cache.
Finish(r, v) ==
    /\ Landed({Top(r).node}, IF v \in Errors THEN v ELSE "nothing")
    /\ Return(r, v)

\* A peer's "not found" and its hard failures send the leader to object storage.
PeerBootstrap(r) ==
    /\ Handed(r, {"boot"}, "try")
    /\ NoteFailure(Top(r).node, Head(Top(r).todo), "bootstrap", ret[r])
    /\ \/ ret[r] = "some" /\ PutArchive(Top(r).node) /\ Finish(r, "some")
       \/ /\ ret[r] \in {"none", "fatal"} /\ GotoPhase(r, "probe") /\ Consumed(r)
          /\ UNCHANGED <<archive, absent, flight, heard>>
       \/ /\ ret[r] = "retry" /\ TryBootstrap(r, Tail(Top(r).todo)) /\ Consumed(r)
          /\ UNCHANGED <<archive, absent, flight, heard>>
    /\ UNCHANGED <<published, tile, routable, turns>>

\* The header is read from object storage, ...
Probe(r) ==
    /\ Runs(r, {"boot", "index"}, "probe")
    /\ \/ published /\ PutArchive(Top(r).node) /\ Finish(r, "some")
       \/ /\ ~published /\ ret' = [ret EXCEPT ![r] = "none"]
          /\ UNCHANGED <<stack, flight, heard, archive, absent>>
       \/ \E v \in Errors : Finish(r, v) /\ UNCHANGED <<archive, absent>>
    /\ UNCHANGED <<published, tile, backoff, routable, turns>>

\* ... whose "not found" is noted when it arrives.
MarkAbsent(r) ==
    /\ Handed(r, {"boot", "index"}, "probe")
    /\ absent' = [absent EXCEPT ![Top(r).node] = TRUE]
    /\ Finish(r, "none")
    /\ UNCHANGED <<published, tile, archive, backoff, routable, turns>>

(***************************************************************************)
(* What goes wrong: calls between nodes, requests that are dropped, caches *)
(* that forget, views that change.                                         *)
(***************************************************************************)
LedIn(frames) == {frames[i].node : i \in {j \in DOMAIN frames :
                      frames[j].op \in {"boot", "index"} /\ frames[j].at \in Loading}}

\* The innermost k frames are dropped, and with them the guards of the flights they lead.
DropFrames(r, k) ==
    /\ Landed(LedIn(SubSeq(stack[r], 1, k)), "nothing")
    /\ stack' = [stack EXCEPT ![r] = SubSeq(@, k + 1, Len(@))]

\* A call to a peer is refused or times out.
TimesOut(r) ==
    /\ \E k \in DOMAIN stack[r] : stack[r][k].op \in Remote /\ DropFrames(r, k)
    /\ ret' = [ret EXCEPT ![r] = "retry"]
    /\ UNCHANGED <<published, tile, archive, absent, backoff, routable, turns>>

\* ... or its connection breaks.
BreaksOff(r) ==
    /\ turns < MaxTurns /\ turns' = turns + 1
    /\ \E k \in DOMAIN stack[r] : stack[r][k].op \in Remote /\ DropFrames(r, k)
    /\ ret' = [ret EXCEPT ![r] = "fatal"]
    /\ UNCHANGED <<published, tile, archive, absent, backoff, routable>>

\* The client goes away.
CancelRead(r) ==
    /\ stack[r] # << >>
    /\ turns < MaxTurns /\ turns' = turns + 1
    /\ DropFrames(r, Len(stack[r]))
    /\ Consumed(r)
    /\ UNCHANGED <<published, tile, archive, absent, backoff, routable>>

Publish ==
    /\ ~published /\ published' = TRUE
    /\ turns < MaxTurns /\ turns' = turns + 1
    /\ UNCHANGED <<tile, archive, absent, flight, backoff, routable, stack, ret, heard>>

\* Capacity evicts anything; negative entries expire as well.
Forget(n) ==
    /\ turns < MaxTurns /\ turns' = turns + 1
    /\ \/ tile[n] # "none" /\ tile' = [tile EXCEPT ![n] = "none"] /\ UNCHANGED <<archive, absent>>
       \/ archive[n] /\ archive' = [archive EXCEPT ![n] = FALSE] /\ UNCHANGED <<tile, absent>>
       \/ absent[n] /\ absent' = [absent EXCEPT ![n] = FALSE] /\ UNCHANGED <<tile, archive>>
    /\ UNCHANGED <<published, flight, backoff, routable, stack, ret, heard>>

\* PEER_RETRY_BACKOFF passes.
BackoffEnds(n) ==
    /\ turns < MaxTurns /\ turns' = turns + 1
    /\ \E entry \in backoff[n] : backoff' = [backoff EXCEPT ![n] = @ \ {entry}]
    /\ UNCHANGED <<published, tile, archive, absent, flight, routable, stack, ret, heard>>

\* A node sees another come or go, or drains and no longer sees itself.
ViewChanges(n) ==
    /\ turns < MaxTurns /\ turns' = turns + 1
    /\ \/ \E p \in Nodes \ {n} : routable' = [routable EXCEPT ![n] = SymDiff(@, {p})]
       \/ n \in routable[n] /\ routable' = [routable EXCEPT ![n] = @ \ {n}]
    /\ UNCHANGED <<published, tile, archive, absent, flight, backoff, stack, ret, heard>>

ReaderStep(r) ==
    \/ LookTile(r) \/ RouteTile(r) \/ PeerTile(r) \/ Header(r)
    \/ Booted(r) \/ ReadTile(r)
    \/ LookArchive(r) \/ BeginBootstrap(r) \/ Followed(r) \/ RouteBootstrap(r)
    \/ PeerBootstrap(r) \/ Probe(r) \/ MarkAbsent(r)

TileNext ==
    \/ \E r \in Readers :
           ReaderStep(r) \/ TimesOut(r) \/ BreaksOff(r) \/ CancelRead(r) \/ \E n \in Nodes : Ask(r, n)
    \/ \E n \in Nodes : Forget(n) \/ BackoffEnds(n) \/ ViewChanges(n)
    \/ Publish

\* Tasks keep running, object storage answers or fails (the reads carry deadlines of their
\* own), and no call to a peer outlives internal_peer_request_timeout.
TileSpec ==
    /\ TileInit /\ [][TileNext]_tileVars
    /\ \A r \in Readers : WF_tileVars(ReaderStep(r)) /\ WF_tileVars(TimesOut(r))

(***************************************************************************)
(* Properties.                                                             *)
(***************************************************************************)
Follows(r, n) == stack[r] # << >> /\ Top(r).at = "wait" /\ Top(r).node = n /\ heard[r] = NoVal

\* The archive flight of each node is led by exactly one frame, of the reader on record, and
\* whoever waits for it waits for a flight that exists: a leader that failed, timed out at its
\* peer or was dropped never leaves the key behind (reader.rs:479, singleflight.rs:98).
FlightsLed ==
    \A n \in Nodes :
        /\ \A r \in Readers : Follows(r, n) => flight[n] # NoVal
        /\ flight[n] # NoVal => n \in LedIn(stack[flight[n]])
        /\ \A r \in Readers : n \in LedIn(stack[r]) => flight[n] = r

\* The leader of m's flight waits for the flight of n: it asked n for the bootstrap, and n
\* follows a flight of its own.
WaitsFor(m, n) ==
    /\ flight[m] # NoVal /\ Len(stack[flight[m]]) > 1
    /\ stack[flight[m]][2].node = m /\ Follows(flight[m], n)

\* While every node still sees itself, no two flights wait for each other: a node asks only
\* the nodes that rank above it, on every view and with any peers backed off, because it stops
\* at itself in its own candidates (peer.rs:775).  Otherwise both would sit out the timeout.
WaitsAcyclic ==
    (\A n \in Nodes : n \in routable[n]) =>
        \A m, n \in Nodes : WaitsFor(m, n) => ~WaitsFor(n, m)

\* Flights are led and followed rightly, and never wait for each other in a circle.
FlightsSound == FlightsLed /\ WaitsAcyclic

NoAbsence ==
    /\ \A n \in Nodes : tile[n] # "absent" /\ ~absent[n]
    /\ \A r \in Readers : ret[r] \notin {"miss", "none"}

\* Once the archive is published and no node or answer still says otherwise, no failure of a
\* peer, of object storage or of a call, and no change of view, makes a node take the tile for
\* absent (resolver.rs:364, specs/ishikari-spec.md:86).
AbsenceNotInvented == [][published /\ NoAbsence => NoAbsence']_tileVars

\* Every request ends, on whatever views and with any of the calls failing: flights that wait
\* for each other while nodes drain are broken by the timeout, and a follower whose leader is
\* dropped is elected or served.
TileReadsEnd == \A r \in Readers : stack[r] # << >> ~> stack[r] = << >>
=============================================================================
