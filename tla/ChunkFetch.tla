----------------------------- MODULE ChunkFetch -----------------------------
(***************************************************************************)
(* The shared chunk fetches of one tileset: ChunkFetchCoordinator of       *)
(* crates/ishikari-core/src/storage/chunked_store/coordinator.rs.          *)
(*                                                                         *)
(* A read registers a waiter for each chunk it lacks; a scheduler task,    *)
(* started when there is none, moves pending chunks into groups; a group   *)
(* is a task that fetches one range and releases its waiters. All of it    *)
(* changes under one lock, with awaits in between; reads are dropped and   *)
(* group tasks are lost at any time.                                       *)
(*                                                                         *)
(* A sender whose read is gone is left out: pruning, completion and        *)
(* removal treat it like none, and nothing else asks.                      *)
(*                                                                         *)
(* An entry of tileset_states that is removed is a fresh one when it comes *)
(* back: its variables are those of Init. All tilesets compete for the     *)
(* backend permits, so that a reservation succeeds or fails at any time.   *)
(* The merge window is a delay only.                                       *)
(***************************************************************************)
EXTENDS Integers, FiniteSets, Sequences

CONSTANTS
    Callers,                                \* reads
    Chunks,
    Reads,                                  \* the sets of chunks a read may lack
    Plan(_),                                \* the ranges of a set of pending chunks
    MAX_CONCURRENT_FETCHES_PER_TILESET

\* What the coordinator needs of its plan: it consists of ranges, and the first of them has
\* pending chunks.
ASSUME PlanAssumption ==
    \A pending \in SUBSET Chunks :
        /\ Plan(pending) \in Seq((SUBSET Chunks) \ {{}})
        /\ pending # {} => Plan(pending) # <<>> /\ Head(Plan(pending)) \cap pending # {}
ASSUME FetchAssumption ==
    /\ Reads \subseteq (SUBSET Chunks) \ {{}}
    /\ MAX_CONCURRENT_FETCHES_PER_TILESET \in Nat \ {0}

VARIABLES
    channel,                \* read -> chunk -> the oneshot it awaits: none, open, ok, err, dropped
    pending_chunks,
    inflight_chunks,
    waiters,                \* chunk -> reads with a sender registered
    scheduler_running,
    inflight_fetch_count,
    capacity_available,     \* a stored permit of the Notify
    scheduler,              \* its task: none, pass, throttled, reserve
    selected,               \* the groups it has still to start
    group                   \* task -> its range, empty when it does not run

vars == <<channel, pending_chunks, inflight_chunks, waiters, scheduler_running,
          inflight_fetch_count, capacity_available, scheduler, selected, group>>

Groups == 1..MAX_CONCURRENT_FETCHES_PER_TILESET
Running == {g \in Groups : group[g] # {}}

Init ==
    /\ channel = [c \in Callers |-> [k \in Chunks |-> "none"]]
    /\ pending_chunks = {} /\ inflight_chunks = {}
    /\ waiters = [k \in Chunks |-> {}]
    /\ scheduler_running = FALSE
    /\ inflight_fetch_count = 0
    /\ capacity_available = FALSE
    /\ scheduler = "none"
    /\ selected = <<>>
    /\ group = [g \in Groups |-> {}]

-----------------------------------------------------------------------------
(* fetch_chunks                                                            *)

Idle(c) == \A k \in Chunks : channel[c][k] = "none"

\* enqueue_chunks: the chunks that are not being fetched are queued.
queued(required) == required \ inflight_chunks

starts_scheduler(pending) == ~scheduler_running /\ pending # {}

\* A read registers for its missing chunks and queues those that are not being fetched; it
\* starts the scheduler if there is work and none runs.
Request(c, required) ==
    LET pending == pending_chunks \cup queued(required) IN
    /\ Idle(c)
    /\ channel' = [channel EXCEPT ![c] = [k \in Chunks |-> IF k \in required THEN "open" ELSE "none"]]
    /\ waiters' = [k \in Chunks |-> IF k \in required THEN waiters[k] \cup {c} ELSE waiters[k]]
    /\ pending_chunks' = pending
    /\ IF starts_scheduler(pending)
       THEN scheduler_running' = TRUE /\ scheduler' = "pass"
       ELSE UNCHANGED <<scheduler_running, scheduler>>
    /\ UNCHANGED <<inflight_chunks, inflight_fetch_count, capacity_available, selected, group>>

Close(c) ==
    /\ channel' = [channel EXCEPT ![c] = [k \in Chunks |-> "none"]]
    /\ waiters' = [k \in Chunks |-> waiters[k] \ {c}]
    /\ UNCHANGED <<pending_chunks, inflight_chunks, scheduler_running,
                   inflight_fetch_count, capacity_available, scheduler, selected, group>>

\* The read awaits its chunks in order and ends with all of them, or at the first error.
ReadEnds(c) ==
    /\ ~Idle(c)
    /\ \/ \A k \in Chunks : channel[c][k] \in {"none", "ok"}
       \/ \E k \in Chunks : /\ channel[c][k] \in {"err", "dropped"}
                            /\ \A j \in Chunks : j < k => channel[c][j] \in {"none", "ok"}
    /\ Close(c)

\* The read's future is dropped.
Cancel(c) == ~Idle(c) /\ Close(c)

-----------------------------------------------------------------------------
(* The lifecycle of the tileset's state                                    *)

\* Faulty: a state whose scheduler has stopped goes, groups or not.
is_drainable_without_count(running, pending, count) == ~running /\ pending = {}

is_drainable(running, pending, count) == ~running /\ pending = {} /\ count = 0

\* The rest of a critical section that leaves these values: remove_drainable_state drops
\* the waiters of a state it removes.
Settle(running, pending, inflight, senders, count, permit, channels) ==
    IF is_drainable(running, pending, count)
    THEN /\ pending_chunks' = {} /\ inflight_chunks' = {}
         /\ waiters' = [k \in Chunks |-> {}]
         /\ scheduler_running' = FALSE
         /\ inflight_fetch_count' = 0
         /\ capacity_available' = FALSE
         /\ channel' = [c \in Callers |-> [k \in Chunks |->
                IF c \in senders[k] THEN "dropped" ELSE channels[c][k]]]
    ELSE /\ pending_chunks' = pending /\ inflight_chunks' = inflight
         /\ waiters' = senders
         /\ scheduler_running' = running
         /\ inflight_fetch_count' = count
         /\ capacity_available' = permit
         /\ channel' = channels

\* Faulty: the freed slot is noticed only when it was not the last one.
needs_capacity_after(count, pending) ==
    count - 1 >= MAX_CONCURRENT_FETCHES_PER_TILESET /\ pending # {}

needs_capacity(count, pending) ==
    count >= MAX_CONCURRENT_FETCHES_PER_TILESET /\ pending # {}

\* complete_group, under the lock: the slot is free, the waiters of its chunks get the result.
Complete(chunks, result) ==
    Settle(scheduler_running, pending_chunks, inflight_chunks \ chunks,
           [k \in Chunks |-> IF k \in chunks THEN {} ELSE waiters[k]],
           IF inflight_fetch_count = 0 THEN 0 ELSE inflight_fetch_count - 1,
           capacity_available \/ needs_capacity(inflight_fetch_count, pending_chunks),
           [c \in Callers |-> [k \in Chunks |->
                IF k \in chunks /\ c \in waiters[k] THEN result ELSE channel[c][k]]])

-----------------------------------------------------------------------------
(* run_scheduler                                                           *)

\* prune_cancelled_waiters: pending chunks without a live waiter are unscheduled.
Pruned == {k \in pending_chunks : waiters[k] # {}}

Available == MAX_CONCURRENT_FETCHES_PER_TILESET - inflight_fetch_count

\* select_dispatch_groups: as many of the ranges as there are free slots.
Selected ==
    LET ranges == Plan(Pruned) IN
    SubSeq(ranges, 1, IF Len(ranges) < Available THEN Len(ranges) ELSE Available)

Covered(groups) == UNION {groups[i] : i \in 1..Len(groups)}

\* A pass that finds nothing pending stops the scheduler.
Stop ==
    /\ scheduler = "pass" /\ Pruned = {}
    /\ scheduler' = "none"
    /\ Settle(FALSE, {}, inflight_chunks, waiters, inflight_fetch_count, capacity_available, channel)
    /\ UNCHANGED <<selected, group>>

\* Without a free slot it waits for one.
Throttle ==
    /\ scheduler = "pass" /\ Pruned # {} /\ Available <= 0
    /\ scheduler' = "throttled"
    /\ pending_chunks' = Pruned
    /\ UNCHANGED <<channel, waiters, inflight_chunks, scheduler_running, inflight_fetch_count,
                   capacity_available, selected, group>>

\* Otherwise the selected ranges, gaps included, are being fetched from now on.
Dispatch ==
    LET batch == Selected IN
    /\ scheduler = "pass" /\ Pruned # {} /\ Available > 0
    /\ scheduler' = "reserve"
    /\ selected' = batch
    /\ inflight_chunks' = inflight_chunks \cup Covered(batch)
    /\ pending_chunks' = Pruned \ Covered(batch)
    /\ inflight_fetch_count' = inflight_fetch_count + Len(batch)
    /\ UNCHANGED <<channel, waiters, scheduler_running, capacity_available, group>>

\* notified() takes the permit, and the next pass comes at once.
TakeCapacity ==
    /\ scheduler = "throttled" /\ capacity_available
    /\ scheduler' = "pass"
    /\ capacity_available' = FALSE
    /\ UNCHANGED <<channel, pending_chunks, inflight_chunks, waiters, scheduler_running,
                   inflight_fetch_count, selected, group>>

\* A group is spawned with a backend permit, as the free task of the lowest number ...
Spawn ==
    /\ scheduler = "reserve" /\ selected # <<>>
    /\ \E g \in Groups \ Running :
        /\ \A h \in Groups \ Running : g <= h
        /\ group' = [group EXCEPT ![g] = Head(selected)]
    /\ selected' = Tail(selected)
    /\ UNCHANGED <<channel, pending_chunks, inflight_chunks, waiters, scheduler_running,
                   inflight_fetch_count, capacity_available, scheduler>>

\* Faulty: a group that gets no permit is skipped.
Shed_forgets ==
    /\ scheduler = "reserve" /\ selected # <<>>
    /\ selected' = Tail(selected)
    /\ UNCHANGED <<channel, pending_chunks, inflight_chunks, waiters, scheduler_running,
                   inflight_fetch_count, capacity_available, scheduler, group>>

\* ... or shed without one.
Shed ==
    /\ scheduler = "reserve" /\ selected # <<>>
    /\ Complete(Head(selected), "err")
    /\ selected' = Tail(selected)
    /\ UNCHANGED <<scheduler, group>>

\* After the last group the scheduler sleeps for the merge window and passes again.
NextPass ==
    /\ scheduler = "reserve" /\ selected = <<>>
    /\ scheduler' = "pass"
    /\ UNCHANGED <<channel, pending_chunks, inflight_chunks, waiters, scheduler_running,
                   inflight_fetch_count, capacity_available, selected, group>>

-----------------------------------------------------------------------------
(* Groups                                                                  *)

\* run_fetch_chunk_group: the fetch succeeds or fails. When the task panics or is aborted,
\* GroupCompletionGuard has a task of its own do the same, with the result if there was one.
GroupEnds(g) ==
    /\ g \in Running
    /\ \E result \in {"ok", "err"} : Complete(group[g], result)
    /\ group' = [group EXCEPT ![g] = {}]
    /\ UNCHANGED <<scheduler, selected>>

-----------------------------------------------------------------------------
Schedule == Stop \/ Throttle \/ Dispatch \/ TakeCapacity \/ Spawn \/ Shed \/ NextPass

Next ==
    \/ \E c \in Callers : \/ \E required \in Reads : Request(c, required)
                          \/ ReadEnds(c) \/ Cancel(c)
    \/ Schedule
    \/ \E g \in Groups : GroupEnds(g)

Spec == Init /\ [][Next]_vars

\* The scheduler's task goes on, a fetch ends (it has a timeout) and a read takes what it has
\* got. Nobody has to cancel.
FairSpec == /\ Spec
            /\ WF_vars(Schedule)
            /\ \A g \in Groups : WF_vars(GroupEnds(g))
            /\ \A c \in Callers : WF_vars(ReadEnds(c))

-----------------------------------------------------------------------------
(* Properties                                                              *)

Active == {group[g] : g \in Running} \cup {selected[i] : i \in 1..Len(selected)}

\* Every variable has its type; the scheduler's task and its flag agree.
TypeOK ==
    /\ channel \in [Callers -> [Chunks -> {"none", "open", "ok", "err", "dropped"}]]
    /\ pending_chunks \in SUBSET Chunks /\ inflight_chunks \in SUBSET Chunks
    /\ waiters \in [Chunks -> SUBSET Callers]
    /\ scheduler_running \in BOOLEAN /\ capacity_available \in BOOLEAN
    /\ inflight_fetch_count \in 0..MAX_CONCURRENT_FETCHES_PER_TILESET
    /\ scheduler \in {"none", "pass", "throttled", "reserve"}
    /\ selected \in Seq((SUBSET Chunks) \ {{}}) /\ (selected # <<>> => scheduler = "reserve")
    /\ group \in [Groups -> SUBSET Chunks]
    /\ scheduler_running <=> scheduler # "none"

\* The slots of the tileset that are counted as taken are those of groups that run or are
\* about to, however groups end, are shed or are lost: none leaks, and none is freed twice.
CountExact == inflight_fetch_count = Cardinality(Running) + Len(selected)

\* Nobody waits in vain: the chunk a read waits for is queued with a scheduler to take it,
\* or belongs to a group that is still to release it, and no sender is dropped with the
\* state it is registered in. Groups overlap where a gap was bridged, and either may end
\* first.
NobodyStranded ==
    \A c \in Callers, k \in Chunks :
        /\ channel[c][k] # "dropped"
        /\ channel[c][k] = "open" =>
            /\ c \in waiters[k]
            /\ (k \in pending_chunks /\ scheduler_running) \/ (\E chunks \in Active : k \in chunks)

\* A throttled scheduler has a free slot to come: its permit is stored, or every slot is
\* taken by a group whose end will store it.
ThrottleEnds ==
    scheduler = "throttled" =>
        \/ capacity_available
        \/ inflight_fetch_count = MAX_CONCURRENT_FETCHES_PER_TILESET /\ pending_chunks # {}

\* The tileset's slots are accounted for: each one taken has a group to give it back, and a
\* scheduler that waits for one is told.
SlotsAccounted == CountExact /\ ThrottleEnds

NewRead == \E c \in Callers : Idle(c) /\ ~Idle(c)'

\* Once no new reads come, every read ends, without relying on being cancelled: no wake-up is
\* lost between Throttle and complete_group. While all slots are taken and reads of lower
\* chunks keep coming, a read of a higher one may wait, since the ranges are taken in order.
ReadsEnd == <>[][~NewRead]_vars => \A c \in Callers : ~Idle(c) ~> Idle(c)
=============================================================================
