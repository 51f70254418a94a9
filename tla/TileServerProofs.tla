-------------------------- MODULE TileServerProofs --------------------------
(***************************************************************************)
(* Proofs about three parts of the tile server that know nothing of each   *)
(* other.  ChunkFetch, for any number of reads, chunks and slots and any   *)
(* plan: the slots are counted exactly, nobody waits in vain and a         *)
(* throttled scheduler has an end to its wait.  ProviderCache, for any     *)
(* number of requests and any policies: the origin is asked only when it   *)
(* must be, and what is given out is current.  TileRead, for any number of *)
(* nodes and readers and any ranking: the flights of an archive have one   *)
(* leader and never wait for each other in a pair, and an absence, once    *)
(* gone, does not come back.                                               *)
(***************************************************************************)
EXTENDS ChunkFetch, ProviderCache, TileRead, FiniteSetTheorems, SequenceTheorems, TLAPS

-----------------------------------------------------------------------------
(* The inductive invariant.                                                *)

\* What somebody waits for is queued for a running scheduler, or marked as being fetched.
Served ==
    \A k \in Chunks : waiters[k] # {} =>
        (k \in pending_chunks /\ scheduler_running) \/ k \in inflight_chunks

\* A mark belongs to a group that runs or is about to.
Marked == \A k \in inflight_chunks : \E chunks \in Active : k \in chunks

\* A read and the state agree on who waits.
Registered ==
    \A c \in Callers, k \in Chunks :
        channel[c][k] # "dropped" /\ (channel[c][k] = "open" <=> c \in waiters[k])

Inv == TypeOK /\ CountExact /\ Served /\ Marked /\ Registered /\ ThrottleEnds

Statuses == {"none", "open", "ok", "err", "dropped"}

-----------------------------------------------------------------------------
(* Counting.                                                               *)

\* The tasks of a tileset are finitely many.
LEMMA RunningFinite == IsFiniteSet(Running) /\ Cardinality(Running) \in Nat
  <1>1. IsFiniteSet(Groups)
    BY FetchAssumption, FS_Interval DEF Groups
  <1>2. Running \subseteq Groups
    BY DEF Running
  <1> QED  BY <1>1, <1>2, FS_Subset, FS_CardinalityType

\* Without a counted slot there is no group, and nothing is marked.
LEMMA NoneActive ==
    ASSUME Inv, Cardinality(Running) + Len(selected) = 0
    PROVE  Running = {} /\ selected = <<>> /\ Active = {} /\ inflight_chunks = {}
  <1>1. Len(selected) \in Nat /\ Cardinality(Running) \in Nat /\ IsFiniteSet(Running)
    BY RunningFinite, LenProperties DEF Inv, TypeOK
  <1>2. Len(selected) = 0 /\ Cardinality(Running) = 0
    BY <1>1
  <1>3. Running = {}
    BY <1>1, <1>2, FS_EmptySet
  <1>4. selected = <<>>
    BY <1>2, EmptySeq DEF Inv, TypeOK
  <1>5. Active = {}
    BY <1>2, <1>3 DEF Active
  <1> QED  BY <1>3, <1>4, <1>5 DEF Inv, Marked

\* The first of the selected groups, and the others.
LEMMA HeadAndTail ==
    ASSUME NEW S, NEW q \in Seq(S), q # <<>>
    PROVE  /\ Head(q) \in S /\ Tail(q) \in Seq(S) /\ Len(Tail(q)) = Len(q) - 1 /\ Len(q) \in Nat \ {0}
           /\ {q[i] : i \in 1..Len(q)} = {Head(q)} \cup {Tail(q)[i] : i \in 1..Len(Tail(q))}
  <1>1. /\ Head(q) \in S /\ Tail(q) \in Seq(S) /\ Len(Tail(q)) = Len(q) - 1 /\ Len(q) \in Nat \ {0}
        /\ Head(q) = q[1] /\ \A i \in 1..(Len(q) - 1) : Tail(q)[i] = q[i + 1]
    BY HeadTailProperties, LenProperties, EmptySeq
  <1>2. ASSUME NEW i \in 1..Len(q) PROVE q[i] \in {Head(q)} \cup {Tail(q)[j] : j \in 1..Len(Tail(q))}
    <2>1. CASE i = 1
      BY <1>1, <2>1
    <2>2. CASE i # 1
      <3>1. i - 1 \in 1..Len(Tail(q)) /\ Tail(q)[i - 1] = q[i]
        BY <1>1, <2>2
      <3> QED  BY <3>1
    <2> QED  BY <2>1, <2>2
  <1>3. 1 \in 1..Len(q) /\ \A j \in 1..Len(Tail(q)) : j + 1 \in 1..Len(q) /\ Tail(q)[j] = q[j + 1]
    BY <1>1
  <1> QED  BY <1>1, <1>2, <1>3

-----------------------------------------------------------------------------
\* A critical section that may remove the state: if nobody waits in a state that is drained,
\* its removal is not felt, except that a stored permit is gone.
LEMMA Settled ==
    ASSUME NEW running \in BOOLEAN, NEW pending, NEW inflight,
           NEW senders \in [Chunks -> SUBSET Callers], NEW count, NEW permit \in BOOLEAN,
           NEW channels \in [Callers -> [Chunks -> Statuses]],
           Settle(running, pending, inflight, senders, count, permit, channels),
           is_drainable(running, pending, count) =>
                inflight = {} /\ \A k \in Chunks : senders[k] = {}
    PROVE  /\ pending_chunks' = pending /\ inflight_chunks' = inflight
           /\ waiters' = senders /\ channel' = channels
           /\ scheduler_running' = running
           /\ inflight_fetch_count' = count
           /\ capacity_available' \in BOOLEAN /\ (running => capacity_available' = permit)
  <1>1. CASE ~is_drainable(running, pending, count)
    BY <1>1 DEF Settle
  <1>2. CASE is_drainable(running, pending, count)
    <2>1. senders = [k \in Chunks |-> {}]
      BY <1>2
    <2>2. channel' = [c \in Callers |-> [k \in Chunks |->
                IF c \in senders[k] THEN "dropped" ELSE channels[c][k]]]
      BY <1>2 DEF Settle
    <2>3. \A c \in Callers : [k \in Chunks |->
                IF c \in senders[k] THEN "dropped" ELSE channels[c][k]] = channels[c]
      BY <2>1
    <2>4. channel' = channels
      BY <2>2, <2>3
    <2> QED  BY <1>2, <2>1, <2>4 DEF Settle, is_drainable
  <1> QED  BY <1>1, <1>2

\* A group that ends, runs out of permits or is lost: its slot is free, its marks are gone and
\* its waiters have their result. The rest must still cover what is marked.
LEMMA Completed ==
    ASSUME Inv, NEW chunks \in SUBSET Chunks, NEW result \in {"ok", "err"},
           Complete(chunks, result), inflight_fetch_count > 0,
           inflight_fetch_count = 1 /\ ~scheduler_running => inflight_chunks \subseteq chunks
    PROVE  /\ pending_chunks' = pending_chunks /\ inflight_chunks' = inflight_chunks \ chunks
           /\ waiters' = [k \in Chunks |-> IF k \in chunks THEN {} ELSE waiters[k]]
           /\ scheduler_running' = scheduler_running
           /\ inflight_fetch_count' = inflight_fetch_count - 1
           /\ capacity_available' \in BOOLEAN
           /\ channel' \in [Callers -> [Chunks -> Statuses]]
           /\ Served' /\ Registered'
           /\ scheduler_running /\ scheduler = "throttled" => capacity_available'
  <1> DEFINE senders == [k \in Chunks |-> IF k \in chunks THEN {} ELSE waiters[k]]
             channels == [c \in Callers |-> [k \in Chunks |->
                IF k \in chunks /\ c \in waiters[k] THEN result ELSE channel[c][k]]]
             permit == capacity_available \/ needs_capacity(inflight_fetch_count, pending_chunks)
  <1>1. /\ senders \in [Chunks -> SUBSET Callers]
        /\ channels \in [Callers -> [Chunks -> Statuses]]
    BY DEF Inv, TypeOK, Statuses
  <1>2. permit \in BOOLEAN
    BY DEF Inv, TypeOK, needs_capacity
  <1>3. inflight_fetch_count \in Nat /\ inflight_fetch_count - 1 \in Nat
        /\ scheduler_running \in BOOLEAN
    BY DEF Inv, TypeOK
  <1>4. Settle(scheduler_running, pending_chunks, inflight_chunks \ chunks, senders,
               inflight_fetch_count - 1, permit, channels)
    BY <1>3 DEF Complete
  <1>5. ASSUME is_drainable(scheduler_running, pending_chunks, inflight_fetch_count - 1)
        PROVE  inflight_chunks \ chunks = {} /\ \A k \in Chunks : senders[k] = {}
    <2>1. inflight_chunks \subseteq chunks /\ pending_chunks = {}
      BY <1>3, <1>5 DEF is_drainable
    <2>2. \A k \in Chunks : waiters[k] # {} => k \in chunks
      BY <2>1 DEF Inv, Served
    <2> QED  BY <2>1, <2>2
  <1> HIDE DEF senders, channels, permit
  <1>6. /\ pending_chunks' = pending_chunks /\ inflight_chunks' = inflight_chunks \ chunks
        /\ waiters' = senders /\ channel' = channels
        /\ scheduler_running' = scheduler_running
        /\ inflight_fetch_count' = inflight_fetch_count - 1
        /\ capacity_available' \in BOOLEAN /\ (scheduler_running => capacity_available' = permit)
    BY <1>1, <1>2, <1>3, <1>4, <1>5, Settled
  <1>7. Served'
    BY <1>6 DEF Inv, Served, senders
  <1>8. Registered'
    <2> SUFFICES ASSUME NEW c \in Callers, NEW k \in Chunks
                 PROVE  /\ channels[c][k] # "dropped"
                        /\ channels[c][k] = "open" <=> c \in senders[k]
      BY <1>6 DEF Registered
    <2>1. channel[c][k] # "dropped" /\ (channel[c][k] = "open" <=> c \in waiters[k])
      BY DEF Inv, Registered
    <2>2. CASE k \in chunks /\ c \in waiters[k]
      BY <2>2 DEF channels, senders
    <2>3. CASE ~(k \in chunks /\ c \in waiters[k])
      BY <2>1, <2>3 DEF channels, senders
    <2> QED  BY <2>2, <2>3
  <1>9. ASSUME scheduler_running, scheduler = "throttled" PROVE capacity_available'
    <2>1. permit
      BY <1>9, FetchAssumption DEF Inv, ThrottleEnds, permit, needs_capacity
    <2> QED  BY <1>6, <1>9, <2>1
  <1> QED  BY <1>1, <1>6, <1>7, <1>8, <1>9 DEF senders

-----------------------------------------------------------------------------
(* Steps                                                                   *)

\* Initially nobody waits and nothing runs.
LEMMA InvInit == Init => Inv
  <1> SUFFICES ASSUME Init PROVE Inv
    OBVIOUS
  <1>1. Running = {} /\ Len(selected) = 0 /\ selected \in Seq((SUBSET Chunks) \ {{}})
    BY DEF Init, Running
  <1>2. Cardinality(Running) = 0
    BY <1>1, FS_EmptySet
  <1>3. TypeOK
    <2>1. channel \in [Callers -> [Chunks -> Statuses]] /\ waiters \in [Chunks -> SUBSET Callers]
          /\ group \in [Groups -> SUBSET Chunks]
      BY DEF Init, Statuses
    <2>2. inflight_fetch_count \in 0..MAX_CONCURRENT_FETCHES_PER_TILESET
      BY FetchAssumption DEF Init
    <2> QED  BY <1>1, <2>1, <2>2 DEF Init, TypeOK, Statuses
  <1>4. CountExact /\ Marked /\ ThrottleEnds
    BY <1>1, <1>2 DEF Init, CountExact, Marked, ThrottleEnds
  <1>5. Served /\ Registered
    BY DEF Init, Served, Registered
  <1> QED  BY <1>3, <1>4, <1>5 DEF Inv

\* A read registers, and what it queues has a scheduler.
LEMMA RequestStep ==
    ASSUME Inv, NEW c \in Callers, NEW required \in Reads, Request(c, required)
    PROVE  Inv'
  <1>1. required \in SUBSET Chunks
    BY FetchAssumption
  <1>2. UNCHANGED <<Running, Active>>
    BY DEF Request, Running, Active
  <1>3. TypeOK'
    <2>1. channel' \in [Callers -> [Chunks -> Statuses]] /\ waiters' \in [Chunks -> SUBSET Callers]
      BY <1>1 DEF Inv, TypeOK, Request, Statuses
    <2>2. pending_chunks' \in SUBSET Chunks
      BY <1>1 DEF Inv, TypeOK, Request, queued
    <2>3. scheduler_running' \in BOOLEAN /\ scheduler' \in {"none", "pass", "throttled", "reserve"}
          /\ (scheduler_running' <=> scheduler' # "none") /\ (selected' # <<>> => scheduler' = "reserve")
      BY DEF Inv, TypeOK, Request, starts_scheduler
    <2> QED  BY <2>1, <2>2, <2>3 DEF Inv, TypeOK, Request, Statuses
  <1>4. Served'
    BY <1>1 DEF Inv, TypeOK, Served, Request, queued, starts_scheduler
  <1>5. Registered'
    <2> SUFFICES ASSUME NEW d \in Callers, NEW k \in Chunks
                 PROVE  /\ channel'[d][k] # "dropped"
                        /\ channel'[d][k] = "open" <=> d \in waiters'[k]
      BY DEF Registered
    <2>1. channel[d][k] # "dropped" /\ (channel[d][k] = "open" <=> d \in waiters[k])
      BY DEF Inv, Registered
    <2>2. /\ channel'[d][k] = IF d = c THEN (IF k \in required THEN "open" ELSE "none") ELSE channel[d][k]
          /\ waiters'[k] = IF k \in required THEN waiters[k] \cup {c} ELSE waiters[k]
          /\ channel[c][k] = "none"
      BY DEF Inv, TypeOK, Request, Idle
    <2>3. c \notin waiters[k]
      BY <2>2 DEF Inv, Registered
    <2> QED  BY <2>1, <2>2, <2>3
  <1>6. CountExact' /\ Marked'
    BY <1>2 DEF Inv, CountExact, Marked, Request
  <1>7. ThrottleEnds'
    BY DEF Inv, TypeOK, ThrottleEnds, Request, starts_scheduler, queued
  <1> QED  BY <1>3, <1>4, <1>5, <1>6, <1>7 DEF Inv

\* A read that ends or is dropped takes its senders with it.
LEMMA CloseStep ==
    ASSUME Inv, NEW c \in Callers, Close(c)
    PROVE  Inv'
  <1>1. TypeOK'
    BY DEF Inv, TypeOK, Close
  <1>2. Served' /\ ThrottleEnds'
    BY DEF Inv, TypeOK, Served, ThrottleEnds, Close
  <1>3. Registered'
    <2> SUFFICES ASSUME NEW d \in Callers, NEW k \in Chunks
                 PROVE  /\ channel'[d][k] # "dropped"
                        /\ channel'[d][k] = "open" <=> d \in waiters'[k]
      BY DEF Registered
    <2>1. channel[d][k] # "dropped" /\ (channel[d][k] = "open" <=> d \in waiters[k])
      BY DEF Inv, Registered
    <2>2. /\ channel'[d][k] = IF d = c THEN "none" ELSE channel[d][k]
          /\ waiters'[k] = waiters[k] \ {c}
      BY DEF Inv, TypeOK, Close
    <2> QED  BY <2>1, <2>2
  <1>4. CountExact' /\ Marked'
    BY DEF Inv, CountExact, Marked, Close, Running, Active
  <1> QED  BY <1>1, <1>2, <1>3, <1>4 DEF Inv

\* The scheduler stops when nobody waits for anything queued.
LEMMA StopStep == Inv /\ Stop => Inv'
  <1> SUFFICES ASSUME Inv, Stop PROVE Inv'
    OBVIOUS
  <1>1. \A k \in Chunks : waiters[k] # {} => k \in inflight_chunks
    BY DEF Inv, Served, Stop, Pruned
  <1>2. ASSUME is_drainable(FALSE, {}, inflight_fetch_count)
        PROVE  inflight_chunks = {} /\ \A k \in Chunks : waiters[k] = {}
    <2>1. Cardinality(Running) + Len(selected) = 0
      BY <1>2 DEF Inv, CountExact, is_drainable
    <2>2. inflight_chunks = {}
      BY <2>1, NoneActive
    <2> QED  BY <1>1, <2>2
  <1>3. /\ channel \in [Callers -> [Chunks -> Statuses]] /\ waiters \in [Chunks -> SUBSET Callers]
        /\ capacity_available \in BOOLEAN
    BY DEF Inv, TypeOK, Statuses
  <1>4. Settle(FALSE, {}, inflight_chunks, waiters, inflight_fetch_count, capacity_available, channel)
    BY DEF Stop
  <1>5. /\ pending_chunks' = {} /\ inflight_chunks' = inflight_chunks
        /\ waiters' = waiters /\ channel' = channel
        /\ scheduler_running' = FALSE
        /\ inflight_fetch_count' = inflight_fetch_count
        /\ capacity_available' \in BOOLEAN
    <2> DEFINE running == FALSE
               none == {}
    <2>1. /\ running \in BOOLEAN
          /\ Settle(running, none, inflight_chunks, waiters, inflight_fetch_count,
                    capacity_available, channel)
          /\ is_drainable(running, none, inflight_fetch_count) =>
                inflight_chunks = {} /\ \A k \in Chunks : waiters[k] = {}
      BY <1>2, <1>4
    <2> HIDE DEF running, none
    <2>2. /\ pending_chunks' = none /\ inflight_chunks' = inflight_chunks
          /\ waiters' = waiters /\ channel' = channel
          /\ scheduler_running' = running
          /\ inflight_fetch_count' = inflight_fetch_count
          /\ capacity_available' \in BOOLEAN
      BY <1>3, <2>1, Settled
    <2> QED  BY <2>2 DEF running, none
  <1>6. scheduler = "pass" /\ scheduler' = "none" /\ selected' = selected /\ group' = group
    BY DEF Stop
  <1>7. TypeOK' /\ ThrottleEnds'
    BY <1>5, <1>6 DEF Inv, TypeOK, ThrottleEnds
  <1>8. CountExact' /\ Marked'
    BY <1>5, <1>6 DEF Inv, CountExact, Marked, Running, Active
  <1>9. Served' /\ Registered'
    BY <1>1, <1>5 DEF Inv, Served, Registered
  <1> QED  BY <1>7, <1>8, <1>9 DEF Inv

\* Pruning keeps what somebody waits for; without a free slot all of them are taken.
LEMMA ThrottleStep == Inv /\ Throttle => Inv'
  <1> SUFFICES ASSUME Inv, Throttle PROVE Inv'
    OBVIOUS
  <1>1. TypeOK'
    BY DEF Inv, TypeOK, Throttle, Pruned
  <1>2. inflight_fetch_count = MAX_CONCURRENT_FETCHES_PER_TILESET
    BY FetchAssumption DEF Inv, TypeOK, Throttle, Available
  <1>3. Served' /\ Registered' /\ ThrottleEnds'
    BY <1>2 DEF Inv, Served, Registered, ThrottleEnds, Throttle, Pruned
  <1>4. CountExact' /\ Marked'
    BY DEF Inv, CountExact, Marked, Throttle, Running, Active
  <1> QED  BY <1>1, <1>3, <1>4 DEF Inv

\* The selected groups fit into the free slots.
LEMMA SelectedFits ==
    ASSUME TypeOK, Available > 0
    PROVE  Selected \in Seq((SUBSET Chunks) \ {{}}) /\ Len(Selected) \in 0..Available
  <1> DEFINE ranges == Plan(Pruned)
             n == IF Len(ranges) < Available THEN Len(ranges) ELSE Available
  <1>1. Pruned \in SUBSET Chunks
    BY DEF TypeOK, Pruned
  <1>2. ranges \in Seq((SUBSET Chunks) \ {{}})
    BY <1>1, PlanAssumption
  <1>3. Available \in Nat /\ Len(ranges) \in Nat
    BY <1>2, LenProperties, FetchAssumption DEF TypeOK, Available
  <1>4. n \in 0..Len(ranges) /\ n \in 0..Available
    BY <1>3
  <1> HIDE DEF ranges
  <1>5. SubSeq(ranges, 1, n) \in Seq((SUBSET Chunks) \ {{}})
    BY <1>2, <1>3, <1>4, SubSeqProperties
  <1>6. Len(SubSeq(ranges, 1, n)) = n
    BY <1>2, <1>3, <1>4, SubSeqProperties
  <1>7. Selected = SubSeq(ranges, 1, n)
    BY DEF Selected, ranges
  <1> QED  BY <1>4, <1>5, <1>6, <1>7

\* What is dispatched is marked and counted.
LEMMA DispatchStep == Inv /\ Dispatch => Inv'
  <1> SUFFICES ASSUME Inv, Dispatch PROVE Inv'
    OBVIOUS
  <1>1. Selected \in Seq((SUBSET Chunks) \ {{}}) /\ Len(Selected) \in 0..Available
    BY SelectedFits DEF Inv, Dispatch
  <1>2. Covered(Selected) \subseteq Chunks
    <2>1. \A i \in 1..Len(Selected) : Selected[i] \in SUBSET Chunks
      BY <1>1, ElementOfSeq
    <2> QED  BY <2>1 DEF Covered
  <1>3. scheduler = "pass" /\ scheduler_running /\ selected = <<>>
    BY DEF Inv, TypeOK, Dispatch
  <1>4. /\ scheduler' = "reserve" /\ selected' = Selected
        /\ inflight_chunks' = inflight_chunks \cup Covered(Selected)
        /\ pending_chunks' = Pruned \ Covered(Selected)
        /\ inflight_fetch_count' = inflight_fetch_count + Len(Selected)
        /\ UNCHANGED <<channel, waiters, scheduler_running, capacity_available, group>>
    BY DEF Dispatch
  <1>5. inflight_fetch_count' \in 0..MAX_CONCURRENT_FETCHES_PER_TILESET
    BY <1>1, <1>4, FetchAssumption DEF Inv, TypeOK, Available
  <1> HIDE DEF Selected, Dispatch
  <1>6. TypeOK'
    BY <1>1, <1>2, <1>3, <1>4, <1>5 DEF Inv, TypeOK, Pruned
  <1>7. CountExact'
    <2>1. Len(selected) = 0 /\ Running' = Running
      BY <1>3, <1>4 DEF Running
    <2> QED  BY <1>1, <1>4, <2>1, RunningFinite DEF Inv, CountExact
  <1>8. Served'
    BY <1>3, <1>4 DEF Inv, Served, Pruned
  <1>9. Marked'
    <2> SUFFICES ASSUME NEW k \in inflight_chunks' PROVE \E chunks \in Active' : k \in chunks
      BY DEF Marked
    <2>1. CASE k \in inflight_chunks
      <3>1. PICK chunks \in Active : k \in chunks
        BY <2>1 DEF Inv, Marked
      <3>2. chunks \in {group[g] : g \in Running}
        BY <1>3 DEF Active
      <3>3. chunks \in Active'
        BY <1>4, <3>2 DEF Active, Running
      <3> QED  BY <3>1, <3>3
    <2>2. CASE k \in Covered(Selected)
      <3>1. PICK i \in 1..Len(Selected) : k \in Selected[i]
        BY <2>2 DEF Covered
      <3>2. Selected[i] \in Active'
        BY <1>4 DEF Active
      <3> QED  BY <3>1, <3>2
    <2> QED  BY <1>4, <2>1, <2>2
  <1>10. Registered' /\ ThrottleEnds'
    BY <1>4 DEF Inv, Registered, ThrottleEnds
  <1> QED  BY <1>6, <1>7, <1>8, <1>9, <1>10 DEF Inv

\* Steps between passes.
LEMMA WaitStep == Inv /\ (TakeCapacity \/ NextPass) => Inv'
  <1> SUFFICES ASSUME Inv, TakeCapacity \/ NextPass PROVE Inv'
    OBVIOUS
  <1>1. /\ scheduler \in {"throttled", "reserve"} /\ scheduler' = "pass"
        /\ (scheduler = "reserve" => selected = <<>>)
        /\ capacity_available' \in BOOLEAN
        /\ UNCHANGED <<channel, pending_chunks, inflight_chunks, waiters, scheduler_running,
                       inflight_fetch_count, selected, group>>
    BY DEF Inv, TypeOK, TakeCapacity, NextPass
  <1>2. TypeOK' /\ ThrottleEnds'
    BY <1>1 DEF Inv, TypeOK, ThrottleEnds
  <1>3. CountExact' /\ Marked'
    BY <1>1 DEF Inv, CountExact, Marked, Running, Active
  <1>4. Served' /\ Registered'
    BY <1>1 DEF Inv, Served, Registered
  <1> QED  BY <1>2, <1>3, <1>4 DEF Inv

\* A selected group becomes a running one.
LEMMA SpawnStep == Inv /\ Spawn => Inv'
  <1> SUFFICES ASSUME Inv, Spawn PROVE Inv'
    OBVIOUS
  <1>1. PICK g \in Groups \ Running : group' = [group EXCEPT ![g] = Head(selected)]
    BY DEF Spawn
  <1>2. /\ scheduler = "reserve" /\ selected # <<>> /\ selected' = Tail(selected)
        /\ UNCHANGED <<channel, pending_chunks, inflight_chunks, waiters, scheduler_running,
                       inflight_fetch_count, capacity_available, scheduler>>
    BY DEF Spawn
  <1> HIDE DEF Spawn
  <1>3. /\ Head(selected) \in (SUBSET Chunks) \ {{}}
        /\ Tail(selected) \in Seq((SUBSET Chunks) \ {{}})
        /\ Len(Tail(selected)) = Len(selected) - 1 /\ Len(selected) \in Nat \ {0}
        /\ {selected[i] : i \in 1..Len(selected)}
                = {Head(selected)} \cup {Tail(selected)[i] : i \in 1..Len(Tail(selected))}
    <2> DEFINE S == (SUBSET Chunks) \ {{}}
    <2>1. selected \in Seq(S)
      BY DEF Inv, TypeOK
    <2> HIDE DEF S
    <2>2. /\ Head(selected) \in S /\ Tail(selected) \in Seq(S)
          /\ Len(Tail(selected)) = Len(selected) - 1 /\ Len(selected) \in Nat \ {0}
          /\ {selected[i] : i \in 1..Len(selected)}
                = {Head(selected)} \cup {Tail(selected)[i] : i \in 1..Len(Tail(selected))}
      BY <1>2, <2>1, HeadAndTail
    <2> QED  BY <2>2 DEF S
  <1>4. group \in [Groups -> SUBSET Chunks]
    BY DEF Inv, TypeOK
  <1>5. TypeOK'
    <2>1. group' \in [Groups -> SUBSET Chunks]
      BY <1>1, <1>3, <1>4
    <2> QED  BY <1>2, <1>3, <2>1 DEF Inv, TypeOK
  <1>6. Running' = Running \cup {g}
    BY <1>1, <1>3, <1>4 DEF Running
  <1>7. CountExact'
    <2>1. Cardinality(Running') = Cardinality(Running) + 1
      BY <1>1, <1>6, RunningFinite, FS_AddElement
    <2> QED  BY <1>2, <1>3, <2>1, RunningFinite DEF Inv, CountExact
  <1>8. Active \subseteq Active'
    <2>1. \A h \in Running : h \in Running' /\ group'[h] = group[h]
      BY <1>1, <1>4, <1>6 DEF Running
    <2>2. g \in Running' /\ group'[g] = Head(selected)
      BY <1>1, <1>4, <1>6
    <2>3. {group[h] : h \in Running} \subseteq Active'
      BY <2>1 DEF Active
    <2>4. Head(selected) \in Active'
      BY <2>2 DEF Active
    <2>5. {Tail(selected)[i] : i \in 1..Len(Tail(selected))} \subseteq Active'
      BY <1>2 DEF Active
    <2> QED  BY <1>3, <2>3, <2>4, <2>5 DEF Active
  <1>9. Marked'
    BY <1>2, <1>8 DEF Inv, Marked
  <1>10. Served' /\ Registered' /\ ThrottleEnds'
    BY <1>2 DEF Inv, Served, Registered, ThrottleEnds
  <1> QED  BY <1>5, <1>7, <1>9, <1>10 DEF Inv

\* A group without a permit ends at once; the scheduler still runs, so that the state stays.
LEMMA ShedStep == Inv /\ Shed => Inv'
  <1> SUFFICES ASSUME Inv, Shed PROVE Inv'
    OBVIOUS
  <1>1. /\ scheduler = "reserve" /\ scheduler_running /\ selected # <<>>
        /\ selected' = Tail(selected) /\ scheduler' = scheduler /\ group' = group
        /\ Complete(Head(selected), "err")
    BY DEF Shed, Inv, TypeOK
  <1> HIDE DEF Shed
  <1>2. /\ Head(selected) \in (SUBSET Chunks) \ {{}}
        /\ Tail(selected) \in Seq((SUBSET Chunks) \ {{}})
        /\ Len(Tail(selected)) = Len(selected) - 1 /\ Len(selected) \in Nat \ {0}
        /\ {selected[i] : i \in 1..Len(selected)}
                = {Head(selected)} \cup {Tail(selected)[i] : i \in 1..Len(Tail(selected))}
    <2> DEFINE S == (SUBSET Chunks) \ {{}}
    <2>1. selected \in Seq(S)
      BY DEF Inv, TypeOK
    <2> HIDE DEF S
    <2>2. /\ Head(selected) \in S /\ Tail(selected) \in Seq(S)
          /\ Len(Tail(selected)) = Len(selected) - 1 /\ Len(selected) \in Nat \ {0}
          /\ {selected[i] : i \in 1..Len(selected)}
                = {Head(selected)} \cup {Tail(selected)[i] : i \in 1..Len(Tail(selected))}
      BY <1>1, <2>1, HeadAndTail
    <2> QED  BY <2>2 DEF S
  <1>3. Cardinality(Running) \in Nat /\ Running' = Running
    BY <1>1, RunningFinite DEF Running
  <1>4. inflight_fetch_count > 0
    BY <1>2, <1>3 DEF Inv, CountExact
  <1>5. /\ pending_chunks' = pending_chunks /\ inflight_chunks' = inflight_chunks \ Head(selected)
        /\ waiters' = [k \in Chunks |-> IF k \in Head(selected) THEN {} ELSE waiters[k]]
        /\ scheduler_running' = scheduler_running
        /\ inflight_fetch_count' = inflight_fetch_count - 1
        /\ capacity_available' \in BOOLEAN
        /\ channel' \in [Callers -> [Chunks -> Statuses]]
        /\ Served' /\ Registered'
    BY <1>1, <1>2, <1>4, Completed
  <1>6. TypeOK'
    <2>1. inflight_fetch_count' \in 0..MAX_CONCURRENT_FETCHES_PER_TILESET
      BY <1>4, <1>5, FetchAssumption DEF Inv, TypeOK
    <2>2. waiters' \in [Chunks -> SUBSET Callers]
      BY <1>5 DEF Inv, TypeOK
    <2> QED  BY <1>1, <1>2, <1>5, <2>1, <2>2 DEF Inv, TypeOK, Statuses
  <1>7. CountExact'
    BY <1>1, <1>2, <1>3, <1>5 DEF Inv, CountExact
  <1>8. Marked'
    <2> SUFFICES ASSUME NEW k \in inflight_chunks \ Head(selected)
                 PROVE  \E chunks \in Active' : k \in chunks
      BY <1>5 DEF Marked
    <2>1. PICK chunks \in Active : k \in chunks
      BY DEF Inv, Marked
    <2>2. chunks # Head(selected)
      BY <2>1
    <2>3. CASE chunks \in {group[g] : g \in Running}
      <3>1. chunks \in Active'
        BY <1>1, <1>3, <2>3 DEF Active
      <3> QED  BY <2>1, <3>1
    <2>4. CASE chunks \in {selected[i] : i \in 1..Len(selected)}
      <3>1. chunks \in {Tail(selected)[i] : i \in 1..Len(Tail(selected))}
        BY <1>2, <2>2, <2>4
      <3>2. chunks \in Active'
        BY <1>1, <3>1 DEF Active
      <3> QED  BY <2>1, <3>2
    <2> QED  BY <2>1, <2>3, <2>4 DEF Active
  <1>9. ThrottleEnds'
    BY <1>1 DEF ThrottleEnds
  <1> QED  BY <1>5, <1>6, <1>7, <1>8, <1>9 DEF Inv

\* A group ends. If it was the last one and the scheduler has stopped, it leaves no mark.
LEMMA GroupEndsStep ==
    ASSUME Inv, NEW g \in Groups, GroupEnds(g)
    PROVE  Inv'
  <1>1. PICK result \in {"ok", "err"} : Complete(group[g], result)
    BY DEF GroupEnds
  <1>2. g \in Running /\ group' = [group EXCEPT ![g] = {}] /\ scheduler' = scheduler
        /\ selected' = selected
    BY DEF GroupEnds
  <1> HIDE DEF GroupEnds
  <1>3. group \in [Groups -> SUBSET Chunks] /\ group[g] \in SUBSET Chunks
    BY DEF Inv, TypeOK
  <1>4. Running' = Running \ {g} /\ \A h \in Running' : group'[h] = group[h]
    BY <1>2, <1>3 DEF Running
  <1>5. /\ Cardinality(Running') = Cardinality(Running) - 1
        /\ Cardinality(Running) \in Nat /\ Cardinality(Running') \in Nat
        /\ IsFiniteSet(Running')
    BY <1>2, <1>4, RunningFinite, FS_RemoveElement, FS_CardinalityType
  <1>6. Len(selected) \in Nat
    BY LenProperties DEF Inv, TypeOK
  <1>7. inflight_fetch_count > 0 /\ inflight_fetch_count \in Nat
    BY <1>5, <1>6 DEF Inv, CountExact
  <1>8. ASSUME inflight_fetch_count = 1 PROVE inflight_chunks \subseteq group[g]
    <2>1. Cardinality(Running') = 0 /\ Len(selected) = 0
      BY <1>5, <1>6, <1>8 DEF Inv, CountExact
    <2>2. Running' = {}
      BY <1>5, <2>1, FS_EmptySet
    <2>3. Running = {g}
      BY <1>2, <1>4, <2>2
    <2>4. Active = {group[g]}
      BY <2>1, <2>3 DEF Active
    <2> QED  BY <2>4 DEF Inv, Marked
  <1>9. /\ pending_chunks' = pending_chunks /\ inflight_chunks' = inflight_chunks \ group[g]
        /\ waiters' = [k \in Chunks |-> IF k \in group[g] THEN {} ELSE waiters[k]]
        /\ scheduler_running' = scheduler_running
        /\ inflight_fetch_count' = inflight_fetch_count - 1
        /\ capacity_available' \in BOOLEAN
        /\ channel' \in [Callers -> [Chunks -> Statuses]]
        /\ Served' /\ Registered'
        /\ scheduler_running /\ scheduler = "throttled" => capacity_available'
    BY <1>1, <1>3, <1>7, <1>8, Completed
  <1>10. TypeOK'
    <2>1. inflight_fetch_count' \in 0..MAX_CONCURRENT_FETCHES_PER_TILESET
      BY <1>7, <1>9, FetchAssumption DEF Inv, TypeOK
    <2>2. waiters' \in [Chunks -> SUBSET Callers]
      BY <1>9 DEF Inv, TypeOK
    <2>3. group' \in [Groups -> SUBSET Chunks]
      BY <1>2, <1>3
    <2> QED  BY <1>2, <1>9, <2>1, <2>2, <2>3 DEF Inv, TypeOK, Statuses
  <1>11. CountExact'
    BY <1>2, <1>5, <1>6, <1>7, <1>9 DEF Inv, CountExact
  <1>12. Marked'
    <2> SUFFICES ASSUME NEW k \in inflight_chunks \ group[g]
                 PROVE  \E chunks \in Active' : k \in chunks
      BY <1>9 DEF Marked
    <2>1. PICK chunks \in Active : k \in chunks
      BY DEF Inv, Marked
    <2>2. CASE chunks \in {group[h] : h \in Running}
      <3>1. PICK h \in Running : chunks = group[h]
        BY <2>2
      <3>2. h \in Running' /\ group'[h] = chunks
        BY <1>4, <2>1, <3>1
      <3>3. chunks \in Active'
        BY <3>2 DEF Active
      <3> QED  BY <2>1, <3>3
    <2>3. CASE chunks \in {selected[i] : i \in 1..Len(selected)}
      <3>1. chunks \in Active'
        BY <1>2, <2>3 DEF Active
      <3> QED  BY <2>1, <3>1
    <2> QED  BY <2>1, <2>2, <2>3 DEF Active
  <1>13. ThrottleEnds'
    BY <1>2, <1>9 DEF Inv, TypeOK, ThrottleEnds
  <1> QED  BY <1>9, <1>10, <1>11, <1>12, <1>13 DEF Inv

\* Every step of the coordinator keeps the invariant.
LEMMA InvStep == Inv /\ [Next]_vars => Inv'
  <1> SUFFICES ASSUME Inv, [Next]_vars PROVE Inv'
    OBVIOUS
  <1>1. ASSUME NEW c \in Callers, NEW required \in Reads, Request(c, required) PROVE Inv'
    BY <1>1, RequestStep
  <1>2. ASSUME NEW c \in Callers, ReadEnds(c) \/ Cancel(c) PROVE Inv'
    BY <1>2, CloseStep DEF ReadEnds, Cancel
  <1>3. ASSUME Schedule PROVE Inv'
    BY <1>3, StopStep, ThrottleStep, DispatchStep, WaitStep, SpawnStep, ShedStep DEF Schedule
  <1>4. ASSUME NEW g \in Groups, GroupEnds(g) PROVE Inv'
    BY <1>4, GroupEndsStep
  <1>5. CASE UNCHANGED vars
    BY <1>5 DEF vars, Inv, TypeOK, CountExact, Served, Marked, Registered, ThrottleEnds, Running,
                Active
  <1> QED  BY <1>1, <1>2, <1>3, <1>4, <1>5 DEF Next

-----------------------------------------------------------------------------
(* Theorems                                                                *)

\* The coordinator's state keeps to its invariant.
THEOREM Invariant == Spec => []Inv
  BY InvInit, InvStep, PTL DEF Spec

\* Every variable keeps its type; in particular the fetch count stays within the limit of the
\* tileset, and the flag says whether the scheduler's task runs.
THEOREM TypeCorrect == Spec => []TypeOK
  <1>1. Inv => TypeOK
    BY DEF Inv
  <1> QED  BY <1>1, Invariant, PTL

\* No slot of a tileset leaks or is freed twice, however groups end.
THEOREM SlotsExact == Spec => []CountExact
  <1>1. Inv => CountExact
    BY DEF Inv
  <1> QED  BY <1>1, Invariant, PTL

\* Nobody waits in vain, with any plan of ranges, overlapping or not.
THEOREM EveryWaitServed == Spec => []NobodyStranded
  <1>1. Inv => NobodyStranded
    <2> SUFFICES ASSUME Inv, NEW c \in Callers, NEW k \in Chunks
                 PROVE  /\ channel[c][k] # "dropped"
                        /\ channel[c][k] = "open" =>
                            /\ c \in waiters[k]
                            /\ \/ k \in pending_chunks /\ scheduler_running
                               \/ \E chunks \in Active : k \in chunks
      BY DEF NobodyStranded
    <2>1. channel[c][k] # "dropped" /\ (channel[c][k] = "open" <=> c \in waiters[k])
      BY DEF Inv, Registered
    <2>2. c \in waiters[k] => (k \in pending_chunks /\ scheduler_running) \/ k \in inflight_chunks
      BY DEF Inv, Served
    <2>3. k \in inflight_chunks => \E chunks \in Active : k \in chunks
      BY DEF Inv, Marked
    <2> QED  BY <2>1, <2>2, <2>3
  <1> QED  BY <1>1, Invariant, PTL

\* A throttled scheduler has its permit or a full set of groups whose end stores it: no
\* wake-up is lost.
THEOREM ThrottleHasEnd == Spec => []ThrottleEnds
  <1>1. Inv => ThrottleEnds
    BY DEF Inv
  <1> QED  BY <1>1, Invariant, PTL

\* The slots of a tileset are accounted for, for any plan of ranges.
THEOREM SlotsCorrect == Spec => []SlotsAccounted
  BY SlotsExact, ThrottleHasEnd, PTL DEF SlotsAccounted

-----------------------------------------------------------------------------
(* ProviderCache: the tile server's cache of a provider's resources.       *)

\* Where a request holds the flight of the key.
InFlight == {"recheck", "fetch", "close", "allowed2", "clear2", "copy"}

\* The flight has one holder, the request or the task that is under way.
FlightHeld ==
    /\ \A r \in Requests : at[r] \in InFlight => leader = r
    /\ task # NoVal => leader = Task

\* What an entry says of itself: a negative one has no stale window, and its
\* windows end where the policy's do, counted from the origin's confirmation,
\* to what is not charged to them.
EntryOK(e, t, o) ==
    /\ e \in Entries
    /\ e.freshUntil <= e.staleUntil
    /\ e.freshUntil < e.staleUntil => e.policy \in Policies
    /\ t < e.freshUntil => e.freshUntil <= e.confirmed + e.policy.fresh + Uncharged(o, e.policy)
    /\ e.staleUntil <= e.confirmed + e.policy.fresh + e.policy.swr + Uncharged(o, e.policy)

\* What is cached is the last answer that was applied.
EntrySound == entry # NoVal => EntryOK(entry, now, origin) /\ entry.number = answers /\ answers > 0

\* What a request or the task has to give out is an error or an answer that
\* is not older than the request; the holder of the flight has the last one.
Current(r, n) == n \in 0..MaxAnswers /\ (n # 0 => n >= since[r])
Heard ==
    /\ \A r \in Requests : since[r] <= answers
    /\ \A r \in Requests : at[r] \in Revalidating \cup {"done"} => Current(r, got[r])
    /\ \A r \in Requests : at[r] = "close" => got[r] \in {0, answers}
    /\ task # NoVal /\ task.at = "close" => task.got \in {0, answers}

ProviderInv == ProviderTypeOK /\ FlightHeld /\ EntrySound /\ Heard /\ AsksOnlyWhenNeeded

LEMMA ProviderInitial == ProviderInit => ProviderInv
  BY ProviderCacheAssumption DEF ProviderInit, ProviderInv, ProviderTypeOK, Option, Revalidating, FlightHeld, InFlight,
         EntrySound, Heard, AsksOnlyWhenNeeded

\* What a fetch brings back, and what is left of it to keep.
Answers == [kind: {"found", "negative"}, policy: Policies \cup NegPolicies, confirmed: Int, age: Nat]
AnswerOK(a) ==
    /\ a \in Answers
    /\ a.policy \in (IF a.kind = "found" THEN Policies ELSE NegPolicies)
    /\ now - a.confirmed - a.age <= Uncharged(origin, a.policy)

LEMMA FetchedOK ==
    ASSUME now \in Nat, origin \in {"http", "object_store"}, NEW copy \in Policies \cup {NoVal},
           NEW a \in fetch_limited_bytes_uncached(copy)
    PROVE  AnswerOK(a)
  <1> USE ProviderCacheAssumption DEF AnswerOK, Answers, Answer
  <1>1. ASSUME NEW kind \in {"found", "negative"}, NEW p \in (IF kind = "found" THEN Policies ELSE NegPolicies),
               NEW age \in Nat, NEW charged \in BOOLEAN,
               charged \/ age <= Uncharged(origin, p)
        PROVE  AnswerOK(Answer(kind, p, age, charged))
    <2>1. /\ p.explicit \in BOOLEAN /\ now - age \in Int /\ p \in Policies \cup NegPolicies
          /\ Uncharged(origin, p) \in Nat
      BY DEF Uncharged
    <2>2. CASE charged
      BY <2>1, <2>2 DEF Uncharged
    <2>3. CASE ~charged
      BY <2>1, <2>3, <1>1 DEF Uncharged
    <2> QED  BY <2>2, <2>3
  <1>2. CASE origin = "http"
    <2>1. ASSUME NEW kind \in {"found", "negative"}, NEW p \in (IF kind = "found" THEN Policies ELSE NegPolicies),
                 NEW age \in 0..MaxAge, NEW charged \in BOOLEAN, charged \/ ~p.explicit
          PROVE  AnswerOK(Answer(kind, p, age, charged))
      <3>1. charged \/ age <= Uncharged(origin, p)
        BY <1>2, <2>1 DEF Uncharged
      <3> HIDE DEF AnswerOK, Answers, Answer
      <3> QED  BY <1>1, <2>1, <3>1
    <2> QED  BY <1>2, <2>1 DEF fetch_limited_bytes_uncached, fetch_http_provider, revalidated_provider_resource
  <1>3. CASE origin # "http"
    <2>1. ASSUME NEW kind \in {"found", "negative"}, NEW p \in (IF kind = "found" THEN Policies ELSE NegPolicies),
                 NEW age \in 0..PROVIDER_FETCH_TIMEOUT
          PROVE  AnswerOK(Answer(kind, p, age, FALSE))
      <3>1. age \in Nat /\ age <= Uncharged(origin, p) /\ Uncharged(origin, p) \in Nat
        BY <1>3 DEF Uncharged
      <3>2. now - age \in Int /\ p \in Policies \cup NegPolicies
        OBVIOUS
      <3> QED  BY <3>1, <3>2
    <2> QED  BY <1>3, <2>1 DEF fetch_limited_bytes_uncached, fetch_object_store_provider, revalidated_provider_resource
  <1> QED  BY <1>2, <1>3

LEMMA PutOK ==
    ASSUME now \in Nat, origin \in {"http", "object_store"}, answers \in 0..(MaxAnswers - 1), NEW a, AnswerOK(a), Put(a) # NoVal
    PROVE  EntryOK(Put(a), now, origin) /\ Put(a).number = answers + 1
  <1> USE ProviderCacheAssumption
  <1>1. a.kind \in {"found", "negative"} /\ a.confirmed \in Int /\ a.age \in Nat /\ a.policy \in Policies \cup NegPolicies
    BY DEF AnswerOK, Answers
  <1>2. a.policy.fresh \in Nat /\ a.policy.swr \in Nat /\ a.policy.explicit \in BOOLEAN
    BY <1>1
  <1> DEFINE f == SaturatingSub(a.policy.fresh, a.age)
             g == SaturatingSub(a.policy.fresh + a.policy.swr, a.age)
  <1>3. f \in Nat /\ g \in Nat /\ f <= g /\ (g > 0 => g = a.policy.fresh + a.policy.swr - a.age)
        /\ (f > 0 => f = a.policy.fresh - a.age)
        /\ (a.policy.swr = 0 => f = g)
    BY <1>1, <1>2 DEF SaturatingSub
  <1> DEFINE u == Uncharged(origin, a.policy)
  <1>4. u \in Nat /\ now - a.confirmed - a.age <= u
    BY <1>2 DEF Uncharged, AnswerOK
  <1> HIDE DEF u
  <1>7. /\ g > 0 => now + g <= a.confirmed + a.policy.fresh + a.policy.swr + u
        /\ now < now + f => now + f <= a.confirmed + a.policy.fresh + u
    BY <1>1, <1>2, <1>3, <1>4
  <1>8. Uncharged(origin, a.policy) = u
    BY DEF u
  <1>5. CASE a.kind = "found"
    <2>1. a.policy \in Policies /\ Put(a) = put_found(a) /\ Retained(a)
      BY <1>5 DEF AnswerOK, Put, put_found
    <2>2. g > 0
      BY <2>1 DEF Retained
    <2>3. Put(a) = [kind |-> a.kind, number |-> answers + 1, policy |-> a.policy, confirmed |-> a.confirmed,
                      freshUntil |-> now + f, staleUntil |-> now + g]
      BY <2>1 DEF put_found
    <2> HIDE DEF f, g
    <2> QED  BY <1>1, <1>2, <1>3, <1>4, <1>7, <1>8, <2>1, <2>2, <2>3 DEF EntryOK, Entries
  <1>6. CASE a.kind = "negative"
    <2>1. a.policy \in NegPolicies /\ a.policy.swr = 0 /\ Put(a) = put_negative(a)
      BY <1>6 DEF AnswerOK, Put
    <2>2. f > 0 /\ f = g
      BY <1>3, <2>1 DEF put_negative
    <2>3. Put(a) = [kind |-> a.kind, number |-> answers + 1, policy |-> a.policy, confirmed |-> a.confirmed,
                      freshUntil |-> now + f, staleUntil |-> now + f]
      BY <2>1, <2>2 DEF put_negative
    <2> HIDE DEF f, g
    <2> QED  BY <1>1, <1>2, <1>3, <1>4, <1>7, <1>8, <2>1, <2>2, <2>3 DEF EntryOK, Entries
  <1> QED  BY <1>1, <1>5, <1>6

\* An answer is applied.
LEMMA StoredOK ==
    ASSUME ProviderInv, UNCHANGED <<origin, now>>, NEW copy \in Policies \cup {NoVal},
           \E a \in fetch_limited_bytes_uncached(copy) : Store(a)
    PROVE  /\ EntrySound' /\ entry' \in Option(Entries) /\ retryAt' = NoVal
           /\ answers' = answers + 1 /\ answers' \in 1..MaxAnswers
  <1>1. PICK a \in fetch_limited_bytes_uncached(copy) : Store(a)
    OBVIOUS
  <1>2. /\ now \in Nat /\ answers \in Nat /\ answers < MaxAnswers /\ MaxAnswers \in Nat
        /\ origin \in {"http", "object_store"}
    BY <1>1, ProviderCacheAssumption DEF ProviderInv, ProviderTypeOK, Store
  <1>3. answers \in 0..(MaxAnswers - 1)
    BY <1>2
  <1>4. AnswerOK(a)
    BY <1>2, FetchedOK
  <1>5. entry' = Put(a) /\ retryAt' = NoVal /\ answers' = answers + 1
    BY <1>1 DEF Store
  <1>6. entry' # NoVal => EntryOK(entry', now, origin) /\ entry'.number = answers + 1
    BY <1>2, <1>3, <1>4, <1>5, PutOK
  <1>7. entry' # NoVal => EntryOK(entry, now, origin)'
    BY <1>6 DEF EntryOK, Entries, Uncharged
  <1>8. entry' \in Option(Entries)
    BY <1>6 DEF EntryOK, Option
  <1> QED  BY <1>2, <1>5, <1>6, <1>7, <1>8 DEF EntrySound

\* The holder of the flight leaves it without an answer.
LEMMA FlightLeft ==
    ASSUME ProviderInv, NEW r \in Requests, at[r] \in InFlight,
           NEW to \in {"lookup", "idle", "done"}, Release(r, to, NoVal), to = "done" => Current(r, got[r]),
           UNCHANGED <<origin, now, entry, retryAt, got, task, since, answers>>, drops' \in 0..MaxDrops
    PROVE  ProviderInv'
  <1>1. leader = r /\ task = NoVal /\ leader' = NoVal
    BY ProviderCacheAssumption DEF ProviderInv, FlightHeld, Release
  <1>2. \A q \in Requests : at'[q] \in {at[q], "lookup"} \/ (q = r /\ at'[q] = to)
    BY DEF Release, Wake, Followers, ProviderInv, ProviderTypeOK
  <1>3. at'[r] = to /\ at' \in [Requests -> Revalidating \cup {"idle", "lookup", "elect", "recheck", "fetch", "close", "follow", "done"}]
    BY DEF Release, Wake, Followers, ProviderInv, ProviderTypeOK
  <1>4. ProviderTypeOK'
    BY <1>1, <1>3 DEF ProviderInv, ProviderTypeOK, Option
  <1>5. FlightHeld'
    BY <1>1, <1>2, <1>3 DEF ProviderInv, FlightHeld, InFlight
  <1>6. EntrySound'
    BY DEF ProviderInv, EntrySound
  <1>7. Heard'
    BY <1>1, <1>2, <1>3 DEF ProviderInv, Heard, Current, Revalidating
  <1>8. AsksOnlyWhenNeeded'
    BY <1>1, <1>2, <1>3 DEF ProviderInv, AsksOnlyWhenNeeded, get, freshness
  <1> QED  BY <1>4, <1>5, <1>6, <1>7, <1>8 DEF ProviderInv

\* The task's record, with the end of its fetch written into it.
LEMMA TaskRecord ==
    ASSUME NEW C, NEW G, NEW u \in [at: {"fetch", "close"}, copy: C, got: G], NEW n
    PROVE  [u EXCEPT !.at = "close", !.got = n] = [at |-> "close", copy |-> u.copy, got |-> n]
  <1> DEFINE v == [u EXCEPT !.at = "close"]
  <1>1. v = [at |-> "close", copy |-> u.copy, got |-> u.got]
    OBVIOUS
  <1> HIDE DEF v
  <1>2. [v EXCEPT !.got = n] = [at |-> "close", copy |-> u.copy, got |-> n]
    BY <1>1
  <1> QED  BY <1>2 DEF v

LEMMA ProviderPreserved == ASSUME ProviderInv, [ProviderNext]_providerVars PROVE ProviderInv'
  <1> USE ProviderCacheAssumption
      DEF ProviderInv, ProviderTypeOK, Option, Revalidating, FlightHeld, InFlight, EntrySound, Heard, Current,
      AsksOnlyWhenNeeded, get, freshness, shared, calls, Goto,
      Release, Wake, Hear, Followers
  <1>1. ASSUME NEW r \in Requests, Begin(r) PROVE ProviderInv'
    BY <1>1 DEF Begin
  <1>2. ASSUME NEW r \in Requests, Lookup(r) PROVE ProviderInv'
    BY <1>2 DEF Lookup, Entries, EntryOK
  <1>3. ASSUME NEW r \in Requests, Elect(r) PROVE ProviderInv'
    BY <1>3 DEF Elect
  <1>4. ASSUME NEW r \in Requests, Recheck(r) PROVE ProviderInv'
    <2>1. CASE get # NoVal
      BY <1>4, <2>1, FlightLeft DEF Recheck
    <2>2. CASE get = NoVal
      BY <1>4, <2>2 DEF Recheck
    <2> QED  BY <2>1, <2>2
  <1>5. ASSUME NEW r \in Requests, FetchEnds(r) PROVE ProviderInv'
    <2>1. /\ at[r] = "fetch" /\ leader = r /\ task = NoVal /\ r # Task
          /\ at' = [at EXCEPT ![r] = "close"] /\ UNCHANGED <<origin, now, leader, task, since, drops>>
      BY <1>5 DEF FetchEnds
    <2>2. \A q \in Requests \ {r} : at[q] \notin InFlight
      BY <2>1
    <2>3. CASE /\ got' = [got EXCEPT ![r] = answers']
               /\ \E a \in fetch_limited_bytes_uncached(NoVal) : Store(a)
      <3>1. /\ EntrySound' /\ entry' \in Option(Entries) /\ retryAt' = NoVal
            /\ answers' = answers + 1 /\ answers' \in 1..MaxAnswers
        BY <2>1, <2>3, StoredOK
      <3>2. ProviderTypeOK'
        BY <2>1, <2>3, <3>1
      <3>3. FlightHeld'
        BY <2>1
      <3>4. Heard'
        BY <2>1, <2>2, <2>3, <3>1
      <3>5. AsksOnlyWhenNeeded'
        BY <2>1, <2>2
      <3> QED  BY <3>1, <3>2, <3>3, <3>4, <3>5
    <2>4. CASE got' = [got EXCEPT ![r] = 0] /\ UNCHANGED <<entry, retryAt, answers>>
      BY <2>1, <2>2, <2>4
    <2> QED  BY <1>5, <2>3, <2>4 DEF FetchEnds
  <1>6. ASSUME NEW r \in Requests, CloseFlight(r) PROVE ProviderInv'
    BY <1>6 DEF CloseFlight
  <1>7. ASSUME NEW r \in Requests, Drop(r) PROVE ProviderInv'
    <2>1. CASE at[r] = "fetch"
      BY <1>7, <2>1, FlightLeft DEF Drop
    <2>2. CASE at[r] = "follow"
      BY <1>7, <2>2 DEF Drop
    <2> QED  BY <1>7, <2>1, <2>2 DEF Drop
  <1>8. ASSUME NEW r \in Requests, FirstCheck(r) PROVE ProviderInv'
    BY <1>8 DEF FirstCheck, Allowed, Clear
  <1>9. ASSUME NEW r \in Requests, ElectStale(r) PROVE ProviderInv'
    BY <1>9 DEF ElectStale
  <1>10. ASSUME NEW r \in Requests, SecondCheck(r) PROVE ProviderInv'
    <2>1. CASE Clear(r, "clear2", "copy")
      BY <2>1 DEF Clear
    <2>2. CASE Allowed(r, "allowed2", "clear2", "copy", Release(r, "done", NoVal)) /\ ~(retryAt # NoVal /\ now < retryAt)
      BY <2>2 DEF Allowed
    <2>3. CASE Allowed(r, "allowed2", "clear2", "copy", Release(r, "done", NoVal)) /\ retryAt # NoVal /\ now < retryAt
      BY <2>3, FlightLeft DEF Allowed
    <2> QED  BY <1>10, <2>1, <2>2, <2>3 DEF SecondCheck
  <1>11. ASSUME NEW r \in Requests, SpawnRevalidation(r) PROVE ProviderInv'
    <2>1. CASE stale_representation = NoVal
      BY <1>11, <2>1, FlightLeft DEF SpawnRevalidation
    <2>2. CASE stale_representation # NoVal
      <3>1. /\ stale_representation = entry /\ entry # NoVal /\ ~(now < entry.freshUntil) /\ now < entry.staleUntil
        BY <2>2 DEF stale_representation
      <3>2. entry.policy \in Policies
        BY <3>1 DEF EntryOK, Entries
      <3>3. /\ task' = [at |-> "fetch", copy |-> entry.policy, got |-> NoVal]
            /\ leader = r /\ leader' = Task /\ at' = [at EXCEPT ![r] = "done"]
            /\ UNCHANGED <<origin, now, entry, retryAt, got, since, answers, drops>>
        BY <1>11, <2>2, <3>1 DEF SpawnRevalidation
      <3>4. task' # NoVal => task'.at = "fetch"
        BY <3>3
      <3>5. ProviderTypeOK'
        BY <3>2, <3>3
      <3>6. FlightHeld'
        BY <3>3
      <3>7. EntrySound'
        BY <3>3
      <3>8. Heard'
        BY <1>11, <3>3, <3>4 DEF SpawnRevalidation
      <3>9. AsksOnlyWhenNeeded'
        BY <3>1, <3>3
      <3> QED  BY <3>5, <3>6, <3>7, <3>8, <3>9
    <2> QED  BY <2>1, <2>2
  <1>12. CASE TaskFetchEnds
    <2>1. /\ task # NoVal /\ task.at = "fetch" /\ leader = Task /\ task.copy \in Policies
          /\ UNCHANGED <<origin, now, leader, at, got, since, drops>>
      BY <1>12 DEF TaskFetchEnds
    <2>2. \A q \in Requests : at[q] \notin InFlight
      BY <2>1
    <2>3. task \in [at: {"fetch", "close"}, copy: Policies, got: Option(0..MaxAnswers)]
      BY <2>1
    <2>4. CASE /\ \E a \in fetch_limited_bytes_uncached(task.copy) : Store(a)
               /\ task' = [task EXCEPT !.at = "close", !.got = answers']
      <3>1. /\ EntrySound' /\ entry' \in Option(Entries) /\ retryAt' = NoVal
            /\ answers' = answers + 1 /\ answers' \in 1..MaxAnswers
        BY <2>1, <2>4, StoredOK
      <3> DEFINE n == answers'
      <3>2. task' = [task EXCEPT !.at = "close", !.got = n]
        BY <2>4
      <3>3. n = answers' /\ n \in 1..MaxAnswers
        BY <3>1
      <3> HIDE DEF n
      <3>4. /\ task' \in [at: {"fetch", "close"}, copy: Policies, got: Option(0..MaxAnswers)]
            /\ task'.got = n /\ task'.at = "close"
        <4>1. task' = [at |-> "close", copy |-> task.copy, got |-> n]
          BY <2>3, <3>2, TaskRecord
        <4> QED  BY <2>1, <3>3, <4>1
      <3>5. ProviderTypeOK'
        BY <2>1, <3>1, <3>4
      <3>6. FlightHeld'
        BY <2>1
      <3>7. Heard'
        BY <2>1, <2>2, <3>1, <3>3, <3>4
      <3>8. AsksOnlyWhenNeeded'
        BY <2>1, <2>2, <3>4
      <3> QED  BY <3>1, <3>5, <3>6, <3>7, <3>8
    <2>5. CASE mark_stale_revalidation_failure /\ task' = [task EXCEPT !.at = "close", !.got = 0] /\ UNCHANGED answers
      <3>1. /\ task' \in [at: {"fetch", "close"}, copy: Policies, got: Option(0..MaxAnswers)]
            /\ task'.got = 0 /\ task'.at = "close"
        <4>1. task' = [at |-> "close", copy |-> task.copy, got |-> 0]
          BY <2>3, <2>5, TaskRecord
        <4> QED  BY <2>1, <4>1
      <3>2. entry' \in {entry, NoVal} /\ retryAt' \in Option(Nat)
        BY <2>5 DEF mark_stale_revalidation_failure
      <3>3. ProviderTypeOK'
        BY <2>1, <2>5, <3>1, <3>2
      <3>4. FlightHeld'
        BY <2>1
      <3>5. EntrySound'
        BY <2>1, <2>5, <3>2
      <3>6. Heard'
        BY <2>1, <2>2, <2>5, <3>1
      <3>7. AsksOnlyWhenNeeded'
        BY <2>1, <2>2, <3>1
      <3> QED  BY <3>3, <3>4, <3>5, <3>6, <3>7
    <2> QED  BY <1>12, <2>4, <2>5 DEF TaskFetchEnds
  <1>13. CASE TaskCloses
    BY <1>13 DEF TaskCloses
  <1>14. CASE Tick
    <2>1. now' = now + 1 /\ now < MaxTime /\ UNCHANGED <<origin, entry, retryAt, leader, at, got, task, since, answers, drops>>
      BY <1>14 DEF Tick
    <2>2. ProviderTypeOK' /\ FlightHeld' /\ EntrySound' /\ Heard'
      BY <2>1 DEF EntryOK, Entries
    <2>3. entry # NoVal => entry.freshUntil \in Nat /\ entry.staleUntil \in Nat
      BY DEF Entries
    <2>4. (get = NoVal => get' = NoVal) /\ (entry # NoVal /\ freshness(entry) # "fresh" => freshness(entry)' # "fresh")
      BY <2>1, <2>3
    <2>5. AsksOnlyWhenNeeded'
      BY <2>1, <2>4
    <2> QED  BY <2>2, <2>5
  <1>15. CASE Evict
    BY <1>15 DEF Evict
  <1>16. CASE UNCHANGED providerVars
    BY <1>16 DEF providerVars
  <1> QED
    BY <1>1, <1>2, <1>3, <1>4, <1>5, <1>6, <1>7, <1>8, <1>9, <1>10, <1>11, <1>12, <1>13, <1>14, <1>15, <1>16
    DEF ProviderNext, Step, TaskStep

\* The type invariant of the provider cache (ProviderFetchCache and its users in upstream.rs).
THEOREM ProviderTypeCorrect == ProviderSpec => []ProviderTypeOK
  <1>1. ProviderInit => ProviderInv
    BY ProviderInitial
  <1>2. ProviderInv /\ [ProviderNext]_providerVars => ProviderInv'
    BY ProviderPreserved
  <1>3. ProviderInv => ProviderTypeOK
    BY DEF ProviderInv
  <1> QED  BY <1>1, <1>2, <1>3, PTL DEF ProviderSpec

\* The origin is asked only when it must be: no observation from before an
\* election starts a fetch of what another leader has replaced.
THEOREM ProviderAskedWhenNeeded == ProviderSpec => []AsksOnlyWhenNeeded
  <1>1. ProviderInit => ProviderInv
    BY ProviderInitial
  <1>2. ProviderInv /\ [ProviderNext]_providerVars => ProviderInv'
    BY ProviderPreserved
  <1>3. ProviderInv => AsksOnlyWhenNeeded
    BY DEF ProviderInv
  <1> QED  BY <1>1, <1>2, <1>3, PTL DEF ProviderSpec

LEMMA ProviderAnswers == ASSUME ProviderInv PROVE AnswersCurrent
  <1>1. NeverSuperseded
    BY ProviderCacheAssumption DEF ProviderInv, Heard, Current, NeverSuperseded, ProviderTypeOK
  <1>2. ConfirmedInWindow
    <2> SUFFICES ASSUME get # NoVal
                 PROVE  /\ now - get.confirmed < get.policy.fresh + get.policy.swr + Uncharged(origin, get.policy)
                        /\ freshness(get) = "fresh" => now - get.confirmed < get.policy.fresh + Uncharged(origin, get.policy)
      BY DEF ConfirmedInWindow
    <2>1. get = entry /\ entry # NoVal /\ (now < entry.freshUntil \/ now < entry.staleUntil)
      BY DEF get, freshness
    <2>2. EntryOK(entry, now, origin)
      BY <2>1 DEF ProviderInv, EntrySound
    <2>3. /\ entry.confirmed \in Int /\ entry.freshUntil \in Nat /\ entry.staleUntil \in Nat /\ now \in Nat
          /\ entry.policy.fresh \in Nat /\ entry.policy.swr \in Nat /\ Uncharged(origin, entry.policy) \in Nat
      BY <2>1, <2>2, ProviderCacheAssumption DEF EntryOK, Entries, ProviderInv, ProviderTypeOK, Uncharged
    <2>4. freshness(entry) = "fresh" => now < entry.freshUntil
      BY DEF freshness
    <2>5. now < entry.staleUntil
      BY <2>1, <2>2, <2>3 DEF EntryOK
    <2> QED  BY <2>1, <2>2, <2>3, <2>4, <2>5 DEF EntryOK
  <1> QED  BY <1>1, <1>2 DEF AnswersCurrent

\* No request is given an answer that one applied before it began had replaced,
\* and what is served from the cache is within the policy's windows, counted from
\* the origin's confirmation, to what the code does not charge: a transfer from an
\* object store, or an age against a lifetime of the server's own (put_found,
\* put_negative and corrected_initial_age).
THEOREM ProviderAnswersCurrent == ProviderSpec => []AnswersCurrent
  <1>1. ProviderInit => ProviderInv
    BY ProviderInitial
  <1>2. ProviderInv /\ [ProviderNext]_providerVars => ProviderInv'
    BY ProviderPreserved
  <1>3. ProviderInv => AnswersCurrent
    BY ProviderAnswers
  <1> QED  BY <1>1, <1>2, <1>3, PTL DEF ProviderSpec

-----------------------------------------------------------------------------
(* TileRead: routing by rank.                                              *)

\* The places of numbers in a finite set of them, counted from the smallest.
LEMMA Places ==
    ASSUME NEW N \in Nat, NEW S, S \subseteq 1..N
    PROVE  LET place(i) == Cardinality({j \in S : j <= i})
           IN  /\ IsFiniteSet(S) /\ Cardinality(S) \in Nat
               /\ \A i \in S : place(i) \in 1..Cardinality(S)
               /\ \A i, j \in S : i < j => place(i) < place(j)
               /\ \A k \in 1..Cardinality(S) : \E i \in S : place(i) = k
  <1> DEFINE upto(i) == {j \in S : j <= i}
             place(i) == Cardinality(upto(i))
             f == [i \in S |-> place(i)]
  <1>1. IsFiniteSet(S) /\ Cardinality(S) \in Nat
    <2>1. IsFiniteSet(1..N)
      BY FS_Interval
    <2> QED  BY <2>1, FS_Subset, FS_CardinalityType
  <1>2. ASSUME NEW i \in S
        PROVE  IsFiniteSet(upto(i)) /\ place(i) \in Nat /\ place(i) <= Cardinality(S) /\ place(i) # 0
    <2>0. i \in Nat /\ i <= i
      OBVIOUS
    <2>1. upto(i) \subseteq S /\ i \in upto(i)
      BY <2>0
    <2> QED  BY <1>1, <2>1, FS_Subset, FS_CardinalityType, FS_EmptySet
  <1>3. ASSUME NEW i \in S
        PROVE  place(i) \in 1..Cardinality(S)
    BY <1>1, <1>2
  <1>4. ASSUME NEW i \in S, NEW j \in S, i < j
        PROVE  place(i) < place(j)
    <2>0. /\ i \in Nat /\ j \in Nat /\ ~(j <= i) /\ j <= j
          /\ \A x \in S : x <= i => x <= j
      BY <1>4
    <2>1. upto(i) \in SUBSET upto(j) /\ j \in upto(j) /\ j \notin upto(i)
      BY <2>0
    <2>2. place(i) <= place(j) /\ place(i) # place(j)
      BY <1>2, <2>1, FS_Subset
    <2> QED  BY <1>2, <2>2
  <1>5. ASSUME NEW i \in S, NEW j \in S, i # j
        PROVE  place(i) # place(j)
    <2>1. i < j \/ j < i
      BY <1>5
    <2> HIDE DEF upto
    <2>2. place(i) < place(j) \/ place(j) < place(i)
      BY <1>4, <2>1
    <2> QED  BY <1>2, <2>2
  <1>6. \A k \in 1..Cardinality(S) : \E i \in S : place(i) = k
    <2> HIDE DEF place
    <2>1. f \in Injection(S, 1..Cardinality(S))
      BY <1>3, <1>5 DEF Injection, IsInjective
    <2>2. IsFiniteSet(1..Cardinality(S)) /\ Cardinality(1..Cardinality(S)) = Cardinality(S)
      BY <1>1, FS_Interval
    <2>3. f \in Surjection(S, 1..Cardinality(S))
      BY <2>1, <2>2, FS_Injection
    <2> QED  BY <2>3 DEF Surjection
  <1> QED  BY <1>1, <1>3, <1>4, <1>6

Above(rank, x, m) == \E i \in DOMAIN rank : rank[i] = x /\ \A j \in 1..i : rank[j] # m

\* Of a list of candidates: whoever is asked before m ranks above it.
Rising(rank, todo, m) == \A k \in 1..Len(todo) : (\A j \in 1..k : todo[j] # m) => Above(rank, todo[k], m)

LEMMA RouteGroupSound ==
    ASSUME NEW rank \in Seq(Nodes), NEW peers
    PROVE  /\ route_group(rank, peers) \in Seq(Nodes)
           /\ Len(route_group(rank, peers)) <= candidate_count
           /\ \A m \in peers : Rising(rank, route_group(rank, peers), m)
  <1> DEFINE seen == {i \in DOMAIN rank : rank[i] \in peers}
             place(i) == Cardinality({j \in seen : j <= i})
             taken == IF Cardinality(seen) < candidate_count THEN Cardinality(seen) ELSE candidate_count
             pick(k) == CHOOSE i \in seen : place(i) = k
             q == route_group(rank, peers)
  <1>0. candidate_count \in Nat
    BY TileReadAssumption
  <1>1. Len(rank) \in Nat /\ DOMAIN rank = 1..Len(rank) /\ seen \subseteq 1..Len(rank)
    BY LenProperties
  <1>2. /\ Cardinality(seen) \in Nat
        /\ \A i \in seen : place(i) \in 1..Cardinality(seen)
        /\ \A i, j \in seen : i < j => place(i) < place(j)
        /\ \A k \in 1..Cardinality(seen) : \E i \in seen : place(i) = k
    <2> HIDE DEF seen
    <2> QED  BY <1>1, Places
  <1>3. q = [k \in 1..taken |-> rank[pick(k)]]
    BY DEF route_group
  <1>4. taken \in Nat /\ taken <= candidate_count /\ taken <= Cardinality(seen)
    BY <1>0, <1>2
  <1>5. \A k \in 1..taken : pick(k) \in seen /\ place(pick(k)) = k
    <2> HIDE DEF seen, place
    <2> QED  BY <1>2, <1>4
  <1> HIDE DEF q, taken, place, pick
  <1>6. \A k \in 1..taken : q[k] = rank[pick(k)] /\ q[k] \in Nodes
    BY <1>1, <1>3, <1>5
  <1>7. q \in [1..taken -> Nodes]
    BY <1>3, <1>6
  <1>8. q \in Seq(Nodes) /\ Len(q) = taken
    BY <1>4, <1>7, SeqDef, LenProperties
  <1>9. ASSUME NEW m \in peers, NEW k \in 1..taken, \A j \in 1..k : q[j] # m
        PROVE  Above(rank, q[k], m)
    <2>1. pick(k) \in seen /\ place(pick(k)) = k /\ q[k] = rank[pick(k)]
      BY <1>5, <1>6
    <2>2. ASSUME NEW j \in 1..pick(k), rank[j] = m
          PROVE  FALSE
      <3>1. j \in seen /\ pick(k) \in seen /\ j \in Nat /\ pick(k) \in Nat
        BY <1>1, <2>1, <2>2
      <3>2. place(j) \in Nat /\ place(j) \in 1..Cardinality(seen) /\ place(j) <= k
        <4>1. CASE j = pick(k)
          BY <1>2, <1>4, <2>1, <3>1, <4>1
        <4>2. CASE j # pick(k)
          <5>1. j < pick(k)
            BY <2>2, <3>1, <4>2
          <5>2. place(j) < k
            BY <1>2, <2>1, <3>1, <5>1
          <5> QED  BY <1>2, <3>1, <5>2
        <4> QED  BY <4>1, <4>2
      <3>3. place(j) \in 1..k /\ place(j) \in 1..taken
        BY <1>4, <3>2
      <3>4. pick(place(j)) \in seen /\ place(pick(place(j))) = place(j)
        BY <1>5, <3>3
      <3>5. pick(place(j)) = j
        <4> DEFINE i == pick(place(j))
        <4>1. i \in seen /\ place(i) = place(j) /\ i \in Nat
          BY <1>1, <3>4
        <4> HIDE DEF i
        <4>2. ~(i < j) /\ ~(j < i)
          BY <1>2, <3>1, <3>2, <4>1
        <4> QED  BY <3>1, <4>1, <4>2 DEF i
      <3>6. q[place(j)] = m
        BY <1>6, <2>2, <3>3, <3>5
      <3> QED  BY <1>9, <3>3, <3>6
    <2>3. pick(k) \in DOMAIN rank
      BY <2>1
    <2> QED  BY <2>1, <2>2, <2>3 DEF Above
  <1> QED  BY <1>4, <1>8, <1>9 DEF q, Rising

-----------------------------------------------------------------------------
(* The shape of a stack.                                                   *)

\* The phases a frame of each kind goes through.
PhasesOf(op) ==
    CASE op = "tile" -> {"start", "route", "try", "header", "boot", "read"}
      [] op = "serve" -> {"start", "boot", "read"}
      [] op = "boot" -> {"start", "begin", "wait", "route", "try", "probe"}
      [] op = "index" -> {"start", "begin", "wait", "probe"}

\* A frame is in a phase of its kind.  While it has a candidate to go back to, that is another
\* node; and a bootstrap goes to nodes that rank above its own, if it sees itself.
FrameSound(f, views) ==
    /\ f.at \in PhasesOf(f.op)
    /\ f.at \in {"try", "header"} => f.todo # << >> /\ Head(f.todo) # f.node
    /\ f.op = "boot" /\ f.at = "try" /\ f.node \in views[f.node] => Rising(SetRank, f.todo, f.node)

\* The call u was made by the frame f.
Linked(u, f) ==
    \/ u.op = "serve" /\ f.op = "tile" /\ f.at = "try" /\ u.node = Head(f.todo)
    \/ u.op = "boot" /\ f.op = "tile" /\ f.at \in {"header", "boot"} /\ u.node = f.node
    \/ u.op = "boot" /\ f.op = "serve" /\ f.at = "boot" /\ u.node = f.node
    \/ u.op = "index" /\ f.op = "boot" /\ f.at = "try" /\ u.node = Head(f.todo)

StackSound(s, views) ==
    /\ s \in Seq(Frames)
    /\ \A i \in 1..Len(s) : FrameSound(s[i], views)
    /\ \A i \in 1..(Len(s) - 1) : Linked(s[i], s[i + 1])
    /\ s # << >> => s[Len(s)].op = "tile"

Leads(f) == f.op \in {"boot", "index"} /\ f.at \in Loading
Own(f) == IF Leads(f) THEN {f.node} ELSE {}

LEMMA LedInFrames ==
    ASSUME NEW s \in Seq(Frames)
    PROVE  \A n : n \in LedIn(s) <=> \E i \in 1..Len(s) : Leads(s[i]) /\ s[i].node = n
  <1>1. DOMAIN s = 1..Len(s)
    BY LenProperties
  <1> QED  BY <1>1 DEF LedIn, Leads

\* Only the innermost frame and the one it was called from lead flights, and of two nodes.
LEMMA TwoAtMost ==
    ASSUME NEW s, NEW views, StackSound(s, views), NEW i \in 1..Len(s), i > 1, s[i].op \in {"boot", "index"}
    PROVE  i = 2 /\ s[1].op = "index" /\ s[2].op = "boot" /\ s[2].at = "try"
           /\ s[2].todo # << >> /\ s[1].node = Head(s[2].todo) /\ s[1].node # s[2].node
  <1>1. Len(s) \in Nat /\ s \in Seq(Frames)
    BY LenProperties DEF StackSound
  <1> DEFINE u == s[i - 1]
             f == s[i]
  <1>2. Linked(u, f) /\ FrameSound(f, views)
    <2>1. i - 1 \in 1..(Len(s) - 1) /\ (i - 1) + 1 = i
      BY <1>1
    <2> QED  BY <2>1 DEF StackSound
  <1> HIDE DEF u, f
  <1>3. f.op \in {"boot", "index"}
    BY DEF f
  <1>4. u.op = "index" /\ f.op = "boot" /\ f.at = "try" /\ u.node = Head(f.todo)
    BY <1>2, <1>3 DEF Linked
  <1>5. f.todo # << >> /\ Head(f.todo) # f.node
    BY <1>2, <1>4 DEF FrameSound
  <1>6. i = 2
    <2>1. SUFFICES ASSUME i # 2 PROVE FALSE
      OBVIOUS
    <2>2. i - 2 \in 1..(Len(s) - 1) /\ (i - 2) + 1 = i - 1
      BY <1>1, <2>1
    <2>3. Linked(s[i - 2], u)
      BY <2>2 DEF StackSound, u
    <2> QED  BY <1>4, <2>3 DEF Linked
  <1> QED  BY <1>4, <1>5, <1>6 DEF u, f

LEMMA LedApart ==
    ASSUME NEW s, NEW views, StackSound(s, views), NEW i \in 1..Len(s), NEW j \in 1..Len(s), i # j,
           Leads(s[i]), Leads(s[j])
    PROVE  s[i].node # s[j].node
  <1>1. Len(s) \in Nat
    BY LenProperties DEF StackSound
  <1>2. (i > 1 => i = 2 /\ s[1].node # s[2].node) /\ (j > 1 => j = 2 /\ s[1].node # s[2].node)
    BY TwoAtMost DEF Leads
  <1>3. (i = 1 /\ j = 2) \/ (i = 2 /\ j = 1)
    BY <1>1, <1>2
  <1> QED  BY <1>2, <1>3

\* What is left when the innermost k frames are gone.
LEMMA Dropped ==
    ASSUME NEW s, NEW views, StackSound(s, views), NEW k \in 1..Len(s)
    PROVE  LET t == SubSeq(s, k + 1, Len(s))
           IN  /\ StackSound(t, views)
               /\ t = << >> <=> k = Len(s)
               /\ k < Len(s) => Head(t) = s[k + 1] /\ Linked(s[k], Head(t))
               /\ LedIn(SubSeq(s, 1, k)) \subseteq LedIn(s)
               /\ LedIn(t) = LedIn(s) \ LedIn(SubSeq(s, 1, k))
  <1> DEFINE t == SubSeq(s, k + 1, Len(s))
             d == SubSeq(s, 1, k)
  <1>1. Len(s) \in Nat /\ s \in Seq(Frames) /\ \A i \in 1..Len(s) : s[i] \in Frames
    BY LenProperties, ElementOfSeq DEF StackSound
  <1>2. t \in Seq(Frames) /\ Len(t) = Len(s) - k /\ \A i \in 1..(Len(s) - k) : t[i] = s[i + k]
    <2>1. \A i \in k + 1..Len(s) : s[i] \in Frames
      BY <1>1
    <2>2. /\ t \in Seq(Frames)
          /\ Len(t) = (IF k + 1 <= Len(s) THEN Len(s) - (k + 1) + 1 ELSE 0)
          /\ \A i \in 1..(Len(s) - (k + 1) + 1) : t[i] = s[k + 1 + i - 1]
      <3> HIDE DEF t
      <3>1. k + 1 \in Int /\ Len(s) \in Int
        BY <1>1
      <3> QED  BY <2>1, <3>1, SubSeqProperties DEF t
    <2> HIDE DEF t
    <2>3. Len(s) - (k + 1) + 1 = Len(s) - k /\ \A i \in Int : k + 1 + i - 1 = i + k
      BY <1>1
    <2>4. Len(t) = Len(s) - k
      <3>1. (IF k + 1 <= Len(s) THEN Len(s) - (k + 1) + 1 ELSE 0) = Len(s) - k
        <4> DEFINE l == Len(s)
        <4>1. l \in Nat /\ k \in 1..l
          BY <1>1
        <4> HIDE DEF l
        <4>2. (IF k + 1 <= l THEN l - (k + 1) + 1 ELSE 0) = l - k
          BY <4>1
        <4> QED  BY <4>2 DEF l
      <3> QED  BY <2>2, <3>1
    <2>5. ASSUME NEW i \in 1..(Len(s) - k) PROVE t[i] = s[i + k]
      <3>1. i \in Int /\ i \in 1..(Len(s) - (k + 1) + 1)
        BY <1>1, <2>3
      <3> QED  BY <2>2, <2>3, <3>1
    <2> QED  BY <2>2, <2>4, <2>5
  <1>3. d \in Seq(Frames) /\ Len(d) = k /\ \A i \in 1..k : d[i] = s[i]
    <2>1. \A i \in 1..k : s[i] \in Frames
      BY <1>1
    <2>2. /\ d \in Seq(Frames)
          /\ Len(d) = (IF 1 <= k THEN k - 1 + 1 ELSE 0)
          /\ \A i \in 1..(k - 1 + 1) : d[i] = s[1 + i - 1]
      <3> HIDE DEF d
      <3> QED  BY <2>1, SubSeqProperties DEF d
    <2> HIDE DEF d
    <2>3. k - 1 + 1 = k /\ \A i \in Int : 1 + i - 1 = i
      OBVIOUS
    <2> QED  BY <2>2, <2>3
  <1> HIDE DEF t, d
  <1>4. StackSound(t, views)
    <2>1. ASSUME NEW i \in 1..Len(t) PROVE FrameSound(t[i], views)
      <3>1. i + k \in 1..Len(s) /\ t[i] = s[i + k]
        BY <1>1, <1>2
      <3> QED  BY <3>1 DEF StackSound
    <2>2. ASSUME NEW i \in 1..(Len(t) - 1) PROVE Linked(t[i], t[i + 1])
      <3>0. /\ i + k \in 1..(Len(s) - 1) /\ i \in 1..(Len(s) - k) /\ i + 1 \in 1..(Len(s) - k)
            /\ (i + 1) + k = (i + k) + 1
        BY <1>1, <1>2
      <3>1. i + k \in 1..(Len(s) - 1) /\ t[i] = s[i + k] /\ t[i + 1] = s[(i + k) + 1]
        BY <1>2, <3>0
      <3> QED  BY <3>1 DEF StackSound
    <2>3. ASSUME t # << >> PROVE t[Len(t)].op = "tile"
      <3>1. Len(t) # 0
        BY <1>2, <2>3, EmptySeq
      <3>2. t[Len(t)] = s[Len(s)] /\ s # << >>
        BY <1>1, <1>2, <3>1, EmptySeq
      <3> QED  BY <3>2 DEF StackSound
    <2> QED  BY <1>2, <2>1, <2>2, <2>3 DEF StackSound
  <1>5. t = << >> <=> k = Len(s)
    BY <1>1, <1>2, EmptySeq
  <1>6. ASSUME k < Len(s) PROVE Head(t) = s[k + 1] /\ Linked(s[k], Head(t))
    <2>1. Head(t) = t[1] /\ t[1] = s[k + 1]
      BY <1>1, <1>2, <1>5, <1>6, HeadTailProperties
    <2>2. k \in 1..(Len(s) - 1)
      BY <1>1, <1>6
    <2> QED  BY <2>1, <2>2 DEF StackSound
  <1>7. \A n : /\ n \in LedIn(s) <=> \E i \in 1..Len(s) : Leads(s[i]) /\ s[i].node = n
               /\ n \in LedIn(t) <=> \E i \in 1..Len(t) : Leads(t[i]) /\ t[i].node = n
               /\ n \in LedIn(d) <=> \E i \in 1..k : Leads(d[i]) /\ d[i].node = n
    BY <1>1, <1>2, <1>3, LedInFrames
  <1>8. LedIn(d) \subseteq LedIn(s)
    <2> SUFFICES ASSUME NEW n \in LedIn(d) PROVE n \in LedIn(s)
      OBVIOUS
    <2>1. PICK i \in 1..k : Leads(d[i]) /\ d[i].node = n
      BY <1>7
    <2>2. i \in 1..Len(s) /\ d[i] = s[i]
      BY <1>1, <1>3
    <2> QED  BY <1>7, <2>1, <2>2
  <1>9. ASSUME NEW n \in LedIn(t) PROVE n \in LedIn(s) /\ n \notin LedIn(d)
    <2>1. PICK i \in 1..Len(t) : Leads(t[i]) /\ t[i].node = n
      BY <1>7
    <2>2. i + k \in 1..Len(s) /\ t[i] = s[i + k]
      BY <1>1, <1>2
    <2>3. ASSUME n \in LedIn(d) PROVE FALSE
      <3>1. PICK j \in 1..k : Leads(d[j]) /\ d[j].node = n
        BY <1>7, <2>3
      <3>2. j \in 1..Len(s) /\ d[j] = s[j] /\ j # i + k
        BY <1>1, <1>2, <1>3
      <3> QED  BY <2>1, <2>2, <3>1, <3>2, LedApart
    <2> QED  BY <1>7, <2>1, <2>2, <2>3
  <1>10. ASSUME NEW n \in LedIn(s), n \notin LedIn(d) PROVE n \in LedIn(t)
    <2>1. PICK i \in 1..Len(s) : Leads(s[i]) /\ s[i].node = n
      BY <1>7
    <2>2. ~(i <= k)
      <3> SUFFICES ASSUME i <= k PROVE FALSE
        OBVIOUS
      <3>1. i \in 1..k /\ d[i] = s[i]
        BY <1>3
      <3> QED  BY <1>7, <1>10, <2>1, <3>1
    <2>3. i - k \in 1..Len(t) /\ t[i - k] = s[i]
      <3>1. i - k \in 1..(Len(s) - k) /\ (i - k) + k = i
        BY <1>1, <2>2
      <3> QED  BY <1>2, <3>1
    <2> QED  BY <1>7, <2>1, <2>3
  <1>11. LedIn(t) = LedIn(s) \ LedIn(d)
    BY <1>9, <1>10
  <1> QED  BY <1>4, <1>5, <1>6, <1>8, <1>11 DEF t, d

\* The innermost frame takes a step.
LEMMA Replaced ==
    ASSUME NEW s, NEW views, StackSound(s, views), s # << >>,
           NEW g \in Frames, FrameSound(g, views), g.op = Head(s).op, g.node = Head(s).node
    PROVE  LET t == <<g>> \o Tail(s)
           IN  /\ StackSound(t, views) /\ t # << >> /\ Head(t) = g
               /\ LedIn(t) = (LedIn(s) \ Own(Head(s))) \cup Own(g)
  <1> DEFINE t == <<g>> \o Tail(s)
  <1>1. /\ s \in Seq(Frames) /\ Len(s) \in Nat /\ Len(s) # 0 /\ 1 \in 1..Len(s)
        /\ Head(s) = s[1] /\ s[1] \in Frames
    BY EmptySeq, LenProperties, ElementOfSeq, HeadTailProperties DEF StackSound
  <1>2. /\ Tail(s) \in Seq(Frames) /\ Len(Tail(s)) = Len(s) - 1
        /\ \A i \in 1..(Len(s) - 1) : Tail(s)[i] = s[i + 1]
    BY <1>1, HeadTailProperties
  <1>3. <<g>> \in Seq(Frames) /\ Len(<<g>>) = 1 /\ <<g>>[1] = g
    OBVIOUS
  <1>4. /\ t \in Seq(Frames) /\ Len(t) = 1 + Len(Tail(s))
        /\ \A i \in 1..(1 + Len(Tail(s))) : t[i] = IF i <= 1 THEN <<g>>[i] ELSE Tail(s)[i - 1]
    <2> DEFINE p == <<g>>
    <2> HIDE DEF p, t
    <2>1. p \in Seq(Frames) /\ Len(p) = 1 /\ t = p \o Tail(s)
      BY <1>3 DEF p, t
    <2>2. /\ t \in Seq(Frames) /\ Len(t) = Len(p) + Len(Tail(s))
          /\ \A i \in 1..(Len(p) + Len(Tail(s))) : t[i] = IF i <= Len(p) THEN p[i] ELSE Tail(s)[i - Len(p)]
      BY <1>2, <2>1, ConcatProperties
    <2> QED  BY <2>1, <2>2 DEF p
  <1> HIDE DEF t
  <1>5. Len(t) = Len(s) /\ t[1] = g /\ \A i \in 2..Len(s) : t[i] = s[i]
    <2>1. Len(t) = Len(s)
      BY <1>1, <1>2, <1>4
    <2>2. t[1] = g
      BY <1>1, <1>2, <1>3, <1>4
    <2>3. ASSUME NEW i \in 2..Len(s) PROVE t[i] = s[i]
      <3>1. i \in 1..(1 + Len(Tail(s))) /\ ~(i <= 1) /\ i - 1 \in 1..(Len(s) - 1) /\ (i - 1) + 1 = i
        BY <1>1, <1>2
      <3> QED  BY <1>2, <1>4, <3>1
    <2> QED  BY <2>1, <2>2, <2>3
  <1>6. t # << >> /\ Head(t) = g
    <2>1. t # << >>
      BY <1>1, <1>4, <1>5, EmptySeq
    <2> QED  BY <1>4, <1>5, <2>1, HeadTailProperties
  <1>7. StackSound(t, views)
    <2>1. ASSUME NEW i \in 1..Len(t) PROVE FrameSound(t[i], views)
      <3>1. i = 1 \/ i \in 2..Len(s)
        BY <1>1, <1>5
      <3> QED  BY <1>5, <3>1 DEF StackSound
    <2>2. ASSUME NEW i \in 1..(Len(t) - 1) PROVE Linked(t[i], t[i + 1])
      <3>0. i \in 1..(Len(s) - 1) /\ i + 1 \in 2..Len(s) /\ (i = 1 \/ i \in 2..Len(s))
        BY <1>1, <1>5
      <3>1. Linked(s[i], s[i + 1]) /\ t[i + 1] = s[i + 1]
        BY <1>5, <3>0 DEF StackSound
      <3>2. t[i].op = s[i].op /\ t[i].node = s[i].node
        BY <1>1, <1>5, <3>0
      <3> QED  BY <3>1, <3>2 DEF Linked
    <2>3. t[Len(t)].op = "tile"
      <3>1. s[Len(s)].op = "tile"
        BY DEF StackSound
      <3>2. Len(s) = 1 \/ Len(s) \in 2..Len(s)
        <4> DEFINE l == Len(s)
        <4>1. l \in Nat /\ l # 0
          BY <1>1
        <4> HIDE DEF l
        <4>2. l = 1 \/ l \in 2..l
          BY <4>1
        <4> QED  BY <4>2 DEF l
      <3> QED  BY <1>1, <1>5, <3>1, <3>2
    <2> QED  BY <1>4, <2>1, <2>2, <2>3 DEF StackSound
  <1>8. \A n : /\ n \in LedIn(s) <=> \E i \in 1..Len(s) : Leads(s[i]) /\ s[i].node = n
               /\ n \in LedIn(t) <=> \E i \in 1..Len(s) : Leads(t[i]) /\ t[i].node = n
    BY <1>1, <1>4, <1>5, LedInFrames
  <1>9. \A i \in 1..Len(s) : i = 1 \/ i \in 2..Len(s)
    BY <1>1
  <1>10. ASSUME NEW n \in LedIn(t) PROVE n \in (LedIn(s) \ Own(Head(s))) \cup Own(g)
    <2>1. PICK i \in 1..Len(s) : Leads(t[i]) /\ t[i].node = n
      BY <1>8, <1>10
    <2>2. CASE i = 1
      BY <1>5, <2>1, <2>2 DEF Own
    <2>3. CASE i \in 2..Len(s)
      <3>1. Leads(s[i]) /\ s[i].node = n /\ i # 1
        BY <1>5, <2>1, <2>3
      <3>2. Leads(s[1]) => s[1].node # n
        BY <1>1, <3>1, LedApart
      <3> QED  BY <1>1, <1>8, <3>1, <3>2 DEF Own
    <2> QED  BY <1>9, <2>2, <2>3
  <1>11. ASSUME NEW n \in (LedIn(s) \ Own(Head(s))) \cup Own(g) PROVE n \in LedIn(t)
    <2>1. CASE n \in Own(g)
      BY <1>1, <1>5, <1>8, <2>1 DEF Own
    <2>2. CASE n \in LedIn(s) \ Own(Head(s))
      <3>1. PICK i \in 1..Len(s) : Leads(s[i]) /\ s[i].node = n
        BY <1>8, <2>2
      <3>2. i # 1
        BY <1>1, <2>2, <3>1 DEF Own
      <3> QED  BY <1>5, <1>8, <1>9, <3>1, <3>2
    <2> QED  BY <1>11, <2>1, <2>2
  <1>12. LedIn(t) = (LedIn(s) \ Own(Head(s))) \cup Own(g)
    BY <1>10, <1>11
  <1> QED  BY <1>6, <1>7, <1>12 DEF t

\* The innermost frame makes a call.
LEMMA Pushed ==
    ASSUME NEW s, NEW views, StackSound(s, views), s # << >>,
           NEW h \in Frames, FrameSound(h, views), Linked(h, Head(s)), ~Leads(h)
    PROVE  LET t == <<h>> \o s
           IN  StackSound(t, views) /\ t # << >> /\ Head(t) = h /\ LedIn(t) = LedIn(s)
  <1> DEFINE t == <<h>> \o s
  <1>1. /\ s \in Seq(Frames) /\ Len(s) \in Nat /\ Len(s) # 0 /\ 1 \in 1..Len(s)
        /\ Head(s) = s[1]
    BY EmptySeq, LenProperties, HeadTailProperties DEF StackSound
  <1>4. /\ t \in Seq(Frames) /\ Len(t) = 1 + Len(s)
        /\ \A i \in 1..(1 + Len(s)) : t[i] = IF i <= 1 THEN <<h>>[i] ELSE s[i - 1]
    <2> DEFINE p == <<h>>
    <2>0. p \in Seq(Frames) /\ Len(p) = 1
      OBVIOUS
    <2> HIDE DEF p, t
    <2>1. t = p \o s
      BY DEF p, t
    <2>2. /\ t \in Seq(Frames) /\ Len(t) = Len(p) + Len(s)
          /\ \A i \in 1..(Len(p) + Len(s)) : t[i] = IF i <= Len(p) THEN p[i] ELSE s[i - Len(p)]
      BY <1>1, <2>0, <2>1, ConcatProperties
    <2> QED  BY <2>0, <2>2 DEF p
  <1> HIDE DEF t
  <1>5. t[1] = h /\ \A i \in 2..Len(t) : i - 1 \in 1..Len(s) /\ t[i] = s[i - 1]
    <2>2. t[1] = h
      BY <1>1, <1>4
    <2>3. ASSUME NEW i \in 2..Len(t) PROVE i - 1 \in 1..Len(s) /\ t[i] = s[i - 1]
      <3>1. i \in 1..(1 + Len(s)) /\ ~(i <= 1) /\ i - 1 \in 1..Len(s)
        BY <1>1, <1>4
      <3> QED  BY <1>4, <3>1
    <2> QED  BY <2>2, <2>3
  <1>6. t # << >> /\ Head(t) = h
    <2>1. t # << >>
      BY <1>1, <1>4, EmptySeq
    <2> QED  BY <1>4, <1>5, <2>1, HeadTailProperties
  <1>9. \A i \in 1..Len(t) : i = 1 \/ i \in 2..Len(t)
    BY <1>1, <1>4
  <1>7. StackSound(t, views)
    <2>1. ASSUME NEW i \in 1..Len(t) PROVE FrameSound(t[i], views)
      BY <1>5, <1>9 DEF StackSound
    <2>2. ASSUME NEW i \in 1..(Len(t) - 1) PROVE Linked(t[i], t[i + 1])
      <3>0. i + 1 \in 2..Len(t) /\ (i + 1) - 1 = i /\ i \in 1..Len(t)
        BY <1>1, <1>4
      <3>1. t[i + 1] = s[i]
        BY <1>5, <3>0
      <3>2. CASE i = 1
        BY <1>1, <1>5, <3>1, <3>2
      <3>3. CASE i \in 2..Len(t)
        <4>1. i - 1 \in 1..(Len(s) - 1) /\ (i - 1) + 1 = i /\ t[i] = s[i - 1]
          BY <1>1, <1>4, <1>5, <3>3
        <4> QED  BY <3>1, <4>1 DEF StackSound
      <3> QED  BY <1>9, <3>0, <3>2, <3>3
    <2>3. t[Len(t)].op = "tile"
      <3>1. s[Len(s)].op = "tile"
        BY DEF StackSound
      <3>2. Len(t) \in 2..Len(t) /\ Len(t) - 1 = Len(s)
        BY <1>1, <1>4
      <3> QED  BY <1>5, <3>1, <3>2
    <2> QED  BY <1>4, <2>1, <2>2, <2>3 DEF StackSound
  <1>8. \A n : /\ n \in LedIn(s) <=> \E i \in 1..Len(s) : Leads(s[i]) /\ s[i].node = n
               /\ n \in LedIn(t) <=> \E i \in 1..Len(t) : Leads(t[i]) /\ t[i].node = n
    BY <1>1, <1>4, LedInFrames
  <1>10. ASSUME NEW n \in LedIn(t) PROVE n \in LedIn(s)
    <2>1. PICK i \in 1..Len(t) : Leads(t[i]) /\ t[i].node = n
      BY <1>8, <1>10
    <2>2. i # 1
      BY <1>5, <2>1
    <2> QED  BY <1>5, <1>8, <1>9, <2>1, <2>2
  <1>11. ASSUME NEW n \in LedIn(s) PROVE n \in LedIn(t)
    <2>1. PICK i \in 1..Len(s) : Leads(s[i]) /\ s[i].node = n
      BY <1>8, <1>11
    <2>2. i + 1 \in 2..Len(t) /\ i + 1 \in 1..Len(t) /\ (i + 1) - 1 = i
      BY <1>1, <1>4
    <2>3. t[i + 1] = s[i]
      BY <1>5, <2>2
    <2> QED  BY <1>8, <2>1, <2>2, <2>3
  <1>12. LedIn(t) = LedIn(s)
    BY <1>10, <1>11
  <1> QED  BY <1>6, <1>7, <1>12 DEF t

LEMMA TwoPushed ==
    ASSUME NEW h \in Frames, NEW g \in Frames, NEW s \in Seq(Frames)
    PROVE  <<h, g>> \o s = <<h>> \o (<<g>> \o s)
  <1>1. <<h>> \in Seq(Frames) /\ <<g>> \in Seq(Frames)
    OBVIOUS
  <1>2. <<h, g>> = Append(<<h>>, g)
    OBVIOUS
  <1>3. <<h, g>> = <<h>> \o <<g>>
    BY <1>1, <1>2, AppendIsConcat
  <1> QED  BY <1>1, <1>3, ConcatAssociative

-----------------------------------------------------------------------------
(* The inductive invariant.                                                *)

Types ==
    /\ published \in BOOLEAN /\ turns \in 0..MaxTurns
    /\ tile \in [Nodes -> {"none", "found", "absent"}]
    /\ archive \in [Nodes -> BOOLEAN] /\ absent \in [Nodes -> BOOLEAN]
    /\ flight \in [Nodes -> {NoVal} \cup Readers]
    /\ backoff \in [Nodes -> SUBSET (Nodes \X {"tile", "bootstrap"})]
    /\ routable \in [Nodes -> SUBSET Nodes]
    /\ ret \in [Readers -> {NoVal} \cup Values]
    /\ heard \in [Readers -> {NoVal, "nothing"} \cup Errors]

StacksSound ==
    /\ stack \in [Readers -> Seq(Frames)]
    /\ \A r \in Readers : StackSound(stack[r], routable)

\* No node is ever backed off from itself.
NoSelfBackoff == \A n \in Nodes : \A resource \in {"tile", "bootstrap"} : <<n, resource>> \notin backoff[n]

\* A value is handed to a frame that made a call, or is the "not found" of object storage.
Hears(frames, v) ==
    frames # << >> /\ (Head(frames).at \in {"try", "header", "boot"} \/ (Head(frames).at = "probe" /\ v = "none"))
RetSound == \A r \in Readers : ret[r] # NoVal => Hears(stack[r], ret[r])

ReadInv == Types /\ StacksSound /\ NoSelfBackoff /\ RetSound /\ FlightsLed

LEMMA Todo ==
    /\ \A q : q \in SeqOf(Nodes, candidate_count) <=> q \in Seq(Nodes) /\ Len(q) <= candidate_count
    /\ << >> \in SeqOf(Nodes, candidate_count)
  <1>1. candidate_count \in Nat
    BY TileReadAssumption
  <1>2. ASSUME NEW q \in SeqOf(Nodes, candidate_count)
        PROVE  q \in Seq(Nodes) /\ Len(q) <= candidate_count
    <2>1. PICK m \in 0..candidate_count : q \in [1..m -> Nodes]
      BY <1>1 DEF SeqOf
    <2>2. m \in Nat
      BY <1>1
    <2> QED  BY <1>1, <2>1, <2>2, SeqDef, LenProperties
  <1>3. ASSUME NEW q \in Seq(Nodes), Len(q) <= candidate_count
        PROVE  q \in SeqOf(Nodes, candidate_count)
    <2>1. q \in [1..Len(q) -> Nodes] /\ Len(q) \in 0..candidate_count
      BY <1>1, <1>3, LenProperties
    <2> QED  BY <2>1 DEF SeqOf
  <1>4. << >> \in Seq(Nodes) /\ Len(<< >>) <= candidate_count
    BY <1>1, EmptySeq
  <1> QED  BY <1>2, <1>3, <1>4

LEMMA TodoTail ==
    ASSUME NEW q \in SeqOf(Nodes, candidate_count), q # << >>
    PROVE  /\ Head(q) \in Nodes /\ Tail(q) \in SeqOf(Nodes, candidate_count)
           /\ \A rank, m : Head(q) # m /\ Rising(rank, q, m) => Rising(rank, Tail(q), m)
           /\ \A rank, m : Head(q) # m /\ Rising(rank, q, m) => Above(rank, Head(q), m)
  <1>1. q \in Seq(Nodes) /\ Len(q) <= candidate_count /\ candidate_count \in Nat
    BY Todo, TileReadAssumption
  <1>2. /\ Head(q) \in Nodes /\ Tail(q) \in Seq(Nodes) /\ Len(Tail(q)) = Len(q) - 1 /\ Len(q) \in Nat
        /\ \A i \in 1..(Len(q) - 1) : Tail(q)[i] = q[i + 1]
        /\ Head(q) = q[1] /\ Len(q) # 0
    BY <1>1, HeadTailProperties, LenProperties, EmptySeq
  <1>3. Tail(q) \in SeqOf(Nodes, candidate_count)
    <2>1. Len(Tail(q)) <= candidate_count
      BY <1>1, <1>2
    <2> QED  BY <1>2, <2>1, Todo
  <1>4. ASSUME NEW rank, NEW m, Head(q) # m, Rising(rank, q, m)
        PROVE  Rising(rank, Tail(q), m)
    <2> SUFFICES ASSUME NEW k \in 1..Len(Tail(q)), \A j \in 1..k : Tail(q)[j] # m
                 PROVE  Above(rank, Tail(q)[k], m)
      BY DEF Rising
    <2>1. k \in 1..(Len(q) - 1) /\ k + 1 \in 1..Len(q) /\ Tail(q)[k] = q[k + 1]
      BY <1>2
    <2>2. ASSUME NEW j \in 1..(k + 1) PROVE q[j] # m
      <3>1. CASE j = 1
        BY <1>2, <1>4, <3>1
      <3>2. CASE j # 1
        <4>1. j - 1 \in 1..k /\ j - 1 \in 1..(Len(q) - 1) /\ (j - 1) + 1 = j
          BY <1>2, <2>1, <3>2
        <4>2. Tail(q)[j - 1] = q[j] /\ Tail(q)[j - 1] # m
          BY <1>2, <4>1
        <4> QED  BY <4>2
      <3> QED  BY <3>1, <3>2
    <2> QED  BY <1>4, <2>1, <2>2 DEF Rising
  <1>5. ASSUME NEW rank, NEW m, Head(q) # m, Rising(rank, q, m)
        PROVE  Above(rank, Head(q), m)
    <2>1. 1 \in 1..Len(q) /\ \A j \in 1..1 : q[j] # m
      BY <1>2, <1>5
    <2> QED  BY <1>2, <1>5, <2>1 DEF Rising
  <1> QED  BY <1>2, <1>3, <1>4, <1>5

\* A node asks the candidates that rank above it, on any view in which it is itself.
LEMMA Routed ==
    ASSUME Types, NEW n \in Nodes
    PROVE  /\ \A resource : route_with_backoff(n, resource) \in SeqOf(Nodes, candidate_count)
           /\ NoSelfBackoff /\ n \in routable[n] => Rising(SetRank, route_with_backoff(n, "bootstrap"), n)
  <1>1. TileRank \in Seq(Nodes) /\ SetRank \in Seq(Nodes)
    BY TileReadAssumption
  <1>2. \A resource : route_with_backoff(n, resource) \in SeqOf(Nodes, candidate_count)
    BY <1>1, RouteGroupSound, Todo DEF route_with_backoff
  <1>3. ASSUME NoSelfBackoff, n \in routable[n]
        PROVE  Rising(SetRank, route_with_backoff(n, "bootstrap"), n)
    <2>1. n \in available_peers(n, "bootstrap")
      BY <1>3 DEF NoSelfBackoff, available_peers
    <2> QED  BY <1>1, <2>1, RouteGroupSound DEF route_with_backoff
  <1> QED  BY <1>2, <1>3

LEMMA TopSound ==
    ASSUME NEW s, NEW views, StackSound(s, views), s # << >>
    PROVE  /\ Head(s) \in Frames /\ FrameSound(Head(s), views)
           /\ Head(s).op \in Ops /\ Head(s).node \in Nodes /\ Head(s).at \in PhasesOf(Head(s).op)
           /\ Head(s).todo \in SeqOf(Nodes, candidate_count)
           /\ Own(Head(s)) \subseteq LedIn(s)
           /\ Len(s) \in Nat /\ 1 \in 1..Len(s) /\ Head(s) = s[1]
  <1>1. /\ s \in Seq(Frames) /\ Len(s) \in Nat /\ Len(s) # 0 /\ 1 \in 1..Len(s)
        /\ Head(s) = s[1] /\ s[1] \in Frames
    BY EmptySeq, LenProperties, ElementOfSeq, HeadTailProperties DEF StackSound
  <1>2. FrameSound(s[1], views)
    BY <1>1 DEF StackSound
  <1>3. Own(s[1]) \subseteq LedIn(s)
    BY <1>1, LedInFrames DEF Own
  <1> QED  BY <1>1, <1>2, <1>3 DEF Frames, FrameSound

-----------------------------------------------------------------------------
(* What a step does to the stack and to the flights it leads.              *)

\* The frames of r are now a sound stack, and nobody else's have changed.
Moved(r) ==
    /\ stack' = [stack EXCEPT ![r] = stack'[r]]
    /\ StackSound(stack'[r], routable)

LeadsIn(op, node, phase) == IF op \in {"boot", "index"} /\ phase \in Loading THEN {node} ELSE {}

LEMMA Goes ==
    ASSUME StacksSound, NEW r \in Readers, stack[r] # << >>, NEW phase \in PhasesOf(Top(r).op),
           phase \notin {"try", "header"}, GotoPhase(r, phase)
    PROVE  /\ Moved(r) /\ stack'[r] # << >> /\ Head(stack'[r]).at = phase
           /\ Head(stack'[r]).node = Top(r).node /\ Head(stack'[r]).op = Top(r).op
           /\ LedIn(stack'[r]) = (LedIn(stack[r]) \ Own(Top(r))) \cup LeadsIn(Top(r).op, Top(r).node, phase)
  <1> DEFINE s == stack[r]
             f == Top(r)
             g == [f EXCEPT !.at = phase, !.todo = << >>]
             t == <<g>> \o Tail(s)
  <1>1. StackSound(s, routable) /\ s # << >> /\ f = Head(s)
    BY DEF StacksSound, Top
  <1>2. f \in Frames /\ f.op \in Ops /\ f.node \in Nodes
    BY <1>1, TopSound
  <1>3. phase \in Phases
    BY <1>2 DEF PhasesOf, Phases, Loading, Ops
  <1>4. g \in Frames /\ g.op = f.op /\ g.node = f.node /\ g.at = phase
    BY <1>2, <1>3, Todo DEF Frames
  <1>5. FrameSound(g, routable)
    BY <1>4 DEF FrameSound
  <1>6. Own(g) = LeadsIn(f.op, f.node, phase)
    BY <1>4 DEF Own, Leads, LeadsIn
  <1> HIDE DEF g, f, s
  <1>7. StackSound(t, routable) /\ t # << >> /\ Head(t) = g /\ LedIn(t) = (LedIn(s) \ Own(f)) \cup Own(g)
    BY <1>1, <1>4, <1>5, Replaced
  <1>8. stack' = [stack EXCEPT ![r] = t] /\ stack \in [Readers -> Seq(Frames)]
    BY DEF GotoPhase, StacksSound, g, f, s
  <1> HIDE DEF t
  <1>9. stack'[r] = t /\ stack' = [stack EXCEPT ![r] = stack'[r]]
    BY <1>8
  <1> QED  BY <1>4, <1>6, <1>7, <1>9 DEF Moved, s, f

LEMMA Calls ==
    ASSUME StacksSound, NEW r \in Readers, stack[r] # << >>, NEW phase \in PhasesOf(Top(r).op),
           NEW todo \in SeqOf(Nodes, candidate_count), NEW op \in Ops, NEW n \in Nodes,
           phase \in {"try", "header"} => todo # << >> /\ Head(todo) # Top(r).node,
           Top(r).op = "boot" /\ Top(r).node \in routable[Top(r).node] => Rising(SetRank, todo, Top(r).node),
           Linked([op |-> op, node |-> n], [op |-> Top(r).op, node |-> Top(r).node, at |-> phase, todo |-> todo]),
           Call(r, phase, todo, op, n)
    PROVE  /\ Moved(r) /\ stack'[r] # << >> /\ Head(stack'[r]).at = "start"
           /\ LedIn(stack'[r]) = (LedIn(stack[r]) \ Own(Top(r))) \cup LeadsIn(Top(r).op, Top(r).node, phase)
  <1> DEFINE s == stack[r]
             f == Top(r)
             g == [f EXCEPT !.at = phase, !.todo = todo]
             h == Frame(op, n)
             t == <<g>> \o Tail(s)
             u == <<h>> \o t
  <1>1. StackSound(s, routable) /\ s # << >> /\ f = Head(s)
    BY DEF StacksSound, Top
  <1>2. f \in Frames /\ f.op \in Ops /\ f.node \in Nodes
    BY <1>1, TopSound
  <1>3. phase \in Phases
    BY <1>2 DEF PhasesOf, Phases, Loading, Ops
  <1>4. g \in Frames /\ g.op = f.op /\ g.node = f.node /\ g.at = phase /\ g.todo = todo
    BY <1>2, <1>3 DEF Frames
  <1>5. FrameSound(g, routable)
    BY <1>4 DEF FrameSound
  <1>6. Own(g) = LeadsIn(f.op, f.node, phase)
    BY <1>4 DEF Own, Leads, LeadsIn
  <1>7. h \in Frames /\ h.at = "start" /\ h.op = op /\ h.node = n
    BY Todo DEF Frame, Frames, Phases
  <1>8. ~Leads(h) /\ Linked(h, g)
    BY <1>4, <1>7 DEF Leads, Loading, Linked
  <1>9. FrameSound(h, routable)
    BY <1>7 DEF FrameSound, PhasesOf, Ops
  <1> HIDE DEF g, f, s, h
  <1>10. StackSound(t, routable) /\ t # << >> /\ Head(t) = g /\ LedIn(t) = (LedIn(s) \ Own(f)) \cup Own(g)
    BY <1>1, <1>4, <1>5, Replaced
  <1>11. StackSound(u, routable) /\ u # << >> /\ Head(u) = h /\ LedIn(u) = LedIn(t)
    <2> HIDE DEF t
    <2> QED  BY <1>7, <1>8, <1>9, <1>10, Pushed
  <1>12. Tail(s) \in Seq(Frames)
    BY <1>1, HeadTailProperties DEF StackSound
  <1>13. stack' = [stack EXCEPT ![r] = <<h, g>> \o Tail(s)] /\ stack \in [Readers -> Seq(Frames)]
    BY DEF Call, StacksSound, g, f, s, h
  <1>14. <<h, g>> \o Tail(s) = u
    BY <1>4, <1>7, <1>12, TwoPushed
  <1> HIDE DEF t, u
  <1>15. stack'[r] = u /\ stack' = [stack EXCEPT ![r] = stack'[r]]
    BY <1>13, <1>14
  <1> QED  BY <1>6, <1>7, <1>10, <1>11, <1>15 DEF Moved, s, f

\* The innermost k frames are gone; whoever called them is back where it made the call.
LEMMA Loses ==
    ASSUME StacksSound, NEW r \in Readers, NEW k \in 1..Len(stack[r]),
           stack' = [stack EXCEPT ![r] = SubSeq(@, k + 1, Len(@))]
    PROVE  LET d == LedIn(SubSeq(stack[r], 1, k))
           IN  /\ Moved(r) /\ d \subseteq LedIn(stack[r]) /\ LedIn(stack'[r]) = LedIn(stack[r]) \ d
               /\ stack'[r] = << >> <=> k = Len(stack[r])
               /\ stack'[r] # << >> => Head(stack'[r]).at \in {"try", "header", "boot"}
               /\ stack[r][k].op \in Remote => stack'[r] # << >>
  <1> DEFINE s == stack[r]
             t == SubSeq(s, k + 1, Len(s))
             d == LedIn(SubSeq(s, 1, k))
  <1>1. StackSound(s, routable) /\ stack \in [Readers -> Seq(Frames)] /\ k \in 1..Len(s)
    BY DEF StacksSound
  <1>2. Len(s) \in Nat /\ s # << >>
    BY <1>1, LenProperties, EmptySeq DEF StackSound
  <1>3. stack' = [stack EXCEPT ![r] = t]
    OBVIOUS
  <1> HIDE DEF s
  <1>4. /\ StackSound(t, routable)
        /\ t = << >> <=> k = Len(s)
        /\ k < Len(s) => Head(t) = s[k + 1] /\ Linked(s[k], Head(t))
        /\ d \subseteq LedIn(s) /\ LedIn(t) = LedIn(s) \ d
    BY <1>1, Dropped
  <1>5. t # << >> => Head(t).at \in {"try", "header", "boot"}
    <2> HIDE DEF t
    <2> QED  BY <1>1, <1>2, <1>4 DEF Linked
  <1>6. ASSUME s[k].op \in Remote PROVE t # << >>
    <2>1. s[Len(s)].op = "tile"
      BY <1>1, <1>2 DEF StackSound
    <2> QED  BY <1>4, <1>6, <2>1 DEF Remote
  <1> HIDE DEF t
  <1>7. stack'[r] = t /\ stack' = [stack EXCEPT ![r] = stack'[r]]
    BY <1>1, <1>3
  <1> QED  BY <1>4, <1>5, <1>6, <1>7 DEF Moved, s

LEMMA Returns ==
    ASSUME Types, StacksSound, NEW r \in Readers, stack[r] # << >>, NEW v \in Values, Return(r, v)
    PROVE  /\ Moved(r) /\ LedIn(stack'[r]) = LedIn(stack[r]) \ Own(Top(r))
           /\ stack'[r] # << >> => Head(stack'[r]).at \in {"try", "header", "boot"}
           /\ ret'[r] # NoVal => stack'[r] # << >>
           /\ ret' \in [Readers -> {NoVal} \cup Values]
           /\ ret'[r] \in {NoVal, v, "retry"} /\ (v \notin Errors => ret'[r] \in {NoVal, v})
           /\ \A x \in Readers \ {r} : ret'[x] = ret[x]
  <1> DEFINE s == stack[r]
             d == LedIn(SubSeq(s, 1, 1))
  <1>1. StackSound(s, routable) /\ s # << >> /\ Top(r) = Head(s) /\ stack \in [Readers -> Seq(Frames)]
    BY DEF StacksSound, Top
  <1>2. /\ s \in Seq(Frames) /\ Len(s) \in Nat /\ 1 \in 1..Len(s) /\ Head(s) = s[1]
    BY <1>1, TopSound DEF StackSound
  <1>3. Tail(s) = SubSeq(s, 1 + 1, Len(s))
    BY <1>1, <1>2, TailIsSubSeq
  <1>4. stack' = [stack EXCEPT ![r] = SubSeq(@, 1 + 1, Len(@))]
    BY <1>3 DEF Return
  <1>5. /\ Moved(r) /\ LedIn(stack'[r]) = LedIn(stack[r]) \ d
        /\ stack'[r] = << >> <=> 1 = Len(stack[r])
        /\ stack'[r] # << >> => Head(stack'[r]).at \in {"try", "header", "boot"}
    BY <1>2, <1>4, Loses
  <1>6. d = Own(Top(r))
    <2> DEFINE p == SubSeq(s, 1, 1)
    <2>1. \A i \in 1..1 : s[i] \in Frames
      BY <1>2, ElementOfSeq
    <2>2. p \in Seq(Frames) /\ Len(p) = 1 /\ p[1] = s[1]
      <3>1. /\ p \in Seq(Frames) /\ Len(p) = (IF 1 <= 1 THEN 1 - 1 + 1 ELSE 0)
            /\ \A i \in 1..(1 - 1 + 1) : p[i] = s[1 + i - 1]
        <4> HIDE DEF p, s
        <4> QED  BY <2>1, SubSeqProperties DEF p
      <3> HIDE DEF p, s
      <3> QED  BY <3>1
    <2> HIDE DEF p
    <2>3. \A n : n \in LedIn(p) <=> \E i \in 1..1 : Leads(p[i]) /\ p[i].node = n
      BY <2>2, LedInFrames
    <2>4. LedIn(p) = Own(s[1])
      BY <2>2, <2>3 DEF Own
    <2> QED  BY <1>1, <1>2, <2>4 DEF p
  <1>7. /\ ret' = [ret EXCEPT ![r] = IF Len(stack[r]) = 1 THEN NoVal
                                     ELSE IF Top(r).op \in Remote THEN Crossed(v) ELSE v]
        /\ ret \in [Readers -> {NoVal} \cup Values]
    BY DEF Return, Types
  <1>8. /\ ret' \in [Readers -> {NoVal} \cup Values]
        /\ ret'[r] # NoVal => Len(stack[r]) # 1
        /\ ret'[r] \in {NoVal, v, "retry"} /\ (v \notin Errors => ret'[r] \in {NoVal, v})
        /\ \A x \in Readers \ {r} : ret'[x] = ret[x]
    BY <1>7 DEF Crossed, Values, Errors
  <1> QED  BY <1>5, <1>6, <1>8

\* What a step of a reader does to the flights it leads: it gives up those of the nodes in
\* freed, and takes those of the nodes in taken.
Steps(r, freed, taken) ==
    /\ Moved(r) /\ UNCHANGED routable
    /\ freed \subseteq LedIn(stack[r])
    /\ taken \subseteq Nodes /\ \A n \in taken : flight[n] = NoVal
    /\ LedIn(stack'[r]) = (LedIn(stack[r]) \ freed) \cup taken
    /\ \A n \in Nodes : flight'[n] = IF n \in freed THEN NoVal ELSE IF n \in taken THEN r ELSE flight[n]
    /\ stack'[r] # << >> /\ Head(stack'[r]).at = "wait" => flight'[Head(stack'[r]).node] # NoVal
    /\ \A x \in Readers \ {r} : heard'[x] = NoVal =>
           heard[x] = NoVal /\ ~(stack[x] # << >> /\ Top(x).at = "wait" /\ Top(x).node \in freed)
    /\ \A x \in Readers \ {r} : ret'[x] = ret[x]
    /\ ret'[r] # NoVal => Hears(stack'[r], ret'[r])

LEMMA FlightStep ==
    ASSUME Types, StacksSound, FlightsLed, NEW r \in Readers, NEW freed, NEW taken, Steps(r, freed, taken)
    PROVE  FlightsLed'
  <1>1. \A x \in Readers \ {r} : stack'[x] = stack[x]
    BY DEF Steps, Moved, StacksSound
  <1>2. /\ LedIn(stack'[r]) = (LedIn(stack[r]) \ freed) \cup taken
        /\ \A n \in Nodes : flight'[n] = IF n \in freed THEN NoVal ELSE IF n \in taken THEN r ELSE flight[n]
        /\ freed \subseteq LedIn(stack[r]) /\ \A n \in taken : flight[n] = NoVal
    BY DEF Steps
  <1>3. /\ \A n \in Nodes : /\ \A x \in Readers : Follows(x, n) => flight[n] # NoVal
                            /\ flight[n] # NoVal => n \in LedIn(stack[flight[n]])
                            /\ \A x \in Readers : n \in LedIn(stack[x]) => flight[n] = x
    BY DEF FlightsLed
  <1>4. NoVal \notin Readers
    BY TileReadAssumption
  <1>5. ASSUME NEW n \in Nodes, NEW x \in Readers, Follows(x, n)'
        PROVE  flight'[n] # NoVal
    <2>1. /\ stack'[x] # << >> /\ Head(stack'[x]).at = "wait" /\ Head(stack'[x]).node = n
          /\ heard'[x] = NoVal
      BY <1>5 DEF Follows, Top
    <2>2. CASE x = r
      BY <2>1, <2>2 DEF Steps
    <2>3. CASE x # r
      <3>1. heard[x] = NoVal /\ ~(stack[x] # << >> /\ Top(x).at = "wait" /\ Top(x).node \in freed)
        BY <2>1, <2>3 DEF Steps
      <3>2. Follows(x, n) /\ n \notin freed
        BY <1>1, <2>1, <2>3, <3>1 DEF Follows, Top
      <3> QED  BY <1>2, <1>3, <1>4, <3>2
    <2> QED  BY <2>2, <2>3
  <1>6. ASSUME NEW n \in Nodes, flight'[n] # NoVal
        PROVE  n \in LedIn(stack'[flight'[n]])
    <2>1. n \notin freed
      BY <1>2, <1>6
    <2>2. CASE n \in taken
      BY <1>2, <2>1, <2>2
    <2>3. CASE n \notin taken
      <3>1. flight'[n] = flight[n] /\ n \in LedIn(stack[flight[n]])
        BY <1>2, <1>3, <1>6, <2>1, <2>3
      <3>2. CASE flight[n] = r
        BY <1>2, <2>1, <3>1, <3>2
      <3>3. CASE flight[n] # r
        <4>1. stack'[flight[n]] = stack[flight[n]]
          BY <1>1, <1>6, <3>1, <3>3 DEF Types
        <4> QED  BY <3>1, <4>1
      <3> QED  BY <3>2, <3>3
    <2> QED  BY <2>2, <2>3
  <1>7. ASSUME NEW n \in Nodes, NEW x \in Readers, n \in LedIn(stack'[x])
        PROVE  flight'[n] = x
    <2>1. CASE x = r
      BY <1>2, <1>3, <1>4, <1>7, <2>1
    <2>2. CASE x # r
      <3>1. flight[n] = x
        BY <1>1, <1>3, <1>7, <2>2
      <3> QED  BY <1>2, <1>3, <1>4, <2>2, <3>1
    <2> QED  BY <2>1, <2>2
  <1> QED  BY <1>5, <1>6, <1>7 DEF FlightsLed

LEMMA ReaderMoves ==
    ASSUME ReadInv, NEW r \in Readers, NEW freed, NEW taken, Steps(r, freed, taken), Types', NoSelfBackoff'
    PROVE  ReadInv'
  <1>1. Types /\ StacksSound /\ FlightsLed /\ RetSound
    BY DEF ReadInv
  <1>2. /\ stack' = [stack EXCEPT ![r] = stack'[r]] /\ StackSound(stack'[r], routable) /\ routable' = routable
        /\ stack \in [Readers -> Seq(Frames)] /\ stack'[r] \in Seq(Frames)
    BY <1>1 DEF Steps, Moved, StacksSound, StackSound
  <1>3. stack' \in [Readers -> Seq(Frames)] /\ \A x \in Readers \ {r} : stack'[x] = stack[x]
    BY <1>2
  <1>4. StacksSound'
    <2>1. ASSUME NEW x \in Readers PROVE StackSound(stack'[x], routable')
      <3>1. CASE x = r
        BY <1>2, <3>1
      <3>2. CASE x # r
        BY <1>1, <1>2, <1>3, <3>2 DEF StacksSound
      <3> QED  BY <3>1, <3>2
    <2> QED  BY <1>3, <2>1 DEF StacksSound
  <1>5. FlightsLed'
    BY <1>1, FlightStep
  <1>6. RetSound'
    <2> SUFFICES ASSUME NEW x \in Readers, ret'[x] # NoVal PROVE Hears(stack'[x], ret'[x])
      BY DEF RetSound
    <2>1. CASE x = r
      BY <2>1 DEF Steps
    <2>2. CASE x # r
      <3>1. ret'[x] = ret[x] /\ stack'[x] = stack[x]
        BY <1>3, <2>2 DEF Steps
      <3> QED  BY <1>1, <3>1 DEF RetSound
    <2> QED  BY <2>1, <2>2
  <1> QED  BY <1>4, <1>5, <1>6 DEF ReadInv

\* A step that leaves the flights alone.
LEMMA Quiet ==
    ASSUME NEW r \in Readers, Moved(r), UNCHANGED <<routable, flight>>, LedIn(stack'[r]) = LedIn(stack[r]),
           stack'[r] # << >> => Head(stack'[r]).at # "wait",
           \A x \in Readers \ {r} : heard'[x] = heard[x] /\ ret'[x] = ret[x],
           ret'[r] # NoVal => Hears(stack'[r], ret'[r])
    PROVE  Steps(r, {}, {})
  BY DEF Steps

LEMMA Noted ==
    ASSUME Types, NoSelfBackoff, NEW n \in Nodes, NEW peer \in Nodes, peer # n,
           NEW resource \in {"tile", "bootstrap"}, NEW v, NoteFailure(n, peer, resource, v)
    PROVE  NoSelfBackoff' /\ backoff' \in [Nodes -> SUBSET (Nodes \X {"tile", "bootstrap"})]
  <1> DEFINE pair == <<peer, resource>>
             new == IF v = "retry" THEN backoff[n] \cup {pair} ELSE backoff[n] \ {pair}
  <1>1. backoff' = [backoff EXCEPT ![n] = new] /\ backoff \in [Nodes -> SUBSET (Nodes \X {"tile", "bootstrap"})]
    BY DEF NoteFailure, Types
  <1>2. new \subseteq backoff[n] \cup {pair} /\ pair \in Nodes \X {"tile", "bootstrap"}
    OBVIOUS
  <1>3. new \in SUBSET (Nodes \X {"tile", "bootstrap"})
    BY <1>1, <1>2
  <1>4. \A other \in {"tile", "bootstrap"} : <<n, other>> # pair
    OBVIOUS
  <1> HIDE DEF new, pair
  <1>5. backoff' \in [Nodes -> SUBSET (Nodes \X {"tile", "bootstrap"})]
    BY <1>1, <1>3
  <1>6. ASSUME NEW m \in Nodes, NEW other \in {"tile", "bootstrap"} PROVE <<m, other>> \notin backoff'[m]
    <2>1. <<m, other>> \notin backoff[m]
      BY DEF NoSelfBackoff
    <2>2. CASE m = n
      BY <1>1, <1>2, <1>4, <2>1, <2>2
    <2>3. CASE m # n
      BY <1>1, <2>1, <2>3
    <2> QED  BY <2>2, <2>3
  <1> QED  BY <1>5, <1>6 DEF NoSelfBackoff

LEMMA LandedSound ==
    ASSUME Types, NEW ns, NEW outcome \in {"nothing"} \cup Errors, Landed(ns, outcome)
    PROVE  /\ flight' \in [Nodes -> {NoVal} \cup Readers]
           /\ heard' \in [Readers -> {NoVal, "nothing"} \cup Errors]
           /\ \A n \in Nodes : flight'[n] = IF n \in ns THEN NoVal ELSE flight[n]
           /\ \A x \in Readers : heard'[x] = NoVal =>
                 heard[x] = NoVal /\ ~(stack[x] # << >> /\ Top(x).at = "wait" /\ Top(x).node \in ns)
  <1>1. /\ flight' = [n \in Nodes |-> IF n \in ns THEN NoVal ELSE flight[n]]
        /\ heard' = [x \in Readers |-> IF /\ stack[x] # << >> /\ Top(x).at = "wait"
                                          /\ Top(x).node \in ns /\ heard[x] = NoVal
                                       THEN outcome ELSE heard[x]]
    BY DEF Landed
  <1>2. outcome # NoVal
    BY TileReadAssumption DEF Errors
  <1>3. flight' \in [Nodes -> {NoVal} \cup Readers] /\ heard' \in [Readers -> {NoVal, "nothing"} \cup Errors]
    BY <1>1 DEF Types
  <1>4. \A n \in Nodes : flight'[n] = IF n \in ns THEN NoVal ELSE flight[n]
    BY <1>1
  <1>5. ASSUME NEW x \in Readers, heard'[x] = NoVal
        PROVE  heard[x] = NoVal /\ ~(stack[x] # << >> /\ Top(x).at = "wait" /\ Top(x).node \in ns)
    BY <1>1, <1>2, <1>5
  <1> QED  BY <1>3, <1>4, <1>5

LEMMA TriesTile ==
    ASSUME StacksSound, NEW r \in Readers, stack[r] # << >>, Top(r).op = "tile",
           NEW todo \in SeqOf(Nodes, candidate_count), TryTile(r, todo)
    PROVE  Moved(r) /\ stack'[r] # << >> /\ Head(stack'[r]).at = "start" /\ LedIn(stack'[r]) = LedIn(stack[r])
  <1> DEFINE n == Top(r).node
  <1>1. n \in Nodes /\ Own(Top(r)) = {}
    BY TopSound DEF StacksSound, Top, Own, Leads
  <1>2. \A phase : LeadsIn(Top(r).op, n, phase) = {}
    BY DEF LeadsIn
  <1>3. CASE todo = << >> \/ Head(todo) = n
    <2>1. Call(r, "boot", << >>, "boot", n)
      BY <1>3 DEF TryTile, LoadLocal
    <2>2. "boot" \in PhasesOf(Top(r).op) /\ << >> \in SeqOf(Nodes, candidate_count) /\ "boot" \in Ops
      BY Todo DEF PhasesOf, Ops
    <2>3. Linked([op |-> "boot", node |-> n], [op |-> Top(r).op, node |-> n, at |-> "boot", todo |-> << >>])
      BY DEF Linked
    <2>4. /\ Moved(r) /\ stack'[r] # << >> /\ Head(stack'[r]).at = "start"
          /\ LedIn(stack'[r]) = (LedIn(stack[r]) \ Own(Top(r))) \cup LeadsIn(Top(r).op, n, "boot")
      BY <1>1, <2>1, <2>2, <2>3, Calls
    <2> QED  BY <1>1, <1>2, <2>4
  <1>4. CASE todo # << >> /\ Head(todo) # n
    <2>1. Call(r, "try", todo, "serve", Head(todo)) /\ Head(todo) \in Nodes
      BY <1>4, TodoTail DEF TryTile
    <2>2. "try" \in PhasesOf(Top(r).op) /\ "serve" \in Ops
      BY DEF PhasesOf, Ops
    <2>3. Linked([op |-> "serve", node |-> Head(todo)], [op |-> Top(r).op, node |-> n, at |-> "try", todo |-> todo])
      BY DEF Linked
    <2>4. /\ Moved(r) /\ stack'[r] # << >> /\ Head(stack'[r]).at = "start"
          /\ LedIn(stack'[r]) = (LedIn(stack[r]) \ Own(Top(r))) \cup LeadsIn(Top(r).op, n, "try")
      BY <1>1, <1>4, <2>1, <2>2, <2>3, Calls
    <2> QED  BY <1>1, <1>2, <2>4
  <1> QED  BY <1>3, <1>4

LEMMA TriesBootstrap ==
    ASSUME StacksSound, NEW r \in Readers, stack[r] # << >>, Top(r).op = "boot", Top(r).at \in {"route", "try"},
           NEW todo \in SeqOf(Nodes, candidate_count),
           Top(r).node \in routable[Top(r).node] => Rising(SetRank, todo, Top(r).node),
           TryBootstrap(r, todo)
    PROVE  /\ Moved(r) /\ stack'[r] # << >> /\ Head(stack'[r]).at \in {"start", "probe"}
           /\ LedIn(stack'[r]) = LedIn(stack[r])
  <1> DEFINE n == Top(r).node
  <1>1. n \in Nodes /\ Own(Top(r)) = {n} /\ {n} \subseteq LedIn(stack[r])
    <2>1. Own(Top(r)) = {n}
      BY DEF Own, Leads, Loading
    <2> QED  BY <2>1, TopSound DEF StacksSound, Top
  <1>2. \A phase \in {"try", "probe"} : LeadsIn(Top(r).op, n, phase) = {n}
    BY DEF LeadsIn, Loading
  <1>3. CASE todo = << >> \/ Head(todo) = n
    <2>1. GotoPhase(r, "probe") /\ "probe" \in PhasesOf(Top(r).op)
      BY <1>3 DEF TryBootstrap, PhasesOf
    <2>2. /\ Moved(r) /\ stack'[r] # << >> /\ Head(stack'[r]).at = "probe"
          /\ LedIn(stack'[r]) = (LedIn(stack[r]) \ Own(Top(r))) \cup LeadsIn(Top(r).op, n, "probe")
      BY <2>1, Goes
    <2> QED  BY <1>1, <1>2, <2>2
  <1>4. CASE todo # << >> /\ Head(todo) # n
    <2>1. Call(r, "try", todo, "index", Head(todo)) /\ Head(todo) \in Nodes
      BY <1>4, TodoTail DEF TryBootstrap
    <2>2. "try" \in PhasesOf(Top(r).op) /\ "index" \in Ops
      BY DEF PhasesOf, Ops
    <2>3. Linked([op |-> "index", node |-> Head(todo)], [op |-> Top(r).op, node |-> n, at |-> "try", todo |-> todo])
      BY DEF Linked
    <2>4. /\ Moved(r) /\ stack'[r] # << >> /\ Head(stack'[r]).at = "start"
          /\ LedIn(stack'[r]) = (LedIn(stack[r]) \ Own(Top(r))) \cup LeadsIn(Top(r).op, n, "try")
      BY <1>4, <2>1, <2>2, <2>3, Calls
    <2> QED  BY <1>1, <1>2, <2>4
  <1> QED  BY <1>3, <1>4

-----------------------------------------------------------------------------
(* Every step of a reader keeps the invariant.                             *)

LEMMA NothingLed ==
    ASSUME NEW r \in Readers, Moved(r), UNCHANGED <<routable, flight>>, LedIn(stack'[r]) = LedIn(stack[r]),
           stack'[r] # << >> => Head(stack'[r]).at # "wait",
           ret \in [Readers -> {NoVal} \cup Values], ret' = ret \/ Consumed(r), ret'[r] = NoVal,
           \A x \in Readers \ {r} : heard'[x] = heard[x]
    PROVE  Steps(r, {}, {}) /\ ret' \in [Readers -> {NoVal} \cup Values]
  <1>1. ret' \in [Readers -> {NoVal} \cup Values] /\ \A x \in Readers \ {r} : ret'[x] = ret[x]
    BY DEF Consumed
  <1> QED  BY <1>1, Quiet

LEMMA NothingLedReturns ==
    ASSUME Types, StacksSound, NEW r \in Readers, stack[r] # << >>, ~Leads(Top(r)), NEW v \in Values, Return(r, v),
           UNCHANGED <<routable, flight>>, \A x \in Readers \ {r} : heard'[x] = heard[x]
    PROVE  Steps(r, {}, {}) /\ ret' \in [Readers -> {NoVal} \cup Values]
  <1>1. /\ Moved(r) /\ LedIn(stack'[r]) = LedIn(stack[r]) \ Own(Top(r))
        /\ stack'[r] # << >> => Head(stack'[r]).at \in {"try", "header", "boot"}
        /\ ret'[r] # NoVal => stack'[r] # << >>
        /\ ret' \in [Readers -> {NoVal} \cup Values]
        /\ \A x \in Readers \ {r} : ret'[x] = ret[x]
    BY Returns
  <1>2. Own(Top(r)) = {}
    BY DEF Own
  <1>3. ret'[r] # NoVal => Hears(stack'[r], ret'[r])
    BY <1>1 DEF Hears
  <1> QED  BY <1>1, <1>2, <1>3, Quiet

LEMMA LookTileKeeps ==
    ASSUME ReadInv, NEW r \in Readers, LookTile(r)
    PROVE  ReadInv'
  <1> DEFINE n == Top(r).node
  <1>1. /\ Types /\ StacksSound /\ stack[r] # << >> /\ Top(r).op \in {"tile", "serve"} /\ ret[r] = NoVal
        /\ UNCHANGED <<published, tile, archive, absent, flight, backoff, routable, heard, turns>>
    BY DEF ReadInv, LookTile, Runs
  <1>2. ~Leads(Top(r)) /\ Own(Top(r)) = {} /\ n \in Nodes /\ \A phase : LeadsIn(Top(r).op, n, phase) = {}
    BY <1>1, TopSound DEF Leads, Own, LeadsIn, StacksSound, Top
  <1>3. Steps(r, {}, {}) /\ ret' \in [Readers -> {NoVal} \cup Values]
    <2>1. ASSUME NEW v \in {"found", "miss"}, Return(r, v)
          PROVE  Steps(r, {}, {}) /\ ret' \in [Readers -> {NoVal} \cup Values]
      <3>1. v \in Values
        BY DEF Values
      <3> QED  BY <1>1, <1>2, <2>1, <3>1, NothingLedReturns
    <2>2. CASE Top(r).op = "tile" /\ GotoPhase(r, "route") /\ UNCHANGED ret
      <3>1. "route" \in PhasesOf(Top(r).op)
        BY <2>2 DEF PhasesOf
      <3>2. /\ Moved(r) /\ stack'[r] # << >> /\ Head(stack'[r]).at = "route"
            /\ LedIn(stack'[r]) = (LedIn(stack[r]) \ Own(Top(r))) \cup LeadsIn(Top(r).op, n, "route")
        BY <1>1, <2>2, <3>1, Goes
      <3>3. ret \in [Readers -> {NoVal} \cup Values]
        BY <1>1 DEF Types
      <3> QED  BY <1>1, <1>2, <2>2, <3>2, <3>3, NothingLed
    <2>3. CASE Top(r).op = "serve" /\ LoadLocal(r) /\ UNCHANGED ret
      <3>1. Call(r, "boot", << >>, "boot", n)
        BY <2>3 DEF LoadLocal
      <3>2. "boot" \in PhasesOf(Top(r).op) /\ << >> \in SeqOf(Nodes, candidate_count) /\ "boot" \in Ops
        BY <2>3, Todo DEF PhasesOf, Ops
      <3>3. Linked([op |-> "boot", node |-> n], [op |-> Top(r).op, node |-> n, at |-> "boot", todo |-> << >>])
        BY <2>3 DEF Linked
      <3>4. /\ Moved(r) /\ stack'[r] # << >> /\ Head(stack'[r]).at = "start"
            /\ LedIn(stack'[r]) = (LedIn(stack[r]) \ Own(Top(r))) \cup LeadsIn(Top(r).op, n, "boot")
        BY <1>1, <1>2, <2>3, <3>1, <3>2, <3>3, Calls
      <3>5. ret \in [Readers -> {NoVal} \cup Values]
        BY <1>1 DEF Types
      <3> QED  BY <1>1, <1>2, <2>3, <3>4, <3>5, NothingLed
    <2> QED  BY <1>1, <2>1, <2>2, <2>3 DEF LookTile
  <1>4. Types' /\ NoSelfBackoff'
    BY <1>1, <1>3 DEF ReadInv, Types, NoSelfBackoff
  <1> QED  BY <1>3, <1>4, ReaderMoves

LEMMA RouteTileKeeps ==
    ASSUME ReadInv, NEW r \in Readers, RouteTile(r)
    PROVE  ReadInv'
  <1> DEFINE n == Top(r).node
             todo == route_with_backoff(n, "tile")
  <1>1. /\ Types /\ StacksSound /\ stack[r] # << >> /\ Top(r).op = "tile" /\ ret[r] = NoVal /\ TryTile(r, todo)
        /\ UNCHANGED <<published, tile, archive, absent, flight, backoff, routable, ret, heard, turns>>
    BY DEF ReadInv, RouteTile, Runs
  <1>2. n \in Nodes
    BY <1>1, TopSound DEF StacksSound, Top
  <1>3. todo \in SeqOf(Nodes, candidate_count)
    BY <1>1, <1>2, Routed
  <1> HIDE DEF todo
  <1>4. Moved(r) /\ stack'[r] # << >> /\ Head(stack'[r]).at = "start" /\ LedIn(stack'[r]) = LedIn(stack[r])
    BY <1>1, <1>3, TriesTile
  <1>5. Types' /\ NoSelfBackoff' /\ ret \in [Readers -> {NoVal} \cup Values]
    BY <1>1 DEF ReadInv, Types, NoSelfBackoff
  <1>6. Steps(r, {}, {})
    BY <1>1, <1>4, <1>5, NothingLed
  <1> QED  BY <1>5, <1>6, ReaderMoves

LEMMA PeerTileKeeps ==
    ASSUME ReadInv, NEW r \in Readers, PeerTile(r)
    PROVE  ReadInv'
  <1> DEFINE n == Top(r).node
             todo == Top(r).todo
  <1>1. /\ Types /\ StacksSound /\ NoSelfBackoff /\ stack[r] # << >> /\ Top(r).op = "tile" /\ Top(r).at = "try"
        /\ NoteFailure(n, Head(todo), "tile", ret[r])
        /\ UNCHANGED <<published, archive, absent, flight, routable, heard, turns>>
    BY DEF ReadInv, PeerTile, Handed
  <1>2. ~Leads(Top(r)) /\ Own(Top(r)) = {} /\ n \in Nodes /\ \A phase : LeadsIn(Top(r).op, n, phase) = {}
    BY <1>1, TopSound DEF Leads, Own, LeadsIn, StacksSound, Top
  <1>3. todo \in SeqOf(Nodes, candidate_count) /\ todo # << >> /\ Head(todo) # n
    BY <1>1, TopSound DEF StacksSound, Top, FrameSound
  <1>4. Head(todo) \in Nodes /\ Tail(todo) \in SeqOf(Nodes, candidate_count)
    BY <1>3, TodoTail
  <1>5. NoSelfBackoff' /\ backoff' \in [Nodes -> SUBSET (Nodes \X {"tile", "bootstrap"})]
    BY <1>1, <1>2, <1>3, <1>4, Noted
  <1>6. ret \in [Readers -> {NoVal} \cup Values] /\ tile \in [Nodes -> {"none", "found", "absent"}]
    BY <1>1 DEF Types
  <1>7. Consumed(r) => ret'[r] = NoVal
    BY <1>6 DEF Consumed
  <1>8. /\ Steps(r, {}, {}) /\ ret' \in [Readers -> {NoVal} \cup Values]
        /\ tile' \in [Nodes -> {"none", "found", "absent"}]
    <2>1. CASE ret[r] = "found" /\ Call(r, "header", todo, "boot", n) /\ Consumed(r) /\ UNCHANGED tile
      <3>1. "header" \in PhasesOf(Top(r).op) /\ "boot" \in Ops
        BY <1>1 DEF PhasesOf, Ops
      <3>2. Linked([op |-> "boot", node |-> n], [op |-> Top(r).op, node |-> n, at |-> "header", todo |-> todo])
        BY <1>1 DEF Linked
      <3>3. /\ Moved(r) /\ stack'[r] # << >> /\ Head(stack'[r]).at = "start"
            /\ LedIn(stack'[r]) = (LedIn(stack[r]) \ Own(Top(r))) \cup LeadsIn(Top(r).op, n, "header")
        BY <1>1, <1>2, <1>3, <2>1, <3>1, <3>2, Calls
      <3>4. Steps(r, {}, {}) /\ ret' \in [Readers -> {NoVal} \cup Values]
        BY <1>1, <1>2, <1>6, <1>7, <2>1, <3>3, NothingLed
      <3> QED  BY <1>6, <2>1, <3>4
    <2>2. CASE Return(r, "miss") /\ tile' = [tile EXCEPT ![n] = "absent"]
      <3>1. "miss" \in Values
        BY DEF Values
      <3> QED  BY <1>1, <1>2, <1>6, <2>2, <3>1, NothingLedReturns
    <2>3. CASE TryTile(r, Tail(todo)) /\ Consumed(r) /\ UNCHANGED tile
      <3>1. Moved(r) /\ stack'[r] # << >> /\ Head(stack'[r]).at = "start" /\ LedIn(stack'[r]) = LedIn(stack[r])
        BY <1>1, <1>4, <2>3, TriesTile
      <3> QED  BY <1>1, <1>6, <1>7, <2>3, <3>1, NothingLed
    <2>4. CASE Return(r, "fatal") /\ UNCHANGED tile
      <3>1. "fatal" \in Values
        BY DEF Values, Errors
      <3> QED  BY <1>1, <1>2, <1>6, <2>4, <3>1, NothingLedReturns
    <2> QED  BY <2>1, <2>2, <2>3, <2>4 DEF PeerTile
  <1>9. Types'
    BY <1>1, <1>5, <1>8 DEF Types
  <1> QED  BY <1>5, <1>8, <1>9, ReaderMoves

LEMMA HeaderKeeps ==
    ASSUME ReadInv, NEW r \in Readers, Header(r)
    PROVE  ReadInv'
  <1> DEFINE n == Top(r).node
             todo == Top(r).todo
  <1>1. /\ Types /\ StacksSound /\ stack[r] # << >> /\ Top(r).op = "tile" /\ Top(r).at = "header"
        /\ UNCHANGED <<published, archive, absent, flight, backoff, routable, heard, turns>>
    BY DEF ReadInv, Header, Handed
  <1>2. ~Leads(Top(r)) /\ n \in Nodes
    BY <1>1, TopSound DEF Leads, StacksSound, Top
  <1>3. todo \in SeqOf(Nodes, candidate_count) /\ todo # << >>
    BY <1>1, TopSound DEF StacksSound, Top, FrameSound
  <1>4. Tail(todo) \in SeqOf(Nodes, candidate_count)
    BY <1>3, TodoTail
  <1>6. ret \in [Readers -> {NoVal} \cup Values] /\ tile \in [Nodes -> {"none", "found", "absent"}]
    BY <1>1 DEF Types
  <1>7. Consumed(r) => ret'[r] = NoVal
    BY <1>6 DEF Consumed
  <1>8. /\ Steps(r, {}, {}) /\ ret' \in [Readers -> {NoVal} \cup Values]
        /\ tile' \in [Nodes -> {"none", "found", "absent"}]
    <2>1. CASE Return(r, "found") /\ tile' = [tile EXCEPT ![n] = "found"]
      <3>1. "found" \in Values
        BY DEF Values
      <3> QED  BY <1>1, <1>2, <1>6, <2>1, <3>1, NothingLedReturns
    <2>2. CASE TryTile(r, Tail(todo)) /\ Consumed(r) /\ UNCHANGED tile
      <3>1. Moved(r) /\ stack'[r] # << >> /\ Head(stack'[r]).at = "start" /\ LedIn(stack'[r]) = LedIn(stack[r])
        BY <1>1, <1>4, <2>2, TriesTile
      <3> QED  BY <1>1, <1>6, <1>7, <2>2, <3>1, NothingLed
    <2>3. CASE Return(r, "fatal") /\ UNCHANGED tile
      <3>1. "fatal" \in Values
        BY DEF Values, Errors
      <3> QED  BY <1>1, <1>2, <1>6, <2>3, <3>1, NothingLedReturns
    <2> QED  BY <2>1, <2>2, <2>3 DEF Header
  <1>9. Types' /\ NoSelfBackoff'
    BY <1>1, <1>8 DEF ReadInv, Types, NoSelfBackoff
  <1> QED  BY <1>8, <1>9, ReaderMoves

LEMMA BootedKeeps ==
    ASSUME ReadInv, NEW r \in Readers, Booted(r)
    PROVE  ReadInv'
  <1> DEFINE n == Top(r).node
  <1>1. /\ Types /\ StacksSound /\ stack[r] # << >> /\ Top(r).op \in {"tile", "serve"} /\ Top(r).at = "boot"
        /\ UNCHANGED <<published, archive, absent, flight, backoff, routable, heard, turns>>
    BY DEF ReadInv, Booted, Handed
  <1>2. ~Leads(Top(r)) /\ Own(Top(r)) = {} /\ n \in Nodes /\ \A phase : LeadsIn(Top(r).op, n, phase) = {}
    BY <1>1, TopSound DEF Leads, Own, LeadsIn, StacksSound, Top
  <1>6. ret \in [Readers -> {NoVal} \cup Values] /\ tile \in [Nodes -> {"none", "found", "absent"}]
    BY <1>1 DEF Types
  <1>7. Consumed(r) => ret'[r] = NoVal
    BY <1>6 DEF Consumed
  <1>8. /\ Steps(r, {}, {}) /\ ret' \in [Readers -> {NoVal} \cup Values]
        /\ tile' \in [Nodes -> {"none", "found", "absent"}]
    <2>1. CASE GotoPhase(r, "read") /\ Consumed(r) /\ UNCHANGED tile
      <3>1. "read" \in PhasesOf(Top(r).op)
        BY <1>1 DEF PhasesOf
      <3>2. /\ Moved(r) /\ stack'[r] # << >> /\ Head(stack'[r]).at = "read"
            /\ LedIn(stack'[r]) = (LedIn(stack[r]) \ Own(Top(r))) \cup LeadsIn(Top(r).op, n, "read")
        BY <1>1, <2>1, <3>1, Goes
      <3> QED  BY <1>1, <1>2, <1>6, <1>7, <2>1, <3>2, NothingLed
    <2>2. CASE Return(r, "miss") /\ tile' = [tile EXCEPT ![n] = "absent"]
      <3>1. "miss" \in Values
        BY DEF Values
      <3> QED  BY <1>1, <1>2, <1>6, <2>2, <3>1, NothingLedReturns
    <2>3. CASE ret[r] \in Errors /\ Return(r, ret[r]) /\ UNCHANGED tile
      <3>1. ret[r] \in Values
        BY <2>3 DEF Values
      <3> QED  BY <1>1, <1>2, <1>6, <2>3, <3>1, NothingLedReturns
    <2> QED  BY <2>1, <2>2, <2>3 DEF Booted
  <1>9. Types' /\ NoSelfBackoff'
    BY <1>1, <1>8 DEF ReadInv, Types, NoSelfBackoff
  <1> QED  BY <1>8, <1>9, ReaderMoves

LEMMA ReadTileKeeps ==
    ASSUME ReadInv, NEW r \in Readers, ReadTile(r)
    PROVE  ReadInv'
  <1> DEFINE n == Top(r).node
  <1>1. /\ Types /\ StacksSound /\ stack[r] # << >> /\ Top(r).op \in {"tile", "serve"}
        /\ UNCHANGED <<published, archive, absent, flight, backoff, routable, heard, turns>>
    BY DEF ReadInv, ReadTile, Runs
  <1>2. ~Leads(Top(r)) /\ n \in Nodes
    BY <1>1, TopSound DEF Leads, StacksSound, Top
  <1>3. tile' \in [Nodes -> {"none", "found", "absent"}]
    BY <1>1 DEF ReadTile, Types
  <1>4. PICK v \in Values : Return(r, v)
    BY DEF ReadTile, Values, Errors
  <1>5. Steps(r, {}, {}) /\ ret' \in [Readers -> {NoVal} \cup Values]
    BY <1>1, <1>2, <1>4, NothingLedReturns
  <1>6. Types' /\ NoSelfBackoff'
    BY <1>1, <1>3, <1>5 DEF ReadInv, Types, NoSelfBackoff
  <1> QED  BY <1>5, <1>6, ReaderMoves

LEMMA Finishes ==
    ASSUME Types, StacksSound, NEW r \in Readers, stack[r] # << >>, Leads(Top(r)), NEW v \in Values, Finish(r, v),
           UNCHANGED routable
    PROVE  /\ Steps(r, {Top(r).node}, {})
           /\ ret' \in [Readers -> {NoVal} \cup Values]
           /\ flight' \in [Nodes -> {NoVal} \cup Readers]
           /\ heard' \in [Readers -> {NoVal, "nothing"} \cup Errors]
  <1> DEFINE n == Top(r).node
             outcome == IF v \in Errors THEN v ELSE "nothing"
  <1>1. Landed({n}, outcome) /\ outcome \in {"nothing"} \cup Errors /\ Return(r, v)
    BY DEF Finish
  <1>2. Own(Top(r)) = {n} /\ {n} \subseteq LedIn(stack[r])
    <2>1. Own(Top(r)) = {n}
      BY DEF Own
    <2> QED  BY <2>1, TopSound DEF StacksSound, Top
  <1> HIDE DEF outcome
  <1>3. /\ Moved(r) /\ LedIn(stack'[r]) = LedIn(stack[r]) \ {n}
        /\ stack'[r] # << >> => Head(stack'[r]).at \in {"try", "header", "boot"}
        /\ ret'[r] # NoVal => stack'[r] # << >>
        /\ ret' \in [Readers -> {NoVal} \cup Values]
        /\ \A x \in Readers \ {r} : ret'[x] = ret[x]
    BY <1>1, <1>2, Returns
  <1>4. /\ flight' \in [Nodes -> {NoVal} \cup Readers]
        /\ heard' \in [Readers -> {NoVal, "nothing"} \cup Errors]
        /\ \A m \in Nodes : flight'[m] = IF m \in {n} THEN NoVal ELSE flight[m]
        /\ \A x \in Readers : heard'[x] = NoVal =>
              heard[x] = NoVal /\ ~(stack[x] # << >> /\ Top(x).at = "wait" /\ Top(x).node \in {n})
    BY <1>1, LandedSound
  <1>5. ret'[r] # NoVal => Hears(stack'[r], ret'[r])
    BY <1>3 DEF Hears
  <1>6. Steps(r, {n}, {})
    BY <1>2, <1>3, <1>4, <1>5 DEF Steps
  <1> QED  BY <1>3, <1>4, <1>6

LEMMA LookArchiveKeeps ==
    ASSUME ReadInv, NEW r \in Readers, LookArchive(r)
    PROVE  ReadInv'
  <1> DEFINE n == Top(r).node
  <1>1. /\ Types /\ StacksSound /\ stack[r] # << >> /\ Top(r).op \in {"boot", "index"} /\ Top(r).at = "start"
        /\ ret[r] = NoVal
        /\ UNCHANGED <<published, tile, archive, absent, flight, backoff, routable, heard, turns>>
    BY DEF ReadInv, LookArchive, Runs
  <1>2. ~Leads(Top(r)) /\ Own(Top(r)) = {} /\ LeadsIn(Top(r).op, n, "begin") = {}
    BY <1>1 DEF Leads, Own, LeadsIn, Loading
  <1>3. Steps(r, {}, {}) /\ ret' \in [Readers -> {NoVal} \cup Values]
    <2>1. ASSUME NEW v \in {"some", "none"}, Return(r, v)
          PROVE  Steps(r, {}, {}) /\ ret' \in [Readers -> {NoVal} \cup Values]
      <3>1. v \in Values
        BY DEF Values
      <3> QED  BY <1>1, <1>2, <2>1, <3>1, NothingLedReturns
    <2>2. CASE GotoPhase(r, "begin") /\ UNCHANGED ret
      <3>1. "begin" \in PhasesOf(Top(r).op)
        BY <1>1 DEF PhasesOf
      <3>2. /\ Moved(r) /\ stack'[r] # << >> /\ Head(stack'[r]).at = "begin"
            /\ LedIn(stack'[r]) = (LedIn(stack[r]) \ Own(Top(r))) \cup LeadsIn(Top(r).op, n, "begin")
        BY <1>1, <2>2, <3>1, Goes
      <3>3. ret \in [Readers -> {NoVal} \cup Values]
        BY <1>1 DEF Types
      <3> QED  BY <1>1, <1>2, <2>2, <3>2, <3>3, NothingLed
    <2> QED  BY <2>1, <2>2 DEF LookArchive
  <1>4. Types' /\ NoSelfBackoff'
    BY <1>1, <1>3 DEF ReadInv, Types, NoSelfBackoff
  <1> QED  BY <1>3, <1>4, ReaderMoves

LEMMA BeginBootstrapKeeps ==
    ASSUME ReadInv, NEW r \in Readers, BeginBootstrap(r)
    PROVE  ReadInv'
  <1> DEFINE n == Top(r).node
             phase == IF Top(r).op = "boot" THEN "route" ELSE "probe"
  <1>1. /\ Types /\ StacksSound /\ stack[r] # << >> /\ Top(r).op \in {"boot", "index"} /\ Top(r).at = "begin"
        /\ ret[r] = NoVal
        /\ UNCHANGED <<published, tile, archive, absent, backoff, routable, ret, turns>>
    BY DEF ReadInv, BeginBootstrap, Runs
  <1>2. Own(Top(r)) = {} /\ n \in Nodes
    BY <1>1, TopSound DEF Leads, Own, Loading, StacksSound, Top
  <1>3. /\ flight \in [Nodes -> {NoVal} \cup Readers]
        /\ heard \in [Readers -> {NoVal, "nothing"} \cup Errors]
    BY <1>1 DEF Types
  <1>4. CASE flight[n] = NoVal /\ flight' = [flight EXCEPT ![n] = r] /\ GotoPhase(r, phase) /\ UNCHANGED heard
    <2>1. phase \in PhasesOf(Top(r).op) /\ phase \notin {"try", "header", "wait"} /\ LeadsIn(Top(r).op, n, phase) = {n}
      BY <1>1 DEF PhasesOf, LeadsIn, Loading
    <2> HIDE DEF phase
    <2>2. /\ Moved(r) /\ stack'[r] # << >> /\ Head(stack'[r]).at = phase
          /\ LedIn(stack'[r]) = (LedIn(stack[r]) \ Own(Top(r))) \cup LeadsIn(Top(r).op, n, phase)
      BY <1>1, <1>4, <2>1, Goes
    <2>3. LedIn(stack'[r]) = (LedIn(stack[r]) \ {}) \cup {n}
      BY <1>2, <2>1, <2>2
    <2>4. \A m \in Nodes : flight'[m] = IF m \in {} THEN NoVal ELSE IF m \in {n} THEN r ELSE flight[m]
      BY <1>3, <1>4
    <2>5. \A x \in Readers \ {r} : /\ heard'[x] = NoVal =>
                                        heard[x] = NoVal /\ ~(stack[x] # << >> /\ Top(x).at = "wait" /\ Top(x).node \in {})
                                   /\ ret'[x] = ret[x]
      BY <1>1, <1>4
    <2>6. Steps(r, {}, {n})
      BY <1>1, <1>2, <1>4, <2>1, <2>2, <2>3, <2>4, <2>5 DEF Steps
    <2>7. Types' /\ NoSelfBackoff'
      BY <1>1, <1>4 DEF ReadInv, Types, NoSelfBackoff
    <2> QED  BY <2>6, <2>7, ReaderMoves
  <1>5. CASE flight[n] # NoVal /\ GotoPhase(r, "wait") /\ heard' = [heard EXCEPT ![r] = NoVal] /\ UNCHANGED flight
    <2>1. "wait" \in PhasesOf(Top(r).op) /\ LeadsIn(Top(r).op, n, "wait") = {}
      BY <1>1 DEF PhasesOf, LeadsIn, Loading
    <2>2. /\ Moved(r) /\ stack'[r] # << >> /\ Head(stack'[r]).at = "wait" /\ Head(stack'[r]).node = n
          /\ LedIn(stack'[r]) = (LedIn(stack[r]) \ Own(Top(r))) \cup LeadsIn(Top(r).op, n, "wait")
      BY <1>1, <1>5, <2>1, Goes
    <2>3. LedIn(stack'[r]) = (LedIn(stack[r]) \ {}) \cup {}
      BY <1>2, <2>1, <2>2
    <2>4. \A x \in Readers \ {r} : heard'[x] = heard[x] /\ ret'[x] = ret[x]
      BY <1>1, <1>3, <1>5
    <2>5. flight'[Head(stack'[r]).node] # NoVal
      BY <1>5, <2>2
    <2>6. Steps(r, {}, {})
      BY <1>1, <1>5, <2>2, <2>3, <2>4, <2>5 DEF Steps
    <2>7. Types' /\ NoSelfBackoff'
      BY <1>1, <1>5 DEF ReadInv, Types, NoSelfBackoff
    <2> QED  BY <2>6, <2>7, ReaderMoves
  <1> QED  BY <1>4, <1>5 DEF BeginBootstrap

LEMMA FollowedKeeps ==
    ASSUME ReadInv, NEW r \in Readers, Followed(r)
    PROVE  ReadInv'
  <1> DEFINE n == Top(r).node
  <1>1. /\ Types /\ StacksSound /\ stack[r] # << >> /\ Top(r).op \in {"boot", "index"} /\ Top(r).at = "wait"
        /\ ret[r] = NoVal /\ heard' = [heard EXCEPT ![r] = NoVal]
        /\ UNCHANGED <<published, tile, archive, absent, flight, backoff, routable, turns>>
    BY DEF ReadInv, Followed, Runs
  <1>2. ~Leads(Top(r)) /\ Own(Top(r)) = {} /\ LeadsIn(Top(r).op, n, "start") = {}
    BY <1>1 DEF Leads, Own, LeadsIn, Loading
  <1>3. /\ heard \in [Readers -> {NoVal, "nothing"} \cup Errors] /\ \A x \in Readers \ {r} : heard'[x] = heard[x]
        /\ ret \in [Readers -> {NoVal} \cup Values]
    BY <1>1 DEF Types
  <1>4. Steps(r, {}, {}) /\ ret' \in [Readers -> {NoVal} \cup Values]
    <2>1. CASE GotoPhase(r, "start") /\ UNCHANGED ret
      <3>1. "start" \in PhasesOf(Top(r).op)
        BY <1>1 DEF PhasesOf
      <3>2. /\ Moved(r) /\ stack'[r] # << >> /\ Head(stack'[r]).at = "start"
            /\ LedIn(stack'[r]) = (LedIn(stack[r]) \ Own(Top(r))) \cup LeadsIn(Top(r).op, n, "start")
        BY <1>1, <2>1, <3>1, Goes
      <3> QED  BY <1>1, <1>2, <1>3, <2>1, <3>2, NothingLed
    <2>2. CASE heard[r] \in Errors /\ Return(r, heard[r])
      <3>1. heard[r] \in Values
        BY <2>2 DEF Values
      <3> QED  BY <1>1, <1>2, <1>3, <2>2, <3>1, NothingLedReturns
    <2> QED  BY <2>1, <2>2 DEF Followed
  <1>5. Types' /\ NoSelfBackoff'
    BY <1>1, <1>4 DEF ReadInv, Types, NoSelfBackoff
  <1> QED  BY <1>4, <1>5, ReaderMoves

LEMMA RouteBootstrapKeeps ==
    ASSUME ReadInv, NEW r \in Readers, RouteBootstrap(r)
    PROVE  ReadInv'
  <1> DEFINE n == Top(r).node
             todo == route_with_backoff(n, "bootstrap")
  <1>1. /\ Types /\ StacksSound /\ NoSelfBackoff /\ stack[r] # << >> /\ Top(r).op = "boot" /\ Top(r).at = "route"
        /\ ret[r] = NoVal /\ TryBootstrap(r, todo)
        /\ UNCHANGED <<published, tile, archive, absent, flight, backoff, routable, ret, heard, turns>>
    BY DEF ReadInv, RouteBootstrap, Runs
  <1>2. n \in Nodes
    BY <1>1, TopSound DEF StacksSound, Top
  <1>3. todo \in SeqOf(Nodes, candidate_count) /\ (n \in routable[n] => Rising(SetRank, todo, n))
    BY <1>1, <1>2, Routed
  <1> HIDE DEF todo
  <1>4. /\ Moved(r) /\ stack'[r] # << >> /\ Head(stack'[r]).at \in {"start", "probe"}
        /\ LedIn(stack'[r]) = LedIn(stack[r])
    BY <1>1, <1>3, TriesBootstrap
  <1>5. Types' /\ NoSelfBackoff' /\ ret \in [Readers -> {NoVal} \cup Values]
    BY <1>1 DEF ReadInv, Types, NoSelfBackoff
  <1>6. Steps(r, {}, {})
    BY <1>1, <1>4, <1>5, NothingLed
  <1> QED  BY <1>5, <1>6, ReaderMoves

LEMMA PeerBootstrapKeeps ==
    ASSUME ReadInv, NEW r \in Readers, PeerBootstrap(r)
    PROVE  ReadInv'
  <1> DEFINE n == Top(r).node
             todo == Top(r).todo
  <1>1. /\ Types /\ StacksSound /\ NoSelfBackoff /\ stack[r] # << >> /\ Top(r).op = "boot" /\ Top(r).at = "try"
        /\ NoteFailure(n, Head(todo), "bootstrap", ret[r])
        /\ UNCHANGED <<published, tile, routable, turns>>
    BY DEF ReadInv, PeerBootstrap, Handed
  <1>2. Leads(Top(r)) /\ Own(Top(r)) = {n} /\ {n} \subseteq LedIn(stack[r]) /\ n \in Nodes
    <2>1. Leads(Top(r)) /\ Own(Top(r)) = {n}
      BY <1>1 DEF Leads, Own, Loading
    <2> QED  BY <1>1, <2>1, TopSound DEF StacksSound, Top
  <1>3. /\ todo \in SeqOf(Nodes, candidate_count) /\ todo # << >> /\ Head(todo) # n
        /\ n \in routable[n] => Rising(SetRank, todo, n)
    BY <1>1, TopSound DEF StacksSound, Top, FrameSound
  <1>4. /\ Head(todo) \in Nodes /\ Tail(todo) \in SeqOf(Nodes, candidate_count)
        /\ n \in routable[n] => Rising(SetRank, Tail(todo), n)
    BY <1>3, TodoTail
  <1>5. NoSelfBackoff' /\ backoff' \in [Nodes -> SUBSET (Nodes \X {"tile", "bootstrap"})]
    BY <1>1, <1>2, <1>3, <1>4, Noted
  <1>6. /\ ret \in [Readers -> {NoVal} \cup Values]
        /\ archive \in [Nodes -> BOOLEAN] /\ absent \in [Nodes -> BOOLEAN]
    BY <1>1 DEF Types
  <1>7. Consumed(r) => ret'[r] = NoVal
    BY <1>6 DEF Consumed
  <1>8. CASE PutArchive(n) /\ Finish(r, "some")
    <2>1. "some" \in Values
      BY DEF Values
    <2>2. /\ Steps(r, {n}, {}) /\ ret' \in [Readers -> {NoVal} \cup Values]
          /\ flight' \in [Nodes -> {NoVal} \cup Readers]
          /\ heard' \in [Readers -> {NoVal, "nothing"} \cup Errors]
      BY <1>1, <1>2, <1>8, <2>1, Finishes
    <2>3. archive' \in [Nodes -> BOOLEAN] /\ absent' \in [Nodes -> BOOLEAN]
      BY <1>6, <1>8 DEF PutArchive
    <2>4. Types'
      BY <1>1, <1>5, <2>2, <2>3 DEF Types
    <2> QED  BY <1>5, <2>2, <2>4, ReaderMoves
  <1>9. ASSUME GotoPhase(r, "probe") \/ TryBootstrap(r, Tail(todo)), Consumed(r),
               UNCHANGED <<archive, absent, flight, heard>>
        PROVE  ReadInv'
    <2>1. /\ Moved(r) /\ stack'[r] # << >> /\ Head(stack'[r]).at \in {"start", "probe"}
          /\ LedIn(stack'[r]) = LedIn(stack[r])
      <3>1. CASE GotoPhase(r, "probe")
        <4>1. "probe" \in PhasesOf(Top(r).op) /\ LeadsIn(Top(r).op, n, "probe") = {n}
          BY <1>1 DEF PhasesOf, LeadsIn, Loading
        <4>2. /\ Moved(r) /\ stack'[r] # << >> /\ Head(stack'[r]).at = "probe"
              /\ LedIn(stack'[r]) = (LedIn(stack[r]) \ Own(Top(r))) \cup LeadsIn(Top(r).op, n, "probe")
          BY <1>1, <3>1, <4>1, Goes
        <4> QED  BY <1>2, <4>1, <4>2
      <3>2. CASE TryBootstrap(r, Tail(todo))
        BY <1>1, <1>4, <3>2, TriesBootstrap
      <3> QED  BY <1>9, <3>1, <3>2
    <2>2. Steps(r, {}, {}) /\ ret' \in [Readers -> {NoVal} \cup Values]
      BY <1>1, <1>6, <1>7, <1>9, <2>1, NothingLed
    <2>3. Types'
      BY <1>1, <1>5, <1>9, <2>2 DEF Types
    <2> QED  BY <1>5, <2>2, <2>3, ReaderMoves
  <1> QED  BY <1>8, <1>9 DEF PeerBootstrap

LEMMA ProbeKeeps ==
    ASSUME ReadInv, NEW r \in Readers, Probe(r)
    PROVE  ReadInv'
  <1> DEFINE n == Top(r).node
  <1>1. /\ Types /\ StacksSound /\ NoSelfBackoff /\ stack[r] # << >> /\ Top(r).op \in {"boot", "index"}
        /\ Top(r).at = "probe" /\ UNCHANGED <<published, tile, backoff, routable, turns>>
    BY DEF ReadInv, Probe, Runs
  <1>2. Leads(Top(r))
    BY <1>1 DEF Leads, Loading
  <1>3. /\ ret \in [Readers -> {NoVal} \cup Values]
        /\ archive \in [Nodes -> BOOLEAN] /\ absent \in [Nodes -> BOOLEAN]
    BY <1>1 DEF Types
  <1>4. NoSelfBackoff'
    BY <1>1 DEF NoSelfBackoff
  <1>5. ASSUME NEW v \in Values, Finish(r, v), archive' \in [Nodes -> BOOLEAN], absent' \in [Nodes -> BOOLEAN]
        PROVE  ReadInv'
    <2>1. /\ Steps(r, {n}, {}) /\ ret' \in [Readers -> {NoVal} \cup Values]
          /\ flight' \in [Nodes -> {NoVal} \cup Readers]
          /\ heard' \in [Readers -> {NoVal, "nothing"} \cup Errors]
      BY <1>1, <1>2, <1>5, Finishes
    <2>2. Types'
      BY <1>1, <1>5, <2>1 DEF Types
    <2> QED  BY <1>4, <2>1, <2>2, ReaderMoves
  <1>6. CASE PutArchive(n) /\ Finish(r, "some")
    <2>1. "some" \in Values
      BY DEF Values
    <2>2. archive' \in [Nodes -> BOOLEAN] /\ absent' \in [Nodes -> BOOLEAN]
      BY <1>3, <1>6 DEF PutArchive
    <2> QED  BY <1>5, <1>6, <2>1, <2>2
  <1>7. CASE ret' = [ret EXCEPT ![r] = "none"] /\ UNCHANGED <<stack, flight, heard, archive, absent>>
    <2>1. ret' \in [Readers -> {NoVal} \cup Values] /\ ret'[r] = "none" /\ \A x \in Readers \ {r} : ret'[x] = ret[x]
      BY <1>3, <1>7 DEF Values
    <2>2. stack'[r] = stack[r] /\ stack' = [stack EXCEPT ![r] = stack'[r]] /\ StackSound(stack'[r], routable)
      BY <1>1, <1>7 DEF StacksSound
    <2>3. Hears(stack'[r], ret'[r]) /\ Head(stack'[r]).at # "wait"
      BY <1>1, <2>1, <2>2 DEF Hears, Top
    <2>4. Steps(r, {}, {})
      BY <1>1, <1>7, <2>1, <2>2, <2>3, Quiet DEF Moved
    <2>5. Types'
      BY <1>1, <1>7, <2>1 DEF Types
    <2> QED  BY <1>4, <2>4, <2>5, ReaderMoves
  <1>8. CASE \E v \in Errors : Finish(r, v) /\ UNCHANGED <<archive, absent>>
    BY <1>3, <1>5, <1>8 DEF Values
  <1> QED  BY <1>6, <1>7, <1>8 DEF Probe

LEMMA MarkAbsentKeeps ==
    ASSUME ReadInv, NEW r \in Readers, MarkAbsent(r)
    PROVE  ReadInv'
  <1> DEFINE n == Top(r).node
  <1>1. /\ Types /\ StacksSound /\ stack[r] # << >> /\ Top(r).op \in {"boot", "index"}
        /\ Top(r).at = "probe" /\ UNCHANGED <<published, tile, archive, backoff, routable, turns>>
        /\ absent' = [absent EXCEPT ![n] = TRUE] /\ Finish(r, "none")
    BY DEF ReadInv, MarkAbsent, Handed
  <1>2. Leads(Top(r)) /\ "none" \in Values
    BY <1>1 DEF Leads, Loading, Values
  <1>3. /\ Steps(r, {n}, {}) /\ ret' \in [Readers -> {NoVal} \cup Values]
        /\ flight' \in [Nodes -> {NoVal} \cup Readers]
        /\ heard' \in [Readers -> {NoVal, "nothing"} \cup Errors]
    BY <1>1, <1>2, Finishes
  <1>4. Types' /\ NoSelfBackoff'
    BY <1>1, <1>3 DEF ReadInv, Types, NoSelfBackoff
  <1> QED  BY <1>3, <1>4, ReaderMoves

LEMMA DropsSound ==
    ASSUME Types, StacksSound, NEW r \in Readers, NEW k \in 1..Len(stack[r]), DropFrames(r, k), UNCHANGED routable,
           NEW v \in {NoVal} \cup Values, ret' = [ret EXCEPT ![r] = v], v # NoVal => stack[r][k].op \in Remote
    PROVE  /\ Steps(r, LedIn(SubSeq(stack[r], 1, k)), {})
           /\ ret' \in [Readers -> {NoVal} \cup Values]
           /\ flight' \in [Nodes -> {NoVal} \cup Readers]
           /\ heard' \in [Readers -> {NoVal, "nothing"} \cup Errors]
  <1> DEFINE d == LedIn(SubSeq(stack[r], 1, k))
  <1>1. Landed(d, "nothing") /\ stack' = [stack EXCEPT ![r] = SubSeq(@, k + 1, Len(@))]
    BY DEF DropFrames
  <1>2. /\ Moved(r) /\ d \subseteq LedIn(stack[r]) /\ LedIn(stack'[r]) = LedIn(stack[r]) \ d
        /\ stack'[r] # << >> => Head(stack'[r]).at \in {"try", "header", "boot"}
        /\ stack[r][k].op \in Remote => stack'[r] # << >>
    BY <1>1, Loses
  <1> HIDE DEF d
  <1>3. /\ flight' \in [Nodes -> {NoVal} \cup Readers]
        /\ heard' \in [Readers -> {NoVal, "nothing"} \cup Errors]
        /\ \A m \in Nodes : flight'[m] = IF m \in d THEN NoVal ELSE flight[m]
        /\ \A x \in Readers : heard'[x] = NoVal =>
              heard[x] = NoVal /\ ~(stack[x] # << >> /\ Top(x).at = "wait" /\ Top(x).node \in d)
    BY <1>1, LandedSound
  <1>4. /\ ret' \in [Readers -> {NoVal} \cup Values] /\ ret'[r] = v
        /\ \A x \in Readers \ {r} : ret'[x] = ret[x]
    BY DEF Types
  <1>5. ret'[r] # NoVal => Hears(stack'[r], ret'[r])
    BY <1>2, <1>4 DEF Hears
  <1>6. Steps(r, d, {})
    BY <1>2, <1>3, <1>4, <1>5 DEF Steps
  <1> QED  BY <1>3, <1>4, <1>6 DEF d

LEMMA DropsKeep ==
    ASSUME ReadInv, NEW r \in Readers, TimesOut(r) \/ BreaksOff(r) \/ CancelRead(r)
    PROVE  ReadInv'
  <1>1. /\ Types /\ StacksSound /\ NoSelfBackoff
        /\ UNCHANGED <<published, tile, archive, absent, backoff, routable>>
        /\ turns' \in 0..MaxTurns
    <2>1. MaxTurns \in Nat /\ turns \in 0..MaxTurns
      BY TileReadAssumption DEF ReadInv, Types
    <2> QED  BY <2>1 DEF ReadInv, TimesOut, BreaksOff, CancelRead
  <1>2. stack[r] \in Seq(Frames) /\ Len(stack[r]) \in Nat /\ DOMAIN stack[r] = 1..Len(stack[r])
    BY <1>1, LenProperties DEF StacksSound
  <1>3. PICK k \in 1..Len(stack[r]), v \in {NoVal} \cup Values :
            DropFrames(r, k) /\ ret' = [ret EXCEPT ![r] = v] /\ (v # NoVal => stack[r][k].op \in Remote)
    <2>1. CASE TimesOut(r)
      <3>1. "retry" \in Values
        BY DEF Values, Errors
      <3> QED  BY <1>2, <2>1, <3>1 DEF TimesOut
    <2>2. CASE BreaksOff(r)
      <3>1. "fatal" \in Values
        BY DEF Values, Errors
      <3> QED  BY <1>2, <2>2, <3>1 DEF BreaksOff
    <2>3. CASE CancelRead(r)
      <3>1. Len(stack[r]) \in 1..Len(stack[r])
        BY <1>2, <2>3, EmptySeq DEF CancelRead
      <3> QED  BY <2>3, <3>1 DEF CancelRead, Consumed
    <2> QED  BY <2>1, <2>2, <2>3
  <1>4. /\ Steps(r, LedIn(SubSeq(stack[r], 1, k)), {})
        /\ ret' \in [Readers -> {NoVal} \cup Values]
        /\ flight' \in [Nodes -> {NoVal} \cup Readers]
        /\ heard' \in [Readers -> {NoVal, "nothing"} \cup Errors]
    BY <1>1, <1>3, DropsSound
  <1>5. Types' /\ NoSelfBackoff'
    BY <1>1, <1>4 DEF Types, NoSelfBackoff
  <1> QED  BY <1>4, <1>5, ReaderMoves

-----------------------------------------------------------------------------
(* So does everything else, and so the theorems follow.                    *)

LEMMA FreshStack ==
    ASSUME NEW n \in Nodes, NEW views
    PROVE  LET t == <<Frame("tile", n)>>
           IN  StackSound(t, views) /\ t # << >> /\ Head(t).at = "start" /\ LedIn(t) = {}
  <1> DEFINE f == Frame("tile", n)
             t == <<f>>
  <1>1. f \in Frames /\ f.op = "tile" /\ f.at = "start" /\ ~Leads(f)
    BY Todo DEF Frame, Frames, Ops, Phases, Leads
  <1>2. FrameSound(f, views)
    BY <1>1 DEF FrameSound, PhasesOf
  <1> HIDE DEF f
  <1>3. t \in Seq(Frames) /\ Len(t) = 1 /\ t[1] = f /\ t # << >> /\ Head(t) = f
    BY <1>1
  <1> HIDE DEF t
  <1>4. StackSound(t, views)
    <2>1. \A i \in 1..Len(t) : FrameSound(t[i], views)
      BY <1>2, <1>3
    <2>2. \A i \in 1..(Len(t) - 1) : Linked(t[i], t[i + 1])
      BY <1>3
    <2> QED  BY <1>1, <1>3, <2>1, <2>2 DEF StackSound
  <1>5. LedIn(t) = {}
    <2>1. \A m : m \in LedIn(t) <=> \E i \in 1..1 : Leads(t[i]) /\ t[i].node = m
      BY <1>3, LedInFrames
    <2> QED  BY <1>1, <1>3, <2>1
  <1> QED  BY <1>1, <1>3, <1>4, <1>5 DEF t, f

LEMMA NothingLedYet == LedIn(<< >>) = {}
  <1> DEFINE e == << >>
  <1>1. e \in Seq(Frames) /\ Len(e) = 0
    OBVIOUS
  <1> HIDE DEF e
  <1>2. \A m : m \in LedIn(e) <=> \E i \in 1..Len(e) : Leads(e[i]) /\ e[i].node = m
    BY <1>1, LedInFrames
  <1>3. LedIn(e) = {}
    BY <1>1, <1>2
  <1> QED  BY <1>3 DEF e

LEMMA AskKeeps ==
    ASSUME ReadInv, NEW r \in Readers, NEW n \in Nodes, Ask(r, n)
    PROVE  ReadInv'
  <1> DEFINE t == <<Frame("tile", n)>>
  <1>1. /\ Types /\ StacksSound /\ RetSound /\ stack[r] = << >> /\ turns < MaxTurns /\ turns' = turns + 1
        /\ stack' = [stack EXCEPT ![r] = t]
        /\ UNCHANGED <<published, tile, archive, absent, flight, backoff, routable, ret, heard>>
    BY DEF ReadInv, Ask
  <1>2. turns' \in 0..MaxTurns
    BY <1>1, TileReadAssumption DEF Types
  <1>3. StackSound(t, routable) /\ t # << >> /\ Head(t).at = "start" /\ LedIn(t) = {}
    BY FreshStack
  <1> HIDE DEF t
  <1>4. stack'[r] = t /\ stack' = [stack EXCEPT ![r] = stack'[r]]
    BY <1>1 DEF StacksSound
  <1>5. LedIn(stack'[r]) = LedIn(stack[r])
    BY <1>1, <1>3, <1>4, NothingLedYet
  <1>6. ret'[r] = NoVal
    BY <1>1 DEF RetSound, Hears
  <1>7. Steps(r, {}, {})
    BY <1>1, <1>3, <1>4, <1>5, <1>6, Quiet DEF Moved
  <1>8. Types' /\ NoSelfBackoff'
    BY <1>1, <1>2 DEF ReadInv, Types, NoSelfBackoff
  <1> QED  BY <1>7, <1>8, ReaderMoves

\* On a changed view the lists that frames hold stay as they are: no node begins to see itself.
LEMMA ViewsShrink ==
    ASSUME NEW s, NEW views, NEW later, StackSound(s, views),
           \A n \in Nodes : n \in later[n] => n \in views[n]
    PROVE  StackSound(s, later)
  <1>1. ASSUME NEW i \in 1..Len(s) PROVE FrameSound(s[i], later)
    <2>1. FrameSound(s[i], views) /\ s[i] \in Frames
      BY ElementOfSeq DEF StackSound
    <2>2. s[i].node \in Nodes
      BY <2>1 DEF Frames
    <2> QED  BY <2>1, <2>2 DEF FrameSound
  <1> QED  BY <1>1 DEF StackSound

LEMMA WorldKeeps ==
    ASSUME ReadInv, Publish \/ \E n \in Nodes : Forget(n) \/ BackoffEnds(n) \/ ViewChanges(n)
    PROVE  ReadInv'
  <1>1. /\ Types /\ StacksSound /\ NoSelfBackoff /\ RetSound /\ FlightsLed
        /\ UNCHANGED <<flight, stack, ret, heard>> /\ turns < MaxTurns /\ turns' = turns + 1
    BY DEF ReadInv, Publish, Forget, BackoffEnds, ViewChanges
  <1>2. turns' \in 0..MaxTurns
    BY <1>1, TileReadAssumption DEF Types
  <1>3. /\ backoff' \in [Nodes -> SUBSET (Nodes \X {"tile", "bootstrap"})]
        /\ \A m \in Nodes : backoff'[m] \subseteq backoff[m]
    <2>1. CASE UNCHANGED backoff
      BY <1>1, <2>1 DEF Types
    <2>2. ASSUME NEW n \in Nodes, BackoffEnds(n)
          PROVE  /\ backoff' \in [Nodes -> SUBSET (Nodes \X {"tile", "bootstrap"})]
                 /\ \A m \in Nodes : backoff'[m] \subseteq backoff[m]
      <3>1. PICK pair \in backoff[n] : backoff' = [backoff EXCEPT ![n] = @ \ {pair}]
        BY <2>2 DEF BackoffEnds
      <3>2. backoff \in [Nodes -> SUBSET (Nodes \X {"tile", "bootstrap"})]
        BY <1>1 DEF Types
      <3> QED  BY <3>1, <3>2
    <2> QED  BY <2>1, <2>2 DEF Publish, Forget, ViewChanges
  <1>4. /\ routable' \in [Nodes -> SUBSET Nodes]
        /\ \A m \in Nodes : m \in routable'[m] => m \in routable[m]
    <2>0. routable \in [Nodes -> SUBSET Nodes]
      BY <1>1 DEF Types
    <2>1. CASE UNCHANGED routable
      BY <2>0, <2>1
    <2>2. ASSUME NEW n \in Nodes, ViewChanges(n)
          PROVE  /\ routable' \in [Nodes -> SUBSET Nodes]
                 /\ \A m \in Nodes : m \in routable'[m] => m \in routable[m]
      <3>1. CASE \E p \in Nodes \ {n} : routable' = [routable EXCEPT ![n] = SymDiff(@, {p})]
        <4>1. PICK p \in Nodes \ {n} : routable' = [routable EXCEPT ![n] = SymDiff(@, {p})]
          BY <3>1
        <4>2. SymDiff(routable[n], {p}) \subseteq Nodes /\ (n \in SymDiff(routable[n], {p}) => n \in routable[n])
          BY <2>0 DEF SymDiff
        <4> QED  BY <2>0, <4>1, <4>2
      <3>2. CASE routable' = [routable EXCEPT ![n] = @ \ {n}]
        BY <2>0, <3>2
      <3> QED  BY <2>2, <3>1, <3>2 DEF ViewChanges
    <2> QED  BY <2>1, <2>2 DEF Publish, Forget, BackoffEnds
  <1>5. /\ published' \in BOOLEAN /\ tile' \in [Nodes -> {"none", "found", "absent"}]
        /\ archive' \in [Nodes -> BOOLEAN] /\ absent' \in [Nodes -> BOOLEAN]
    BY <1>1 DEF Types, Publish, Forget, BackoffEnds, ViewChanges
  <1>6. Types'
    BY <1>1, <1>2, <1>3, <1>4, <1>5 DEF Types
  <1>7. StacksSound'
    BY <1>1, <1>4, ViewsShrink DEF StacksSound
  <1>8. NoSelfBackoff'
    BY <1>1, <1>3 DEF NoSelfBackoff
  <1>9. RetSound'
    BY <1>1 DEF RetSound
  <1>10. FlightsLed'
    BY <1>1 DEF FlightsLed, Follows, Top
  <1> QED  BY <1>6, <1>7, <1>8, <1>9, <1>10 DEF ReadInv

LEMMA ReadInitial ==
    ASSUME TileInit
    PROVE  ReadInv
  <1>1. PICK asked \in [Readers -> Nodes] : stack = [r \in Readers |-> <<Frame("tile", asked[r])>>]
    BY DEF TileInit
  <1>2. ASSUME NEW r \in Readers
        PROVE  StackSound(stack[r], routable) /\ LedIn(stack[r]) = {} /\ Top(r).at = "start"
    BY <1>1, FreshStack DEF Top
  <1>3. Types
    BY TileReadAssumption DEF TileInit, Types
  <1>4. StacksSound
    <2>1. \A r \in Readers : stack[r] \in Seq(Frames)
      BY <1>2 DEF StackSound
    <2> QED  BY <1>1, <1>2, <2>1 DEF StacksSound
  <1>5. NoSelfBackoff /\ RetSound
    BY DEF TileInit, NoSelfBackoff, RetSound
  <1>6. FlightsLed
    BY <1>2 DEF TileInit, FlightsLed, Follows
  <1> QED  BY <1>3, <1>4, <1>5, <1>6 DEF ReadInv

LEMMA ReadStep ==
    ASSUME ReadInv, [TileNext]_tileVars
    PROVE  ReadInv'
  <1>1. CASE UNCHANGED tileVars
    <2>1. Types' /\ StacksSound' /\ NoSelfBackoff' /\ RetSound'
      BY <1>1 DEF tileVars, ReadInv, Types, StacksSound, NoSelfBackoff, RetSound
    <2>2. FlightsLed'
      BY <1>1 DEF tileVars, ReadInv, FlightsLed, Follows, Top
    <2> QED  BY <2>1, <2>2 DEF ReadInv
  <1>2. ASSUME NEW r \in Readers, ReaderStep(r)
        PROVE  ReadInv'
    BY <1>2, LookTileKeeps, RouteTileKeeps, PeerTileKeeps, HeaderKeeps, BootedKeeps, ReadTileKeeps,
       LookArchiveKeeps, BeginBootstrapKeeps, FollowedKeeps, RouteBootstrapKeeps, PeerBootstrapKeeps,
       ProbeKeeps, MarkAbsentKeeps DEF ReaderStep
  <1> QED  BY <1>1, <1>2, DropsKeep, AskKeeps, WorldKeeps DEF TileNext

LEMMA ReadInvariant == TileSpec => []ReadInv
  <1>1. TileInit => ReadInv
    BY ReadInitial
  <1>2. ReadInv /\ [TileNext]_tileVars => ReadInv'
    BY ReadStep
  <1> QED  BY <1>1, <1>2, PTL DEF TileSpec

\* Two flights that waited for each other would belong to nodes each of which ranks above the
\* other.
LEMMA WaitsRise ==
    ASSUME ReadInv, NEW m \in Nodes, NEW n \in Nodes, m \in routable[m], WaitsFor(m, n)
    PROVE  Above(SetRank, n, m)
  <1> DEFINE r == flight[m]
             s == stack[r]
  <1>1. /\ Types /\ StacksSound /\ FlightsLed
        /\ r # NoVal /\ Len(s) > 1 /\ s[2].node = m
        /\ s # << >> /\ Head(s).at = "wait" /\ Head(s).node = n
    BY DEF ReadInv, WaitsFor, Follows, Top
  <1>2. r \in Readers /\ m \in LedIn(s)
    BY <1>1 DEF Types, FlightsLed
  <1>3. StackSound(s, routable) /\ s \in Seq(Frames)
    BY <1>1, <1>2 DEF StacksSound
  <1> HIDE DEF s, r
  <1>4. Len(s) \in Nat /\ 1 \in 1..Len(s) /\ 2 \in 1..Len(s) /\ Head(s) = s[1]
    BY <1>1, <1>3, TopSound
  <1>5. PICK i \in 1..Len(s) : Leads(s[i]) /\ s[i].node = m
    BY <1>2, <1>3, LedInFrames
  <1>6. i # 1
    BY <1>1, <1>4, <1>5 DEF Leads, Loading
  <1>7. i > 1 /\ s[i].op \in {"boot", "index"}
    BY <1>4, <1>5, <1>6 DEF Leads
  <1>8. /\ s[2].op = "boot" /\ s[2].at = "try" /\ s[2].todo # << >>
        /\ s[1].node = Head(s[2].todo) /\ s[1].node # s[2].node
    BY <1>3, <1>5, <1>7, TwoAtMost
  <1>9. FrameSound(s[2], routable) /\ s[2] \in Frames
    BY <1>3, <1>4, ElementOfSeq DEF StackSound
  <1>10. s[2].todo \in SeqOf(Nodes, candidate_count) /\ Rising(SetRank, s[2].todo, m) /\ Head(s[2].todo) = n /\ n # m
    BY <1>1, <1>4, <1>8, <1>9 DEF FrameSound, Frames
  <1> QED  BY <1>8, <1>10, TodoTail

LEMMA AboveOrders ==
    ASSUME NEW rank \in Seq(Nodes)
    PROVE  /\ \A x : ~Above(rank, x, x)
           /\ \A x, y, z : Above(rank, x, y) /\ Above(rank, y, z) => Above(rank, x, z)
  <1>1. DOMAIN rank = 1..Len(rank) /\ Len(rank) \in Nat
    BY LenProperties
  <1>2. ASSUME NEW x, Above(rank, x, x)
        PROVE  FALSE
    BY <1>1, <1>2 DEF Above
  <1>3. ASSUME NEW x, NEW y, NEW z, Above(rank, x, y), Above(rank, y, z)
        PROVE  Above(rank, x, z)
    <2>1. PICK i \in 1..Len(rank) : rank[i] = x /\ \A k \in 1..i : rank[k] # y
      BY <1>1, <1>3 DEF Above
    <2>2. PICK j \in 1..Len(rank) : rank[j] = y /\ \A k \in 1..j : rank[k] # z
      BY <1>1, <1>3 DEF Above
    <2>3. j \notin 1..i
      BY <2>1, <2>2
    <2>4. \A k \in 1..i : k \in 1..j
      BY <2>3
    <2> QED  BY <1>1, <2>1, <2>2, <2>4 DEF Above
  <1> QED  BY <1>2, <1>3

LEMMA FlightsAreSound ==
    ASSUME ReadInv
    PROVE  FlightsSound
  <1>1. ASSUME NEW m \in Nodes, NEW n \in Nodes, m \in routable[m], n \in routable[n],
               WaitsFor(m, n), WaitsFor(n, m)
        PROVE  FALSE
    <2>1. Above(SetRank, n, m) /\ Above(SetRank, m, n)
      BY <1>1, WaitsRise
    <2>2. SetRank \in Seq(Nodes)
      BY TileReadAssumption
    <2> QED  BY <2>1, <2>2, AboveOrders
  <1>2. WaitsAcyclic
    BY <1>1 DEF WaitsAcyclic
  <1> QED  BY <1>2 DEF ReadInv, FlightsSound

\* The order behind it, for chains of any length: a flight whose node sees itself waits for
\* the flight of a node that ranks above it for the whole archive, and ranking above is an order
\* (AboveOrders), so that waiting never comes round to where it began (peer.rs:775).
WaitsUpwards ==
    \A m, n \in Nodes : m \in routable[m] /\ WaitsFor(m, n) => Above(SetRank, n, m)

THEOREM FlightsWaitUpwards == TileSpec => []WaitsUpwards
  <1>1. ReadInv => WaitsUpwards
    BY WaitsRise DEF WaitsUpwards
  <1> QED  BY <1>1, ReadInvariant, PTL

\* Type correctness of the tile reads.
THEOREM TileReadTypeCorrect == TileSpec => []TileTypeOK
  <1>1. ReadInv => TileTypeOK
    <2> SUFFICES ASSUME ReadInv PROVE TileTypeOK
      OBVIOUS
    <2>1. ASSUME NEW r \in Readers, NEW i \in DOMAIN stack[r] PROVE stack[r][i] \in Frames
      <3>1. stack[r] \in Seq(Frames)
        BY DEF ReadInv, StacksSound
      <3>2. i \in 1..Len(stack[r])
        BY <3>1, LenProperties
      <3> QED  BY <3>1, <3>2, ElementOfSeq
    <2> QED  BY <2>1 DEF ReadInv, Types, TileTypeOK
  <1> QED  BY <1>1, ReadInvariant, PTL

\* The flight of an archive on a node always has exactly one leader that is still at work, and
\* two flights never wait for each other while the nodes see themselves (reader.rs:479,
\* peer.rs:775).
THEOREM FlightsStaySound == TileSpec => []FlightsSound
  <1>1. ReadInv => FlightsSound
    BY FlightsAreSound
  <1> QED  BY <1>1, ReadInvariant, PTL

LEMMA AbsenceStep ==
    ASSUME ReadInv, [TileNext]_tileVars, published, NoAbsence
    PROVE  NoAbsence'
  <1>0. /\ Types /\ StacksSound /\ RetSound
        /\ tile \in [Nodes -> {"none", "found", "absent"}] /\ absent \in [Nodes -> BOOLEAN]
        /\ ret \in [Readers -> {NoVal} \cup Values]
    BY DEF ReadInv, Types
  <1>1. \A n \in Nodes : tile[n] # "absent" /\ ~absent[n]
    BY DEF NoAbsence
  <1>2. \A r \in Readers : ret[r] \notin {"miss", "none"}
    BY DEF NoAbsence
  <1>3. CASE UNCHANGED <<tile, absent, ret>>
    BY <1>1, <1>2, <1>3 DEF NoAbsence
  <1>4. NoVal \notin {"miss", "none"} /\ "retry" \notin {"miss", "none"}
    BY TileReadAssumption
  <1>5. ASSUME NEW r \in Readers, stack[r] # << >>, NEW v \in Values, v \notin {"miss", "none"}, Return(r, v)
        PROVE  \A x \in Readers : ret'[x] \notin {"miss", "none"}
    BY <1>0, <1>2, <1>4, <1>5, Returns
  <1>6. ASSUME NEW r \in Readers, Consumed(r) \/ UNCHANGED ret
        PROVE  \A x \in Readers : ret'[x] \notin {"miss", "none"}
    BY <1>0, <1>2, <1>4, <1>6 DEF Consumed
  <1>7. ASSUME NEW r \in Readers, stack[r] # << >>
        PROVE  Top(r).node \in Nodes
    BY <1>0, <1>7, TopSound DEF StacksSound, Top
  <1>8. "found" \in Values /\ "some" \in Values /\ Errors \subseteq Values /\ Errors \cap {"miss", "none"} = {}
        /\ "retry" \in Errors /\ "fatal" \in Errors
    BY DEF Values, Errors
  <1>9. ASSUME NEW r \in Readers, ReaderStep(r)
        PROVE  NoAbsence'
    <2>1. stack[r] # << >> /\ Top(r).node \in Nodes /\ ret[r] \notin {"miss", "none"}
      BY <1>2, <1>7, <1>9 DEF ReaderStep, LookTile, RouteTile, PeerTile, Header, Booted, ReadTile, LookArchive,
           BeginBootstrap, Followed, RouteBootstrap, PeerBootstrap, Probe, MarkAbsent, Runs, Handed
    <2>2. \A n \in Nodes : tile'[n] # "absent"
      BY <1>0, <1>1, <1>9, <2>1 DEF ReaderStep, LookTile, RouteTile, PeerTile, Header, Booted, ReadTile, LookArchive,
           BeginBootstrap, Followed, RouteBootstrap, PeerBootstrap, Probe, MarkAbsent
    <2>3. ~MarkAbsent(r)
      BY <2>1, <1>0 DEF MarkAbsent, Handed, RetSound, Hears, Top
    <2>4. \A n \in Nodes : ~absent'[n]
      BY <1>0, <1>1, <1>9, <2>3 DEF ReaderStep, LookTile, RouteTile, PeerTile, Header, Booted, ReadTile, LookArchive,
           BeginBootstrap, Followed, RouteBootstrap, PeerBootstrap, Probe, PutArchive
    <2>5. \/ Consumed(r) \/ UNCHANGED ret
          \/ \E v \in Values : v \notin {"miss", "none"} /\ Return(r, v)
      BY <1>1, <1>8, <1>9, <2>1, <2>3 DEF ReaderStep, LookTile, RouteTile, PeerTile, Header, Booted, ReadTile,
           LookArchive, BeginBootstrap, Followed, RouteBootstrap, PeerBootstrap, Probe, Finish
    <2> QED  BY <1>5, <1>6, <2>1, <2>2, <2>4, <2>5 DEF NoAbsence
  <1>10. ASSUME NEW r \in Readers, TimesOut(r) \/ BreaksOff(r) \/ CancelRead(r)
         PROVE  NoAbsence'
    <2>1. UNCHANGED <<tile, absent>>
      BY <1>10 DEF TimesOut, BreaksOff, CancelRead
    <2>2. \A x \in Readers : ret'[x] \notin {"miss", "none"}
      BY <1>0, <1>2, <1>4, <1>10 DEF TimesOut, BreaksOff, CancelRead, Consumed
    <2> QED  BY <1>1, <2>1, <2>2 DEF NoAbsence
  <1>11. ASSUME NEW n \in Nodes, Forget(n)
         PROVE  NoAbsence'
    BY <1>0, <1>1, <1>2, <1>11 DEF Forget, NoAbsence
  <1> QED  BY <1>3, <1>9, <1>10, <1>11 DEF TileNext, tileVars, Ask, BackoffEnds, ViewChanges, Publish

\* Once the archive is published and nobody says otherwise any more, no step of the readers, no
\* failure of a peer or of object storage and no change of view brings an absence back
\* (resolver.rs:364).
THEOREM AbsenceStaysOut == TileSpec => AbsenceNotInvented
  <1>1. ReadInv /\ [TileNext]_tileVars => [published /\ NoAbsence => NoAbsence']_tileVars
    BY AbsenceStep
  <1> QED  BY <1>1, ReadInvariant, PTL DEF AbsenceNotInvented, TileSpec

=============================================================================
