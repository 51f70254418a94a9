----------------------------- MODULE WorkerPool -----------------------------
(***************************************************************************)
(* The renderer slots of one biei node: WorkerPool::process and ::shutdown *)
(* (crates/biei-core/src/worker_pool.rs) run by concurrent request futures *)
(* against the worker_loop tasks (crates/biei-core/src/worker.rs).         *)
(*                                                                         *)
(* Every task is one call of process(). A call reserves a queue slot with  *)
(* a compare-and-swap, records its prediction of the slot's style under    *)
(* the PoolState mutex, and only then sends its command: three separate    *)
(* steps, between which other calls run. The WorkerCompletion guard moves  *)
(* into the command, so a caller that goes away after the send leaves its  *)
(* reservation behind with the command.                                    *)
(*                                                                         *)
(* The stages a worker runs for one command (run_stages) are the subject   *)
(* of module Worker; here they are one step whose possible results are     *)
(* RunResults.                                                             *)
(***************************************************************************)
EXTENDS WorkerPick, RunContract

CONSTANTS
    Tasks,          \* calls of WorkerPool::process
    NumWorkers,     \* renderer slots of the node
    Profiles,       \* WorkerProfile values
    Sources,        \* add-layer source ids
    Requests        \* what a call may ask for: [profile, partition, source, hint]

Workers == 1..NumWorkers

Retire == "Retire"      \* WorkerCmd::Retire; the other commands are their tasks

ASSUME PoolAssumption ==
    /\ IsFiniteSet(Tasks) /\ Retire \notin Tasks /\ NoVal \notin Tasks
    /\ NumWorkers \in Nat \ {0}
    /\ NoVal \notin Workers
    /\ NoVal \notin Profiles /\ NoVal \notin Sources
    /\ \A r \in Requests : /\ r.profile \in Profiles
                           /\ r.source \in Sources \cup {NoVal}
                           /\ r.hint \in Workers \cup {NoVal}
                           /\ StyleKey(r) # NoVal

VARIABLES
    req,                    \* task -> its request
    pc,                     \* task -> where its process() call is
    idx,                    \* task -> the slot it picked
    dispatch_generation,    \* task -> the generation its guard carries
    queue_depth,            \* slot -> the atomic admission counter
    queue,                  \* slot -> its mpsc channel
    closed,                 \* slot -> worker_loop has left its loop
    loaded,                 \* PoolState.loaded
    dispatch_generations,   \* PoolState.dispatch_generations
    profile_counts,         \* PoolState.profile_counts (0 for an absent key)
    last_used,              \* PoolState.last_used, 0 for None
    addlayer_source_lru,    \* PoolState.addlayer_source_lru
    now,                    \* the clock that Instant::now() reads when a use is recorded
    running,                \* slot -> the task whose command it executes
    releasing,              \* slot -> the task whose guard is finished, not yet dropped
    current_profile,        \* slot -> worker_loop's <<profile, partition>> or NoVal
    shutdown,               \* WorkerPool::shutdown: [at, k, expired, joined, timed_out]
    reordered               \* auxiliary: slot -> commands were sent in another order
                            \* than their predictions were recorded

callVars  == <<req, pc, idx, dispatch_generation>>
stateVars == <<loaded, dispatch_generations, profile_counts, last_used, addlayer_source_lru, now>>
loopVars  == <<running, releasing, current_profile>>
vars == <<callVars, stateVars, loopVars, queue_depth, queue, closed, shutdown, reordered>>

-----------------------------------------------------------------------------
(* Where a call may be.                                                    *)

Reserving == {"scan", "reserve"}
Answers   == {"outcome", "queue_full", "disconnected", "cancelled"}
PCs       == {"idle", "reserved", "marked", "sent"} \cup Reserving \cup Answers

\* The commands in a slot's channel, and the command it executes.
InQueue(w) == {queue[w][i] : i \in DOMAIN queue[w]} \ {Retire}
Executing(w) == {running[w], releasing[w]} \ {NoVal}

\* The calls whose reservation of slot w is not yet given back.
Outstanding(w) ==
    {t \in Tasks : pc[t] \in {"reserved", "marked"} /\ idx[t] = w}
        \cup InQueue(w) \cup Executing(w)

-----------------------------------------------------------------------------
(* PoolState, as functions of the state the mutex guards.                  *)

Decremented(p) == [profile_counts EXCEPT ![p] = @ - 1]

mark_loaded(w, p) ==
    /\ dispatch_generations' = [dispatch_generations EXCEPT ![w] = @ + 1]
    /\ now' = now + 1
    /\ last_used' = [last_used EXCEPT ![w] = now + 1]
    /\ loaded' = [loaded EXCEPT ![w] = p]
    /\ profile_counts' = IF loaded[w] = p THEN profile_counts
                         ELSE [(IF loaded[w] = NoVal THEN profile_counts
                                ELSE Decremented(loaded[w])) EXCEPT ![p] = @ + 1]

clear_loaded(w) ==
    /\ loaded' = [loaded EXCEPT ![w] = NoVal]
    /\ profile_counts' = IF loaded[w] = NoVal THEN profile_counts ELSE Decremented(loaded[w])
    /\ last_used' = [last_used EXCEPT ![w] = 0]
    /\ addlayer_source_lru' = [addlayer_source_lru EXCEPT ![w] = <<>>]
    /\ UNCHANGED <<dispatch_generations, now>>

\* Faulty: any failing command withdraws the prediction.
clear_loaded_always(w, generation) == clear_loaded(w)

clear_loaded_if_latest(w, generation) ==
    IF dispatch_generations[w] = generation THEN clear_loaded(w) ELSE UNCHANGED stateVars

\* Drop of a WorkerCompletion that never saw an outcome.
DropCompletion(t) ==
    /\ clear_loaded_if_latest(idx[t], dispatch_generation[t])
    /\ queue_depth' = [queue_depth EXCEPT ![idx[t]] = @ - 1]

-----------------------------------------------------------------------------
Init ==
    /\ req = [t \in Tasks |-> NoVal]
    /\ pc = [t \in Tasks |-> "idle"]
    /\ idx = [t \in Tasks |-> NoVal]
    /\ dispatch_generation = [t \in Tasks |-> 0]
    /\ queue_depth = [w \in Workers |-> 0]
    /\ queue = [w \in Workers |-> <<>>]
    /\ closed = [w \in Workers |-> FALSE]
    /\ loaded = [w \in Workers |-> NoVal]
    /\ dispatch_generations = [w \in Workers |-> 0]
    /\ profile_counts = [p \in Profiles |-> 0]
    /\ last_used = [w \in Workers |-> 0]
    /\ addlayer_source_lru = [w \in Workers |-> <<>>]
    /\ now = 0
    /\ running = [w \in Workers |-> NoVal]
    /\ releasing = [w \in Workers |-> NoVal]
    /\ current_profile = [w \in Workers |-> NoVal]
    /\ shutdown = [at |-> "off", k |-> 1, expired |-> FALSE, joined |-> 0, timed_out |-> 0]
    /\ reordered = [w \in Workers |-> FALSE]

-----------------------------------------------------------------------------
(* WorkerPool::process                                                     *)

\* The call starts: a hint names its slot, otherwise the slots are scanned.
Submit(t) ==
    /\ pc[t] = "idle"
    /\ \E r \in Requests :
        /\ req' = [req EXCEPT ![t] = r]
        /\ idx' = [idx EXCEPT ![t] = r.hint]
        /\ pc' = [pc EXCEPT ![t] = IF r.hint = NoVal THEN "scan" ELSE "reserve"]
    /\ UNCHANGED <<dispatch_generation, stateVars, loopVars, queue_depth, queue, closed,
                   shutdown, reordered>>

\* The scan of best_available_worker, under the PoolState mutex.
Scan(t) ==
    /\ pc[t] = "scan"
    /\ LET ctx  == [loaded |-> loaded, sources |-> addlayer_source_lru,
                    counts |-> profile_counts, last_used |-> last_used]
           best == best_available_worker(ctx, req[t].profile, req[t].source,
                                         Workers, queue_depth)
       IN  \/ /\ best = {}
              /\ pc' = [pc EXCEPT ![t] = "queue_full"]
              /\ UNCHANGED idx
           \/ \E w \in best :
              /\ idx' = [idx EXCEPT ![t] = w]
              /\ pc' = [pc EXCEPT ![t] = "reserve"]
    /\ UNCHANGED <<req, dispatch_generation, stateVars, loopVars, queue_depth, queue, closed,
                   shutdown, reordered>>

\* The compare-and-swap loop of try_reserve; a full hinted slot answers QueueFull,
\* a full scanned one is scanned again.
TryReserve(t) ==
    /\ pc[t] = "reserve"
    /\ IF queue_depth[idx[t]] < queue_capacity
       THEN /\ queue_depth' = [queue_depth EXCEPT ![idx[t]] = @ + 1]
            /\ pc' = [pc EXCEPT ![t] = "reserved"]
       ELSE /\ pc' = [pc EXCEPT ![t] = IF req[t].hint = NoVal THEN "scan" ELSE "queue_full"]
            /\ UNCHANGED queue_depth
    /\ UNCHANGED <<req, idx, dispatch_generation, stateVars, loopVars, queue, closed,
                   shutdown, reordered>>

\* The prediction: mark_loaded and mark_addlayer_source in one critical section.
Mark(t) ==
    LET w == idx[t]
        kept == IF loaded[w] = req[t].profile THEN addlayer_source_lru[w] ELSE <<>>
    IN  /\ pc[t] = "reserved"
        /\ mark_loaded(w, req[t].profile)
        /\ addlayer_source_lru' = [addlayer_source_lru EXCEPT ![w] =
               IF req[t].source = NoVal THEN kept ELSE mark_addlayer_source(kept, req[t].source)]
        /\ dispatch_generation' = [dispatch_generation EXCEPT ![t] = dispatch_generations[w] + 1]
        /\ pc' = [pc EXCEPT ![t] = "marked"]
        /\ UNCHANGED <<req, idx, loopVars, queue_depth, queue, closed, shutdown, reordered>>

\* The command enters the channel, with its guard.
Send(t) ==
    LET w == idx[t]
        overtaken == \E u \in Outstanding(w) \ {t} :
                        /\ pc[u] = "marked"
                        /\ dispatch_generation[u] < dispatch_generation[t]
    IN  /\ pc[t] = "marked"
        /\ ~closed[w]
        /\ queue' = [queue EXCEPT ![w] = Append(@, t)]
        /\ pc' = [pc EXCEPT ![t] = "sent"]
        /\ reordered' = [reordered EXCEPT ![w] = @ \/ overtaken]
        /\ UNCHANGED <<req, idx, dispatch_generation, stateVars, loopVars, queue_depth, closed,
                       shutdown>>

\* The channel is closed: the command comes back, its guard drops, QueueFull.
SendFails(t) ==
    /\ pc[t] = "marked"
    /\ closed[idx[t]]
    /\ DropCompletion(t)
    /\ pc' = [pc EXCEPT ![t] = "queue_full"]
    /\ UNCHANGED <<req, idx, dispatch_generation, loopVars, queue, closed, shutdown, reordered>>

\* The caller's future is dropped while it awaits the send: the guard drops with it.
CancelBeforeSend(t) ==
    /\ pc[t] = "marked"
    /\ DropCompletion(t)
    /\ pc' = [pc EXCEPT ![t] = "cancelled"]
    /\ UNCHANGED <<req, idx, dispatch_generation, loopVars, queue, closed, shutdown, reordered>>

\* Faulty: the guard stays with the caller and is dropped with it.
CancelAfterSend_gives_back(t) ==
    /\ pc[t] = "sent"
    /\ DropCompletion(t)
    /\ pc' = [pc EXCEPT ![t] = "cancelled"]
    /\ UNCHANGED <<req, idx, dispatch_generation, loopVars, queue, closed, shutdown, reordered>>

\* The caller's future is dropped while it awaits the answer: the command stays.
CancelAfterSend(t) ==
    /\ pc[t] = "sent"
    /\ pc' = [pc EXCEPT ![t] = "cancelled"]
    /\ UNCHANGED <<req, idx, dispatch_generation, stateVars, loopVars, queue_depth, queue, closed,
                   shutdown, reordered>>

\* Delivery on the oneshot: nobody listens after a cancellation.
Answer(t, a) == pc' = IF pc[t] = "sent" THEN [pc EXCEPT ![t] = a] ELSE pc

-----------------------------------------------------------------------------
(* worker_loop                                                             *)

Idle(w) == ~closed[w] /\ running[w] = NoVal /\ releasing[w] = NoVal

Recv(w) ==
    /\ Idle(w)
    /\ queue[w] # <<>> /\ Head(queue[w]) # Retire
    /\ running' = [running EXCEPT ![w] = Head(queue[w])]
    /\ queue' = [queue EXCEPT ![w] = Tail(@)]
    /\ UNCHANGED <<callVars, stateVars, releasing, current_profile, queue_depth, closed, shutdown,
                   reordered>>

\* Faulty: a failed task leaves its prediction in place.
RunStages_keeps_prediction(w) ==
    LET t == running[w] IN
    /\ t # NoVal
    /\ \E res \in RunResults(current_profile[w], req[t]) :
        current_profile' = [current_profile EXCEPT ![w] = res.current]
    /\ running' = [running EXCEPT ![w] = NoVal]
    /\ releasing' = [releasing EXCEPT ![w] = t]
    /\ UNCHANGED <<callVars, stateVars, queue_depth, queue, closed, shutdown, reordered>>

\* run_stages ends and completion.finish runs: a task that failed or was rejected
\* withdraws its prediction, unless a later dispatch has replaced it.
RunStages(w) ==
    LET t == running[w] IN
    /\ t # NoVal
    /\ \E res \in RunResults(current_profile[w], req[t]) :
        /\ current_profile' = [current_profile EXCEPT ![w] = res.current]
        /\ IF res.result = "completed" THEN UNCHANGED stateVars
           ELSE clear_loaded_if_latest(w, dispatch_generation[t])
    /\ running' = [running EXCEPT ![w] = NoVal]
    /\ releasing' = [releasing EXCEPT ![w] = t]
    /\ UNCHANGED <<callVars, queue_depth, queue, closed, shutdown, reordered>>

\* The finished guard is dropped, then the outcome is sent.
Release(w) ==
    LET t == releasing[w] IN
    /\ t # NoVal
    /\ queue_depth' = [queue_depth EXCEPT ![w] = @ - 1]
    /\ releasing' = [releasing EXCEPT ![w] = NoVal]
    /\ Answer(t, "outcome")
    /\ UNCHANGED <<req, idx, dispatch_generation, stateVars, running, current_profile, queue, closed,
                   shutdown, reordered>>

\* Retire ends the loop and closes the channel ...
ExitLoop(w) ==
    /\ Idle(w)
    /\ queue[w] # <<>> /\ Head(queue[w]) = Retire
    /\ closed' = [closed EXCEPT ![w] = TRUE]
    /\ queue' = [queue EXCEPT ![w] = Tail(@)]
    /\ UNCHANGED <<callVars, stateVars, loopVars, queue_depth, shutdown, reordered>>

\* Faulty: the responders of dropped commands are kept alive.
DropQueued_unanswered(w) ==
    /\ closed[w] /\ queue[w] # <<>>
    /\ DropCompletion(Head(queue[w]))
    /\ queue' = [queue EXCEPT ![w] = Tail(@)]
    /\ UNCHANGED <<callVars, loopVars, closed, shutdown, reordered>>

\* ... and what is left in the channel is dropped: its callers see QueueDisconnected.
DropQueued(w) ==
    /\ closed[w] /\ queue[w] # <<>>
    /\ LET t == Head(queue[w]) IN DropCompletion(t) /\ Answer(t, "disconnected")
    /\ queue' = [queue EXCEPT ![w] = Tail(@)]
    /\ UNCHANGED <<req, idx, dispatch_generation, loopVars, closed, shutdown, reordered>>

-----------------------------------------------------------------------------
(* WorkerPool::shutdown                                                    *)

StartShutdown ==
    /\ shutdown.at = "off"
    /\ shutdown' = [shutdown EXCEPT !.at = "retiring"]
    /\ UNCHANGED <<callVars, stateVars, loopVars, queue_depth, queue, closed, reordered>>

\* The shutdown deadline passes.
ShutdownExpires ==
    /\ shutdown.at \in {"retiring", "joining"} /\ ~shutdown.expired
    /\ shutdown' = [shutdown EXCEPT !.expired = TRUE]
    /\ UNCHANGED <<callVars, stateVars, loopVars, queue_depth, queue, closed, reordered>>

NextSlot(at) == IF shutdown.k < NumWorkers THEN [shutdown EXCEPT !.k = @ + 1]
                ELSE [shutdown EXCEPT !.k = 1, !.at = at]

SendRetire ==
    /\ shutdown.at = "retiring"
    /\ queue' = [queue EXCEPT ![shutdown.k] = Append(@, Retire)]
    /\ shutdown' = NextSlot("joining")
    /\ UNCHANGED <<callVars, stateVars, loopVars, queue_depth, closed, reordered>>

\* A send that the deadline cuts off ends the retiring loop.
GiveUpRetiring ==
    /\ shutdown.at = "retiring" /\ shutdown.expired
    /\ shutdown' = [shutdown EXCEPT !.at = "joining", !.k = 1]
    /\ UNCHANGED <<callVars, stateVars, loopVars, queue_depth, queue, closed, reordered>>

\* Faulty: a worker counts as joined when it leaves its loop, its channel not yet dropped.
Exited_early(w) == closed[w]

\* A worker's task has ended once its receiver is dropped.
Exited(w) == closed[w] /\ queue[w] = <<>>

Join ==
    /\ shutdown.at = "joining" /\ Exited(shutdown.k)
    /\ shutdown' = [NextSlot("over") EXCEPT !.joined = @ + 1]
    /\ UNCHANGED <<callVars, stateVars, loopVars, queue_depth, queue, closed, reordered>>

Detach ==
    /\ shutdown.at = "joining" /\ shutdown.expired /\ ~Exited(shutdown.k)
    /\ shutdown' = [NextSlot("over") EXCEPT !.timed_out = @ + 1]
    /\ UNCHANGED <<callVars, stateVars, loopVars, queue_depth, queue, closed, reordered>>

is_complete == shutdown.at = "over" /\ shutdown.timed_out = 0

-----------------------------------------------------------------------------
Process(t) == \/ Submit(t) \/ Scan(t) \/ TryReserve(t) \/ Mark(t) \/ Send(t) \/ SendFails(t)
Cancel(t)  == CancelBeforeSend(t) \/ CancelAfterSend(t)
Loop(w)    == Recv(w) \/ RunStages(w) \/ Release(w) \/ ExitLoop(w) \/ DropQueued(w)
Shutdown   == StartShutdown \/ ShutdownExpires \/ SendRetire \/ GiveUpRetiring \/ Join \/ Detach

Next == \/ \E t \in Tasks : Process(t) \/ Cancel(t)
        \/ \E w \in Workers : Loop(w)
        \/ Shutdown

Spec == Init /\ [][Next]_vars

\* A call runs until it awaits, a worker runs while it has a command, and the renderer
\* behind it answers (its calls are bounded by timeouts); nobody has to submit, cancel or
\* shut down.
Fairness ==
    /\ \A t \in Tasks : WF_vars(Scan(t) \/ TryReserve(t) \/ Mark(t) \/ Send(t) \/ SendFails(t))
    /\ \A w \in Workers : WF_vars(Loop(w))
    /\ WF_vars(SendRetire \/ Join \/ Detach)

FairSpec == Spec /\ Fairness

-----------------------------------------------------------------------------
(* Properties                                                              *)

\* Every variable has its type.
TypeOK ==
    /\ req \in [Tasks -> Requests \cup {NoVal}]
    /\ pc \in [Tasks -> PCs]
    /\ idx \in [Tasks -> Workers \cup {NoVal}]
    /\ dispatch_generation \in [Tasks -> Nat]
    /\ queue_depth \in [Workers -> Nat]
    /\ queue \in [Workers -> Seq(Tasks \cup {Retire})]
    /\ closed \in [Workers -> BOOLEAN]
    /\ loaded \in [Workers -> Profiles \cup {NoVal}]
    /\ dispatch_generations \in [Workers -> Nat]
    /\ profile_counts \in [Profiles -> Nat]
    /\ last_used \in [Workers -> Nat]
    /\ addlayer_source_lru \in [Workers -> Seq(Sources)]
    /\ now \in Nat
    /\ running \in [Workers -> Tasks \cup {NoVal}]
    /\ releasing \in [Workers -> Tasks \cup {NoVal}]
    /\ current_profile \in [Workers -> {StyleKey(r) : r \in Requests} \cup {NoVal}]
    /\ shutdown \in [at : {"off", "retiring", "joining", "over"}, k : Workers,
                     expired : BOOLEAN, joined : Nat, timed_out : Nat]
    /\ reordered \in [Workers -> BOOLEAN]

\* The admission counter of a slot is exactly the number of calls whose reservation is
\* outstanding, whatever was cancelled, dropped or answered: the counter that admission,
\* gossip and drain read describes "the work that actually remains" (worker_pool.rs).
DepthIsOutstanding ==
    \A w \in Workers : queue_depth[w] = Cardinality(Outstanding(w))

\* A slot never has more outstanding work than its hard limit, however many calls race
\* for it and however many of them were abandoned.
WithinHardLimit ==
    \A w \in Workers : Cardinality(Outstanding(w)) <= queue_capacity

\* A slot's channel never holds more than the hard limit and one Retire: with a limit below
\* the channel's 1024 places the sends of process() and shutdown() do not block.
SendNeverBlocks ==
    \A w \in Workers : Len(queue[w]) <= queue_capacity + 1

\* Admission is exact: what a slot's counter says is outstanding, within its hard limit, so
\* that neither a dispatch nor a Retire ever waits for a place in the channel.
AdmissionExact == DepthIsOutstanding /\ WithinHardLimit /\ SendNeverBlocks

\* profile_counts, which protects the last slot of a style from being swapped out, counts
\* the slots predicted to hold the style.
ProfileCountsExact ==
    \A p \in Profiles : profile_counts[p] = Cardinality({w \in Workers : loaded[w] = p})

\* The last dispatch to a slot determines its prediction until that dispatch itself ends:
\* no earlier command that fails, is rejected or is dropped late can withdraw it.
LatestPredictionStands ==
    \A w \in Workers : \A t \in Outstanding(w) :
        (pc[t] # "reserved" /\ releasing[w] # t /\ dispatch_generation[t] = dispatch_generations[w])
            => loaded[w] = req[t].profile

\* The record of warm styles the pool chooses by: the latest dispatch stands until it ends
\* and the styles are counted right, however dispatches and withdrawals interleave.
PredictionsSound == LatestPredictionStands /\ ProfileCountsExact

\* A drained slot's prediction is the style its worker holds, when its commands were sent
\* in the order of their predictions. process() records under the mutex and sends after it:
\* two calls that overtake each other in between leave a prediction that does not hold.
PredictionHolds(w) ==
    Outstanding(w) = {} /\ loaded[w] # NoVal
        => current_profile[w] # NoVal /\ current_profile[w][1] = loaded[w]
OrderedPredictionHolds == \A w \in Workers : ~reordered[w] => PredictionHolds(w)

\* A completed shutdown has left no command behind: what is still reserved belongs to
\* calls that have not sent yet.
CompleteShutdownIsDrained ==
    is_complete => \A w \in Workers : \A t \in Outstanding(w) : pc[t] \in {"reserved", "marked"}

\* Once the last call was submitted, every call of process() has returned or was cancelled
\* and every reservation has come back, of calls abandoned at any await too, with a
\* shutdown in progress or not.
CallsSettle == <>[](/\ \A t \in Tasks : pc[t] \in {"idle"} \cup Answers
                    /\ \A w \in Workers : queue_depth[w] = 0)

\* A shutdown comes to its end.
ShutdownEnds == (shutdown.at # "off") ~> (shutdown.at = "over")

\* Calls, reservations and a shutdown all come to their end, beside each other.
PoolSettles == CallsSettle /\ ShutdownEnds
=============================================================================
