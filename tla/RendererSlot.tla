---------------------------- MODULE RendererSlot ----------------------------
(***************************************************************************)
(* The life of the native threads behind the renderer slots of a node:     *)
(* MapLibreRenderer (servers/biei/src/renderer/maplibre.rs), RendererActor *)
(* and its thread (actor/protocol.rs), and the RendererActorSupervisor     *)
(* they share (actor/supervisor.rs).                                       *)
(*                                                                         *)
(* A native call cannot be interrupted. When a reply misses its deadline   *)
(* the slot abandons the thread as an orphan, within a budget, and spawns  *)
(* another. The slot and the thread agree on who counts the orphan through *)
(* one atomic status; every access to it, to the supervisor's map and to   *)
(* its counters is a step of its own.                                      *)
(*                                                                         *)
(* What the commands do to the style is the subject of RendererBackend.    *)
(***************************************************************************)
EXTENDS Integers, FiniteSets

CONSTANTS
    Slots,          \* the worker ids of the node
    MaxThreads,     \* thread identities of a slot; one is used again once its thread is gone
    UsizeModulus    \* width of the usize counters

Tids == 1..MaxThreads
total_slots == Cardinality(Slots)
max_orphaned_threads == total_slots

ASSUME SlotAssumption ==
    /\ IsFiniteSet(Slots) /\ MaxThreads \in Nat \ {0}
    /\ UsizeModulus \in Nat /\ UsizeModulus > 2 * total_slots

VARIABLES
    phase,              \* slot -> where its MapLibreRenderer is
    actor,              \* slot -> the thread of its RendererActor
    handle,             \* slot -> that actor still owns its JoinHandle
    retiring,           \* slot -> MapLibreRenderer.retiring
    slot_available,     \* slot -> MapLibreRenderer.slot_available
    life,               \* slot, thread -> how far the thread is
    status,             \* slot, thread -> thread_status
    stop,               \* slot, thread -> Retire or Shutdown waits in its channel
    available_slots,    \* the supervisor's counters and map
    orphaned_threads,
    orphaned_by_worker

slotVars   == <<phase, actor, handle, retiring, slot_available>>
threadVars == <<life, status, stop>>
superVars  == <<available_slots, orphaned_threads, orphaned_by_worker>>
rendererVars == <<slotVars, threadVars, superVars>>

\* A thread that has its native backend; it is dropped before the exit guard runs.
HasBackend == {"idle", "busy", "closing"}
Lives == {"none", "releasing", "exited", "gone"} \cup HasBackend
SlotPhases == {"rest", "calling", "abandon", "reserved", "spawn",
               "shutdown", "orphaned", "counted", "dropped"}

is_finished(s) == life[s][actor[s]] = "gone"
is_alive(s) == handle[s] /\ ~is_finished(s)

-----------------------------------------------------------------------------
SlotInit ==
    /\ phase = [s \in Slots |-> "rest"]
    /\ actor = [s \in Slots |-> 1]
    /\ life = [s \in Slots |-> [u \in Tids |-> IF u = 1 THEN "idle" ELSE "none"]]
    /\ handle = [s \in Slots |-> TRUE]
    /\ retiring = [s \in Slots |-> FALSE]
    /\ slot_available = [s \in Slots |-> TRUE]
    /\ status = [s \in Slots |-> [u \in Tids |-> "RUNNING"]]
    /\ stop = [s \in Slots |-> [u \in Tids |-> FALSE]]
    /\ available_slots = total_slots
    /\ orphaned_threads = 0
    /\ orphaned_by_worker = [s \in Slots |-> 0]

GoTo(s, p) == phase' = [phase EXCEPT ![s] = p]

\* An identity that no thread has; which one it is does not matter.
FreeTid(s) == LET free == {t \in Tids : life[s][t] = "none"}
              IN  {t \in free : \A u \in free : t <= u}

\* Identity t is free ("none") or that of a new thread ("idle").
Forget(s, t, l) ==
    /\ life' = [life EXCEPT ![s][t] = l]
    /\ status' = [status EXCEPT ![s][t] = "RUNNING"]
    /\ stop' = [stop EXCEPT ![s][t] = FALSE]

-----------------------------------------------------------------------------
(* RendererActorSupervisor                                                 *)

set_slot_available(s, next) ==
    /\ available_slots' = CASE slot_available[s] = next -> available_slots
                            [] slot_available[s] # next /\ next -> available_slots + 1
                            [] OTHER -> available_slots - 1
    /\ slot_available' = [slot_available EXCEPT ![s] = next]

may_reserve_orphan(s) ==
    orphaned_by_worker[s] = 0 /\ orphaned_threads < max_orphaned_threads

reserve(s) ==
    /\ orphaned_by_worker' = [orphaned_by_worker EXCEPT ![s] = @ + 1]
    /\ orphaned_threads' = (orphaned_threads + 1) % UsizeModulus

release_orphan(s) ==
    IF orphaned_by_worker[s] = 0 THEN UNCHANGED <<orphaned_by_worker, orphaned_threads>>
    ELSE /\ orphaned_by_worker' = [orphaned_by_worker EXCEPT ![s] = @ - 1]
         /\ orphaned_threads' = (orphaned_threads - 1) % UsizeModulus

-----------------------------------------------------------------------------
(* A slot in service                                                       *)

\* setup_profile or render sends a command and awaits the reply.
SendCommand(s) ==
    /\ phase[s] = "rest" /\ ~retiring[s] /\ is_alive(s)
    /\ life' = [life EXCEPT ![s][actor[s]] = "busy"]
    /\ GoTo(s, "calling")
    /\ UNCHANGED <<actor, handle, retiring, slot_available, status, stop, superVars>>

\* The reply, or the image itself, misses the deadline: retire_after_current queues Retire
\* and goes on to replace the actor.
RetireAfterCurrent(s) ==
    /\ phase[s] \in {"calling", "rest"} /\ ~retiring[s] /\ is_alive(s)
    /\ retiring' = [retiring EXCEPT ![s] = TRUE]
    /\ stop' = [stop EXCEPT ![s][actor[s]] = TRUE]
    /\ GoTo(s, "abandon")
    /\ UNCHANGED <<actor, handle, slot_available, life, status, superVars>>

\* Faulty: the repair tick looks for finished actors only.
StartReplacement_finished_only(s) ==
    /\ phase[s] = "rest" /\ ~retiring[s] /\ ~is_alive(s)
    /\ GoTo(s, "spawn")
    /\ UNCHANGED <<actor, handle, retiring, slot_available, threadVars, superVars>>

\* The repair tick of an idle worker, or the next call, finds the actor in need of
\* replacement: a retiring one is abandoned first, a finished one replaced.
StartReplacement(s) ==
    /\ phase[s] = "rest" /\ (retiring[s] \/ ~is_alive(s))
    /\ GoTo(s, IF retiring[s] THEN "abandon" ELSE "spawn")
    /\ UNCHANGED <<actor, handle, retiring, slot_available, threadVars, superVars>>

\* Faulty: the slot still counts as available.
ReplacementExhausted_silent(s) ==
    /\ GoTo(s, "rest")
    /\ UNCHANGED <<actor, handle, retiring, slot_available, threadVars, superVars>>

\* The budget is exhausted, or the slot has used its share: the slot is unavailable.
ReplacementExhausted(s) ==
    /\ set_slot_available(s, FALSE)
    /\ GoTo(s, "rest")
    /\ UNCHANGED <<actor, handle, retiring, threadVars, orphaned_threads, orphaned_by_worker>>

\* try_abandon: a finished thread, or one abandoned before, needs no budget ...
TryAbandon(s) ==
    /\ phase[s] = "abandon"
    /\ \/ /\ ~is_alive(s)
          /\ handle' = [handle EXCEPT ![s] = FALSE]
          /\ GoTo(s, "spawn")
          /\ UNCHANGED <<actor, retiring, slot_available, threadVars, superVars>>
       \/ /\ is_alive(s) /\ may_reserve_orphan(s)
          /\ reserve(s)
          /\ GoTo(s, "reserved")
          /\ UNCHANGED <<actor, handle, retiring, slot_available, threadVars, available_slots>>
       \/ /\ is_alive(s) /\ ~may_reserve_orphan(s)
          /\ ReplacementExhausted(s)

\* Faulty: the reservation is kept when the thread has finished by itself.
CompareExchange_keeps_reservation(s) ==
    /\ phase[s] = "reserved"
    /\ handle' = [handle EXCEPT ![s] = FALSE]
    /\ GoTo(s, "spawn")
    /\ status' = IF status[s][actor[s]] = "RUNNING"
                 THEN [status EXCEPT ![s][actor[s]] = "ORPHANED"] ELSE status
    /\ UNCHANGED <<actor, retiring, slot_available, life, stop, superVars>>

\* ... and a running one is marked, unless it has finished since the reservation. A join
\* waits for the thread, which is past its exit guard.
CompareExchange(s) ==
    /\ phase[s] = "reserved"
    /\ handle' = [handle EXCEPT ![s] = FALSE]
    /\ GoTo(s, "spawn")
    /\ \/ /\ status[s][actor[s]] = "RUNNING"
          /\ status' = [status EXCEPT ![s][actor[s]] = "ORPHANED"]
          /\ UNCHANGED <<orphaned_threads, orphaned_by_worker>>
       \/ /\ status[s][actor[s]] = "FINISHED"
          /\ release_orphan(s)
          /\ UNCHANGED status
    /\ UNCHANGED <<actor, retiring, slot_available, life, stop, available_slots>>

\* spawn_and_install_replacement; the actor it replaces has no handle left, or a finished
\* thread.
SpawnReplacement(s) ==
    /\ phase[s] = "spawn"
    /\ \/ life[s][actor[s]] = "gone" /\ Forget(s, actor[s], "idle") /\ UNCHANGED actor
       \/ /\ life[s][actor[s]] # "gone"
          /\ \E t \in FreeTid(s) : actor' = [actor EXCEPT ![s] = t] /\ Forget(s, t, "idle")
    /\ handle' = [handle EXCEPT ![s] = TRUE]
    /\ retiring' = [retiring EXCEPT ![s] = FALSE]
    /\ set_slot_available(s, TRUE)
    /\ GoTo(s, "rest")
    /\ UNCHANGED <<orphaned_threads, orphaned_by_worker>>

\* The operating system refuses the thread.
SpawnFails(s) ==
    /\ phase[s] = "spawn"
    /\ set_slot_available(s, FALSE)
    /\ GoTo(s, "rest")
    /\ UNCHANGED <<actor, handle, retiring, threadVars, orphaned_threads, orphaned_by_worker>>

-----------------------------------------------------------------------------
(* The actor's thread                                                      *)

\* The native call returns; nobody hears the reply of a retired thread.
NativeReturns(s, t) ==
    /\ life[s][t] = "busy"
    /\ life' = [life EXCEPT ![s][t] = "idle"]
    /\ phase' = IF phase[s] = "calling" /\ actor[s] = t THEN [phase EXCEPT ![s] = "rest"] ELSE phase
    /\ UNCHANGED <<actor, handle, retiring, slot_available, status, stop, superVars>>

\* Retire or Shutdown ends the loop; the backend is then destroyed.
LeaveLoop(s, t) ==
    /\ life[s][t] = "idle" /\ stop[s][t]
    /\ life' = [life EXCEPT ![s][t] = "closing"]
    /\ UNCHANGED <<slotVars, status, stop, superVars>>

\* ActorThreadExit: the swap decides whether this thread was counted as an orphan.
SwapFinished(s, t) ==
    /\ life[s][t] = "closing"
    /\ life' = [life EXCEPT ![s][t] = IF status[s][t] = "ORPHANED" THEN "releasing" ELSE "exited"]
    /\ status' = [status EXCEPT ![s][t] = "FINISHED"]
    /\ UNCHANGED <<slotVars, stop, superVars>>

ThreadReleases(s, t) ==
    /\ life[s][t] = "releasing"
    /\ release_orphan(s)
    /\ life' = [life EXCEPT ![s][t] = "exited"]
    /\ UNCHANGED <<slotVars, status, stop, available_slots>>

\* From here on is_finished() holds. The identity of a thread whose handle nobody holds is
\* free again.
ThreadEnds(s, t) ==
    /\ life[s][t] = "exited"
    /\ IF actor[s] = t /\ handle[s]
       THEN /\ life' = [life EXCEPT ![s][t] = "gone"]
            /\ UNCHANGED <<status, stop>>
       ELSE Forget(s, t, "none")
    /\ UNCHANGED <<slotVars, superVars>>

-----------------------------------------------------------------------------
(* Drop for RendererActor, when the worker leaves its loop                 *)

DropActor(s) ==
    /\ phase[s] = "rest"
    /\ stop' = [stop EXCEPT ![s][actor[s]] = is_alive(s) \/ @]
    /\ GoTo(s, IF handle[s] THEN "shutdown" ELSE "dropped")
    /\ UNCHANGED <<actor, handle, retiring, slot_available, life, status, superVars>>

\* The thread ends within the grace and is joined.
DropJoins(s) ==
    /\ phase[s] = "shutdown" /\ is_finished(s)
    /\ handle' = [handle EXCEPT ![s] = FALSE]
    /\ GoTo(s, "dropped")
    /\ UNCHANGED <<actor, retiring, slot_available, threadVars, superVars>>

\* The grace is over: a thread that still runs is marked first ...
DropDetaches(s) ==
    /\ phase[s] = "shutdown" /\ ~is_finished(s)
    /\ handle' = [handle EXCEPT ![s] = FALSE]
    /\ \/ /\ status[s][actor[s]] = "RUNNING"
          /\ status' = [status EXCEPT ![s][actor[s]] = "ORPHANED"]
          /\ GoTo(s, "orphaned")
       \/ /\ status[s][actor[s]] = "FINISHED"
          /\ GoTo(s, "dropped")
          /\ UNCHANGED status
    /\ UNCHANGED <<actor, retiring, slot_available, life, stop, superVars>>

\* ... and counted afterwards, without asking the budget: in the map, then in the total.
ReserveUnchecked(s) ==
    /\ phase[s] = "orphaned"
    /\ orphaned_by_worker' = [orphaned_by_worker EXCEPT ![s] = @ + 1]
    /\ GoTo(s, "counted")
    /\ UNCHANGED <<actor, handle, retiring, slot_available, threadVars, available_slots,
                   orphaned_threads>>

CountUnchecked(s) ==
    /\ phase[s] = "counted"
    /\ orphaned_threads' = (orphaned_threads + 1) % UsizeModulus
    /\ GoTo(s, "dropped")
    /\ UNCHANGED <<actor, handle, retiring, slot_available, threadVars, available_slots,
                   orphaned_by_worker>>

-----------------------------------------------------------------------------
Replace(s) == TryAbandon(s) \/ CompareExchange(s) \/ SpawnReplacement(s) \/ SpawnFails(s)
Thread(s, t) == \/ NativeReturns(s, t) \/ LeaveLoop(s, t) \/ SwapFinished(s, t)
                \/ ThreadReleases(s, t) \/ ThreadEnds(s, t)
DropSlot(s) == DropActor(s) \/ DropJoins(s) \/ DropDetaches(s) \/ ReserveUnchecked(s) \/ CountUnchecked(s)

SlotNext ==
    \/ \E s \in Slots : SendCommand(s) \/ RetireAfterCurrent(s) \/ StartReplacement(s)
                        \/ Replace(s) \/ DropSlot(s)
    \/ \E s \in Slots, t \in Tids : Thread(s, t)

SlotSpec == SlotInit /\ [][SlotNext]_rendererVars

\* Threads run, native calls return (late, perhaps), the repair tick comes every second and
\* the operating system does not refuse threads for ever.
SlotFairness ==
    \A s \in Slots :
        /\ WF_rendererVars(StartReplacement(s)) /\ WF_rendererVars(TryAbandon(s) \/ CompareExchange(s))
        /\ SF_rendererVars(SpawnReplacement(s))
        /\ \A t \in Tids : WF_rendererVars(Thread(s, t))

FairSpec == SlotSpec /\ SlotFairness

-----------------------------------------------------------------------------
(* Properties                                                              *)

\* Every variable has its type.
SlotTypeOK ==
    /\ phase \in [Slots -> SlotPhases]
    /\ actor \in [Slots -> Tids]
    /\ handle \in [Slots -> BOOLEAN] /\ retiring \in [Slots -> BOOLEAN]
    /\ slot_available \in [Slots -> BOOLEAN]
    /\ life \in [Slots -> [Tids -> Lives]]
    /\ status \in [Slots -> [Tids -> {"RUNNING", "ORPHANED", "FINISHED"}]]
    /\ stop \in [Slots -> [Tids -> BOOLEAN]]
    /\ available_slots \in 0..total_slots
    /\ orphaned_threads \in 0..(UsizeModulus - 1)
    /\ orphaned_by_worker \in [Slots -> 0..2]

\* The threads of slot s that have to be counted: marked as orphans and not yet released.
Orphans(s) == {t \in Tids : life[s][t] = "releasing"
                            \/ (life[s][t] \in HasBackend /\ status[s][t] = "ORPHANED")}
InService(s) == phase[s] \in {"rest", "calling", "abandon", "reserved", "spawn"}

\* A slot in service has counted exactly the orphans it has left, and the one it reserved
\* for: no race between the slot's and the thread's end of the status counts one twice or
\* loses one.
OrphansCounted ==
    \A s \in Slots : InService(s) =>
        orphaned_by_worker[s] = Cardinality(Orphans(s)) + (IF phase[s] = "reserved" THEN 1 ELSE 0)

\* However often renders time out, a slot never has more than two native renderers at a
\* time, the orphaned and the current one: the memory the specification budgets for.
AtMostTwoBackends ==
    \A s \in Slots : Cardinality({t \in Tids : life[s][t] \in HasBackend}) <= 2

\* The orphan budget holds: the slot's orphans are counted exactly, and the native renderers
\* that budget stands for are at most two.
OrphansBudgeted == OrphansCounted /\ AtMostTwoBackends

\* The supervisor's count of available slots, which admission and the health probes read,
\* is the number of slots that say they are; and a slot at rest that says so has an actor
\* that takes commands.
AvailabilityExact ==
    /\ available_slots = Cardinality({s \in Slots : slot_available[s]})
    /\ \A s \in Slots : (phase[s] \in {"rest", "calling"} /\ slot_available[s]) =>
            ~retiring[s] /\ handle[s] /\ ~stop[s][actor[s]]

\* A slot that lost its actor gets another once its native call has returned, without a
\* request: the repair tick sees to it.
SlotRecovers ==
    \A s \in Slots : ~slot_available[s] ~> (slot_available[s] \/ ~InService(s) \/ phase[s] = "shutdown")

=============================================================================
