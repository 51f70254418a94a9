---------------------------- MODULE RendererProofs ----------------------------
(***************************************************************************)
(* Proofs about two parts of the native renderer that know nothing of each *)
(* other: the threads behind the renderer slots (RendererSlot), for any    *)
(* number of slots and threads, and the source of a style's resources      *)
(* (FileSource), for any number of requests, permits and retries.          *)
(***************************************************************************)
EXTENDS RendererSlot, FileSource, FiniteSetTheorems, TLAPS

-----------------------------------------------------------------------------
(* RendererSlot: the native threads behind the renderer slots.             *)

\* The slot still owns thread t.
Owns(s, t) == t = actor[s] /\ handle[s]

\* The status says what became of each thread: one that runs is the slot's own
\* or an orphan, and the slot keeps the identity of its own.
ThreadsSound(s) ==
    \A t \in Tids :
        /\ life[s][t] \in HasBackend => status[s][t] = IF Owns(s, t) THEN "RUNNING" ELSE "ORPHANED"
        /\ life[s][t] \in {"releasing", "exited", "gone"} => status[s][t] = "FINISHED"
        /\ Owns(s, t) => life[s][t] \notin {"none", "releasing"}

\* Where the slot is says whether it owns a thread.
HandleSound(s) ==
    /\ phase[s] \in {"reserved", "shutdown"} => handle[s]
    /\ phase[s] = "spawn" => ~handle[s] \/ is_finished(s)
    /\ phase[s] \in {"orphaned", "counted", "dropped"} => ~handle[s]

\* Until it is dropped a slot counts one orphan at most, and a reservation is
\* made while there is none; the actor it drops may be a second one.
Counted(s) ==
    /\ InService(s) \/ phase[s] = "shutdown" =>
           IF phase[s] = "reserved" THEN Orphans(s) = {} /\ orphaned_by_worker[s] = 1
           ELSE \/ Orphans(s) = {} /\ orphaned_by_worker[s] = 0
                \/ orphaned_by_worker[s] = 1 /\ \E t \in Tids : Orphans(s) = {t}
    /\ \A t, u \in Orphans(s) \ {actor[s]} : t = u
    /\ phase[s] = "orphaned" => orphaned_by_worker[s] <= 1

Serves(s) ==
    phase[s] \in {"rest", "calling"} /\ slot_available[s] => ~retiring[s] /\ handle[s] /\ ~stop[s][actor[s]]

\* A thread the slot owns and has not told to stop takes commands, and only a
\* slot that retires its thread tells it so.
StopSound(s) ==
    /\ \A t \in Tids : Owns(s, t) /\ ~stop[s][t] => life[s][t] \in {"idle", "busy"}
    /\ InService(s) /\ handle[s] /\ ~retiring[s] => ~stop[s][actor[s]]

SlotSound(s) == ThreadsSound(s) /\ HandleSound(s) /\ Counted(s) /\ Serves(s) /\ StopSound(s)
AvailableCounted == available_slots = Cardinality({s \in Slots : slot_available[s]})
SlotInv == SlotTypeOK /\ AvailableCounted /\ \A s \in Slots : SlotSound(s)

\* Two subsets of a finite set that differ in one member at most.
LEMMA CountChange ==
    ASSUME NEW X, IsFiniteSet(X), NEW A \in SUBSET X, NEW B \in SUBSET X, NEW w \in X, A \ {w} = B \ {w}
    PROVE  /\ Cardinality(A) \in Nat /\ Cardinality(B) \in Nat
           /\ (w \in A <=> w \in B) => Cardinality(B) = Cardinality(A)
           /\ w \notin A /\ w \in B => Cardinality(B) = Cardinality(A) + 1
           /\ w \in A /\ w \notin B => Cardinality(B) = Cardinality(A) - 1
  <1>1. IsFiniteSet(A) /\ IsFiniteSet(B) /\ Cardinality(A) \in Nat /\ Cardinality(B) \in Nat
    BY FS_Subset, FS_CardinalityType
  <1>2. (w \in A <=> w \in B) => A = B
    OBVIOUS
  <1>3. ASSUME w \notin A, w \in B PROVE Cardinality(B) = Cardinality(A) + 1
    <2>1. B = A \cup {w}
      BY <1>3
    <2> QED  BY <1>1, <1>3, <2>1, FS_AddElement
  <1>4. ASSUME w \in A, w \notin B PROVE Cardinality(B) = Cardinality(A) - 1
    <2>1. A = B \cup {w}
      BY <1>4
    <2>2. Cardinality(A) = Cardinality(B) + 1
      BY <1>1, <1>4, <2>1, FS_AddElement
    <2> QED  BY <1>1, <2>2
  <1> QED  BY <1>1, <1>2, <1>3, <1>4

\* A function of two arguments with one value replaced.
LEMMA Replaced ==
    ASSUME NEW D, NEW C, NEW R, NEW f \in [D -> [C -> R]], NEW s \in D, NEW t \in C, NEW x \in R,
           NEW g, g = [f EXCEPT ![s][t] = x]
    PROVE  /\ g \in [D -> [C -> R]] /\ g[s][t] = x
           /\ \A v \in D \ {s} : g[v] = f[v]
           /\ \A u \in C \ {t} : g[s][u] = f[s][u]
  OBVIOUS

\* What a step of slot s leaves alone, and what it has to keep.
OtherSlots(s) ==
    \A v \in Slots \ {s} :
        /\ phase'[v] = phase[v] /\ actor'[v] = actor[v] /\ handle'[v] = handle[v] /\ retiring'[v] = retiring[v]
        /\ slot_available'[v] = slot_available[v] /\ life'[v] = life[v] /\ status'[v] = status[v] /\ stop'[v] = stop[v]
        /\ orphaned_by_worker'[v] = orphaned_by_worker[v]

LEMMA SlotFrame ==
    ASSUME SlotInv, NEW s \in Slots, OtherSlots(s), NEW v \in Slots \ {s} PROVE SlotSound(v)'
  <1>1. /\ phase'[v] = phase[v] /\ actor'[v] = actor[v] /\ handle'[v] = handle[v] /\ retiring'[v] = retiring[v]
        /\ slot_available'[v] = slot_available[v] /\ life'[v] = life[v] /\ status'[v] = status[v] /\ stop'[v] = stop[v]
        /\ orphaned_by_worker'[v] = orphaned_by_worker[v]
    BY DEF OtherSlots
  <1>2. SlotSound(v)
    BY DEF SlotInv
  <1>3. Orphans(v)' = Orphans(v)
    BY <1>1 DEF Orphans
  <1> QED  BY <1>1, <1>2, <1>3 DEF SlotSound, ThreadsSound, HandleSound, Counted, Serves, StopSound, Owns, is_finished, InService

\* A slot changes its own flag, and the count with it.
LEMMA SetAvailable ==
    ASSUME SlotInv, NEW s \in Slots, NEW next \in BOOLEAN, set_slot_available(s, next)
    PROVE  /\ AvailableCounted' /\ available_slots' \in 0..total_slots
           /\ slot_available' \in [Slots -> BOOLEAN] /\ slot_available'[s] = next
           /\ \A v \in Slots \ {s} : slot_available'[v] = slot_available[v]
  <1> DEFINE A == {v \in Slots : slot_available[v]}
             B == {v \in Slots : slot_available'[v]}
  <1>1. slot_available \in [Slots -> BOOLEAN] /\ available_slots = Cardinality(A)
    BY DEF SlotInv, SlotTypeOK, AvailableCounted
  <1>2. slot_available' = [slot_available EXCEPT ![s] = next]
    BY DEF set_slot_available
  <1>3. A \ {s} = B \ {s} /\ A \in SUBSET Slots /\ B \in SUBSET Slots /\ (s \in A <=> slot_available[s]) /\ (s \in B <=> next)
    BY <1>1, <1>2
  <1>4. IsFiniteSet(Slots) /\ total_slots = Cardinality(Slots)
    BY SlotAssumption DEF total_slots
  <1>5. AvailableCounted' <=> available_slots' = Cardinality(B)
    BY DEF AvailableCounted
  <1>6. IsFiniteSet(B) /\ Cardinality(B) <= Cardinality(Slots) /\ Cardinality(B) \in Nat /\ Cardinality(Slots) \in Nat
    BY <1>3, <1>4, FS_Subset, FS_CardinalityType
  <1> HIDE DEF A, B
  <1>7. available_slots' = Cardinality(B)
    <2>1. CASE slot_available[s] = next
      BY <1>1, <1>3, <1>4, <2>1, CountChange DEF set_slot_available
    <2>2. CASE slot_available[s] # next /\ next
      <3>1. available_slots' = available_slots + 1
        BY <2>2 DEF set_slot_available
      <3>2. s \notin A /\ s \in B
        BY <1>1, <1>3, <2>2
      <3> QED  BY <1>1, <1>3, <1>4, <3>1, <3>2, CountChange
    <2>3. CASE slot_available[s] # next /\ ~next
      BY <1>1, <1>3, <1>4, <2>3, CountChange DEF set_slot_available
    <2> QED  BY <2>1, <2>2, <2>3
  <1> QED  BY <1>1, <1>2, <1>4, <1>5, <1>6, <1>7

StepSound(s) == SlotTypeOK' /\ AvailableCounted' /\ OtherSlots(s) /\ SlotSound(s)'

\* The flag and the count stay.
LEMMA AvailableKept ==
    ASSUME SlotInv, UNCHANGED <<available_slots, slot_available>> PROVE AvailableCounted'
  BY DEF SlotInv, AvailableCounted

LEMMA SendStep ==
    ASSUME SlotInv, NEW s \in Slots, SendCommand(s) PROVE StepSound(s)
  <1> USE DEF SlotInv, SlotTypeOK
  <1> DEFINE t == actor[s]
  <1>1. /\ phase[s] = "rest" /\ ~retiring[s] /\ handle[s] /\ life[s][t] # "gone" /\ t \in Tids
        /\ life' = [life EXCEPT ![s][t] = "busy"] /\ phase' = [phase EXCEPT ![s] = "calling"]
        /\ UNCHANGED <<actor, handle, retiring, slot_available, status, stop, available_slots, orphaned_threads, orphaned_by_worker>>
    BY DEF SendCommand, is_alive, is_finished, GoTo, superVars
  <1>2. t = actor[s]
    OBVIOUS
  <1> HIDE DEF t
  <1>3. /\ life' \in [Slots -> [Tids -> Lives]] /\ life'[s][t] = "busy"
        /\ \A v \in Slots \ {s} : life'[v] = life[v]
        /\ \A u \in Tids \ {t} : life'[s][u] = life[s][u]
    BY <1>1, Replaced DEF Lives, HasBackend
  <1>4. SlotTypeOK' /\ AvailableCounted' /\ OtherSlots(s)
    BY <1>1, <1>3, AvailableKept DEF SlotPhases, OtherSlots
  <1>5. SlotSound(s)
    OBVIOUS
  <1>6. life[s][t] \in {"idle", "busy"} /\ status[s][t] = "RUNNING"
    BY <1>1, <1>2, <1>5 DEF SlotSound, ThreadsSound, StopSound, Owns, InService, HasBackend
  <1>7. Orphans(s)' = Orphans(s)
    BY <1>1, <1>3, <1>6 DEF Orphans, HasBackend
  <1>8. ThreadsSound(s)' /\ StopSound(s)'
    BY <1>1, <1>2, <1>3, <1>5, <1>6 DEF SlotSound, ThreadsSound, StopSound, Owns, InService, HasBackend
  <1>9. HandleSound(s)' /\ Counted(s)' /\ Serves(s)'
    BY <1>1, <1>5, <1>7 DEF SlotSound, HandleSound, Counted, Serves, InService
  <1> QED  BY <1>4, <1>8, <1>9 DEF StepSound, SlotSound

LEMMA RetireStep ==
    ASSUME SlotInv, NEW s \in Slots, RetireAfterCurrent(s) PROVE StepSound(s)
  <1> USE DEF SlotInv, SlotTypeOK
  <1> DEFINE t == actor[s]
  <1>1. /\ phase[s] \in {"calling", "rest"} /\ handle[s] /\ t \in Tids
        /\ stop' = [stop EXCEPT ![s][t] = TRUE] /\ phase' = [phase EXCEPT ![s] = "abandon"]
        /\ retiring' = [retiring EXCEPT ![s] = TRUE]
        /\ UNCHANGED <<actor, handle, slot_available, life, status, available_slots, orphaned_threads, orphaned_by_worker>>
    BY DEF RetireAfterCurrent, is_alive, is_finished, GoTo, superVars
  <1>2. t = actor[s]
    OBVIOUS
  <1> HIDE DEF t
  <1>3. /\ stop' \in [Slots -> [Tids -> BOOLEAN]] /\ stop'[s][t] = TRUE
        /\ \A v \in Slots \ {s} : stop'[v] = stop[v]
        /\ \A u \in Tids \ {t} : stop'[s][u] = stop[s][u]
    BY <1>1, Replaced
  <1>4. SlotTypeOK' /\ AvailableCounted' /\ OtherSlots(s)
    BY <1>1, <1>3, AvailableKept DEF SlotPhases, OtherSlots
  <1>5. SlotSound(s)
    OBVIOUS
  <1>6. Orphans(s)' = Orphans(s)
    BY <1>1 DEF Orphans
  <1>7. ThreadsSound(s)' /\ StopSound(s)'
    BY <1>1, <1>2, <1>3, <1>5 DEF SlotSound, ThreadsSound, StopSound, Owns, InService
  <1>8. HandleSound(s)' /\ Counted(s)' /\ Serves(s)'
    BY <1>1, <1>5, <1>6 DEF SlotSound, HandleSound, Counted, Serves, InService
  <1> QED  BY <1>4, <1>7, <1>8 DEF StepSound, SlotSound

\* The slot goes from place to place, and its threads stay as they are.
LEMMA MoveStep ==
    ASSUME SlotInv, NEW s \in Slots, NEW to \in SlotPhases, NEW keeps \in BOOLEAN,
           phase' = [phase EXCEPT ![s] = to], handle' = [handle EXCEPT ![s] = keeps],
           UNCHANGED <<actor, retiring, life, status, stop, orphaned_threads, orphaned_by_worker>>,
           slot_available' \in [Slots -> BOOLEAN], \A v \in Slots \ {s} : slot_available'[v] = slot_available[v],
           AvailableCounted', available_slots' \in 0..total_slots,
           keeps => handle[s], handle[s] /\ ~keeps => life[s][actor[s]] \notin HasBackend,
           to = "shutdown" => keeps, to = "spawn" => ~keeps \/ is_finished(s),
           to \in {"orphaned", "counted", "dropped"} => ~keeps,
           phase[s] # "reserved", to \notin {"reserved", "orphaned", "calling"},
           to \in {"rest", "abandon", "spawn", "shutdown"} => InService(s),
           to = "rest" => ~slot_available'[s]
    PROVE  StepSound(s)
  <1> USE DEF SlotInv, SlotTypeOK
  <1>1. SlotSound(s)
    OBVIOUS
  <1>2. SlotTypeOK' /\ OtherSlots(s)
    BY DEF OtherSlots
  <1>3. phase'[s] = to /\ handle'[s] = keeps
    OBVIOUS
  <1>4. Orphans(s)' = Orphans(s)
    BY DEF Orphans
  <1>5. ThreadsSound(s)'
    BY <1>1, <1>3 DEF SlotSound, ThreadsSound, Owns
  <1>6. StopSound(s)'
    BY <1>1, <1>3 DEF SlotSound, StopSound, Owns, InService
  <1>7. HandleSound(s)' /\ Serves(s)'
    BY <1>1, <1>3 DEF SlotSound, HandleSound, Serves, is_finished
  <1>8. Counted(s)'
    BY <1>1, <1>3, <1>4 DEF SlotSound, Counted, InService
  <1> QED  BY <1>2, <1>5, <1>6, <1>7, <1>8 DEF StepSound, SlotSound

LEMMA StartStep ==
    ASSUME SlotInv, NEW s \in Slots, StartReplacement(s) PROVE StepSound(s)
  <1> USE DEF SlotInv, SlotTypeOK
  <1> DEFINE to == IF retiring[s] THEN "abandon" ELSE "spawn"
  <1>1. /\ phase[s] = "rest" /\ (retiring[s] \/ ~is_alive(s)) /\ phase' = [phase EXCEPT ![s] = to]
        /\ UNCHANGED <<actor, handle, retiring, slot_available, life, status, stop, available_slots, orphaned_threads, orphaned_by_worker>>
    BY DEF StartReplacement, GoTo, superVars, threadVars
  <1>2. to \in {"abandon", "spawn"} /\ (to = "spawn" => ~is_alive(s))
    BY <1>1
  <1> HIDE DEF to
  <1>3. handle' = [handle EXCEPT ![s] = handle[s]] /\ handle[s] \in BOOLEAN /\ AvailableCounted'
    BY <1>1, AvailableKept
  <1>4. InService(s) /\ to \in SlotPhases /\ (to = "spawn" => ~handle[s] \/ is_finished(s))
    BY <1>1, <1>2 DEF InService, SlotPhases, is_alive
  <1> QED  BY <1>1, <1>2, <1>3, <1>4, MoveStep

\* A slot at rest again that may not be used.
LEMMA UnavailableStep ==
    ASSUME SlotInv, NEW s \in Slots, phase[s] \in {"abandon", "spawn"}, set_slot_available(s, FALSE),
           phase' = [phase EXCEPT ![s] = "rest"],
           UNCHANGED <<actor, handle, retiring, life, status, stop, orphaned_threads, orphaned_by_worker>>
    PROVE  StepSound(s)
  <1> USE DEF SlotInv, SlotTypeOK
  <1>1. /\ AvailableCounted' /\ available_slots' \in 0..total_slots
        /\ slot_available' \in [Slots -> BOOLEAN] /\ slot_available'[s] = FALSE
        /\ \A v \in Slots \ {s} : slot_available'[v] = slot_available[v]
    BY SetAvailable
  <1>2. handle' = [handle EXCEPT ![s] = handle[s]] /\ handle[s] \in BOOLEAN /\ InService(s) /\ "rest" \in SlotPhases
    BY DEF InService, SlotPhases
  <1> QED  BY <1>1, <1>2, MoveStep

LEMMA AbandonStep ==
    ASSUME SlotInv, NEW s \in Slots, TryAbandon(s) PROVE StepSound(s)
  <1> USE DEF SlotInv, SlotTypeOK
  <1>0. phase[s] = "abandon" /\ InService(s) /\ SlotSound(s)
    BY DEF TryAbandon, InService
  <1>1. CASE ~is_alive(s) /\ handle' = [handle EXCEPT ![s] = FALSE] /\ GoTo(s, "spawn")
             /\ UNCHANGED <<actor, retiring, slot_available, threadVars, superVars>>
    <2>1. handle[s] => life[s][actor[s]] = "gone"
      BY <1>1 DEF is_alive, is_finished
    <2>2. AvailableCounted' /\ phase' = [phase EXCEPT ![s] = "spawn"] /\ "spawn" \in SlotPhases
          /\ UNCHANGED <<actor, retiring, slot_available, life, status, stop, available_slots, orphaned_threads, orphaned_by_worker>>
      BY <1>1, AvailableKept DEF GoTo, SlotPhases, threadVars, superVars
    <2>3. handle[s] => life[s][actor[s]] \notin HasBackend
      BY <2>1 DEF HasBackend
    <2> QED  BY <1>0, <1>1, <2>2, <2>3, MoveStep
  <1>2. CASE is_alive(s) /\ ~may_reserve_orphan(s) /\ ReplacementExhausted(s)
    BY <1>0, <1>2, UnavailableStep DEF ReplacementExhausted, GoTo, threadVars
  <1>3. CASE is_alive(s) /\ may_reserve_orphan(s) /\ reserve(s) /\ GoTo(s, "reserved")
             /\ UNCHANGED <<actor, handle, retiring, slot_available, threadVars, available_slots>>
    <2>1. /\ handle[s] /\ orphaned_by_worker[s] = 0 /\ phase' = [phase EXCEPT ![s] = "reserved"]
          /\ orphaned_by_worker' = [orphaned_by_worker EXCEPT ![s] = @ + 1]
          /\ orphaned_threads' = (orphaned_threads + 1) % UsizeModulus
          /\ UNCHANGED <<actor, handle, retiring, slot_available, life, status, stop, available_slots>>
      BY <1>3 DEF is_alive, may_reserve_orphan, reserve, GoTo, threadVars
    <2>2. orphaned_by_worker'[s] = 1 /\ orphaned_by_worker' \in [Slots -> 0..2]
      BY <2>1
    <2>3. orphaned_threads' \in 0..(UsizeModulus - 1)
      BY <2>1, SlotAssumption
    <2>4. SlotTypeOK' /\ OtherSlots(s) /\ AvailableCounted'
      BY <2>1, <2>2, <2>3, AvailableKept DEF OtherSlots, SlotPhases
    <2>5. Orphans(s) = {} /\ Orphans(s)' = Orphans(s)
      <3>1. Orphans(s) = {}
        BY <1>0, <2>1 DEF SlotSound, Counted
      <3> QED  BY <2>1, <3>1 DEF Orphans
    <2>6. ThreadsSound(s)' /\ StopSound(s)' /\ HandleSound(s)' /\ Serves(s)'
      BY <1>0, <2>1 DEF SlotSound, ThreadsSound, StopSound, HandleSound, Serves, Owns, InService
    <2>7. Counted(s)'
      BY <2>1, <2>2, <2>5 DEF Counted
    <2> QED  BY <2>4, <2>6, <2>7 DEF StepSound, SlotSound
  <1> QED  BY <1>1, <1>2, <1>3 DEF TryAbandon

\* The marking of the thread a slot gives up.
LEMMA OrphanStep ==
    ASSUME SlotInv, NEW s \in Slots, phase[s] \in {"reserved", "shutdown"},
           status[s][actor[s]] = "RUNNING", status' = [status EXCEPT ![s][actor[s]] = "ORPHANED"],
           handle' = [handle EXCEPT ![s] = FALSE],
           phase' = [phase EXCEPT ![s] = IF phase[s] = "reserved" THEN "spawn" ELSE "orphaned"],
           UNCHANGED <<actor, retiring, slot_available, life, stop, available_slots, orphaned_threads, orphaned_by_worker>>
    PROVE  StepSound(s)
  <1> USE DEF SlotInv, SlotTypeOK
  <1> DEFINE t == actor[s]
             to == IF phase[s] = "reserved" THEN "spawn" ELSE "orphaned"
  <1>1. /\ t = actor[s] /\ t \in Tids /\ SlotSound(s) /\ handle'[s] = FALSE /\ phase'[s] = to /\ to \in SlotPhases
        /\ phase' = [phase EXCEPT ![s] = to]
    BY DEF SlotPhases
  <1>2. (phase[s] = "reserved" => to = "spawn") /\ (phase[s] = "shutdown" => to = "orphaned")
    OBVIOUS
  <1>3. handle[s] /\ Owns(s, t)
    BY <1>1 DEF SlotSound, HandleSound, Owns
  <1>4. /\ status' \in [Slots -> [Tids -> {"RUNNING", "ORPHANED", "FINISHED"}]] /\ status'[s][t] = "ORPHANED"
        /\ \A v \in Slots \ {s} : status'[v] = status[v]
        /\ \A u \in Tids \ {t} : status'[s][u] = status[s][u]
    BY <1>1, Replaced
  <1> HIDE DEF t, to
  <1>5. SlotTypeOK' /\ OtherSlots(s) /\ AvailableCounted'
    BY <1>1, <1>4, AvailableKept DEF OtherSlots
  <1>6. life[s][t] \in HasBackend
    <2>1. status[s][t] = "RUNNING" /\ life[s][t] \in Lives
      BY <1>1
    <2>2. life[s][t] \notin {"none", "releasing", "exited", "gone"}
      BY <1>1, <1>3, <2>1 DEF SlotSound, ThreadsSound
    <2> QED  BY <2>1, <2>2 DEF Lives
  <1>7. Orphans(s)' = Orphans(s) \cup {t} /\ t \notin Orphans(s)
    BY <1>1, <1>4, <1>6 DEF Orphans, HasBackend
  <1>8. ThreadsSound(s)'
    BY <1>1, <1>3, <1>4, <1>6 DEF SlotSound, ThreadsSound, Owns
  <1>9. HandleSound(s)' /\ Serves(s)' /\ StopSound(s)'
    BY <1>1, <1>2 DEF HandleSound, Serves, StopSound, Owns, InService
  <1>10. Counted(s)'
    <2>1. CASE phase[s] = "reserved"
      <3>1. Orphans(s) = {} /\ orphaned_by_worker[s] = 1
        BY <1>1, <2>1 DEF SlotSound, Counted, InService
      <3>2. Orphans(s)' = {t} /\ phase'[s] = "spawn"
        BY <1>1, <1>2, <1>7, <2>1, <3>1
      <3> QED  BY <1>1, <3>1, <3>2 DEF Counted
    <2>2. CASE phase[s] = "shutdown"
      <3>1. orphaned_by_worker[s] \in {0, 1} /\ phase'[s] = "orphaned"
        BY <1>1, <1>2, <2>2 DEF SlotSound, Counted
      <3>2. \A u, v \in Orphans(s)' \ {actor[s]} : u = v
        BY <1>1, <1>7 DEF SlotSound, Counted
      <3>3. ~InService(s)'
        BY <3>1 DEF InService
      <3> QED  BY <3>1, <3>2, <3>3 DEF Counted
    <2> QED  BY <2>1, <2>2
  <1> QED  BY <1>5, <1>8, <1>9, <1>10 DEF StepSound, SlotSound

LEMMA CompareStep ==
    ASSUME SlotInv, NEW s \in Slots, CompareExchange(s) PROVE StepSound(s)
  <1> USE DEF SlotInv, SlotTypeOK
  <1>1. /\ phase[s] = "reserved" /\ handle' = [handle EXCEPT ![s] = FALSE] /\ phase' = [phase EXCEPT ![s] = "spawn"]
        /\ UNCHANGED <<actor, retiring, slot_available, life, stop, available_slots>>
    BY DEF CompareExchange, GoTo
  <1>2. CASE status[s][actor[s]] = "RUNNING"
    BY <1>1, <1>2, OrphanStep DEF CompareExchange
  <1>3. CASE status[s][actor[s]] = "FINISHED"
    <2>1. SlotSound(s) /\ handle[s] /\ handle'[s] = FALSE /\ phase'[s] = "spawn"
          /\ Orphans(s) = {} /\ orphaned_by_worker[s] = 1
      BY <1>1 DEF SlotSound, HandleSound, Counted, InService
    <2>2. /\ UNCHANGED status /\ orphaned_by_worker' = [orphaned_by_worker EXCEPT ![s] = @ - 1]
          /\ orphaned_threads' = (orphaned_threads - 1) % UsizeModulus
      BY <1>3, <2>1 DEF CompareExchange, release_orphan
    <2>3. orphaned_by_worker' \in [Slots -> 0..2] /\ orphaned_by_worker'[s] = 0
      BY <2>1, <2>2
    <2>4. orphaned_threads' \in 0..(UsizeModulus - 1)
      BY <2>2, SlotAssumption
    <2>5. SlotTypeOK' /\ OtherSlots(s) /\ AvailableCounted'
      BY <1>1, <2>2, <2>3, <2>4, AvailableKept DEF OtherSlots, SlotPhases
    <2>6. Orphans(s)' = {}
      BY <1>1, <2>1, <2>2 DEF Orphans
    <2>7. ThreadsSound(s)'
      BY <1>1, <1>3, <2>1, <2>2 DEF SlotSound, ThreadsSound, Owns
    <2>8. HandleSound(s)' /\ Serves(s)' /\ StopSound(s)'
      BY <2>1 DEF HandleSound, Serves, StopSound, Owns, InService
    <2>9. Counted(s)'
      BY <2>1, <2>3, <2>6 DEF Counted
    <2> QED  BY <2>5, <2>7, <2>8, <2>9 DEF StepSound, SlotSound
  <1> QED  BY <1>2, <1>3 DEF CompareExchange

\* An identity is taken up or given back.
LEMMA Forgotten ==
    ASSUME SlotTypeOK, NEW s \in Slots, NEW t \in Tids, NEW l \in Lives, Forget(s, t, l)
    PROVE  /\ life' \in [Slots -> [Tids -> Lives]] /\ life'[s][t] = l
           /\ \A v \in Slots \ {s} : life'[v] = life[v] /\ status'[v] = status[v] /\ stop'[v] = stop[v]
           /\ \A u \in Tids \ {t} : life'[s][u] = life[s][u] /\ status'[s][u] = status[s][u] /\ stop'[s][u] = stop[s][u]
           /\ status' \in [Slots -> [Tids -> {"RUNNING", "ORPHANED", "FINISHED"}]] /\ status'[s][t] = "RUNNING"
           /\ stop' \in [Slots -> [Tids -> BOOLEAN]] /\ stop'[s][t] = FALSE
  <1> USE DEF SlotTypeOK
  <1>1. /\ life' \in [Slots -> [Tids -> Lives]] /\ life'[s][t] = l
        /\ \A v \in Slots \ {s} : life'[v] = life[v]
        /\ \A u \in Tids \ {t} : life'[s][u] = life[s][u]
    BY Replaced DEF Forget
  <1>2. /\ status' \in [Slots -> [Tids -> {"RUNNING", "ORPHANED", "FINISHED"}]] /\ status'[s][t] = "RUNNING"
        /\ \A v \in Slots \ {s} : status'[v] = status[v]
        /\ \A u \in Tids \ {t} : status'[s][u] = status[s][u]
    BY Replaced DEF Forget
  <1>3. /\ stop' \in [Slots -> [Tids -> BOOLEAN]] /\ stop'[s][t] = FALSE
        /\ \A v \in Slots \ {s} : stop'[v] = stop[v]
        /\ \A u \in Tids \ {t} : stop'[s][u] = stop[s][u]
    BY Replaced DEF Forget
  <1> QED  BY <1>1, <1>2, <1>3

LEMMA SpawnStep ==
    ASSUME SlotInv, NEW s \in Slots, SpawnReplacement(s) PROVE StepSound(s)
  <1> USE DEF SlotInv, SlotTypeOK
  <1>1. /\ phase[s] = "spawn" /\ handle' = [handle EXCEPT ![s] = TRUE] /\ phase' = [phase EXCEPT ![s] = "rest"]
        /\ retiring' = [retiring EXCEPT ![s] = FALSE] /\ UNCHANGED <<orphaned_threads, orphaned_by_worker>>
        /\ set_slot_available(s, TRUE) /\ SlotSound(s)
    BY DEF SpawnReplacement, GoTo
  <1>2. /\ AvailableCounted' /\ available_slots' \in 0..total_slots
        /\ slot_available' \in [Slots -> BOOLEAN] /\ slot_available'[s] = TRUE
        /\ \A v \in Slots \ {s} : slot_available'[v] = slot_available[v]
    BY <1>1, SetAvailable
  <1>3. PICK t \in Tids : /\ life[s][t] = "none" \/ (t = actor[s] /\ life[s][t] = "gone")
                          /\ actor' = [actor EXCEPT ![s] = t] /\ Forget(s, t, "idle")
    <2>1. CASE life[s][actor[s]] = "gone"
      <3>1. Forget(s, actor[s], "idle") /\ actor' = [actor EXCEPT ![s] = actor[s]] /\ actor[s] \in Tids
        BY <2>1 DEF SpawnReplacement
      <3> QED  BY <2>1, <3>1
    <2>2. CASE life[s][actor[s]] # "gone"
      BY <2>2 DEF SpawnReplacement, FreeTid
    <2> QED  BY <2>1, <2>2
  <1>4. "idle" \in Lives /\ "idle" \in HasBackend
    BY DEF Lives, HasBackend
  <1>5. /\ life' \in [Slots -> [Tids -> Lives]] /\ life'[s][t] = "idle"
        /\ \A v \in Slots \ {s} : life'[v] = life[v] /\ status'[v] = status[v] /\ stop'[v] = stop[v]
        /\ \A u \in Tids \ {t} : life'[s][u] = life[s][u] /\ status'[s][u] = status[s][u] /\ stop'[s][u] = stop[s][u]
        /\ status' \in [Slots -> [Tids -> {"RUNNING", "ORPHANED", "FINISHED"}]] /\ status'[s][t] = "RUNNING"
        /\ stop' \in [Slots -> [Tids -> BOOLEAN]] /\ stop'[s][t] = FALSE
    BY <1>3, <1>4, Forgotten
  <1>6. SlotTypeOK' /\ OtherSlots(s)
    BY <1>1, <1>2, <1>3, <1>5 DEF OtherSlots, SlotPhases
  <1>7. /\ actor'[s] = t /\ handle'[s] = TRUE /\ retiring'[s] = FALSE /\ phase'[s] = "rest"
        /\ orphaned_by_worker'[s] = orphaned_by_worker[s]
    BY <1>1, <1>3
  <1>8. Orphans(s)' = Orphans(s)
    <2>1. t \notin Orphans(s) /\ t \notin Orphans(s)'
      BY <1>3, <1>5 DEF Orphans, HasBackend
    <2>2. \A u \in Tids \ {t} : u \in Orphans(s)' <=> u \in Orphans(s)
      BY <1>5 DEF Orphans
    <2>3. Orphans(s) \subseteq Tids /\ Orphans(s)' \subseteq Tids
      BY DEF Orphans
    <2>4. \A u : u \in Orphans(s)' <=> u \in Orphans(s)
      BY <2>1, <2>2, <2>3
    <2> QED  BY <2>4, Zenon
  <1>9. ~handle[s] \/ life[s][actor[s]] = "gone"
    BY <1>1 DEF SlotSound, HandleSound, is_finished
  <1>10. ThreadsSound(s)'
    <2> SUFFICES ASSUME NEW u \in Tids
                 PROVE  /\ life'[s][u] \in HasBackend => status'[s][u] = IF Owns(s, u)' THEN "RUNNING" ELSE "ORPHANED"
                        /\ life'[s][u] \in {"releasing", "exited", "gone"} => status'[s][u] = "FINISHED"
                        /\ Owns(s, u)' => life'[s][u] \notin {"none", "releasing"}
      BY DEF ThreadsSound
    <2>1. CASE u = t
      BY <1>5, <1>7, <2>1 DEF Owns
    <2>2. CASE u # t
      <3>1. ~Owns(s, u)' /\ life'[s][u] = life[s][u] /\ status'[s][u] = status[s][u]
        BY <1>5, <1>7, <2>2 DEF Owns
      <3>2. life[s][u] \in HasBackend => ~Owns(s, u)
        BY <1>9 DEF Owns, HasBackend
      <3> QED  BY <1>1, <3>1, <3>2 DEF SlotSound, ThreadsSound
    <2> QED  BY <2>1, <2>2
  <1>11. HandleSound(s)' /\ Serves(s)' /\ StopSound(s)'
    BY <1>5, <1>7 DEF HandleSound, Serves, StopSound, Owns
  <1>12. Counted(s)'
    <2>1. \/ Orphans(s) = {} /\ orphaned_by_worker[s] = 0
          \/ orphaned_by_worker[s] = 1 /\ \E u \in Tids : Orphans(s) = {u}
      BY <1>1 DEF SlotSound, Counted, InService
    <2>2. \A u, v \in Orphans(s) : u = v
      BY <2>1
    <2> QED  BY <1>7, <1>8, <2>1, <2>2 DEF Counted
  <1> QED  BY <1>2, <1>6, <1>10, <1>11, <1>12 DEF StepSound, SlotSound

LEMMA SpawnFailsStep ==
    ASSUME SlotInv, NEW s \in Slots, SpawnFails(s) PROVE StepSound(s)
  BY UnavailableStep DEF SpawnFails, GoTo, threadVars

LEMMA DropStep ==
    ASSUME SlotInv, NEW s \in Slots, DropSlot(s) PROVE StepSound(s)
  <1> USE DEF SlotInv, SlotTypeOK
  <1>0. SlotSound(s)
    OBVIOUS
  <1>1. CASE DropActor(s)
    <2> DEFINE t == actor[s]
               x == is_alive(s) \/ stop[s][t]
               to == IF handle[s] THEN "shutdown" ELSE "dropped"
    <2>1. /\ phase[s] = "rest" /\ t = actor[s] /\ t \in Tids /\ x \in BOOLEAN /\ to \in SlotPhases
          /\ stop' = [stop EXCEPT ![s][t] = x] /\ phase' = [phase EXCEPT ![s] = to]
          /\ UNCHANGED <<actor, handle, retiring, slot_available, life, status, available_slots, orphaned_threads, orphaned_by_worker>>
      BY <1>1 DEF DropActor, GoTo, superVars, SlotPhases
    <2>2. (handle[s] => to = "shutdown") /\ (~handle[s] => to = "dropped") /\ (stop[s][t] => x)
      OBVIOUS
    <2> HIDE DEF t, x, to
    <2>3. /\ stop' \in [Slots -> [Tids -> BOOLEAN]] /\ stop'[s][t] = x
          /\ \A v \in Slots \ {s} : stop'[v] = stop[v]
          /\ \A u \in Tids \ {t} : stop'[s][u] = stop[s][u]
      BY <2>1, Replaced
    <2>4. SlotTypeOK' /\ OtherSlots(s) /\ AvailableCounted'
      BY <2>1, <2>3, AvailableKept DEF OtherSlots
    <2>5. Orphans(s)' = Orphans(s) /\ phase'[s] = to
      BY <2>1 DEF Orphans
    <2>6. ThreadsSound(s)' /\ HandleSound(s)' /\ Serves(s)'
      BY <1>0, <2>1, <2>2, <2>5 DEF SlotSound, ThreadsSound, HandleSound, Serves, Owns
    <2>7. StopSound(s)'
      <3>1. ~InService(s)'
        BY <2>2, <2>5 DEF InService
      <3>2. \A u \in Tids : ~stop'[s][u] => ~stop[s][u]
        BY <2>1, <2>2, <2>3
      <3> QED  BY <1>0, <2>1, <3>1, <3>2 DEF SlotSound, StopSound, Owns
    <2>8. Counted(s)'
      BY <1>0, <2>1, <2>2, <2>5 DEF SlotSound, Counted, InService
    <2> QED  BY <2>4, <2>6, <2>7, <2>8 DEF StepSound, SlotSound
  <1>2. CASE DropJoins(s)
    <2>1. /\ phase[s] = "shutdown" /\ life[s][actor[s]] = "gone" /\ "dropped" \in SlotPhases
          /\ handle' = [handle EXCEPT ![s] = FALSE] /\ phase' = [phase EXCEPT ![s] = "dropped"]
          /\ UNCHANGED <<actor, retiring, slot_available, life, status, stop, available_slots, orphaned_threads, orphaned_by_worker>>
      BY <1>2 DEF DropJoins, is_finished, GoTo, threadVars, superVars, SlotPhases
    <2>2. AvailableCounted' /\ life[s][actor[s]] \notin HasBackend
      BY <2>1, AvailableKept DEF HasBackend
    <2> QED  BY <2>1, <2>2, MoveStep
  <1>3. CASE DropDetaches(s)
    <2>1. /\ phase[s] = "shutdown" /\ handle' = [handle EXCEPT ![s] = FALSE] /\ handle[s]
          /\ UNCHANGED <<actor, retiring, slot_available, life, stop, available_slots, orphaned_threads, orphaned_by_worker>>
      BY <1>0, <1>3 DEF DropDetaches, superVars, SlotSound, HandleSound
    <2>2. CASE status[s][actor[s]] = "RUNNING"
      <3>1. /\ status' = [status EXCEPT ![s][actor[s]] = "ORPHANED"]
            /\ phase' = [phase EXCEPT ![s] = IF phase[s] = "reserved" THEN "spawn" ELSE "orphaned"]
        BY <1>3, <2>1, <2>2 DEF DropDetaches, GoTo
      <3> QED  BY <2>1, <2>2, <3>1, OrphanStep
    <2>3. CASE status[s][actor[s]] = "FINISHED"
      <3>1. UNCHANGED status /\ phase' = [phase EXCEPT ![s] = "dropped"] /\ "dropped" \in SlotPhases
        BY <1>3, <2>3 DEF DropDetaches, GoTo, SlotPhases
      <3>2. AvailableCounted'
        BY <2>1, AvailableKept
      <3>3. life[s][actor[s]] \notin HasBackend
        BY <1>0, <2>1, <2>3 DEF SlotSound, ThreadsSound, Owns
      <3> QED  BY <2>1, <3>1, <3>2, <3>3, MoveStep
    <2> QED  BY <1>3, <2>2, <2>3 DEF DropDetaches
  <1>4. CASE ReserveUnchecked(s) \/ CountUnchecked(s)
    <2>1. /\ phase[s] \in {"orphaned", "counted"} /\ ~handle[s]
          /\ UNCHANGED <<actor, handle, retiring, slot_available, life, status, stop, available_slots>>
      BY <1>0, <1>4 DEF ReserveUnchecked, CountUnchecked, threadVars, SlotSound, HandleSound
    <2>2. PICK to \in {"counted", "dropped"} : phase' = [phase EXCEPT ![s] = to]
      BY <1>4 DEF ReserveUnchecked, CountUnchecked, GoTo
    <2>3. /\ orphaned_by_worker' \in [Slots -> 0..2] /\ \A v \in Slots \ {s} : orphaned_by_worker'[v] = orphaned_by_worker[v]
          /\ orphaned_threads' \in 0..(UsizeModulus - 1)
      <3>1. CASE ReserveUnchecked(s)
        <4>1. orphaned_by_worker[s] \in 0..1
          BY <1>0, <3>1 DEF ReserveUnchecked, SlotSound, Counted
        <4> QED  BY <3>1, <4>1 DEF ReserveUnchecked
      <3>2. CASE CountUnchecked(s)
        BY <3>2, SlotAssumption DEF CountUnchecked
      <3> QED  BY <1>4, <3>1, <3>2
    <2>4. SlotTypeOK' /\ OtherSlots(s) /\ AvailableCounted'
      BY <2>1, <2>2, <2>3, AvailableKept DEF OtherSlots, SlotPhases
    <2>5. Orphans(s)' = Orphans(s) /\ phase'[s] \in {"counted", "dropped"} /\ ~InService(s)'
      BY <2>1, <2>2 DEF Orphans, InService
    <2>6. ThreadsSound(s)' /\ HandleSound(s)' /\ Serves(s)' /\ StopSound(s)'
      BY <1>0, <2>1, <2>5 DEF SlotSound, ThreadsSound, HandleSound, Serves, StopSound, Owns
    <2>7. Counted(s)'
      BY <1>0, <2>1, <2>5 DEF SlotSound, Counted
    <2> QED  BY <2>4, <2>6, <2>7 DEF StepSound, SlotSound
  <1> QED  BY <1>1, <1>2, <1>3, <1>4 DEF DropSlot

\* A thread changes how far it is, and no more than its status with it.
ThreadMoved(s, t, l, st, b, to) ==
    /\ life' = [life EXCEPT ![s][t] = l] /\ status' = [status EXCEPT ![s][t] = st] /\ stop' = [stop EXCEPT ![s][t] = b]
    /\ phase' = [phase EXCEPT ![s] = to] /\ (to # phase[s] => phase[s] = "calling" /\ to = "rest")
    /\ UNCHANGED <<actor, handle, retiring, slot_available, available_slots>>
    /\ l \in HasBackend => st = IF Owns(s, t) THEN "RUNNING" ELSE "ORPHANED"
    /\ l \in {"releasing", "exited", "gone"} => st = "FINISHED"
    /\ Owns(s, t) => /\ life[s][t] # "gone" /\ l \notin {"none", "releasing"} /\ b = stop[s][t]
                     /\ ~stop[s][t] => l \in {"idle", "busy"}

LEMMA ThreadMoves ==
    ASSUME SlotInv, NEW s \in Slots, NEW t \in Tids, NEW l \in Lives, NEW st \in {"RUNNING", "ORPHANED", "FINISHED"},
           NEW b \in BOOLEAN, NEW to \in SlotPhases, ThreadMoved(s, t, l, st, b, to), Counted(s)',
           orphaned_by_worker' \in [Slots -> 0..2], \A v \in Slots \ {s} : orphaned_by_worker'[v] = orphaned_by_worker[v],
           orphaned_threads' \in 0..(UsizeModulus - 1)
    PROVE  StepSound(s)
  <1> USE DEF ThreadMoved
  <1> USE DEF SlotInv, SlotTypeOK
  <1>1. /\ life' \in [Slots -> [Tids -> Lives]] /\ life'[s][t] = l
        /\ \A v \in Slots \ {s} : life'[v] = life[v]
        /\ \A u \in Tids \ {t} : life'[s][u] = life[s][u]
    BY Replaced
  <1>2. /\ status' \in [Slots -> [Tids -> {"RUNNING", "ORPHANED", "FINISHED"}]] /\ status'[s][t] = st
        /\ \A v \in Slots \ {s} : status'[v] = status[v]
        /\ \A u \in Tids \ {t} : status'[s][u] = status[s][u]
    BY Replaced
  <1>b. /\ stop' \in [Slots -> [Tids -> BOOLEAN]] /\ stop'[s][t] = b
        /\ \A v \in Slots \ {s} : stop'[v] = stop[v]
        /\ \A u \in Tids \ {t} : stop'[s][u] = stop[s][u]
    BY Replaced
  <1>3. SlotTypeOK' /\ OtherSlots(s) /\ AvailableCounted'
    BY <1>1, <1>2, <1>b, AvailableKept DEF OtherSlots
  <1>4. SlotSound(s) /\ phase'[s] = to
    OBVIOUS
  <1>5. ThreadsSound(s)'
    BY <1>1, <1>2, <1>4 DEF SlotSound, ThreadsSound, Owns
  <1>6. StopSound(s)'
    BY <1>1, <1>b, <1>4 DEF SlotSound, StopSound, Owns, InService
  <1>7. HandleSound(s)'
    <2>1. is_finished(s) /\ handle[s] => is_finished(s)'
      BY <1>1 DEF is_finished, Owns
    <2> QED  BY <1>4, <2>1 DEF SlotSound, HandleSound
  <1>8. Serves(s)'
    BY <1>b, <1>4 DEF SlotSound, Serves, Owns
  <1> QED  BY <1>3, <1>4, <1>5, <1>6, <1>7, <1>8 DEF StepSound, SlotSound

\* The orphans of a slot when one of its threads changes.
LEMMA OrphansOf ==
    ASSUME SlotInv, NEW s \in Slots, NEW t \in Tids, NEW l \in Lives, life' = [life EXCEPT ![s][t] = l],
           NEW st \in {"RUNNING", "ORPHANED", "FINISHED"}, status' = [status EXCEPT ![s][t] = st]
    PROVE  Orphans(s)' = IF l = "releasing" \/ (l \in HasBackend /\ st = "ORPHANED")
                           THEN Orphans(s) \cup {t} ELSE Orphans(s) \ {t}
  <1> USE DEF SlotInv, SlotTypeOK
  <1>1. /\ life'[s][t] = l /\ \A u \in Tids \ {t} : life'[s][u] = life[s][u]
    BY Replaced
  <1>2. /\ status'[s][t] = st /\ \A u \in Tids \ {t} : status'[s][u] = status[s][u]
    BY Replaced
  <1> QED  BY <1>1, <1>2 DEF Orphans

\* Nothing the count is about changes.
LEMMA CountKept ==
    ASSUME SlotInv, NEW s \in Slots, Orphans(s)' = Orphans(s), UNCHANGED <<actor, orphaned_by_worker>>,
           phase'[s] # phase[s] => phase[s] = "calling" /\ phase'[s] = "rest"
    PROVE  Counted(s)'
  BY DEF SlotInv, SlotSound, Counted, InService

\* A thread that has been counted is released.
LEMMA Released ==
    ASSUME SlotInv, NEW s \in Slots, NEW t \in Tids, t \in Orphans(s), release_orphan(s),
           Orphans(s)' = Orphans(s) \ {t}, UNCHANGED <<actor, phase>>
    PROVE  /\ Counted(s)' /\ orphaned_by_worker' \in [Slots -> 0..2] /\ orphaned_threads' \in 0..(UsizeModulus - 1)
           /\ \A v \in Slots \ {s} : orphaned_by_worker'[v] = orphaned_by_worker[v]
  <1> USE DEF SlotInv, SlotTypeOK
  <1>1. Counted(s)
    BY DEF SlotSound
  <1>2. orphaned_threads \in 0..(UsizeModulus - 1) /\ UsizeModulus \in Nat /\ UsizeModulus > 0
    <2>1. UsizeModulus \in Nat /\ UsizeModulus > 2 * total_slots /\ total_slots \in Nat
      BY FS_CardinalityType, SlotAssumption DEF total_slots
    <2> QED  BY <2>1
  <1>3. CASE orphaned_by_worker[s] = 0
    <2>1. UNCHANGED <<orphaned_by_worker, orphaned_threads>>
      BY <1>3 DEF release_orphan
    <2> QED  BY <1>1, <1>2, <1>3, <2>1 DEF Counted, InService
  <1>4. CASE orphaned_by_worker[s] # 0
    <2>1. /\ orphaned_by_worker' = [orphaned_by_worker EXCEPT ![s] = @ - 1]
          /\ orphaned_threads' = (orphaned_threads - 1) % UsizeModulus
      BY <1>4 DEF release_orphan
    <2>2. orphaned_threads' \in 0..(UsizeModulus - 1)
      BY <1>2, <2>1
    <2>3. /\ orphaned_by_worker' \in [Slots -> 0..2] /\ orphaned_by_worker'[s] = orphaned_by_worker[s] - 1
          /\ \A v \in Slots \ {s} : orphaned_by_worker'[v] = orphaned_by_worker[v]
      BY <1>4, <2>1
    <2>4. Counted(s)'
      BY <1>1, <1>4, <2>3 DEF Counted, InService
    <2> QED  BY <2>2, <2>3, <2>4
  <1> QED  BY <1>3, <1>4

LEMMA ThreadStep ==
    ASSUME SlotInv, NEW s \in Slots, NEW t \in Tids, Thread(s, t) PROVE StepSound(s)
  <1> USE DEF SlotInv, SlotTypeOK
  <1>0. SlotSound(s) /\ t \in Tids /\ {"idle", "busy", "closing", "releasing", "exited", "gone", "none"} \subseteq Lives
    BY DEF Lives, HasBackend
  <1>a. /\ status = [status EXCEPT ![s][t] = status[s][t]] /\ phase = [phase EXCEPT ![s] = phase[s]]
        /\ stop = [stop EXCEPT ![s][t] = stop[s][t]] /\ stop[s][t] \in BOOLEAN
        /\ status[s][t] \in {"RUNNING", "ORPHANED", "FINISHED"} /\ phase[s] \in SlotPhases
    OBVIOUS
  <1>c. /\ status[s][t] \in {"RUNNING", "ORPHANED", "FINISHED"} /\ stop[s][t] \in BOOLEAN /\ phase[s] \in SlotPhases
        /\ "closing" \in Lives /\ "exited" \in Lives /\ "gone" \in Lives
        /\ orphaned_by_worker \in [Slots -> 0..2] /\ orphaned_threads \in 0..(UsizeModulus - 1)
    BY <1>0
  <1> DEFINE here == phase[s]
  <1>d. here = phase[s] /\ here \in SlotPhases
    BY <1>c
  <1> HIDE DEF here
  <1>b. ASSUME NEW l \in Lives, life' = [life EXCEPT ![s][t] = l],
               NEW st \in {"RUNNING", "ORPHANED", "FINISHED"}, status' = [status EXCEPT ![s][t] = st],
               t \in Orphans(s) <=> l = "releasing" \/ (l \in HasBackend /\ st = "ORPHANED")
        PROVE  Orphans(s)' = Orphans(s)
    <2>1. Orphans(s)' = IF l = "releasing" \/ (l \in HasBackend /\ st = "ORPHANED")
                          THEN Orphans(s) \cup {t} ELSE Orphans(s) \ {t}
      BY <1>b, OrphansOf
    <2> QED  BY <1>b, <2>1
  <1>1. CASE NativeReturns(s, t)
    <2> DEFINE to == IF phase[s] = "calling" /\ actor[s] = t THEN "rest" ELSE phase[s]
    <2>1. /\ life[s][t] = "busy" /\ life' = [life EXCEPT ![s][t] = "idle"] /\ phase' = [phase EXCEPT ![s] = to]
          /\ UNCHANGED <<actor, handle, retiring, slot_available, status, stop, available_slots, orphaned_threads, orphaned_by_worker>>
      BY <1>1 DEF NativeReturns, superVars
    <2>2. to \in SlotPhases /\ (to # phase[s] => phase[s] = "calling" /\ to = "rest") /\ phase'[s] = to
      BY <2>1 DEF SlotPhases
    <2>3. status' = [status EXCEPT ![s][t] = status[s][t]] /\ stop' = [stop EXCEPT ![s][t] = stop[s][t]]
      BY <1>a, <2>1
    <2> HIDE DEF to
    <2>4. status[s][t] = IF Owns(s, t) THEN "RUNNING" ELSE "ORPHANED"
      BY <1>0, <2>1 DEF SlotSound, ThreadsSound, HasBackend
    <2>5. t \in Orphans(s) <=> status[s][t] = "ORPHANED"
      BY <2>1 DEF Orphans, HasBackend
    <2>6. Orphans(s)' = Orphans(s)
      BY <1>0, <1>a, <1>b, <2>1, <2>3, <2>5 DEF HasBackend
    <2>7. Counted(s)'
      BY <2>1, <2>2, <2>6, CountKept
    <2>8. ThreadMoved(s, t, "idle", status[s][t], stop[s][t], to)
      BY <2>1, <2>2, <2>3, <2>4 DEF ThreadMoved
    <2> QED  BY <1>0, <1>a, <2>1, <2>2, <2>7, <2>8, ThreadMoves
  <1>2. CASE LeaveLoop(s, t)
    <2>1. /\ life[s][t] = "idle" /\ stop[s][t] /\ life' = [life EXCEPT ![s][t] = "closing"]
          /\ UNCHANGED <<phase, actor, handle, retiring, slot_available, status, stop, available_slots, orphaned_threads, orphaned_by_worker>>
      BY <1>2 DEF LeaveLoop, slotVars, superVars
    <2>2. /\ status' = [status EXCEPT ![s][t] = status[s][t]] /\ stop' = [stop EXCEPT ![s][t] = stop[s][t]]
          /\ phase' = [phase EXCEPT ![s] = phase[s]]
      BY <1>a, <2>1
    <2>3. status[s][t] = IF Owns(s, t) THEN "RUNNING" ELSE "ORPHANED"
      BY <1>0, <2>1 DEF SlotSound, ThreadsSound, HasBackend
    <2>4. t \in Orphans(s) <=> status[s][t] = "ORPHANED"
      BY <2>1 DEF Orphans, HasBackend
    <2>5. Orphans(s)' = Orphans(s)
      BY <1>0, <1>a, <1>b, <2>1, <2>2, <2>4 DEF HasBackend
    <2>6. Counted(s)'
      BY <2>1, <2>5, CountKept
    <2>7. ThreadMoved(s, t, "closing", status[s][t], stop[s][t], here)
      BY <1>d, <2>1, <2>2, <2>3 DEF ThreadMoved
    <2> QED  BY <1>c, <1>d, <2>1, <2>6, <2>7, ThreadMoves
  <1>3. CASE SwapFinished(s, t)
    <2> DEFINE l == IF status[s][t] = "ORPHANED" THEN "releasing" ELSE "exited"
    <2>1. /\ life[s][t] = "closing" /\ life' = [life EXCEPT ![s][t] = l]
          /\ status' = [status EXCEPT ![s][t] = "FINISHED"]
          /\ UNCHANGED <<phase, actor, handle, retiring, slot_available, stop, available_slots, orphaned_threads, orphaned_by_worker>>
      BY <1>3 DEF SwapFinished, slotVars, superVars
    <2>2. stop' = [stop EXCEPT ![s][t] = stop[s][t]] /\ phase' = [phase EXCEPT ![s] = phase[s]]
      BY <1>a, <2>1
    <2>3. status[s][t] = IF Owns(s, t) THEN "RUNNING" ELSE "ORPHANED"
      BY <1>0, <2>1 DEF SlotSound, ThreadsSound, HasBackend
    <2>4. l \in {"releasing", "exited"} /\ (l = "releasing" <=> status[s][t] = "ORPHANED") /\ (Owns(s, t) => l = "exited")
      BY <2>3
    <2> HIDE DEF l
    <2>5. t \in Orphans(s) <=> status[s][t] = "ORPHANED"
      BY <2>1 DEF Orphans, HasBackend
    <2>6. Orphans(s)' = Orphans(s)
      BY <1>0, <1>a, <1>b, <2>1, <2>4, <2>5 DEF HasBackend
    <2>7. Counted(s)'
      BY <2>1, <2>6, CountKept
    <2>8. Owns(s, t) => stop[s][t]
      BY <1>0, <2>1 DEF SlotSound, StopSound
    <2>9. ThreadMoved(s, t, l, "FINISHED", stop[s][t], phase[s]) /\ l \in Lives
      BY <1>0, <2>1, <2>2, <2>4, <2>8 DEF ThreadMoved, HasBackend
    <2> QED  BY <1>a, <2>1, <2>7, <2>9, ThreadMoves
  <1>4. CASE ThreadReleases(s, t)
    <2>1. /\ life[s][t] = "releasing" /\ life' = [life EXCEPT ![s][t] = "exited"] /\ release_orphan(s)
          /\ UNCHANGED <<phase, actor, handle, retiring, slot_available, status, stop, available_slots>>
      BY <1>4 DEF ThreadReleases, slotVars
    <2>2. /\ status' = [status EXCEPT ![s][t] = status[s][t]] /\ stop' = [stop EXCEPT ![s][t] = stop[s][t]]
          /\ phase' = [phase EXCEPT ![s] = phase[s]]
      BY <1>a, <2>1
    <2>3. status[s][t] = "FINISHED" /\ ~Owns(s, t)
      BY <1>0, <2>1 DEF SlotSound, ThreadsSound
    <2>4. t \in Orphans(s) /\ Orphans(s)' = Orphans(s) \ {t}
      <3>1. /\ life'[s][t] = "exited" /\ \A u \in Tids \ {t} : life'[s][u] = life[s][u]
        BY <1>0, <2>1, Replaced
      <3>2. t \in Orphans(s)
        BY <2>1 DEF Orphans
      <3> QED  BY <2>1, <3>1, <3>2 DEF Orphans, HasBackend
    <2>5. /\ Counted(s)' /\ orphaned_by_worker' \in [Slots -> 0..2] /\ orphaned_threads' \in 0..(UsizeModulus - 1)
          /\ \A v \in Slots \ {s} : orphaned_by_worker'[v] = orphaned_by_worker[v]
      BY <2>1, <2>4, Released
    <2>6. ThreadMoved(s, t, "exited", "FINISHED", stop[s][t], here)
      BY <1>d, <2>1, <2>2, <2>3 DEF ThreadMoved, HasBackend
    <2> HIDE DEF SlotInv, SlotTypeOK
    <2> QED  BY <1>c, <1>d, <2>5, <2>6, ThreadMoves
  <1>5. CASE ThreadEnds(s, t)
    <2>1. /\ life[s][t] = "exited"
          /\ UNCHANGED <<phase, actor, handle, retiring, slot_available, available_slots, orphaned_threads, orphaned_by_worker>>
      BY <1>5 DEF ThreadEnds, slotVars, superVars
    <2>2. phase' = [phase EXCEPT ![s] = phase[s]] /\ status[s][t] = "FINISHED" /\ t \notin Orphans(s)
      BY <1>0, <1>a, <2>1 DEF SlotSound, ThreadsSound, Orphans, HasBackend
    <2>3. CASE Owns(s, t)
      <3>1. life' = [life EXCEPT ![s][t] = "gone"] /\ UNCHANGED <<status, stop>>
        BY <1>5, <2>3 DEF ThreadEnds, Owns
      <3>2. status' = [status EXCEPT ![s][t] = status[s][t]] /\ stop' = [stop EXCEPT ![s][t] = stop[s][t]]
        BY <1>a, <3>1
      <3>3. Orphans(s)' = Orphans(s)
        BY <1>0, <1>a, <1>b, <2>2, <3>1, <3>2 DEF HasBackend
      <3>4. Counted(s)' /\ stop[s][t]
        BY <1>0, <2>1, <2>3, <3>3, CountKept DEF SlotSound, StopSound
      <3>5. ThreadMoved(s, t, "gone", status[s][t], stop[s][t], here)
        BY <1>d, <2>1, <2>2, <3>1, <3>2, <3>4 DEF ThreadMoved, HasBackend
      <3> QED  BY <1>c, <1>d, <2>1, <3>4, <3>5, ThreadMoves
    <2>4. CASE ~Owns(s, t)
      <3>1. /\ life' = [life EXCEPT ![s][t] = "none"] /\ status' = [status EXCEPT ![s][t] = "RUNNING"]
            /\ stop' = [stop EXCEPT ![s][t] = FALSE]
        BY <1>5, <2>4 DEF ThreadEnds, Forget, Owns
      <3>2. Orphans(s)' = Orphans(s)
        BY <1>0, <1>b, <2>2, <3>1 DEF HasBackend
      <3>3. Counted(s)'
        BY <2>1, <3>2, CountKept
      <3>4. ThreadMoved(s, t, "none", "RUNNING", FALSE, phase[s])
        BY <2>1, <2>2, <2>4, <3>1 DEF ThreadMoved, HasBackend
      <3> QED  BY <1>0, <1>a, <2>1, <3>3, <3>4, ThreadMoves
    <2> QED  BY <2>3, <2>4
  <1> QED  BY <1>1, <1>2, <1>3, <1>4, <1>5 DEF Thread

-----------------------------------------------------------------------------
LEMMA SlotInitial == SlotInit => SlotInv
  <1> SUFFICES ASSUME SlotInit PROVE SlotInv
    OBVIOUS
  <1>1. total_slots \in Nat /\ total_slots = Cardinality(Slots) /\ UsizeModulus \in Nat /\ UsizeModulus > 0
    <2>1. total_slots \in Nat /\ total_slots = Cardinality(Slots)
      BY FS_CardinalityType, SlotAssumption DEF total_slots
    <2> QED  BY <2>1, SlotAssumption
  <1>2. 1 \in Tids
    BY SlotAssumption DEF Tids
  <1>3. SlotTypeOK
    BY <1>1, <1>2 DEF SlotInit, SlotTypeOK, SlotPhases, Lives, HasBackend
  <1>4. AvailableCounted
    <2>1. {s \in Slots : slot_available[s]} = Slots
      BY DEF SlotInit
    <2> QED  BY <1>1, <2>1 DEF SlotInit, AvailableCounted
  <1>5. ASSUME NEW s \in Slots PROVE SlotSound(s)
    <2>1. Orphans(s) = {}
      BY DEF SlotInit, Orphans, HasBackend
    <2>2. ThreadsSound(s) /\ StopSound(s)
      BY <1>2 DEF SlotInit, ThreadsSound, StopSound, Owns, HasBackend
    <2>3. HandleSound(s) /\ Serves(s)
      BY <1>2 DEF SlotInit, HandleSound, Serves
    <2>4. Counted(s)
      BY <2>1 DEF SlotInit, Counted
    <2> QED  BY <2>2, <2>3, <2>4 DEF SlotSound
  <1> QED  BY <1>3, <1>4, <1>5 DEF SlotInv

LEMMA SlotPreserved == ASSUME SlotInv, [SlotNext]_rendererVars PROVE SlotInv'
  <1>1. ASSUME NEW s \in Slots, StepSound(s) PROVE SlotInv'
    BY <1>1, SlotFrame DEF StepSound, SlotInv
  <1>2. ASSUME NEW s \in Slots, SendCommand(s) \/ RetireAfterCurrent(s) \/ StartReplacement(s)
                                \/ Replace(s) \/ DropSlot(s)
        PROVE  SlotInv'
    BY <1>1, <1>2, SendStep, RetireStep, StartStep, AbandonStep, CompareStep, SpawnStep, SpawnFailsStep, DropStep
    DEF Replace
  <1>3. ASSUME NEW s \in Slots, NEW t \in Tids, Thread(s, t) PROVE SlotInv'
    BY <1>1, <1>3, ThreadStep
  <1>4. CASE UNCHANGED rendererVars
    <2>1. UNCHANGED <<phase, actor, handle, retiring, slot_available, life, status, stop,
                      available_slots, orphaned_threads, orphaned_by_worker>>
      BY <1>4 DEF rendererVars, slotVars, threadVars, superVars
    <2>2. SlotTypeOK' /\ AvailableCounted'
      BY <2>1 DEF SlotInv, SlotTypeOK, AvailableCounted
    <2>3. ASSUME NEW s \in Slots PROVE SlotSound(s)'
      <3>1. SlotSound(s) /\ Orphans(s)' = Orphans(s)
        BY <2>1 DEF SlotInv, Orphans
      <3> QED  BY <2>1, <3>1 DEF SlotSound, ThreadsSound, HandleSound, Counted, Serves, StopSound, Owns,
                                is_finished, InService
    <2> QED  BY <2>2, <2>3 DEF SlotInv
  <1> QED  BY <1>2, <1>3, <1>4 DEF SlotNext

LEMMA SlotBudget == ASSUME SlotInv PROVE OrphansBudgeted
  <1>1. \A s \in Slots : SlotSound(s)
    BY DEF SlotInv
  <1>2. Cardinality({}) = 0 /\ \A t : Cardinality({t}) = 1
    BY FS_EmptySet, FS_Singleton
  <1>3. OrphansCounted
    <2> SUFFICES ASSUME NEW s \in Slots, InService(s)
                 PROVE  orphaned_by_worker[s] = Cardinality(Orphans(s)) + (IF phase[s] = "reserved" THEN 1 ELSE 0)
      BY DEF OrphansCounted
    <2>1. Counted(s)
      BY <1>1 DEF SlotSound
    <2>2. CASE phase[s] = "reserved"
      <3>1. Cardinality(Orphans(s)) = 0 /\ orphaned_by_worker[s] = 1
        BY <1>2, <2>1, <2>2 DEF Counted
      <3> QED  BY <2>2, <3>1
    <2>3. CASE phase[s] # "reserved"
      <3>1. \/ Orphans(s) = {} /\ orphaned_by_worker[s] = 0
            \/ orphaned_by_worker[s] = 1 /\ \E t \in Tids : Orphans(s) = {t}
        BY <2>1, <2>3 DEF Counted
      <3>2. orphaned_by_worker[s] = Cardinality(Orphans(s)) /\ orphaned_by_worker[s] \in {0, 1}
        BY <1>2, <3>1
      <3> QED  BY <2>3, <3>2
    <2> QED  BY <2>2, <2>3
  <1>4. AtMostTwoBackends
    <2> SUFFICES ASSUME NEW s \in Slots
                 PROVE  Cardinality({t \in Tids : life[s][t] \in HasBackend}) <= 2
      BY DEF AtMostTwoBackends
    <2> DEFINE B == {t \in Tids : life[s][t] \in HasBackend}
               O == Orphans(s) \ {actor[s]}
    <2>1. SlotSound(s)
      BY <1>1
    <2>2. B \subseteq O \cup {actor[s]}
      BY <2>1 DEF SlotSound, ThreadsSound, Owns, Orphans
    <2>3. PICK t : O \subseteq {t}
      BY <2>1 DEF SlotSound, Counted
    <2>4. B \subseteq {t, actor[s]}
      BY <2>2, <2>3
    <2>5. IsFiniteSet({t, actor[s]}) /\ Cardinality({t, actor[s]}) <= 2
      <3>1. {t, actor[s]} = {t} \cup {actor[s]} /\ IsFiniteSet({t}) /\ Cardinality({t}) = 1
        BY FS_Singleton
      <3>2. /\ IsFiniteSet({t} \cup {actor[s]})
            /\ Cardinality({t} \cup {actor[s]}) = IF actor[s] \in {t} THEN Cardinality({t}) ELSE Cardinality({t}) + 1
        BY <3>1, FS_AddElement
      <3> QED  BY <3>1, <3>2
    <2> HIDE DEF B
    <2>6. Cardinality(B) <= Cardinality({t, actor[s]}) /\ Cardinality(B) \in Nat /\ Cardinality({t, actor[s]}) \in Nat
      BY <2>4, <2>5, FS_Subset, FS_CardinalityType
    <2> QED  BY <2>5, <2>6 DEF B
  <1> QED  BY <1>3, <1>4 DEF OrphansBudgeted

LEMMA SlotAvailability == ASSUME SlotInv PROVE AvailabilityExact
  <1>1. available_slots = Cardinality({s \in Slots : slot_available[s]})
    BY DEF SlotInv, AvailableCounted
  <1>2. \A s \in Slots : Serves(s)
    BY DEF SlotInv, SlotSound
  <1> QED  BY <1>1, <1>2, Zenon DEF AvailabilityExact, Serves

\* The type invariant of the slots, their threads and the supervisor.
THEOREM SlotTypeCorrect == SlotSpec => []SlotTypeOK
  <1>1. SlotInit => SlotInv
    BY SlotInitial
  <1>2. SlotInv /\ [SlotNext]_rendererVars => SlotInv'
    BY SlotPreserved
  <1>3. SlotInv => SlotTypeOK
    BY DEF SlotInv
  <1> QED  BY <1>1, <1>2, <1>3, PTL DEF SlotSpec

\* With any number of slots and threads: the supervisor's map counts exactly the
\* orphans a slot in service has left, and a slot has two native renderers at most.
THEOREM OrphansStayBudgeted == SlotSpec => []OrphansBudgeted
  <1>1. SlotInit => SlotInv
    BY SlotInitial
  <1>2. SlotInv /\ [SlotNext]_rendererVars => SlotInv'
    BY SlotPreserved
  <1>3. SlotInv => OrphansBudgeted
    BY SlotBudget
  <1> QED  BY <1>1, <1>2, <1>3, PTL DEF SlotSpec

\* With any number of slots, the available slots the supervisor reports are those
\* that say they are, and each of them has an actor that takes commands.
THEOREM AvailabilityStaysExact == SlotSpec => []AvailabilityExact
  <1>1. SlotInit => SlotInv
    BY SlotInitial
  <1>2. SlotInv /\ [SlotNext]_rendererVars => SlotInv'
    BY SlotPreserved
  <1>3. SlotInv => AvailabilityExact
    BY SlotAvailability
  <1> QED  BY <1>1, <1>2, <1>3, PTL DEF SlotSpec

-----------------------------------------------------------------------------
(* FileSource: the resources of a style.                                   *)

\* Who leads a flight, who refers to one, and who does not.
Leading == Fetching \cup Aborting \cup {"notify"}
Outside == {"idle", "database", "asked", "deferred", "negative", "join", "done"}

\* A request refers to a flight exactly while it leads or follows one.
RefsSound ==
    \A r \in Requests :
        /\ at[r] \in Leading \cup Waiting => holds[r] \in Flights
        /\ at[r] \in Outside => holds[r] = NoVal

\* A flight has one leader, which the map names the key of.
LeadersSound ==
    /\ \A r \in Requests : at[r] \in Leading => map[holds[r]] = Key(r)
    /\ \A r, d \in Requests : at[r] \in Leading /\ at[d] \in Leading /\ holds[r] = holds[d] => r = d

\* The state of a flight follows its leader.
FlightStates ==
    \A r \in Requests :
        /\ at[r] \in Fetching => flight[holds[r]] = Pending
        /\ at[r] \in Aborting => flight[holds[r]] = Aborted

\* The conjuncts of NobodyStranded.
MapLed ==
    \A f \in Flights : map[f] # NoVal => \E r \in Requests : holds[r] = f /\ at[r] \in Leading /\ Key(r) = map[f]
KeysDistinct == \A f, g \in Flights : map[f] # NoVal /\ map[f] = map[g] => f = g
PendingLed ==
    \A r \in Requests : at[r] \in Waiting /\ flight[holds[r]] = Pending =>
        \E d \in Requests : holds[d] = holds[r] /\ at[d] \in Fetching
ParkedWoken ==
    \A r \in Requests : at[r] = "wait" /\ flight[holds[r]] # Pending =>
        woken[r] \/ \E d \in Requests : holds[d] = holds[r] /\ at[d] \in {"notify", "abort"}

FlightsInv ==
    RefsSound /\ LeadersSound /\ FlightStates /\ MapLed /\ KeysDistinct /\ PendingLed /\ ParkedWoken

\* What may be handed out: an outcome, a transient failure only at the end of the window.
AnswerOK(a) ==
    /\ a \in Responses /\ a.kind \notin {"pending", "aborted"}
    /\ a.kind = "transient" => a.tries = RetryWindow

AnswersInv ==
    /\ \A f \in Flights : flight[f] \in {Pending, Aborted} \/ AnswerOK(flight[f])
    /\ \A r \in Requests : at[r] \in {"done", "finish", "complete", "notify"} => AnswerOK(answer[r])
    /\ \A r \in Requests : at[r] = "retry" => answer[r] = Response("transient", Empty, tries[r] + 1)
    /\ \A r \in Requests : at[r] \in OnNetwork \cup {"acquire", "retry", "backoff"} => tries[r] < RetryWindow
    /\ \A r \in Requests : at[r] = "backoff" => tries[r] + 1 < RetryWindow

\* A request that is late is one of those the health tracker counts.
LateSound ==
    \A r \in Requests :
        /\ slow[r] => late[r]
        /\ late[r] /\ at[r] \in OnNetwork => ~low[r]

FileInv == TypeOK /\ FlightsInv /\ AnswersInv /\ LateSound /\ GuardsExact

-----------------------------------------------------------------------------
(* Flights and their references.                                           *)

LEMMA KeyOK == ASSUME TypeOK, NEW r \in Requests PROVE Key(r) \in Keys /\ Key(r) # NoVal
  <1>1. Key(r) \in Keys
    BY DEF TypeOK, Key, Keys, Lane
  <1> QED  BY <1>1, FileSourceAssumption

LEMMA StatesDiffer == Pending # Aborted /\ \A a : AnswerOK(a) => a # Pending /\ a # Aborted
  BY DEF Pending, Aborted, Response, AnswerOK

LEMMA StrandedNobody == FlightsInv => NobodyStranded
  BY DEF FlightsInv, MapLed, KeysDistinct, PendingLed, ParkedWoken, NobodyStranded, Leading

\* A step that keeps r where it is with respect to flights.
Quiet(r) ==
    /\ UNCHANGED <<map, flight, holds>>
    /\ \A d \in Requests \ {r} : at'[d] = at[d] /\ woken'[d] = woken[d] /\ Key(d)' = Key(d)
    /\ \/ at[r] \in Fetching /\ at'[r] \in Fetching /\ Key(r)' = Key(r)
       \/ at[r] \in Outside /\ at'[r] \in Outside

LEMMA QuietStep == ASSUME FlightsInv, NEW r \in Requests, Quiet(r) PROVE FlightsInv'
  <1>1. /\ map' = map /\ flight' = flight /\ holds' = holds
        /\ \A d \in Requests : d # r => at'[d] = at[d] /\ woken'[d] = woken[d] /\ Key(d)' = Key(d)
    BY DEF Quiet
  <1>2. \A d \in Requests : \/ at'[d] = at[d] /\ woken'[d] = woken[d] /\ Key(d)' = Key(d)
                            \/ at[d] \in Fetching /\ at'[d] \in Fetching /\ Key(d)' = Key(d)
                            \/ at[d] \in Outside /\ at'[d] \in Outside
    BY <1>1 DEF Quiet
  <1>3. RefsSound'
    BY <1>1, <1>2 DEF FlightsInv, RefsSound, Leading, Outside, Waiting, Fetching, Aborting, OnNetwork
  <1>4. LeadersSound'
    BY <1>1, <1>2 DEF FlightsInv, LeadersSound, Leading, Outside, Fetching, Aborting, OnNetwork
  <1>5. FlightStates'
    BY <1>1, <1>2 DEF FlightsInv, FlightStates, Outside, Fetching, Aborting, OnNetwork, Pending, Aborted
  <1>6. MapLed' /\ KeysDistinct'
    BY <1>1, <1>2 DEF FlightsInv, MapLed, KeysDistinct, Leading, Outside, Fetching, Aborting, OnNetwork
  <1>7. PendingLed'
    BY <1>1, <1>2 DEF FlightsInv, PendingLed, Outside, Fetching, Waiting, OnNetwork
  <1>8. ParkedWoken'
    BY <1>1, <1>2 DEF FlightsInv, ParkedWoken, Outside, Fetching, OnNetwork
  <1> QED  BY <1>3, <1>4, <1>5, <1>6, <1>7, <1>8 DEF FlightsInv

\* There is always an allocation nobody refers to.
LEMMA Unreferenced ==
    ASSUME NEW f \in Flights PROVE strong_count(f) = 0 <=> map[f] = NoVal /\ \A r \in Requests : holds[r] # f
  <1> DEFINE A == {r \in Requests : holds[r] = f}
  <1>1. Cardinality(A) \in Nat /\ (Cardinality(A) = 0 <=> A = {})
    BY FileSourceAssumption, FS_Subset, FS_CardinalityType, FS_EmptySet
  <1>2. A = {} <=> \A r \in Requests : holds[r] # f
    OBVIOUS
  <1>3. strong_count(f) = Cardinality(A) + (IF map[f] = NoVal THEN 0 ELSE 1)
    BY DEF strong_count
  <1> HIDE DEF A
  <1> QED  BY <1>1, <1>2, <1>3

LEMMA FreeFlight == ASSUME FlightsInv PROVE \E f \in Flights : strong_count(f) = 0
  <1> SUFFICES ASSUME \A f \in Flights : strong_count(f) # 0 PROVE FALSE
    OBVIOUS
  <1>1. \A f \in Flights : \E r \in Requests : holds[r] = f
    BY Unreferenced DEF FlightsInv, MapLed
  <1> DEFINE g == [f \in Flights |-> CHOOSE r \in Requests : holds[r] = f]
  <1>2. \A f \in Flights : g[f] \in Requests /\ holds[g[f]] = f
    BY <1>1
  <1>3. g \in Injection(Flights, Requests)
    <2>1. g \in [Flights -> Requests]
      BY <1>2
    <2> HIDE DEF g
    <2> QED  BY <1>2, <2>1 DEF Injection, IsInjective
  <1> HIDE DEF g
  <1>4. Cardinality(Requests) \in Nat
    BY FileSourceAssumption, FS_CardinalityType
  <1>5. Cardinality(Flights) <= Cardinality(Requests)
    BY <1>3, FileSourceAssumption, FS_Injection
  <1>6. Cardinality(Flights) = Cardinality(Requests) + 1
    BY <1>4, FS_Interval DEF Flights
  <1> QED  BY <1>4, <1>5, <1>6

LEMMA JoinFlights == ASSUME TypeOK, FlightsInv, NEW r \in Requests, Join(r) PROVE FlightsInv'
  <1>0. /\ at[r] = "join" /\ holds[r] = NoVal /\ Unlocked
        /\ UNCHANGED <<mode, prior, low, woken>> /\ \A d \in Requests : Key(d)' = Key(d)
        /\ at \in [Requests -> Phases] /\ holds \in [Requests -> {NoVal} \cup Flights] /\ NoVal \notin Flights
    BY FileSourceAssumption DEF Join, FlightsInv, RefsSound, Outside, requestVars, Key, Lane, TypeOK, Flights
  <1>1. ASSUME NEW f \in Flights, map[f] = Key(r), holds' = [holds EXCEPT ![r] = f], Goto(r, "look"),
               UNCHANGED <<map, flight>>
        PROVE  FlightsInv'
    <2>1. /\ at'[r] = "look" /\ holds'[r] = f /\ map' = map /\ flight' = flight
          /\ \A d \in Requests : d # r => at'[d] = at[d] /\ holds'[d] = holds[d]
      BY <1>0, <1>1 DEF Goto
    <2>2. PICK d \in Requests : holds[d] = f /\ at[d] \in Leading /\ d # r
      BY <1>0, <1>1, KeyOK DEF FlightsInv, MapLed, Leading, Fetching, Aborting, OnNetwork
    <2>3. flight[f] = Pending => at[d] \in Fetching
      BY <1>0, <2>2, StatesDiffer DEF FlightsInv, FlightStates, Leading, Unlocked
    <2>4. RefsSound'
      BY <1>0, <2>1 DEF FlightsInv, RefsSound, Outside, Leading, Waiting
    <2>5. LeadersSound' /\ FlightStates'
      BY <1>0, <2>1 DEF FlightsInv, LeadersSound, FlightStates, Leading, Fetching, Aborting, OnNetwork, Pending, Aborted
    <2>6. MapLed' /\ KeysDistinct'
      BY <1>0, <2>1 DEF FlightsInv, MapLed, KeysDistinct, Leading, Fetching, Aborting, OnNetwork
    <2>7. PendingLed'
      BY <1>0, <2>1, <2>2, <2>3 DEF FlightsInv, PendingLed, Waiting, Fetching, OnNetwork
    <2>8. ParkedWoken'
      BY <1>0, <2>1 DEF FlightsInv, ParkedWoken
    <2> QED  BY <2>4, <2>5, <2>6, <2>7, <2>8 DEF FlightsInv
  <1>2. ASSUME NEW new \in Flights, strong_count(new) = 0, \A f \in Flights : map[f] # Key(r),
               map' = [map EXCEPT ![new] = Key(r)], flight' = [flight EXCEPT ![new] = Pending],
               holds' = [holds EXCEPT ![r] = new], Goto(r, "acquire")
        PROVE  FlightsInv'
    <2>1. map[new] = NoVal /\ \A d \in Requests : holds[d] # new
      BY <1>2, Unreferenced
    <2>2. /\ at'[r] = "acquire" /\ holds'[r] = new /\ map'[new] = Key(r) /\ flight'[new] = Pending
          /\ \A d \in Requests : d # r => at'[d] = at[d] /\ holds'[d] = holds[d]
          /\ \A f \in Flights : f # new => map'[f] = map[f] /\ flight'[f] = flight[f]
      BY <1>0, <1>2 DEF Goto, TypeOK
    <2>3. \A d \in Requests : d # r /\ at[d] \in Leading \cup Waiting =>
              holds[d] \in Flights /\ holds[d] # new /\ flight'[holds[d]] = flight[holds[d]] /\ map'[holds[d]] = map[holds[d]]
      BY <2>1, <2>2 DEF FlightsInv, RefsSound
    <2>4. RefsSound'
      BY <1>0, <2>2 DEF FlightsInv, RefsSound, Outside, Leading, Waiting, Fetching, Aborting, OnNetwork
    <2>5. LeadersSound'
      BY <1>0, <2>1, <2>2, <2>3 DEF FlightsInv, LeadersSound
    <2>6. FlightStates'
      BY <1>0, <2>2, <2>3 DEF FlightsInv, FlightStates, Leading, Fetching, Aborting, OnNetwork, Pending, Aborted
    <2>7. MapLed'
      BY <1>0, <2>1, <2>2 DEF FlightsInv, MapLed, Leading, Fetching, Aborting, OnNetwork
    <2>8. KeysDistinct'
      BY <1>0, <1>2, <2>1, <2>2, KeyOK DEF FlightsInv, KeysDistinct
    <2>9. PendingLed'
      BY <1>0, <2>1, <2>2, <2>3 DEF FlightsInv, PendingLed, Waiting, Fetching, OnNetwork
    <2>10. ParkedWoken'
      BY <1>0, <2>1, <2>2, <2>3 DEF FlightsInv, ParkedWoken, Waiting
    <2> QED  BY <2>4, <2>5, <2>6, <2>7, <2>8, <2>9, <2>10 DEF FlightsInv
  <1>3. (CHOOSE f \in Flights : strong_count(f) = 0) \in Flights
          /\ strong_count(CHOOSE f \in Flights : strong_count(f) = 0) = 0
    BY FreeFlight
  <1> QED  BY <1>1, <1>2, <1>3 DEF Join

\* A follower that looks, registers or parks.
LEMMA FollowStep ==
    ASSUME TypeOK, FlightsInv, NEW r \in Requests, UNCHANGED <<map, flight, holds, mode, prior, low>>,
           at[r] \in Waiting, at'[r] \in Waiting, at'[r] = "wait" => flight[holds[r]] = Pending,
           \A d \in Requests \ {r} : at'[d] = at[d] /\ woken'[d] = woken[d]
    PROVE  FlightsInv'
  <1>1. /\ map' = map /\ flight' = flight /\ holds' = holds /\ \A d \in Requests : Key(d)' = Key(d)
        /\ \A d \in Requests : d # r => at'[d] = at[d] /\ woken'[d] = woken[d]
    BY DEF Key, Lane
  <1>2. RefsSound'
    BY <1>1 DEF FlightsInv, RefsSound, Outside, Leading, Waiting, Fetching, Aborting, OnNetwork
  <1>3. LeadersSound' /\ FlightStates'
    BY <1>1 DEF FlightsInv, LeadersSound, FlightStates, Leading, Fetching, Aborting, OnNetwork, Waiting, Pending, Aborted
  <1>4. MapLed' /\ KeysDistinct'
    BY <1>1 DEF FlightsInv, MapLed, KeysDistinct, Leading, Fetching, Aborting, OnNetwork, Waiting
  <1>5. PendingLed'
    BY <1>1 DEF FlightsInv, PendingLed, Waiting, Fetching, OnNetwork, Pending
  <1>6. ParkedWoken'
    BY <1>1 DEF FlightsInv, ParkedWoken, Waiting, Pending
  <1> QED  BY <1>2, <1>3, <1>4, <1>5, <1>6 DEF FlightsInv

\* A follower lets go of its flight.
LEMMA LeaveStep ==
    ASSUME TypeOK, FlightsInv, NEW r \in Requests, UNCHANGED <<map, flight, mode, prior, low>>,
           at[r] \in Waiting, at'[r] \in Outside, holds' = [holds EXCEPT ![r] = NoVal],
           \A d \in Requests \ {r} : at'[d] = at[d] /\ woken'[d] = woken[d]
    PROVE  FlightsInv'
  <1>1. /\ map' = map /\ flight' = flight /\ holds'[r] = NoVal /\ \A d \in Requests : Key(d)' = Key(d)
        /\ \A d \in Requests : d # r => at'[d] = at[d] /\ woken'[d] = woken[d] /\ holds'[d] = holds[d]
    BY DEF Key, Lane, TypeOK
  <1>2. RefsSound'
    BY <1>1 DEF FlightsInv, RefsSound, Outside, Leading, Waiting, Fetching, Aborting, OnNetwork
  <1>3. LeadersSound' /\ FlightStates'
    BY <1>1 DEF FlightsInv, LeadersSound, FlightStates, Leading, Fetching, Aborting, OnNetwork, Outside, Pending, Aborted
  <1>4. MapLed' /\ KeysDistinct'
    BY <1>1 DEF FlightsInv, MapLed, KeysDistinct, Leading, Fetching, Aborting, OnNetwork, Waiting
  <1>5. PendingLed'
    BY <1>1 DEF FlightsInv, PendingLed, Waiting, Fetching, OnNetwork, Outside, Pending
  <1>6. ParkedWoken'
    BY <1>1 DEF FlightsInv, ParkedWoken, Waiting, Outside, Pending
  <1> QED  BY <1>2, <1>3, <1>4, <1>5, <1>6 DEF FlightsInv

\* A leader that is done with its flight takes it out of the map.
LEMMA RemoveStep ==
    ASSUME TypeOK, FlightsInv, NEW r \in Requests, UNCHANGED <<flight, mode, prior, low>>,
           at[r] \in {"notify", "remove"}, at'[r] \in Outside, holds' = [holds EXCEPT ![r] = NoVal],
           map' = [map EXCEPT ![holds[r]] = NoVal], \A d \in Requests \ {r} : at'[d] = at[d],
           \/ at[r] = "remove" /\ woken' = woken
           \/ at[r] = "notify" /\ notify_waiters(holds[r])
    PROVE  FlightsInv'
  <1> DEFINE f == holds[r]
  <1>1. /\ f \in Flights /\ at[r] \in Leading /\ map[f] = Key(r) /\ NoVal \notin Flights
        /\ \A d \in Requests : at[d] \in Leading /\ holds[d] = f => d = r
    BY FileSourceAssumption
    DEF FlightsInv, RefsSound, LeadersSound, Leading, Aborting, Flights
  <1>2. /\ flight' = flight /\ holds'[r] = NoVal /\ map'[f] = NoVal /\ \A d \in Requests : Key(d)' = Key(d)
        /\ \A d \in Requests : d # r => at'[d] = at[d] /\ holds'[d] = holds[d]
        /\ \A g \in Flights : g # f => map'[g] = map[g]
    BY <1>1 DEF Key, Lane, TypeOK
  <1> HIDE DEF f
  <1>3. RefsSound'
    BY <1>2 DEF FlightsInv, RefsSound, Outside, Leading, Waiting, Fetching, Aborting, OnNetwork
  <1>4. LeadersSound'
    BY <1>1, <1>2 DEF FlightsInv, RefsSound, LeadersSound, Leading, Fetching, Aborting, OnNetwork, Outside
  <1>5. FlightStates'
    BY <1>2 DEF FlightsInv, FlightStates, Leading, Fetching, Aborting, OnNetwork, Outside, Pending, Aborted
  <1>6. MapLed'
    BY <1>1, <1>2 DEF FlightsInv, MapLed, f
  <1>7. KeysDistinct'
    BY <1>1, <1>2 DEF FlightsInv, KeysDistinct
  <1>8. PendingLed'
    BY <1>2 DEF FlightsInv, PendingLed, Waiting, Fetching, OnNetwork, Outside, Pending
  <1>9. ParkedWoken'
    <2> SUFFICES ASSUME NEW u \in Requests, at'[u] = "wait", flight'[holds'[u]] # Pending,
                        ~woken'[u]
                 PROVE  \E d \in Requests : holds'[d] = holds'[u] /\ at'[d] \in {"notify", "abort"}
      BY DEF ParkedWoken, Pending
    <2>1. u # r /\ at[u] = "wait" /\ flight[holds[u]] # Pending /\ holds'[u] = holds[u]
      BY <1>2 DEF Outside
    <2>2. ~woken[u]
      BY <2>1 DEF notify_waiters
    <2>3. PICK d \in Requests : holds[d] = holds[u] /\ at[d] \in {"notify", "abort"}
      BY <2>1, <2>2 DEF FlightsInv, ParkedWoken
    <2>4. d # r
      BY <2>1, <2>3 DEF notify_waiters
    <2> QED  BY <1>2, <2>1, <2>3, <2>4
  <1> QED  BY <1>3, <1>4, <1>5, <1>6, <1>7, <1>8, <1>9 DEF FlightsInv

\* The flight of r gets another state, and those who wait for it are still led or woken.
LEMMA MarkStep ==
    ASSUME TypeOK, FlightsInv, NEW r \in Requests, UNCHANGED <<map, holds, mode, prior, low>>,
           at[r] \in Fetching, \A d \in Requests \ {r} : at'[d] = at[d] /\ woken'[d] = woken[d],
           \/ at'[r] = "abort" /\ flight' = [flight EXCEPT ![holds[r]] = Aborted]
           \/ at'[r] = "notify" /\ \E a : a # Pending /\ flight' = [flight EXCEPT ![holds[r]] = a]
           \/ at'[r] = "notify" /\ flight' = flight /\ \A d \in Requests \ {r} : holds[d] # holds[r]
    PROVE  FlightsInv'
  <1> DEFINE f == holds[r]
  <1>1. /\ f \in Flights /\ at[r] \in Leading /\ flight[f] = Pending /\ at'[r] \in Leading \ Fetching
        /\ \A d \in Requests : at[d] \in Leading /\ holds[d] = f => d = r
    BY DEF FlightsInv, RefsSound, LeadersSound, FlightStates, Leading, Fetching, Aborting, OnNetwork
  <1>2. /\ map' = map /\ holds' = holds /\ \A d \in Requests : Key(d)' = Key(d)
        /\ \A d \in Requests : d # r => at'[d] = at[d] /\ woken'[d] = woken[d]
        /\ \A g \in Flights : g # f => flight'[g] = flight[g]
        /\ at'[r] = "abort" => flight'[f] = Aborted
        /\ flight'[f] # Pending \/ \A d \in Requests : d # r => holds[d] # f
    BY <1>1, StatesDiffer DEF Key, Lane, TypeOK
  <1>3. at'[r] \in {"abort", "notify"} /\ holds[r] = f
    OBVIOUS
  <1> HIDE DEF f
  <1>4. RefsSound'
    BY <1>1, <1>2, <1>3 DEF FlightsInv, RefsSound, Outside, Leading, Waiting, Fetching, Aborting, OnNetwork
  <1>5. LeadersSound'
    BY <1>1, <1>2, <1>3 DEF FlightsInv, LeadersSound
  <1>6. FlightStates'
    <2> SUFFICES ASSUME NEW d \in Requests PROVE /\ at'[d] \in Fetching => flight'[holds'[d]] = Pending
                                                 /\ at'[d] \in Aborting => flight'[holds'[d]] = Aborted
      BY DEF FlightStates, Pending, Aborted
    <2>1. CASE d = r
      BY <1>1, <1>2, <1>3, <2>1 DEF Aborting
    <2>2. CASE d # r /\ at[d] \in Leading
      <3>1. holds[d] \in Flights /\ holds[d] # f
        BY <1>1, <2>2 DEF FlightsInv, RefsSound
      <3> QED  BY <1>2, <2>2, <3>1 DEF FlightsInv, FlightStates
    <2> QED  BY <1>2, <2>1, <2>2 DEF Leading
  <1>7. MapLed' /\ KeysDistinct'
    BY <1>1, <1>2, <1>3 DEF FlightsInv, MapLed, KeysDistinct
  <1>8. PendingLed'
    <2> SUFFICES ASSUME NEW u \in Requests, at'[u] \in Waiting, flight'[holds'[u]] = Pending
                 PROVE  \E d \in Requests : holds'[d] = holds'[u] /\ at'[d] \in Fetching
      BY DEF PendingLed, Pending
    <2>1. u # r /\ at[u] \in Waiting /\ holds[u] \in Flights
      BY <1>2, <1>3 DEF Waiting, FlightsInv, RefsSound
    <2>2. holds[u] # f
      BY <1>2, <2>1
    <2>3. PICK d \in Requests : holds[d] = holds[u] /\ at[d] \in Fetching
      BY <1>2, <2>1, <2>2 DEF FlightsInv, PendingLed
    <2> QED  BY <1>2, <1>3, <2>2, <2>3
  <1>9. ParkedWoken'
    <2> SUFFICES ASSUME NEW u \in Requests, at'[u] = "wait", flight'[holds'[u]] # Pending, ~woken'[u]
                 PROVE  \E d \in Requests : holds'[d] = holds'[u] /\ at'[d] \in {"notify", "abort"}
      BY DEF ParkedWoken, Pending
    <2>1. u # r /\ at[u] = "wait" /\ holds[u] \in Flights /\ ~woken[u]
      BY <1>2, <1>3 DEF Waiting, FlightsInv, RefsSound
    <2>2. CASE holds[u] = f
      BY <1>2, <1>3, <2>2
    <2>3. CASE holds[u] # f
      <3>1. PICK d \in Requests : holds[d] = holds[u] /\ at[d] \in {"notify", "abort"}
        BY <1>2, <2>1, <2>3 DEF FlightsInv, ParkedWoken
      <3> QED  BY <1>2, <1>3, <2>3, <3>1
    <2> QED  BY <2>2, <2>3
  <1> QED  BY <1>4, <1>5, <1>6, <1>7, <1>8, <1>9 DEF FlightsInv

LEMMA AbortNotifyFlights == ASSUME TypeOK, FlightsInv, NEW r \in Requests, AbortNotify(r) PROVE FlightsInv'
  <1>1. /\ map' = map /\ flight' = flight /\ holds' = holds /\ \A d \in Requests : Key(d)' = Key(d)
        /\ \A d \in Requests : d # r => at'[d] = at[d]
        /\ at[r] = "abort" /\ at'[r] = "remove"
    BY DEF AbortNotify, Goto, TypeOK, Key, Lane, requestVars
  <1>2. \A d \in Requests : woken'[d] = (woken[d] \/ (holds[d] = holds[r] /\ at[d] \in {"armed", "wait"}))
    BY DEF AbortNotify, notify_waiters
  <1>3. RefsSound'
    BY <1>1 DEF FlightsInv, RefsSound, Outside, Leading, Waiting, Fetching, Aborting, OnNetwork
  <1>4. LeadersSound' /\ FlightStates'
    BY <1>1 DEF FlightsInv, LeadersSound, FlightStates, Leading, Fetching, Aborting, OnNetwork, Pending, Aborted
  <1>5. MapLed' /\ KeysDistinct'
    BY <1>1 DEF FlightsInv, MapLed, KeysDistinct, Leading, Fetching, Aborting, OnNetwork
  <1>6. PendingLed'
    BY <1>1 DEF FlightsInv, PendingLed, Waiting, Fetching, OnNetwork, Pending
  <1>7. ParkedWoken'
    <2> SUFFICES ASSUME NEW u \in Requests, at'[u] = "wait", flight'[holds'[u]] # Pending, ~woken'[u]
                 PROVE  \E d \in Requests : holds'[d] = holds'[u] /\ at'[d] \in {"notify", "abort"}
      BY DEF ParkedWoken, Pending
    <2>1. at[u] = "wait" /\ ~woken[u] /\ holds[u] # holds[r]
      BY <1>1, <1>2
    <2>2. PICK d \in Requests : holds[d] = holds[u] /\ at[d] \in {"notify", "abort"}
      BY <1>1, <2>1 DEF FlightsInv, ParkedWoken
    <2> QED  BY <1>1, <2>1, <2>2
  <1> QED  BY <1>3, <1>4, <1>5, <1>6, <1>7 DEF FlightsInv

\* The leader publishes exactly when somebody else refers to the flight.
LEMMA SoleHolder ==
    ASSUME TypeOK, FlightsInv, NEW r \in Requests, at[r] = "complete",
           ~(strong_count(holds[r]) > 1 + (IF map[holds[r]] = NoVal THEN 0 ELSE 1))
    PROVE  \A d \in Requests \ {r} : holds[d] # holds[r]
  <1> SUFFICES ASSUME NEW d \in Requests, d # r, holds[d] = holds[r] PROVE FALSE
    OBVIOUS
  <1> DEFINE A == {u \in Requests : holds[u] = holds[r]}
  <1>1. IsFiniteSet(A) /\ {r, d} \subseteq A
    BY FileSourceAssumption, FS_Subset
  <1>2. strong_count(holds[r]) = Cardinality(A) + (IF map[holds[r]] = NoVal THEN 0 ELSE 1)
    BY DEF strong_count
  <1> HIDE DEF A
  <1>3. Cardinality({r} \cup {d}) = 2
    <2>1. IsFiniteSet({r}) /\ Cardinality({r}) = 1 /\ d \notin {r}
      BY FS_Singleton
    <2>2. Cardinality({r} \cup {d}) = Cardinality({r}) + 1
      BY <2>1, FS_AddElement
    <2> QED  BY <2>1, <2>2
  <1>4. {r, d} = {r} \cup {d}
    OBVIOUS
  <1>5. Cardinality(A) >= 2 /\ Cardinality(A) \in Nat
    BY <1>1, <1>3, <1>4, FS_Subset, FS_CardinalityType
  <1> QED  BY <1>2, <1>5

LEMMA FlightsStep ==
    ASSUME TypeOK, FlightsInv, AnswersInv, NEW r \in Requests, Start(r) \/ RequestStep(r) \/ TurnsSlow(r) \/ Cancel(r)
    PROVE  FlightsInv'
  <1> USE DEF Goto, Answer, Key, Lane, requestVars, leaderVars, health
  <1>0. /\ at \in [Requests -> Phases] /\ prior \in [Requests -> Prior] /\ low \in [Requests -> BOOLEAN]
        /\ woken \in [Requests -> BOOLEAN]
    BY DEF TypeOK
  <1>1. ASSUME \/ Start(r) \/ DatabaseLookup(r) \/ Request(r) \/ DeferralEnds(r) \/ NegativeLook(r)
        PROVE  FlightsInv'
    <2>1. Quiet(r)
      BY <1>0, <1>1 DEF Quiet, Outside, Start, DatabaseLookup, Request, DeferralEnds, NegativeLook
    <2> QED  BY <2>1, QuietStep
  <1>2. ASSUME \/ Acquire(r) \/ TurnsSlow(r) \/ Headers(r) \/ AcquireBody(r)
               \/ Retry(r) \/ Backoff(r) \/ Finish(r)
        PROVE  FlightsInv'
    <2>1. Quiet(r)
      BY <1>0, <1>2 DEF Quiet, Fetching, OnNetwork, Acquire, TurnsSlow, Headers, AcquireBody, Retry, Backoff, Finish
    <2> QED  BY <2>1, QuietStep
  <1>3. ASSUME Fails(r) \/ NotFound(r) \/ NotModified(r) \/ Rejects(r) \/ BodyEnds(r) PROVE FlightsInv'
    <2>1. Quiet(r)
      BY <1>0, <1>3 DEF Quiet, Fetching, OnNetwork, Fails, NotFound, NotModified, Rejects, BodyEnds, AttemptEnds
    <2> QED  BY <2>1, QuietStep
  <1>4. ASSUME Wait(r) \/ Wake(r) PROVE FlightsInv'
    <2>1. /\ UNCHANGED <<map, flight, holds, mode, prior, low>> /\ at[r] \in Waiting /\ at'[r] \in Waiting
          /\ at'[r] = "wait" => flight[holds[r]] = Pending
          /\ \A d \in Requests \ {r} : at'[d] = at[d] /\ woken'[d] = woken[d]
      BY <1>0, <1>4 DEF Wait, Wake, Waiting
    <2> QED  BY <2>1, FollowStep
  <1>5. ASSUME Resolve(r) PROVE FlightsInv'
    <2>1. /\ UNCHANGED <<map, flight, mode, prior, low>> /\ at[r] \in Waiting /\ at'[r] \in Outside
          /\ holds' = [holds EXCEPT ![r] = NoVal]
          /\ \A d \in Requests \ {r} : at'[d] = at[d] /\ woken'[d] = woken[d]
      BY <1>0, <1>5 DEF Resolve, Waiting, Outside, HoldsNothing
    <2> QED  BY <2>1, LeaveStep
  <1>6. ASSUME Complete(r) PROVE FlightsInv'
    <2>1. /\ UNCHANGED <<map, holds, mode, prior, low>> /\ at[r] \in Fetching /\ at[r] = "complete" /\ at'[r] = "notify"
          /\ \A d \in Requests \ {r} : at'[d] = at[d] /\ woken'[d] = woken[d]
      BY <1>0, <1>6 DEF Complete, Fetching
    <2>2. answer[r] # Pending
      BY <2>1, StatesDiffer DEF AnswersInv
    <2>3. \/ flight' = [flight EXCEPT ![holds[r]] = answer[r]]
          \/ flight' = flight /\ ~(strong_count(holds[r]) > 1 + (IF map[holds[r]] = NoVal THEN 0 ELSE 1))
      BY <1>6 DEF Complete
    <2>4. CASE flight' = [flight EXCEPT ![holds[r]] = answer[r]]
      BY <2>1, <2>2, <2>4, MarkStep
    <2>5. CASE flight' = flight /\ \A d \in Requests \ {r} : holds[d] # holds[r]
      BY <2>1, <2>5, MarkStep
    <2> QED  BY <2>1, <2>3, <2>4, <2>5, SoleHolder
  <1>7. ASSUME Completed(r) PROVE FlightsInv'
    <2>1. /\ UNCHANGED <<flight, mode, prior, low>> /\ at[r] = "notify" /\ at'[r] \in Outside
          /\ holds' = [holds EXCEPT ![r] = NoVal] /\ map' = [map EXCEPT ![holds[r]] = NoVal]
          /\ notify_waiters(holds[r]) /\ \A d \in Requests \ {r} : at'[d] = at[d]
      BY <1>0, <1>7 DEF Completed, Outside, HoldsNothing
    <2> QED  BY <2>1, RemoveStep
  <1>8. ASSUME remove_flight(r) PROVE FlightsInv'
    <2>1. /\ UNCHANGED <<flight, woken, mode, prior, low>> /\ at[r] = "remove" /\ at'[r] \in Outside
          /\ holds' = [holds EXCEPT ![r] = NoVal] /\ map' = [map EXCEPT ![holds[r]] = NoVal]
          /\ \A d \in Requests \ {r} : at'[d] = at[d]
      BY <1>0, <1>8 DEF remove_flight, Outside, HoldsNothing
    <2> QED  BY <2>1, RemoveStep
  <1>9. ASSUME Cancel(r) PROVE FlightsInv'
    <2>1. CASE at[r] = "deferred"
      <3>1. Quiet(r)
        <4>1. holds[r] = NoVal /\ holds \in [Requests -> {NoVal} \cup Flights]
          BY <2>1 DEF FlightsInv, RefsSound, Outside, TypeOK
        <4>2. holds' = [holds EXCEPT ![r] = NoVal] /\ at' = [at EXCEPT ![r] = "idle"] /\ flight' = flight
          BY <1>9, <2>1 DEF Cancel, HoldsNothing, OnNetwork
        <4>3. holds' = holds
          BY <4>1, <4>2
        <4> QED  BY <1>0, <1>9, <2>1, <4>2, <4>3 DEF Quiet, Cancel, Outside
      <3> QED  BY <3>1, QuietStep
    <2>2. CASE at[r] = "wait"
      <3>1. /\ UNCHANGED <<map, flight, mode, prior, low>> /\ at[r] \in Waiting /\ at'[r] \in Outside
            /\ holds' = [holds EXCEPT ![r] = NoVal]
            /\ \A d \in Requests \ {r} : at'[d] = at[d] /\ woken'[d] = woken[d]
        BY <1>0, <1>9, <2>2 DEF Cancel, Waiting, Outside, HoldsNothing, OnNetwork
      <3> QED  BY <3>1, LeaveStep
    <2>3. CASE at[r] \in OnNetwork \cup {"acquire", "backoff"}
      <3>1. /\ UNCHANGED <<map, holds, mode, prior, low>> /\ at[r] \in Fetching /\ at'[r] = "abort"
            /\ \A d \in Requests \ {r} : at'[d] = at[d] /\ woken'[d] = woken[d]
            /\ flight' = [flight EXCEPT ![holds[r]] = Aborted]
        BY <1>0, <1>9, <2>3 DEF Cancel, Fetching, OnNetwork
      <3> QED  BY <3>1, MarkStep
    <2> QED  BY <1>9, <2>1, <2>2, <2>3 DEF Cancel
  <1> QED  BY <1>1, <1>2, <1>3, <1>4, <1>5, <1>6, <1>7, <1>8, <1>9, JoinFlights, AbortNotifyFlights DEF RequestStep

-----------------------------------------------------------------------------
(* The guards: permits, and the evidence of a bad provider.                *)

\* Two sets of requests that differ in one member at most.
LEMMA RequestsChange ==
    ASSUME NEW A \in SUBSET Requests, NEW B \in SUBSET Requests, NEW r \in Requests, A \ {r} = B \ {r}
    PROVE  /\ Cardinality(A) \in Nat /\ Cardinality(B) \in Nat
           /\ (r \in A <=> r \in B) => Cardinality(B) = Cardinality(A)
           /\ r \notin A /\ r \in B => Cardinality(B) = Cardinality(A) + 1
           /\ r \in A /\ r \notin B => Cardinality(B) = Cardinality(A) - 1
  BY FileSourceAssumption, CountChange

\* The conjuncts of GuardsExact, and the sets they count.
OnLane(lane) == {r \in Requests : at[r] \in OnNetwork /\ Lane(r) = lane}
InBody == {r \in Requests : at[r] = "body"}
LanesExact ==
    \A lane \in {"low", "regular"} :
        lanes[lane] + Cardinality(OnLane(lane)) = (IF lane = "low" THEN LowPermits ELSE RegularPermits)
BodiesExact == bodies + Cardinality(InBody) = BodyPermits
RetriesExact == active_retries = Cardinality({r \in Requests : retrying[r]})
SlowExact == slow_attempts = Cardinality({r \in Requests : slow[r]})
EvidenceHeld ==
    \A r \in Requests :
        /\ retrying[r] => ~low[r] /\ at[r] \in Fetching \ {"complete"}
        /\ slow[r] => ~low[r] /\ at[r] \in {"send", "body"}

LEMMA GuardsParts == GuardsExact <=> LanesExact /\ BodiesExact /\ RetriesExact /\ SlowExact /\ EvidenceHeld
  BY DEF GuardsExact, LanesExact, BodiesExact, RetriesExact, SlowExact, EvidenceHeld, OnLane, InBody

\* What r does to a counter, from where it was to where it is.
Moves(before, after, counter, next, step) ==
    next = IF before = after THEN counter ELSE IF after THEN counter + step ELSE counter - step

\* r goes to p, and the guards it holds go with it.
Guarded(r, p, rt, sl) ==
    /\ \A d \in Requests \ {r} : at'[d] = at[d] /\ low'[d] = low[d] /\ retrying'[d] = retrying[d] /\ slow'[d] = slow[d]
    /\ at'[r] = p /\ retrying'[r] = rt /\ slow'[r] = sl
    /\ low'[r] = low[r] \/ (at[r] \notin Fetching /\ p \notin Fetching)
    /\ \A lane \in {"low", "regular"} :
           Moves(at[r] \in OnNetwork /\ lane = Lane(r), p \in OnNetwork /\ lane = Lane(r), lanes[lane], lanes'[lane], -1)
    /\ Moves(at[r] = "body", p = "body", bodies, bodies', -1)
    /\ Moves(retrying[r], rt, active_retries, active_retries', 1)
    /\ Moves(slow[r], sl, slow_attempts, slow_attempts', 1)
    /\ rt => ~low[r] /\ p \in Fetching \ {"complete"}
    /\ sl => ~low[r] /\ p \in {"send", "body"}

LEMMA GuardedStep ==
    ASSUME TypeOK, GuardsExact, NEW r \in Requests, NEW p \in Phases, NEW rt \in BOOLEAN, NEW sl \in BOOLEAN,
           Guarded(r, p, rt, sl)
    PROVE  GuardsExact' /\ active_retries' \in Nat /\ slow_attempts' \in Nat
  <1>0. LanesExact /\ BodiesExact /\ RetriesExact /\ SlowExact /\ EvidenceHeld
    BY GuardsParts
  <1>1. /\ \A d \in Requests : d # r => /\ at'[d] = at[d] /\ low'[d] = low[d]
                                        /\ retrying'[d] = retrying[d] /\ slow'[d] = slow[d]
        /\ at'[r] = p /\ retrying'[r] = rt /\ slow'[r] = sl
        /\ low'[r] = low[r] \/ (at[r] \notin Fetching /\ p \notin Fetching)
    BY DEF Guarded
  <1>2. retrying \in [Requests -> BOOLEAN] /\ slow \in [Requests -> BOOLEAN] /\ low \in [Requests -> BOOLEAN]
        /\ bodies \in Nat /\ lanes \in [{"low", "regular"} -> Nat]
    BY DEF TypeOK
  <1>3. LanesExact'
    <2> SUFFICES ASSUME NEW lane \in {"low", "regular"}
                 PROVE  lanes'[lane] + Cardinality(OnLane(lane)')
                            = (IF lane = "low" THEN LowPermits ELSE RegularPermits)
      BY DEF LanesExact
    <2> DEFINE A == OnLane(lane)
               B == OnLane(lane)'
    <2>1. /\ A \in SUBSET Requests /\ B \in SUBSET Requests /\ A \ {r} = B \ {r}
          /\ r \in A <=> (at[r] \in OnNetwork /\ lane = Lane(r))
      BY <1>1 DEF OnLane, Lane
    <2>2. r \in B <=> (p \in OnNetwork /\ lane = Lane(r))
      BY <1>1 DEF OnLane, Lane, Fetching
    <2>3. Moves(r \in A, r \in B, lanes[lane], lanes'[lane], -1)
      BY <2>1, <2>2 DEF Guarded
    <2>4. lanes[lane] + Cardinality(A) = (IF lane = "low" THEN LowPermits ELSE RegularPermits)
      BY <1>0 DEF LanesExact
    <2>5. lanes[lane] \in Nat
      BY <1>2
    <2> HIDE DEF A, B
    <2>6. lanes'[lane] + Cardinality(B) = lanes[lane] + Cardinality(A)
      <3>1. CASE r \in A <=> r \in B
        BY <2>1, <2>3, <2>5, <3>1, RequestsChange DEF Moves
      <3>2. CASE r \in A /\ r \notin B
        BY <2>1, <2>3, <2>5, <3>2, RequestsChange DEF Moves
      <3>3. CASE r \notin A /\ r \in B
        BY <2>1, <2>3, <2>5, <3>3, RequestsChange DEF Moves
      <3> QED  BY <3>1, <3>2, <3>3
    <2>7. QED  BY <2>4, <2>6 DEF B
  <1>4. BodiesExact'
    <2> DEFINE A == InBody
               B == InBody'
    <2>1. /\ A \in SUBSET Requests /\ B \in SUBSET Requests /\ A \ {r} = B \ {r}
          /\ (r \in A <=> at[r] = "body") /\ (r \in B <=> p = "body")
      BY <1>1 DEF InBody
    <2>2. Moves(r \in A, r \in B, bodies, bodies', -1)
      BY <2>1 DEF Guarded
    <2>3. bodies + Cardinality(A) = BodyPermits
      BY <1>0 DEF BodiesExact
    <2> HIDE DEF A, B
    <2>4. bodies' + Cardinality(B) = bodies + Cardinality(A)
      <3>1. CASE r \in A <=> r \in B
        BY <1>2, <2>1, <2>2, <3>1, RequestsChange DEF Moves
      <3>2. CASE r \in A /\ r \notin B
        BY <1>2, <2>1, <2>2, <3>2, RequestsChange DEF Moves
      <3>3. CASE r \notin A /\ r \in B
        BY <1>2, <2>1, <2>2, <3>3, RequestsChange DEF Moves
      <3> QED  BY <3>1, <3>2, <3>3
    <2> QED  BY <2>3, <2>4 DEF B, BodiesExact
  <1>5. RetriesExact' /\ active_retries' \in Nat
    <2> DEFINE A == {d \in Requests : retrying[d]}
               B == {d \in Requests : retrying'[d]}
    <2>1. /\ A \in SUBSET Requests /\ B \in SUBSET Requests /\ A \ {r} = B \ {r}
          /\ (r \in A <=> retrying[r]) /\ (r \in B <=> rt)
      BY <1>1
    <2>2. Moves(r \in A, r \in B, active_retries, active_retries', 1)
      BY <1>2, <2>1 DEF Guarded
    <2>3. active_retries = Cardinality(A)
      BY <1>0 DEF RetriesExact
    <2> HIDE DEF A, B
    <2>4. active_retries' = Cardinality(B) /\ Cardinality(B) \in Nat
      <3>1. CASE r \in A <=> r \in B
        BY <2>1, <2>2, <2>3, <3>1, RequestsChange DEF Moves
      <3>2. CASE r \in A /\ r \notin B
        BY <2>1, <2>2, <2>3, <3>2, RequestsChange DEF Moves
      <3>3. CASE r \notin A /\ r \in B
        BY <2>1, <2>2, <2>3, <3>3, RequestsChange DEF Moves
      <3> QED  BY <3>1, <3>2, <3>3
    <2> QED  BY <2>4 DEF B, RetriesExact
  <1>6. SlowExact' /\ slow_attempts' \in Nat
    <2> DEFINE A == {d \in Requests : slow[d]}
               B == {d \in Requests : slow'[d]}
    <2>1. /\ A \in SUBSET Requests /\ B \in SUBSET Requests /\ A \ {r} = B \ {r}
          /\ (r \in A <=> slow[r]) /\ (r \in B <=> sl)
      BY <1>1
    <2>2. Moves(r \in A, r \in B, slow_attempts, slow_attempts', 1)
      BY <1>2, <2>1 DEF Guarded
    <2>3. slow_attempts = Cardinality(A)
      BY <1>0 DEF SlowExact
    <2> HIDE DEF A, B
    <2>4. slow_attempts' = Cardinality(B) /\ Cardinality(B) \in Nat
      <3>1. CASE r \in A <=> r \in B
        BY <2>1, <2>2, <2>3, <3>1, RequestsChange DEF Moves
      <3>2. CASE r \in A /\ r \notin B
        BY <2>1, <2>2, <2>3, <3>2, RequestsChange DEF Moves
      <3>3. CASE r \notin A /\ r \in B
        BY <2>1, <2>2, <2>3, <3>3, RequestsChange DEF Moves
      <3> QED  BY <3>1, <3>2, <3>3
    <2> QED  BY <2>4 DEF B, SlowExact
  <1>7. EvidenceHeld'
    <2> SUFFICES ASSUME NEW d \in Requests
                 PROVE  /\ retrying'[d] => ~low'[d] /\ at'[d] \in Fetching \ {"complete"}
                        /\ slow'[d] => ~low'[d] /\ at'[d] \in {"send", "body"}
      BY DEF EvidenceHeld, Fetching, OnNetwork
    <2>1. CASE d # r
      BY <1>0, <1>1, <2>1 DEF EvidenceHeld
    <2>2. CASE d = r
      BY <1>1, <2>2 DEF Guarded, Fetching, OnNetwork
    <2> QED  BY <2>1, <2>2
  <1>8. GuardsExact'
    BY <1>3, <1>4, <1>5, <1>6, <1>7
    DEF GuardsExact, LanesExact, BodiesExact, RetriesExact, SlowExact, EvidenceHeld, OnLane, InBody, Lane
  <1> QED  BY <1>5, <1>6, <1>8

Tracked == GuardsExact' /\ active_retries' \in Nat /\ slow_attempts' \in Nat

LEMMA TypeCounters == TypeOK => bodies \in Nat /\ active_retries \in Nat /\ slow_attempts \in Nat
  BY DEF TypeOK

\* What the invariant says of the guards of r.
LEMMA GuardsOf ==
    ASSUME TypeOK, GuardsExact, NEW r \in Requests
    PROVE  /\ at[r] \in Phases /\ low[r] \in BOOLEAN /\ retrying[r] \in BOOLEAN /\ slow[r] \in BOOLEAN
           /\ at \in [Requests -> Phases] /\ low \in [Requests -> BOOLEAN]
           /\ retrying \in [Requests -> BOOLEAN] /\ slow \in [Requests -> BOOLEAN]
           /\ lanes \in [{"low", "regular"} -> Nat] /\ Lane(r) \in {"low", "regular"}
           /\ retrying[r] => ~low[r] /\ at[r] \in Fetching \ {"complete"}
           /\ slow[r] => ~low[r] /\ at[r] \in {"send", "body"}
  BY DEF TypeOK, GuardsExact, Lane

\* Outside the network, and where the retries have ended.
LEMMA IdleGuards ==
    ASSUME TypeOK, GuardsExact, NEW r \in Requests, NEW p \in Phases \ OnNetwork, at[r] \notin OnNetwork,
           \A d \in Requests \ {r} : at'[d] = at[d] /\ low'[d] = low[d],
           at'[r] = p, low'[r] = low[r] \/ (at[r] \notin Fetching /\ p \notin Fetching),
           UNCHANGED <<lanes, bodies, health, slow, retrying>>, retrying[r] => p \in Fetching \ {"complete"}
    PROVE  Tracked
  <1>1. Guarded(r, p, retrying[r], slow[r])
    BY GuardsOf DEF Guarded, Moves, OnNetwork, health
  <1> QED  BY <1>1, GuardedStep, GuardsOf DEF Tracked

LEMMA GuardsStep ==
    ASSUME TypeOK, GuardsExact, LateSound, NEW r \in Requests,
           Start(r) \/ RequestStep(r) \/ TurnsSlow(r) \/ Cancel(r)
    PROVE  Tracked
  <1> USE DEF Goto, Answer, requestVars, leaderVars
  <1>0. /\ at[r] \in Phases /\ low[r] \in BOOLEAN /\ retrying[r] \in BOOLEAN /\ slow[r] \in BOOLEAN
        /\ at \in [Requests -> Phases] /\ low \in [Requests -> BOOLEAN]
        /\ retrying \in [Requests -> BOOLEAN] /\ slow \in [Requests -> BOOLEAN]
        /\ lanes \in [{"low", "regular"} -> Nat] /\ Lane(r) \in {"low", "regular"}
        /\ retrying[r] => ~low[r] /\ at[r] \in Fetching \ {"complete"}
        /\ slow[r] => ~low[r] /\ at[r] \in {"send", "body"}
    BY GuardsOf
  <1>p. {"send", "backoff", "bodywait", "body", "retry", "finish", "complete", "abort"} \subseteq Phases
    BY DEF Phases, Fetching, OnNetwork, Aborting
  <1>1. ASSUME \/ Start(r) \/ DatabaseLookup(r) \/ Request(r) \/ DeferralEnds(r) \/ NegativeLook(r)
               \/ Wait(r) \/ Wake(r) \/ Resolve(r)
        PROVE  Tracked
    <2>1. PICK p \in Phases : at' = [at EXCEPT ![r] = p] /\ p \notin Fetching /\ at[r] \notin Fetching
      BY <1>0, <1>1 DEF Start, DatabaseLookup, Request, DeferralEnds, NegativeLook, Wait, Wake, Resolve,
                        Phases, Fetching, OnNetwork, Waiting
    <2>2. \A d \in Requests \ {r} : low'[d] = low[d]
      BY <1>0, <1>1 DEF Start, DatabaseLookup, Request, DeferralEnds, NegativeLook, Wait, Wake, Resolve
    <2>3. UNCHANGED <<lanes, bodies, health, slow, retrying>>
      BY <1>1 DEF Start, DatabaseLookup, Request, DeferralEnds, NegativeLook, Wait, Wake, Resolve, health
    <2> QED  BY <1>0, <2>1, <2>2, <2>3, IdleGuards DEF Fetching
  <1>2. ASSUME Join(r) \/ Backoff(r) \/ Complete(r) \/ Completed(r) \/ AbortNotify(r) \/ remove_flight(r)
        PROVE  Tracked
    <2>1. PICK p \in Phases \ OnNetwork : /\ at' = [at EXCEPT ![r] = p] /\ at[r] \notin OnNetwork
                                          /\ p \notin Fetching \ {"complete"} => at[r] \notin Fetching \ {"complete"}
      BY <1>0, <1>2 DEF Join, Backoff, Complete, Completed, AbortNotify, remove_flight, Phases, Fetching, OnNetwork,
                        Waiting, Aborting
    <2>2. low' = low /\ UNCHANGED <<lanes, bodies, health, slow, retrying>>
      BY <1>2 DEF Join, Backoff, Complete, Completed, AbortNotify, remove_flight, health
    <2> QED  BY <1>0, <2>1, <2>2, IdleGuards DEF Fetching
  <1>3. ASSUME Acquire(r) PROVE Tracked
    <2>1. Guarded(r, "send", retrying[r], slow[r])
      BY <1>0, <1>3 DEF Acquire, Guarded, Moves, OnNetwork, Fetching, Lane, health
    <2> QED  BY <1>0, <1>p, <2>1, GuardedStep DEF Tracked
  <1>4. ASSUME TurnsSlow(r) PROVE Tracked
    <2>1. ~slow[r]
      BY <1>4 DEF TurnsSlow, LateSound
    <2>2. Guarded(r, at[r], retrying[r], TRUE)
      BY <1>0, <1>4, <2>1 DEF TurnsSlow, tracks_provider_health, Guarded, Moves, OnNetwork
    <2> QED  BY <1>0, <2>2, GuardedStep DEF Tracked
  <1>5. ASSUME NEW p \in {"retry", "finish"}, NEW outcome, at[r] \in {"send", "body"}, AttemptEnds(r, p, outcome)
        PROVE  Tracked
    <2>1. /\ UNCHANGED <<low, retrying, active_retries>> /\ at' = [at EXCEPT ![r] = p]
          /\ lanes' = [lanes EXCEPT ![Lane(r)] = lanes[Lane(r)] + 1]
          /\ bodies' = IF at[r] = "body" THEN bodies + 1 ELSE bodies
          /\ slow' = [slow EXCEPT ![r] = FALSE]
          /\ slow_attempts' = IF slow[r] THEN slow_attempts - 1 ELSE slow_attempts
      BY <1>5 DEF AttemptEnds, OperationEnds
    <2>2. \A lane \in {"low", "regular"} :
              Moves(at[r] \in OnNetwork /\ lane = Lane(r), p \in OnNetwork /\ lane = Lane(r), lanes[lane], lanes'[lane], -1)
      BY <1>0, <1>5, <2>1 DEF Moves, OnNetwork
    <2>3. Moves(slow[r], FALSE, slow_attempts, slow_attempts', 1) /\ Moves(at[r] = "body", p = "body", bodies, bodies', -1)
      BY <1>0, <2>1, TypeCounters DEF Moves
    <2>4. retrying[r] => ~low[r] /\ p \in Fetching \ {"complete"}
      BY <1>0 DEF Fetching
    <2>5. Guarded(r, p, retrying[r], FALSE)
      BY <1>0, <2>1, <2>2, <2>3, <2>4 DEF Guarded, Moves
    <2> QED  BY <1>0, <1>p, <2>5, GuardedStep DEF Tracked
  <1>6. ASSUME Headers(r) PROVE Tracked
    <2>1. Guarded(r, "bodywait", retrying[r], FALSE)
      BY <1>0, <1>6 DEF Headers, OperationEnds, Guarded, Moves, OnNetwork, Fetching, Lane
    <2> QED  BY <1>0, <1>p, <2>1, GuardedStep DEF Tracked
  <1>7. ASSUME AcquireBody(r) PROVE Tracked
    <2>1. late[r] \in BOOLEAN /\ (late[r] => ~low[r]) /\ ~slow[r]
      BY <1>0, <1>7 DEF AcquireBody, LateSound, OnNetwork, TypeOK
    <2>2. Guarded(r, "body", retrying[r], late[r])
      BY <1>0, <1>7, <2>1 DEF AcquireBody, Guarded, Moves, OnNetwork, Fetching, Lane
    <2> QED  BY <1>0, <1>p, <2>1, <2>2, GuardedStep DEF Tracked
  <1>8. ASSUME Retry(r) PROVE Tracked
    <2>1. PICK p \in {"finish", "backoff"} : at' = [at EXCEPT ![r] = p]
      BY <1>8 DEF Retry
    <2>2. PICK rt \in BOOLEAN : retrying' = [retrying EXCEPT ![r] = rt] /\ (rt => ~low[r])
                                /\ Moves(retrying[r], rt, active_retries, active_retries', 1)
      <3>1. CASE tracks_provider_health(r) /\ ~retrying[r]
        <4>1. retrying' = [retrying EXCEPT ![r] = TRUE] /\ active_retries' = active_retries + 1
          BY <1>8, <3>1 DEF Retry
        <4> QED  BY <1>0, <3>1, <4>1 DEF Moves, tracks_provider_health
      <3>2. CASE ~(tracks_provider_health(r) /\ ~retrying[r])
        <4>1. retrying' = retrying /\ active_retries' = active_retries
          BY <1>8, <3>2 DEF Retry
        <4>2. retrying' = [retrying EXCEPT ![r] = retrying[r]]
          BY <1>0, <4>1
        <4> QED  BY <1>0, <3>2, <4>1, <4>2 DEF Moves
      <3> QED  BY <3>1, <3>2
    <2>3. Guarded(r, p, rt, slow[r])
      BY <1>0, <1>8, <2>1, <2>2 DEF Retry, Guarded, Moves, OnNetwork, Fetching, Lane
    <2> QED  BY <1>0, <1>p, <2>1, <2>3, GuardedStep DEF Tracked
  <1>9. ASSUME Finish(r) PROVE Tracked
    <2>1. Guarded(r, "complete", FALSE, slow[r])
      BY <1>0, <1>9 DEF Finish, SequenceEnds, Guarded, Moves, OnNetwork, Fetching, Lane
    <2> QED  BY <1>0, <1>p, <2>1, GuardedStep DEF Tracked
  <1>10. ASSUME Cancel(r) PROVE Tracked
    <2>1. CASE at[r] \in {"deferred", "wait"}
      <3>1. UNCHANGED <<lanes, bodies, health, slow, retrying, low>> /\ at' = [at EXCEPT ![r] = "idle"]
        BY <1>10, <2>1 DEF Cancel, health, OnNetwork
      <3> QED  BY <1>0, <2>1, <3>1, IdleGuards DEF Phases, Fetching, OnNetwork
    <2>2. CASE at[r] \in OnNetwork \cup {"acquire", "backoff"}
      <3>2. /\ low' = low /\ at' = [at EXCEPT ![r] = "abort"]
            /\ lanes' = IF at[r] \in OnNetwork THEN [lanes EXCEPT ![Lane(r)] = lanes[Lane(r)] + 1] ELSE lanes
            /\ bodies' = IF at[r] = "body" THEN bodies + 1 ELSE bodies
            /\ slow' = [slow EXCEPT ![r] = FALSE]
            /\ slow_attempts' = IF slow[r] THEN slow_attempts - 1 ELSE slow_attempts
            /\ retrying' = [retrying EXCEPT ![r] = FALSE]
            /\ active_retries' = IF retrying[r] THEN active_retries - 1 ELSE active_retries
        BY <1>10, <2>2 DEF Cancel, OperationEnds, SequenceEnds, OnNetwork
      <3>3. \A lane \in {"low", "regular"} :
                Moves(at[r] \in OnNetwork /\ lane = Lane(r), "abort" \in OnNetwork /\ lane = Lane(r),
                        lanes[lane], lanes'[lane], -1)
        BY <1>0, <3>2 DEF Moves, OnNetwork
      <3>4. /\ Moves(slow[r], FALSE, slow_attempts, slow_attempts', 1)
            /\ Moves(retrying[r], FALSE, active_retries, active_retries', 1)
            /\ Moves(at[r] = "body", "abort" = "body", bodies, bodies', -1)
        BY <1>0, <3>2, TypeCounters DEF Moves
      <3>1. Guarded(r, "abort", FALSE, FALSE)
        BY <1>0, <3>2, <3>3, <3>4 DEF Guarded
      <3> QED  BY <1>0, <1>p, <3>1, GuardedStep DEF Tracked
    <2> QED  BY <1>10, <2>1, <2>2 DEF Cancel
  <1>11. ASSUME Fails(r) \/ NotFound(r) \/ NotModified(r) \/ Rejects(r) \/ BodyEnds(r) PROVE Tracked
    BY <1>5, <1>11 DEF Fails, NotFound, NotModified, Rejects, BodyEnds
  <1> QED  BY <1>1, <1>2, <1>3, <1>4, <1>6, <1>7, <1>8, <1>9, <1>10, <1>11 DEF RequestStep

-----------------------------------------------------------------------------
(* Types, answers and the slow threshold.                                  *)

LEMMA LateStep ==
    ASSUME TypeOK, GuardsExact, LateSound, NEW r \in Requests,
           Start(r) \/ RequestStep(r) \/ TurnsSlow(r) \/ Cancel(r)
    PROVE  LateSound'
  <1> USE DEF Goto, Answer, requestVars, leaderVars, LateSound, OnNetwork
  <1>0. /\ at \in [Requests -> Phases] /\ low \in [Requests -> BOOLEAN] /\ late \in [Requests -> BOOLEAN]
        /\ slow \in [Requests -> BOOLEAN] /\ \A d \in Requests : slow[d] => at[d] \in {"send", "body"}
    BY DEF TypeOK, GuardsExact
  <1>1. ASSUME \/ Start(r) \/ DatabaseLookup(r) \/ Request(r) \/ DeferralEnds(r) \/ NegativeLook(r)
               \/ Join(r) \/ Wait(r) \/ Wake(r) \/ Resolve(r)
        PROVE  LateSound'
    BY <1>0, <1>1 DEF Start, DatabaseLookup, Request, DeferralEnds, NegativeLook, Join, Wait, Wake, Resolve
  <1>2. ASSUME Acquire(r) \/ TurnsSlow(r) PROVE LateSound'
    BY <1>0, <1>2 DEF Acquire, TurnsSlow, tracks_provider_health
  <1>3. ASSUME Headers(r) \/ AcquireBody(r) PROVE LateSound'
    BY <1>0, <1>3 DEF Headers, AcquireBody, OperationEnds
  <1>4. ASSUME Retry(r) \/ Backoff(r) \/ Finish(r) \/ Complete(r) \/ AbortNotify(r) PROVE LateSound'
    BY <1>0, <1>4 DEF Retry, Backoff, Finish, Complete, AbortNotify
  <1>5. ASSUME Completed(r) \/ remove_flight(r) PROVE LateSound'
    BY <1>0, <1>5 DEF Completed, remove_flight
  <1>6. ASSUME Fails(r) \/ NotFound(r) \/ NotModified(r) \/ Rejects(r) \/ BodyEnds(r) PROVE LateSound'
    BY <1>0, <1>6 DEF Fails, NotFound, NotModified, Rejects, BodyEnds, AttemptEnds, OperationEnds
  <1>7. ASSUME Cancel(r) PROVE LateSound'
    BY <1>0, <1>7 DEF Cancel, OperationEnds
  <1> QED  BY <1>1, <1>2, <1>3, <1>4, <1>5, <1>6, <1>7 DEF RequestStep

LEMMA ResponsesOK ==
    /\ RetryWindow \in Nat \ {0} /\ Empty \in Prior /\ Pending \in Responses /\ Aborted \in Responses
    /\ \A kind \in Kinds, p \in Prior, n \in 0..RetryWindow :
           /\ Response(kind, p, n) \in Responses
           /\ Response(kind, p, n).kind = kind /\ Response(kind, p, n).tries = n
  BY FileSourceAssumption DEF Empty, Prior, Pending, Aborted, Response, Responses, Kinds

\* Only r moves, and it carries an outcome wherever it needs one.
LEMMA AnswerStep ==
    ASSUME TypeOK, AnswersInv, NEW r \in Requests,
           \A d \in Requests \ {r} : at'[d] = at[d] /\ answer'[d] = answer[d] /\ tries'[d] = tries[d],
           \A f \in Flights : flight'[f] \in {flight[f], Pending, Aborted} \/ AnswerOK(flight'[f]),
           at'[r] \in {"done", "finish", "complete", "notify"} => AnswerOK(answer'[r]),
           at'[r] = "retry" => answer'[r] = Response("transient", Empty, tries'[r] + 1),
           at'[r] \in OnNetwork \cup {"acquire", "retry", "backoff"} => tries'[r] < RetryWindow,
           at'[r] = "backoff" => tries'[r] + 1 < RetryWindow
    PROVE  AnswersInv'
  <1>1. \A f \in Flights : flight'[f] \in {Pending, Aborted} \/ AnswerOK(flight'[f])
    BY DEF AnswersInv
  <1>2. \A d \in Requests : at'[d] \in {"done", "finish", "complete", "notify"} => AnswerOK(answer'[d])
    BY DEF AnswersInv
  <1>3. \A d \in Requests : at'[d] = "retry" => answer'[d] = Response("transient", Empty, tries'[d] + 1)
    BY DEF AnswersInv
  <1>4. \A d \in Requests : at'[d] \in OnNetwork \cup {"acquire", "retry", "backoff"} => tries'[d] < RetryWindow
    BY DEF AnswersInv
  <1>5. \A d \in Requests : at'[d] = "backoff" => tries'[d] + 1 < RetryWindow
    BY DEF AnswersInv
  <1> QED  BY <1>1, <1>2, <1>3, <1>4, <1>5 DEF AnswersInv, AnswerOK, Pending, Aborted, Response, Empty, OnNetwork,
                                              Responses, Kinds, Prior, Versions

LEMMA AnswersStep ==
    ASSUME TypeOK, FlightsInv, AnswersInv, NEW r \in Requests, Start(r) \/ RequestStep(r) \/ TurnsSlow(r) \/ Cancel(r)
    PROVE  AnswersInv'
  <1> USE DEF Goto, requestVars, leaderVars
  <1>0. /\ at \in [Requests -> Phases] /\ answer \in [Requests -> {NoVal} \cup Responses]
        /\ tries \in [Requests -> 0..RetryWindow] /\ used \in [Requests -> Prior] /\ flight \in [Flights -> Responses]
        /\ RetryWindow \in Nat \ {0}
    BY FileSourceAssumption DEF TypeOK
  <1>n. /\ \A kind \in {"notModified", "missing", "data", "rejected"}, p \in Prior : AnswerOK(Response(kind, p, 0))
        /\ AnswerOK(Response("transient", Empty, RetryWindow)) /\ Empty \in Prior
    BY ResponsesOK DEF AnswerOK, Kinds
  <1>1. ASSUME Start(r) \/ DatabaseLookup(r) \/ Request(r) \/ DeferralEnds(r) \/ NegativeLook(r) PROVE AnswersInv'
    <2>1. /\ flight' = flight /\ tries' = tries
          /\ \A d \in Requests \ {r} : at'[d] = at[d] /\ answer'[d] = answer[d]
          /\ at'[r] \in Outside /\ (at'[r] = "done" => AnswerOK(answer'[r]))
      BY <1>0, <1>n, <1>1 DEF Start, DatabaseLookup, Request, DeferralEnds, NegativeLook, Answer, Outside
    <2> QED  BY <2>1, AnswerStep DEF Outside, OnNetwork
  <1>2. ASSUME Wait(r) \/ Wake(r) \/ AbortNotify(r) \/ remove_flight(r) PROVE AnswersInv'
    <2>1. /\ flight' = flight /\ answer' = answer
          /\ \A d \in Requests \ {r} : at'[d] = at[d] /\ tries'[d] = tries[d]
          /\ at'[r] \in {"armed", "wait", "remove", "idle"}
      BY <1>0, <1>2 DEF Wait, Wake, AbortNotify, remove_flight
    <2> QED  BY <2>1, AnswerStep DEF OnNetwork
  <1>3. ASSUME Join(r) PROVE AnswersInv'
    <2>1. /\ answer' = answer /\ tries'[r] = 0 /\ at'[r] \in {"look", "acquire"}
          /\ \A d \in Requests \ {r} : at'[d] = at[d] /\ tries'[d] = tries[d]
          /\ \A f \in Flights : flight'[f] \in {flight[f], Pending}
      BY <1>0, <1>3 DEF Join
    <2> QED  BY <1>0, <2>1, AnswerStep DEF OnNetwork
  <1>4. ASSUME Resolve(r) PROVE AnswersInv'
    <2>1. holds[r] \in Flights
      BY <1>4 DEF Resolve, FlightsInv, RefsSound, Waiting
    <2>2. /\ flight' = flight /\ tries' = tries
          /\ \A d \in Requests \ {r} : at'[d] = at[d] /\ answer'[d] = answer[d]
          /\ at'[r] \in {"join", "done"} /\ (at'[r] = "done" => AnswerOK(answer'[r]))
      BY <1>0, <1>4, <2>1 DEF Resolve, Answer, AnswersInv
    <2> QED  BY <2>2, AnswerStep DEF OnNetwork
  <1>5. ASSUME Acquire(r) \/ TurnsSlow(r) \/ Headers(r) \/ AcquireBody(r) PROVE AnswersInv'
    <2>1. /\ flight' = flight /\ answer' = answer /\ tries' = tries
          /\ \A d \in Requests \ {r} : at'[d] = at[d]
          /\ at'[r] \in OnNetwork /\ tries[r] < RetryWindow
      BY <1>0, <1>5 DEF Acquire, TurnsSlow, Headers, AcquireBody, AnswersInv, OnNetwork
    <2> QED  BY <2>1, AnswerStep DEF OnNetwork
  <1>6. ASSUME Fails(r) PROVE AnswersInv'
    <2>1. /\ flight' = flight /\ tries' = tries /\ at'[r] = "retry"
          /\ answer'[r] = Response("transient", Empty, tries[r] + 1)
          /\ \A d \in Requests \ {r} : at'[d] = at[d] /\ answer'[d] = answer[d]
      BY <1>0, <1>6 DEF Fails, AttemptEnds
    <2>2. tries[r] < RetryWindow
      BY <1>6 DEF Fails, AnswersInv, OnNetwork
    <2> QED  BY <2>1, <2>2, AnswerStep
  <1>7. ASSUME NotFound(r) \/ NotModified(r) \/ Rejects(r) \/ BodyEnds(r) PROVE AnswersInv'
    <2>1. /\ flight' = flight /\ tries' = tries /\ at'[r] = "finish" /\ AnswerOK(answer'[r])
          /\ \A d \in Requests \ {r} : at'[d] = at[d] /\ answer'[d] = answer[d]
      BY <1>0, <1>n, <1>7 DEF NotFound, NotModified, Rejects, BodyEnds, AttemptEnds
    <2> QED  BY <2>1, AnswerStep DEF OnNetwork
  <1>8. ASSUME Retry(r) PROVE AnswersInv'
    <2>1. /\ at[r] = "retry" /\ answer[r] = Response("transient", Empty, tries[r] + 1) /\ tries[r] < RetryWindow
          /\ tries[r] \in Nat
      BY <1>0, <1>8 DEF Retry, AnswersInv
    <2>2. flight' = flight /\ tries' = tries /\ \A d \in Requests \ {r} : at'[d] = at[d] /\ answer'[d] = answer[d]
      BY <1>0, <1>8 DEF Retry
    <2>3. CASE tries[r] + 1 = RetryWindow
      <3>1. at'[r] = "finish" /\ answer'[r] = Response("transient", Empty, RetryWindow)
        BY <1>0, <1>8, <2>1, <2>3 DEF Retry
      <3> QED  BY <1>n, <2>2, <3>1, AnswerStep DEF OnNetwork
    <2>4. CASE tries[r] + 1 # RetryWindow
      <3>1. at'[r] = "backoff" /\ tries[r] + 1 < RetryWindow
        BY <1>0, <1>8, <2>1, <2>4 DEF Retry
      <3> QED  BY <2>1, <2>2, <3>1, AnswerStep DEF OnNetwork
    <2> QED  BY <2>3, <2>4
  <1>9. ASSUME Backoff(r) PROVE AnswersInv'
    <2>1. /\ flight' = flight /\ answer' = answer /\ at'[r] = "acquire" /\ tries'[r] < RetryWindow
          /\ \A d \in Requests \ {r} : at'[d] = at[d] /\ tries'[d] = tries[d]
      BY <1>0, <1>9 DEF Backoff, AnswersInv
    <2> QED  BY <2>1, AnswerStep DEF OnNetwork
  <1>10. ASSUME Finish(r) \/ Complete(r) \/ Completed(r) PROVE AnswersInv'
    <2>1. AnswerOK(answer[r])
      BY <1>10 DEF Finish, Complete, Completed, AnswersInv
    <2>2. /\ answer' = answer /\ at'[r] \in {"complete", "notify", "done"}
          /\ \A d \in Requests \ {r} : at'[d] = at[d] /\ tries'[d] = tries[d]
          /\ \A f \in Flights : flight'[f] \in {flight[f], answer[r]}
      BY <1>0, <1>10 DEF Finish, Complete, Completed
    <2>3. \A f \in Flights : flight'[f] \in {flight[f], Pending, Aborted} \/ AnswerOK(flight'[f])
      BY <2>1, <2>2
    <2> QED  BY <2>1, <2>2, <2>3, AnswerStep DEF OnNetwork
  <1>11. ASSUME Cancel(r) PROVE AnswersInv'
    <2>1. /\ answer' = answer /\ tries' = tries /\ at'[r] \in {"idle", "abort"}
          /\ \A d \in Requests \ {r} : at'[d] = at[d]
          /\ \A f \in Flights : flight'[f] \in {flight[f], Aborted}
      BY <1>0, <1>11 DEF Cancel
    <2> QED  BY <2>1, AnswerStep DEF OnNetwork
  <1> QED  BY <1>1, <1>2, <1>3, <1>4, <1>5, <1>6, <1>7, <1>8, <1>9, <1>10, <1>11 DEF RequestStep

LEMMA TypeStep ==
    ASSUME TypeOK, FlightsInv, AnswersInv, Tracked, NEW r \in Requests,
           Start(r) \/ RequestStep(r) \/ TurnsSlow(r) \/ Cancel(r)
    PROVE  TypeOK'
  <1> USE DEF Goto, Answer, HoldsNothing, requestVars, leaderVars, health
  <1>p. {"idle", "database", "asked", "deferred", "negative", "join", "done", "look", "armed", "wait", "abort",
         "remove", "notify", "acquire", "send", "bodywait", "body", "retry", "backoff", "finish", "complete"}
            \subseteq Phases
    BY DEF Phases, Waiting, Fetching, OnNetwork, Aborting
  <1>o. /\ \A kind \in {"notModified", "missing", "data", "rejected"}, p \in Prior : Response(kind, p, 0) \in Responses
        /\ \A n \in 0..RetryWindow : Response("transient", Empty, n) \in Responses
        /\ Empty \in Prior /\ Pending \in Responses /\ Aborted \in Responses
    BY ResponsesOK DEF Kinds
  <1>l. Lane(r) \in {"low", "regular"} /\ Key(r) \in Keys
    BY KeyOK DEF Lane
  <1>a. at \in [Requests -> Phases]
    BY DEF TypeOK
  <1>w. /\ woken \in [Requests -> BOOLEAN] /\ slow \in [Requests -> BOOLEAN] /\ retrying \in [Requests -> BOOLEAN]
        /\ late \in [Requests -> BOOLEAN] /\ low \in [Requests -> BOOLEAN]
    BY DEF TypeOK
  <1>s. answer \in [Requests -> {NoVal} \cup Responses]
    BY DEF TypeOK
  <1>h. /\ holds \in [Requests -> {NoVal} \cup Flights] /\ map \in [Flights -> {NoVal} \cup Keys]
        /\ flight \in [Flights -> Responses]
    BY DEF TypeOK
  <1>u. prior \in [Requests -> Prior] /\ used \in [Requests -> Prior]
    BY DEF TypeOK
  <1>n. /\ tries \in [Requests -> 0..RetryWindow] /\ RetryWindow \in Nat /\ MaxTurns \in Nat /\ turns \in 0..MaxTurns
        /\ lanes \in [{"low", "regular"} -> Nat] /\ bodies \in Nat
    BY FileSourceAssumption DEF TypeOK
  <1>c. active_retries' \in Nat /\ slow_attempts' \in Nat
    BY DEF Tracked
  <1>1. ASSUME Start(r) PROVE TypeOK'
    <2>1. turns' \in 0..MaxTurns
      BY <1>n, <1>1 DEF Start, Turn
    <2>2. at' \in [Requests -> Phases]
      BY <1>p, <1>a, <1>1 DEF Start
    <2>3. /\ prior' \in [Requests -> Prior] /\ low' \in [Requests -> BOOLEAN]
          /\ answer' \in [Requests -> {NoVal} \cup Responses]
      BY <1>o, <1>u, <1>w, <1>s, <1>1 DEF Start
    <2> QED  BY <1>1, <2>1, <2>2, <2>3 DEF Start, TypeOK
  <1>2. ASSUME DatabaseLookup(r) PROVE TypeOK'
    <2>1. prior' \in [Requests -> Prior] /\ low' \in [Requests -> BOOLEAN]
      <3>1. CASE may_consult_shared_cache(r) /\ cache # NoVal
        BY <1>u, <1>w, <1>2, <3>1, FileSourceAssumption DEF DatabaseLookup, Prior, Fresh, TypeOK
      <3>2. CASE ~(may_consult_shared_cache(r) /\ cache # NoVal)
        BY <1>o, <1>u, <1>w, <1>2, <3>2 DEF DatabaseLookup
      <3> QED  BY <3>1, <3>2
    <2>2. at' \in [Requests -> Phases]
      BY <1>p, <1>a, <1>2 DEF DatabaseLookup
    <2> QED  BY <1>2, <2>1, <2>2 DEF DatabaseLookup, TypeOK
  <1>3. ASSUME Request(r) \/ DeferralEnds(r) \/ NegativeLook(r) PROVE TypeOK'
    <2>1. at' \in [Requests -> Phases]
      BY <1>p, <1>a, <1>3 DEF Request, DeferralEnds, NegativeLook
    <2>2. answer' \in [Requests -> {NoVal} \cup Responses]
      BY <1>o, <1>s, <1>3 DEF Request, DeferralEnds, NegativeLook
    <2> QED  BY <1>3, <2>1, <2>2 DEF Request, DeferralEnds, NegativeLook, TypeOK
  <1>4. ASSUME Join(r) PROVE TypeOK'
    <2>1. PICK f \in Flights : /\ holds' = [holds EXCEPT ![r] = f]
                               /\ map' = map \/ map' = [map EXCEPT ![f] = Key(r)]
                               /\ flight' = flight \/ flight' = [flight EXCEPT ![f] = Pending]
      BY <1>4, FreeFlight DEF Join
    <2>2. /\ holds' \in [Requests -> {NoVal} \cup Flights] /\ map' \in [Flights -> {NoVal} \cup Keys]
          /\ flight' \in [Flights -> Responses]
      BY <1>o, <1>l, <1>h, <2>1
    <2>3. at' \in [Requests -> Phases]
      BY <1>p, <1>a, <1>4 DEF Join
    <2>4. tries' \in [Requests -> 0..RetryWindow]
      BY <1>n, <1>4 DEF Join
    <2> QED  BY <1>4, <2>2, <2>3, <2>4 DEF Join, TypeOK
  <1>5. ASSUME Wait(r) \/ Wake(r) PROVE TypeOK'
    <2>1. at' \in [Requests -> Phases]
      BY <1>p, <1>a, <1>5 DEF Wait, Wake
    <2>2. woken' \in [Requests -> BOOLEAN]
      BY <1>w, <1>5 DEF Wait, Wake
    <2> QED  BY <1>5, <2>1, <2>2 DEF Wait, Wake, TypeOK
  <1>6. ASSUME Resolve(r) PROVE TypeOK'
    <2>1. flight[holds[r]] \in Responses
      BY <1>h, <1>6 DEF Resolve, FlightsInv, RefsSound, Waiting
    <2>2. at' \in [Requests -> Phases]
      BY <1>p, <1>a, <1>6 DEF Resolve
    <2>3. answer' \in [Requests -> {NoVal} \cup Responses] /\ holds' \in [Requests -> {NoVal} \cup Flights]
      BY <1>s, <1>h, <1>6, <2>1 DEF Resolve
    <2>4. woken' \in [Requests -> BOOLEAN]
      BY <1>w, <1>6 DEF Resolve
    <2> QED  BY <1>6, <2>2, <2>3, <2>4 DEF Resolve, TypeOK
  <1>7. ASSUME Acquire(r) PROVE TypeOK'
    <2>1. used' \in [Requests -> Prior]
      <3>1. CASE may_consult_shared_cache(r) /\ cache # NoVal
        <4>1. cache.body \in Versions /\ cache.etag \in Versions /\ prior[r] \in Prior /\ NoVal \notin Versions
          BY <1>u, <3>1, FileSourceAssumption DEF TypeOK
        <4> QED  BY <1>u, <1>7, <3>1, <4>1 DEF Acquire, Prior
      <3>2. CASE ~(may_consult_shared_cache(r) /\ cache # NoVal)
        BY <1>u, <1>7, <3>2 DEF Acquire, Prior
      <3> QED  BY <3>1, <3>2
    <2>2. lanes' \in [{"low", "regular"} -> Nat]
      BY <1>l, <1>n, <1>7 DEF Acquire
    <2>3. at' \in [Requests -> Phases]
      BY <1>p, <1>a, <1>7 DEF Acquire
    <2>4. late' \in [Requests -> BOOLEAN]
      BY <1>w, <1>7 DEF Acquire
    <2> QED  BY <1>7, <2>1, <2>2, <2>3, <2>4 DEF Acquire, TypeOK
  <1>8. ASSUME TurnsSlow(r) PROVE TypeOK'
    <2>1. late' \in [Requests -> BOOLEAN] /\ slow' \in [Requests -> BOOLEAN]
      BY <1>w, <1>8 DEF TurnsSlow
    <2> QED  BY <1>c, <1>8, <2>1 DEF TurnsSlow, TypeOK
  <1>9. ASSUME NEW p \in {"retry", "finish"}, NEW outcome \in Responses, AttemptEnds(r, p, outcome),
               negative' \in BOOLEAN
        PROVE  TypeOK'
    <2>1. lanes' \in [{"low", "regular"} -> Nat]
      BY <1>l, <1>n, <1>9 DEF AttemptEnds
    <2>2. bodies' \in Nat
      BY <1>n, <1>9 DEF AttemptEnds
    <2>3. at' \in [Requests -> Phases] /\ answer' \in [Requests -> {NoVal} \cup Responses]
      BY <1>p, <1>a, <1>s, <1>9 DEF AttemptEnds
    <2>4. slow' \in [Requests -> BOOLEAN]
      BY <1>w, <1>9 DEF AttemptEnds, OperationEnds
    <2> QED  BY <1>c, <1>9, <2>1, <2>2, <2>3, <2>4 DEF AttemptEnds, TypeOK
  <1>10. ASSUME Fails(r) PROVE TypeOK'
    <2>1. tries[r] + 1 \in 0..RetryWindow
      BY <1>n, <1>10 DEF Fails, AnswersInv, OnNetwork
    <2> QED  BY <1>o, <1>9, <1>10, <2>1 DEF Fails, TypeOK
  <1>11. ASSUME NotFound(r) \/ NotModified(r) \/ Rejects(r) \/ BodyEnds(r) PROVE TypeOK'
    <2>1. negative' \in BOOLEAN
      BY <1>11 DEF NotFound, NotModified, Rejects, BodyEnds, uses_shared_cache, TypeOK
    <2>2. \E outcome \in Responses : AttemptEnds(r, "finish", outcome)
      BY <1>o, <1>u, <1>11 DEF NotFound, NotModified, Rejects, BodyEnds
    <2> QED  BY <1>9, <2>1, <2>2
  <1>12. ASSUME Headers(r) PROVE TypeOK'
    <2>1. used' \in [Requests -> Prior]
      BY <1>u, <1>12, FileSourceAssumption DEF Headers, Prior, Gone, TypeOK
    <2>2. at' \in [Requests -> Phases]
      BY <1>p, <1>a, <1>12 DEF Headers
    <2>3. slow' \in [Requests -> BOOLEAN]
      BY <1>w, <1>12 DEF Headers, OperationEnds
    <2> QED  BY <1>c, <1>12, <2>1, <2>2, <2>3 DEF Headers, TypeOK
  <1>13. ASSUME AcquireBody(r) PROVE TypeOK'
    <2>1. at' \in [Requests -> Phases]
      BY <1>p, <1>a, <1>13 DEF AcquireBody
    <2>2. slow' \in [Requests -> BOOLEAN]
      BY <1>w, <1>13 DEF AcquireBody
    <2>3. bodies' \in Nat
      BY <1>n, <1>13 DEF AcquireBody
    <2> QED  BY <1>c, <1>13, <2>1, <2>2, <2>3 DEF AcquireBody, TypeOK
  <1>14. ASSUME Retry(r) PROVE TypeOK'
    <2>1. retrying' \in [Requests -> BOOLEAN]
      BY <1>w, <1>14 DEF Retry
    <2>2. at' \in [Requests -> Phases]
      BY <1>p, <1>a, <1>14 DEF Retry
    <2>3. answer' \in [Requests -> {NoVal} \cup Responses]
      BY <1>s, <1>14 DEF Retry
    <2> QED  BY <1>c, <1>14, <2>1, <2>2, <2>3 DEF Retry, TypeOK
  <1>15. ASSUME Backoff(r) PROVE TypeOK'
    <2>1. tries' \in [Requests -> 0..RetryWindow]
      BY <1>n, <1>15 DEF Backoff, AnswersInv
    <2>2. at' \in [Requests -> Phases]
      BY <1>p, <1>a, <1>15 DEF Backoff
    <2> QED  BY <1>15, <2>1, <2>2 DEF Backoff, TypeOK
  <1>16. ASSUME Finish(r) PROVE TypeOK'
    <2>1. answer[r] \in Responses
      BY <1>16 DEF Finish, AnswersInv, AnswerOK
    <2>2. answer[r].prior \in Prior
      BY <2>1 DEF Responses
    <2>3. answer[r].prior.body # NoVal => answer[r].prior.body \in Versions /\ answer[r].prior.etag \in Versions
      BY <2>2 DEF Prior
    <2>4. cache' \in {NoVal} \cup [body: Versions, etag: Versions, fresh: BOOLEAN]
      BY <1>16, <2>3 DEF Finish, TypeOK
    <2>5. retrying' \in [Requests -> BOOLEAN]
      BY <1>w, <1>16 DEF Finish, SequenceEnds
    <2>6. at' \in [Requests -> Phases]
      BY <1>p, <1>a, <1>16 DEF Finish
    <2> QED  BY <1>c, <1>16, <2>4, <2>5, <2>6 DEF Finish, TypeOK
  <1>17. ASSUME Complete(r) PROVE TypeOK'
    <2>1. answer[r] \in Responses
      BY <1>17 DEF Complete, AnswersInv, AnswerOK
    <2>2. flight' \in [Flights -> Responses]
      BY <1>h, <1>17, <2>1 DEF Complete
    <2>3. at' \in [Requests -> Phases]
      BY <1>p, <1>a, <1>17 DEF Complete
    <2> QED  BY <1>17, <2>2, <2>3 DEF Complete, TypeOK
  <1>18. ASSUME Completed(r) \/ remove_flight(r) \/ AbortNotify(r) PROVE TypeOK'
    <2>1. at' \in [Requests -> Phases]
      BY <1>p, <1>a, <1>18 DEF Completed, remove_flight, AbortNotify
    <2>2. holds' \in [Requests -> {NoVal} \cup Flights] /\ map' \in [Flights -> {NoVal} \cup Keys]
      BY <1>h, <1>18 DEF Completed, remove_flight, AbortNotify
    <2>3. woken' \in [Requests -> BOOLEAN]
      <3>1. CASE UNCHANGED woken
        BY <1>w, <3>1
      <3>2. CASE notify_waiters(holds[r])
        BY <1>w, <3>2 DEF notify_waiters
      <3> QED  BY <1>18, <3>1, <3>2 DEF Completed, remove_flight, AbortNotify
    <2>4. used' \in [Requests -> Prior] /\ late' \in [Requests -> BOOLEAN]
      BY <1>o, <1>u, <1>w, <1>18 DEF Completed, remove_flight, AbortNotify
    <2>5. tries' \in [Requests -> 0..RetryWindow]
      BY <1>n, <1>18 DEF Completed, remove_flight, AbortNotify
    <2> QED  BY <1>18, <2>1, <2>2, <2>3, <2>4, <2>5 DEF Completed, remove_flight, AbortNotify, TypeOK
  <1>19. ASSUME Cancel(r) PROVE TypeOK'
    <2>1. turns' \in 0..MaxTurns
      BY <1>n, <1>19 DEF Cancel, Turn
    <2>2. bodies' \in Nat
      BY <1>n, <1>19 DEF Cancel
    <2>3. lanes' \in [{"low", "regular"} -> Nat]
      BY <1>l, <1>n, <1>19 DEF Cancel
    <2>4. at' \in [Requests -> Phases]
      BY <1>p, <1>a, <1>19 DEF Cancel
    <2>5. holds' \in [Requests -> {NoVal} \cup Flights] /\ flight' \in [Flights -> Responses]
      BY <1>h, <1>o, <1>19 DEF Cancel
    <2>6. woken' \in [Requests -> BOOLEAN]
      BY <1>w, <1>19 DEF Cancel
    <2>7. slow' \in [Requests -> BOOLEAN] /\ retrying' \in [Requests -> BOOLEAN]
      BY <1>w, <1>19 DEF Cancel, OperationEnds, SequenceEnds
    <2> QED  BY <1>c, <1>19, <2>1, <2>2, <2>3, <2>4, <2>5, <2>6, <2>7 DEF Cancel, TypeOK
  <1> QED  BY <1>1, <1>2, <1>3, <1>4, <1>5, <1>6, <1>7, <1>8, <1>10, <1>11, <1>12, <1>13, <1>14, <1>15, <1>16,
              <1>17, <1>18, <1>19 DEF RequestStep

-----------------------------------------------------------------------------
(* The invariant.                                                          *)

LEMMA FileInit == ASSUME Init PROVE FileInv
  <1> USE DEF Init
  <1>1. TypeOK
    <2>1. /\ provider \in {Gone} \cup Versions /\ turns \in 0..MaxTurns
          /\ lanes \in [{"low", "regular"} -> Nat] /\ bodies \in Nat
          /\ tries \in [Requests -> 0..RetryWindow]
      BY FileSourceAssumption DEF Versions
    <2>2. /\ flight \in [Flights -> Responses] /\ prior \in [Requests -> Prior] /\ used \in [Requests -> Prior]
      BY ResponsesOK
    <2>3. at \in [Requests -> Phases]
      BY DEF Phases
    <2> QED  BY <2>1, <2>2, <2>3 DEF TypeOK
  <1>2. FlightsInv
    BY DEF FlightsInv, RefsSound, LeadersSound, FlightStates, MapLed, KeysDistinct, PendingLed, ParkedWoken,
           Leading, Fetching, Aborting, OnNetwork, Waiting
  <1>3. AnswersInv /\ LateSound
    BY DEF AnswersInv, LateSound, OnNetwork
  <1>4. GuardsExact
    <2>1. /\ \A lane \in {"low", "regular"} : {r \in Requests : at[r] \in OnNetwork /\ Lane(r) = lane} = {}
          /\ {r \in Requests : at[r] = "body"} = {} /\ {r \in Requests : retrying[r]} = {}
          /\ {r \in Requests : slow[r]} = {}
      BY DEF OnNetwork
    <2>2. Cardinality({}) = 0 /\ LowPermits \in Nat /\ RegularPermits \in Nat /\ BodyPermits \in Nat
      BY FileSourceAssumption, FS_EmptySet
    <2>3. lanes["low"] = LowPermits /\ lanes["regular"] = RegularPermits /\ "low" # "regular"
      OBVIOUS
    <2>4. \A lane \in {"low", "regular"} :
              lanes[lane] + Cardinality({r \in Requests : at[r] \in OnNetwork /\ Lane(r) = lane})
                  = (IF lane = "low" THEN LowPermits ELSE RegularPermits)
      <3>1. \A lane \in {"low", "regular"} :
                Cardinality({r \in Requests : at[r] \in OnNetwork /\ Lane(r) = lane}) = 0
        BY <2>1, <2>2
      <3>2. \A lane \in {"low", "regular"} : lanes[lane] + 0 = (IF lane = "low" THEN LowPermits ELSE RegularPermits)
        BY <2>2, <2>3
      <3> QED  BY <3>1, <3>2
    <2>5. bodies + Cardinality({r \in Requests : at[r] = "body"}) = BodyPermits
      <3>1. Cardinality({r \in Requests : at[r] = "body"}) = 0
        BY <2>1, <2>2, Zenon
      <3>2. bodies = BodyPermits /\ BodyPermits \in Nat
        BY <2>2
      <3> QED  BY <3>1, <3>2
    <2>6. active_retries = Cardinality({r \in Requests : retrying[r]}) /\ slow_attempts = Cardinality({r \in Requests : slow[r]})
      <3>1. active_retries = 0 /\ slow_attempts = 0
        OBVIOUS
      <3>2. {r \in Requests : retrying[r]} = {} /\ {r \in Requests : slow[r]} = {}
        BY <2>1
      <3> HIDE DEF Init
      <3> QED  BY <2>2, <3>1, <3>2, Zenon
    <2>7. \A r \in Requests : ~retrying[r] /\ ~slow[r]
      OBVIOUS
    <2> QED  BY <2>4, <2>5, <2>6, <2>7 DEF GuardsExact
  <1> QED  BY <1>1, <1>2, <1>3, <1>4 DEF FileInv

LEMMA FileNext == ASSUME FileInv, [Next]_vars PROVE FileInv'
  <1>1. ASSUME NEW r \in Requests, Start(r) \/ RequestStep(r) \/ TurnsSlow(r) \/ Cancel(r) PROVE FileInv'
    <2>1. Tracked
      BY <1>1, GuardsStep DEF FileInv
    <2>2. TypeOK'
      BY <1>1, <2>1, TypeStep DEF FileInv
    <2>3. FlightsInv'
      BY <1>1, FlightsStep DEF FileInv
    <2>4. AnswersInv'
      BY <1>1, AnswersStep DEF FileInv
    <2>5. LateSound'
      BY <1>1, LateStep DEF FileInv
    <2> QED  BY <2>1, <2>2, <2>3, <2>4, <2>5 DEF FileInv, Tracked
  <1>2. ASSUME UNCHANGED <<lanes, bodies, health, map, flight, at, requestVars, holds, woken, leaderVars, answer>>,
               TypeOK'
        PROVE  FileInv'
    <2>1. FlightsInv'
      BY <1>2 DEF FileInv, FlightsInv, RefsSound, LeadersSound, FlightStates, MapLed, KeysDistinct, PendingLed,
                  ParkedWoken, Key, Lane, requestVars, Pending, Aborted
    <2>2. AnswersInv' /\ LateSound'
      BY <1>2 DEF FileInv, AnswersInv, LateSound, leaderVars, requestVars, AnswerOK, Pending, Aborted
    <2>3. GuardsExact'
      BY <1>2 DEF FileInv, GuardsExact, Lane, leaderVars, requestVars, health
    <2> QED  BY <1>2, <2>1, <2>2, <2>3 DEF FileInv
  <1>3. CASE ProviderChanges
    <2>1. turns' \in 0..MaxTurns /\ provider' \in {Gone} \cup Versions
      BY <1>3, FileSourceAssumption DEF ProviderChanges, Turn, Versions, FileInv, TypeOK
    <2>2. TypeOK'
      BY <1>3, <2>1 DEF ProviderChanges, FileInv, TypeOK, health, requestVars, leaderVars
    <2> QED  BY <1>2, <1>3, <2>2 DEF ProviderChanges
  <1>4. CASE CacheAges
    <2>1. turns' \in 0..MaxTurns
      BY <1>4, FileSourceAssumption DEF CacheAges, Turn, FileInv, TypeOK
    <2>2. cache' \in {NoVal} \cup [body: Versions, etag: Versions, fresh: BOOLEAN] /\ negative' \in BOOLEAN
      BY <1>4 DEF CacheAges, FileInv, TypeOK
    <2>3. TypeOK'
      BY <1>4, <2>1, <2>2 DEF CacheAges, FileInv, TypeOK, health, requestVars, leaderVars
    <2> QED  BY <1>2, <1>4, <2>3 DEF CacheAges
  <1>5. CASE UNCHANGED vars
    <2>1. TypeOK'
      BY <1>5 DEF vars, FileInv, TypeOK, health, requestVars, leaderVars
    <2> QED  BY <1>2, <1>5, <2>1 DEF vars
  <1> QED  BY <1>1, <1>3, <1>4, <1>5 DEF Next

\* The type invariant of the file source.
THEOREM FileTypeCorrect == Spec => []TypeOK
  <1>1. FileInv => TypeOK
    BY DEF FileInv
  <1> QED  BY <1>1, FileInit, FileNext, PTL DEF Spec

\* For any number of requests: what the flight map holds is being fetched or
\* aborted by one leader, a request that waits for a pending flight has that
\* leader, and a parked request whose flight has ended is woken or about to be,
\* however leaders complete, fail or are dropped (fetch_coalesced).
THEOREM NobodyIsStranded == Spec => []NobodyStranded
  <1>1. FileInv => NobodyStranded
    BY StrandedNobody DEF FileInv
  <1> QED  BY <1>1, FileInit, FileNext, PTL DEF Spec

\* For any number of requests and permits: the permits left and the permits held
\* add up, and the evidence of a bad provider is there exactly as long as a
\* render-blocking request retries or is slow (the guards of fetch_with_retries).
THEOREM GuardsStayExact == Spec => []GuardsExact
  <1>1. FileInv => GuardsExact
    BY DEF FileInv
  <1> QED  BY <1>1, FileInit, FileNext, PTL DEF Spec

\* For any retry window: a request, leader or follower, is answered with a
\* transient failure only after the whole window (RETRY_WINDOW, Flight::wait).
THEOREM ErrorsArePatient == Spec => []PatientErrors
  <1>1. FileInv => PatientErrors
    BY DEF FileInv, AnswersInv, AnswerOK, PatientErrors
  <1> QED  BY <1>1, FileInit, FileNext, PTL DEF Spec

===============================================================================
