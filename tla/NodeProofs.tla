------------------------------ MODULE NodeProofs ------------------------------
(***************************************************************************)
(* Proofs about a node of biei.  As a process (NodeLifecycle), for any     *)
(* number of requests and permits: the drain counts exactly, ends neither  *)
(* early nor late, and the workers are closed under a running render only  *)
(* where the shutdown gave up on it.  As a member of a cluster             *)
(* (Forwarding), for any number of nodes, requests and candidates: a       *)
(* request is not rendered twice unless an answer was lost.                *)
(***************************************************************************)
EXTENDS NodeLifecycle, Forwarding, FiniteSetTheorems, SequenceTheorems, TLAPS

-----------------------------------------------------------------------------
(* NodeLifecycle.                                                          *)

(* The inductive invariant.                                                *)

\* The requests between their count and the end of it.
Live == {r \in HttpRequests : progress[r] \in Counted}

CountExact == in_flight = Cardinality(Live)

AfterStop == {"first_look", "register", "look", "parked", "finished"}

\* From its read-modify-write on, the coordinator's store of the flag is visible.
FlagDown ==
    /\ coordinator \in {"notify", "publish", "stop"} => storing \/ ~accepting
    /\ coordinator \in AfterStop => ~accepting

\* The coordinator has an outcome exactly when it has finished.
OutcomeExact == drained # "unknown" <=> coordinator = "finished"

\* Main closes the workers only after the coordinator.
CoordinatorFirst ==
    main \in {"workers", "membership", "exited"} => coordinator \in {"finished", "aborted"}

LifecycleInv ==
    /\ LifecycleTypeOK /\ CountExact /\ FlagDown /\ OutcomeExact /\ CoordinatorFirst
    /\ IdleIsFinal /\ DrainNotStranded

-----------------------------------------------------------------------------
(* Counting.                                                               *)

\* Some of the requests: at most as many as there are, and none exactly when their number is zero.
LEMMA SomeRequests ==
    ASSUME NEW S, S \subseteq HttpRequests
    PROVE  /\ IsFiniteSet(S) /\ Cardinality(S) \in Nat
           /\ Cardinality(S) \in 0..Cardinality(HttpRequests)
           /\ Cardinality(S) = 0 <=> S = {}
  <1>1. /\ IsFiniteSet(S) /\ Cardinality(S) \in Nat /\ Cardinality(HttpRequests) \in Nat
        /\ Cardinality(S) <= Cardinality(HttpRequests)
    BY LifecycleAssumption, FS_Subset, FS_CardinalityType
  <1> QED  BY <1>1, FS_EmptySet

\* A request that is counted.
LEMMA LiveGrows ==
    ASSUME LifecycleTypeOK, CountExact, NEW r \in HttpRequests, progress[r] \notin Counted, Move(r, "counted"),
           in_flight' = in_flight + 1
    PROVE  CountExact'
  <1>1. Live' = Live \cup {r} /\ r \notin Live
    BY DEF Live, Move, LifecycleTypeOK, Counted
  <1>2. Cardinality(Live') = Cardinality(Live) + 1
    BY <1>1, SomeRequests, FS_AddElement DEF Live
  <1> QED  BY <1>2 DEF CountExact

\* A request that is not counted any more.
LEMMA LiveShrinks ==
    ASSUME LifecycleTypeOK, CountExact, NEW r \in HttpRequests, progress[r] \in Counted, NEW to, to \notin Counted,
           Move(r, to), in_flight' = in_flight - 1
    PROVE  CountExact' /\ in_flight > 0
  <1>1. Live' = Live \ {r} /\ r \in Live
    BY DEF Live, Move, LifecycleTypeOK, Counted
  <1>2. Cardinality(Live') = Cardinality(Live) - 1
    BY <1>1, SomeRequests, FS_RemoveElement DEF Live
  <1>3. in_flight > 0
    <2>1. Live # {} /\ Live \subseteq HttpRequests
      BY <1>1 DEF Live
    <2>2. Cardinality(Live) \in Nat /\ Cardinality(Live) # 0
      BY <2>1, SomeRequests
    <2> QED  BY <2>2 DEF CountExact
  <1> QED  BY <1>2, <1>3 DEF CountExact

\* A request that is counted before and after, or neither.
LEMMA LiveKept ==
    ASSUME CountExact, \A r \in HttpRequests : progress'[r] \in Counted <=> progress[r] \in Counted,
           UNCHANGED in_flight
    PROVE  CountExact'
  <1>1. Live' = Live
    BY DEF Live
  <1> QED  BY <1>1 DEF CountExact

-----------------------------------------------------------------------------
(* Requests.                                                               *)

\* The places a request can be at.
Places == {"idle", "admitted", "checked", "counted", "backing_out", "running", "leaving", "done"}

\* One step of one request.
LEMMA RequestPreserves ==
    ASSUME LifecycleInv, NEW r \in HttpRequests, AdmitRequest(r) \/ RequestStep(r) \/ Disconnect(r)
    PROVE  LifecycleInv'
  <1>0. in_flight \in Nat
    BY SomeRequests DEF LifecycleInv, CountExact, Live
  <1>1. UNCHANGED <<coordinator, drained, deadline, stop_http, http, main, accepting, storing>>
    BY DEF AdmitRequest, RequestStep, FirstCheck, Count, SecondCheck, FinishRender, NotifyWaiters, Disconnect,
           OnlyRequests, drainVars, signalVars
  <1>2. FlagDown' /\ OutcomeExact' /\ CoordinatorFirst'
    BY <1>1 DEF LifecycleInv, FlagDown, OutcomeExact, CoordinatorFirst
  <1>3. LifecycleTypeOK /\ progress \in [HttpRequests -> Places]
    BY DEF LifecycleInv, LifecycleTypeOK, Places
  <1>4. client' \in [HttpRequests -> BOOLEAN]
    BY <1>3 DEF LifecycleTypeOK, AdmitRequest, RequestStep, FirstCheck, Count, SecondCheck, FinishRender, NotifyWaiters,
                Disconnect
  <1>5. notified' \in BOOLEAN
    BY <1>3 DEF LifecycleTypeOK, AdmitRequest, RequestStep, FirstCheck, Count, SecondCheck, FinishRender, NotifyWaiters,
                Disconnect, drainVars
  <1>6. /\ progress' \in [HttpRequests -> Places]
        /\ \A q \in HttpRequests \ {r} : progress'[q] = progress[q]
    BY <1>3 DEF AdmitRequest, RequestStep, FirstCheck, Count, SecondCheck, FinishRender, NotifyWaiters,
                Disconnect, Move, Places
  <1>7. /\ CountExact'
        /\ progress'[r] = "running" => progress[r] = "running" \/ accepting
        /\ DrainNotStranded'
    <2>1. CASE AdmitRequest(r) \/ FirstCheck(r)
      <3>1. progress[r] \in {"idle", "admitted"} /\ progress'[r] \in {"admitted", "checked", "done"}
            /\ UNCHANGED <<in_flight, notified>>
        BY <2>1, <1>3 DEF AdmitRequest, FirstCheck, Move, drainVars
      <3>2. CountExact'
        BY <1>6, <3>1, LiveKept DEF LifecycleInv, Counted
      <3> QED  BY <1>1, <1>6, <3>1, <3>2 DEF LifecycleInv, DrainNotStranded
    <2>2. CASE Count(r)
      <3>1. CountExact'
        BY <2>2, LiveGrows DEF Count, LifecycleInv, Counted
      <3>2. in_flight' > 0 /\ progress'[r] = "counted"
        BY <1>0, <1>3, <2>2 DEF Count, Move
      <3> QED  BY <3>1, <3>2 DEF DrainNotStranded
    <2>3. CASE SecondCheck(r) /\ accepting
      <3>1. progress[r] = "counted" /\ progress'[r] = "running" /\ UNCHANGED <<in_flight, notified>>
        BY <1>3, <2>3 DEF SecondCheck, Move
      <3>2. CountExact'
        BY <1>6, <3>1, LiveKept DEF LifecycleInv, Counted
      <3> QED  BY <1>1, <1>6, <2>3, <3>1, <3>2 DEF LifecycleInv, DrainNotStranded
    <2>4. CASE (SecondCheck(r) /\ ~accepting) \/ FinishRender(r)
      <3>1. PICK to \in {"backing_out", "leaving", "done"} :
                /\ Move(r, to) /\ in_flight' = in_flight - 1 /\ progress[r] \in Counted
                /\ in_flight = 1 => to # "done"
                /\ UNCHANGED notified
        BY <2>4 DEF SecondCheck, FinishRender, Counted
      <3>2. CountExact' /\ in_flight > 0
        BY <1>3, <3>1, LiveShrinks DEF LifecycleInv, Counted
      <3>3. progress'[r] = to
        BY <1>3, <3>1 DEF Move
      <3>4. in_flight' > 0 \/ progress'[r] \in {"leaving", "backing_out"}
        BY <1>0, <3>1, <3>2, <3>3
      <3> QED  BY <3>1, <3>2, <3>3, <3>4 DEF DrainNotStranded
    <2>5. CASE NotifyWaiters(r)
      <3>1. progress[r] \in {"backing_out", "leaving"} /\ progress'[r] = "done" /\ UNCHANGED in_flight
        BY <1>3, <2>5 DEF NotifyWaiters, Move
      <3>2. CountExact'
        BY <1>6, <3>1, LiveKept DEF LifecycleInv, Counted
      <3>3. DrainNotStranded'
        BY <1>1, <2>5 DEF NotifyWaiters, DrainNotStranded
      <3> QED  BY <3>1, <3>2, <3>3
    <2>6. CASE Disconnect(r)
      <3>1. /\ progress'[r] = progress[r] \/ (progress[r] = "admitted" /\ progress'[r] = "done")
            /\ UNCHANGED <<in_flight, notified>>
        BY <1>3, <2>6 DEF Disconnect, drainVars
      <3>2. CountExact'
        BY <1>6, <3>1, LiveKept DEF LifecycleInv, Counted
      <3> QED  BY <1>1, <1>6, <3>1, <3>2 DEF LifecycleInv, DrainNotStranded
    <2> QED  BY <2>1, <2>2, <2>3, <2>4, <2>5, <2>6 DEF RequestStep
  <1>8. IdleIsFinal'
    BY <1>1, <1>6, <1>7 DEF LifecycleInv, IdleIsFinal, OutcomeExact, FlagDown, AfterStop
  <1>9. LifecycleTypeOK'
    <2>1. in_flight' \in 0..Cardinality(HttpRequests)
      BY <1>7, SomeRequests DEF CountExact, Live
    <2>2. /\ accepting' \in BOOLEAN /\ storing' \in BOOLEAN /\ stop_http' \in BOOLEAN
      BY <1>1, <1>3 DEF LifecycleTypeOK
    <2>3. /\ coordinator' = coordinator /\ drained' = drained /\ deadline' = deadline
          /\ http' = http /\ main' = main
      BY <1>1
    <2> QED  BY <1>3, <1>4, <1>5, <1>6, <2>1, <2>2, <2>3 DEF LifecycleTypeOK, Places
  <1> QED  BY <1>2, <1>7, <1>8, <1>9 DEF LifecycleInv

-----------------------------------------------------------------------------
(* The coordinator, the listeners and the main task.                       *)

\* A step that leaves requests and their count alone keeps the count and its type.
LEMMA RequestsUntouched ==
    ASSUME LifecycleInv, UNCHANGED <<progress, in_flight>>
    PROVE  /\ CountExact' /\ in_flight' \in 0..Cardinality(HttpRequests) /\ in_flight \in Nat
           /\ in_flight = 0 => \A r \in HttpRequests : progress[r] \notin Counted
  <1>1. CountExact /\ CountExact' /\ Live \subseteq HttpRequests
    BY LiveKept DEF LifecycleInv, Live
  <1>2. /\ Cardinality(Live) \in Nat /\ Cardinality(Live) \in 0..Cardinality(HttpRequests)
        /\ Cardinality(Live) = 0 <=> Live = {}
    BY <1>1, SomeRequests
  <1> QED  BY <1>1, <1>2 DEF CountExact, Live

\* One step of the shutdown coordinator, or of the memory its store goes through.
LEMMA CoordinatorPreserves ==
    ASSUME LifecycleInv, Signal \/ CoordinatorStep \/ StoreVisible \/ DrainGraceElapses
    PROVE  LifecycleInv'
  <1>1. UNCHANGED <<progress, client, http, main, in_flight>>
    BY DEF Signal, CoordinatorStep, BeginDraining, NotifyNobody, Published, StopHttp, LookBeforeWaiting, Register,
           Look, Woken, StoreVisible, DrainGraceElapses, OnlyCoordinator, requestVars, drainVars
  <1>2. /\ CountExact' /\ in_flight' \in 0..Cardinality(HttpRequests) /\ in_flight \in Nat
        /\ in_flight = 0 => \A r \in HttpRequests : progress[r] \notin Counted
    BY <1>1, RequestsUntouched
  <1>3. LifecycleTypeOK
    BY DEF LifecycleInv
  <1>4. CASE Signal
    <2>1. UNCHANGED <<accepting, storing, notified, drained, stop_http>>
      BY <1>4 DEF Signal, drainVars
    <2>2. coordinator = "signal" /\ coordinator' = "begin" /\ deadline' = "set"
      BY <1>4 DEF Signal
    <2>3. LifecycleTypeOK'
      BY <1>1, <1>2, <1>3, <2>1, <2>2 DEF LifecycleTypeOK
    <2> QED  BY <1>1, <1>2, <2>1, <2>2, <2>3 DEF LifecycleInv, FlagDown, OutcomeExact, CoordinatorFirst,
                                                 IdleIsFinal, DrainNotStranded, AfterStop
  <1>5. CASE BeginDraining
    <2>1. UNCHANGED <<accepting, notified, drained, deadline, stop_http>> /\ storing' = TRUE
      BY <1>5 DEF BeginDraining, signalVars
    <2>2. coordinator = "begin" /\ coordinator' \in {"notify", "publish"}
      BY <1>5 DEF BeginDraining
    <2>3. LifecycleTypeOK'
      BY <1>1, <1>2, <1>3, <2>1, <2>2 DEF LifecycleTypeOK
    <2> QED  BY <1>1, <1>2, <2>1, <2>2, <2>3 DEF LifecycleInv, FlagDown, OutcomeExact, CoordinatorFirst,
                                                 IdleIsFinal, DrainNotStranded, AfterStop
  <1>6. CASE StoreVisible
    <2>1. /\ UNCHANGED <<coordinator, notified, drained, deadline, stop_http>>
          /\ accepting' = FALSE /\ storing' = FALSE
      BY <1>6 DEF StoreVisible, signalVars
    <2>2. LifecycleTypeOK'
      <3>1. accepting' \in BOOLEAN /\ storing' \in BOOLEAN
        BY <2>1
      <3> QED  BY <1>1, <1>2, <1>3, <2>1, <3>1 DEF LifecycleTypeOK
    <2> QED  BY <1>1, <1>2, <2>1, <2>2 DEF LifecycleInv, FlagDown, OutcomeExact, CoordinatorFirst,
                                           IdleIsFinal, DrainNotStranded
  <1>7. CASE NotifyNobody \/ Published \/ StopHttp
    <2>1. UNCHANGED <<accepting, storing, notified, drained, deadline>>
      BY <1>7 DEF NotifyNobody, Published, StopHttp, drainVars, signalVars
    <2>2. \/ coordinator = "notify" /\ coordinator' = "publish"
          \/ coordinator = "publish" /\ coordinator' = "stop"
          \/ coordinator = "stop" /\ coordinator' = "first_look" /\ ~storing
      BY <1>7 DEF NotifyNobody, Published, StopHttp
    <2>3. stop_http' \in BOOLEAN
      BY <1>3, <1>7 DEF NotifyNobody, Published, StopHttp, signalVars, LifecycleTypeOK
    <2>4. LifecycleTypeOK'
      BY <1>1, <1>2, <1>3, <2>1, <2>2, <2>3 DEF LifecycleTypeOK
    <2>5. FlagDown' /\ OutcomeExact'
      BY <2>1, <2>2 DEF LifecycleInv, FlagDown, OutcomeExact, AfterStop
    <2> QED  BY <1>1, <1>2, <2>1, <2>2, <2>4, <2>5 DEF LifecycleInv, CoordinatorFirst, IdleIsFinal,
                                                       DrainNotStranded
  <1>8. CASE LookBeforeWaiting \/ Register \/ Look \/ Woken \/ DrainGraceElapses
    <2>1. UNCHANGED <<accepting, storing, deadline, stop_http>>
      BY <1>8 DEF LookBeforeWaiting, Register, Look, Woken, DrainGraceElapses, drainVars, signalVars
    <2>2. /\ coordinator \in AfterStop \ {"finished"} /\ coordinator' \in AfterStop
          /\ coordinator' # "finished" => drained' = drained
          /\ coordinator' = "finished" => drained' = "timeout" \/ (drained' = "idle" /\ in_flight = 0)
          /\ coordinator' = "parked" => in_flight > 0
      BY <1>8 DEF LookBeforeWaiting, Register, Look, Woken, DrainGraceElapses, Idle, AfterStop
    <2>3. notified' \in BOOLEAN
      BY <1>3, <1>8 DEF LookBeforeWaiting, Register, Look, Woken, DrainGraceElapses, drainVars, LifecycleTypeOK
    <2>4. LifecycleTypeOK'
      <3>1. coordinator' \in AfterStop /\ drained' \in {"unknown", "idle", "timeout"}
        BY <1>3, <2>2 DEF LifecycleTypeOK
      <3> QED  BY <1>1, <1>2, <1>3, <2>1, <2>3, <3>1 DEF LifecycleTypeOK, AfterStop
    <2>5. FlagDown' /\ OutcomeExact' /\ CoordinatorFirst'
      BY <1>1, <2>1, <2>2 DEF LifecycleInv, FlagDown, OutcomeExact, CoordinatorFirst, AfterStop
    <2>6. IdleIsFinal'
      BY <1>1, <1>2, <2>2 DEF LifecycleInv, IdleIsFinal, OutcomeExact, Counted
    <2>7. DrainNotStranded'
      BY <1>1, <2>2 DEF DrainNotStranded
    <2> QED  BY <1>2, <2>4, <2>5, <2>6, <2>7 DEF LifecycleInv
  <1> QED  BY <1>4, <1>5, <1>6, <1>7, <1>8 DEF CoordinatorStep

\* One step of the listeners or of the main task.
LEMMA ServerPreserves ==
    ASSUME LifecycleInv, MainStep \/ ListenerFails \/ ProcessDeadline
    PROVE  LifecycleInv'
  <1>1. UNCHANGED <<accepting, storing, in_flight, notified, drained, stop_http>>
    BY DEF MainStep, HttpStops, HttpFinishes, HttpGraceElapses, ListenersDone, Aborted, CoordinatorDone,
           FinishExpires, WorkersClosed, Exit, ListenerFails, ProcessDeadline, OnlyServer, drainVars, signalVars
  <1>2. LifecycleTypeOK
    BY DEF LifecycleInv
  <1>3. UNCHANGED <<progress, client>>
    BY DEF MainStep, HttpStops, HttpFinishes, HttpGraceElapses, ListenerFails, ListenersDone, Aborted, CoordinatorDone,
                FinishExpires, WorkersClosed, Exit, ProcessDeadline, MainMoves, requestVars
  <1>4. CountExact' /\ in_flight' \in 0..Cardinality(HttpRequests)
    BY <1>1, <1>3, RequestsUntouched
  <1>5. /\ http' \in {"serving", "stopping", "stopped"} /\ deadline' \in {"none", "set", "passed"}
        /\ main' \in {"serving", "aborting", "finishing", "workers", "membership", "exited"}
    BY <1>2 DEF MainStep, HttpStops, HttpFinishes, HttpGraceElapses, ListenerFails, ListenersDone, Aborted, CoordinatorDone,
                FinishExpires, WorkersClosed, Exit, ProcessDeadline, MainMoves, OnlyServer, signalVars, LifecycleTypeOK
  <1>6. \/ coordinator' = coordinator
        \/ coordinator \in Awaits /\ coordinator' = "aborted"
    BY DEF MainStep, HttpStops, HttpFinishes, HttpGraceElapses, ListenerFails, ListenersDone, Aborted, CoordinatorDone,
                FinishExpires, WorkersClosed, Exit, ProcessDeadline, OnlyServer
  <1>7. CoordinatorFirst'
    <2>1. CASE main' = main
      BY <1>6, <2>1 DEF LifecycleInv, CoordinatorFirst, Awaits
    <2>2. CASE Aborted
      BY <2>2 DEF Aborted, CoordinatorFirst
    <2>3. CASE ListenersDone \/ CoordinatorDone \/ FinishExpires \/ WorkersClosed \/ Exit
      BY <2>3 DEF ListenersDone, CoordinatorDone, FinishExpires, WorkersClosed, Exit, MainMoves, OnlyServer,
                  LifecycleInv, CoordinatorFirst
    <2> QED  BY <2>1, <2>2, <2>3 DEF MainStep, HttpStops, HttpFinishes, HttpGraceElapses, ListenerFails, ProcessDeadline
  <1>8. FlagDown' /\ OutcomeExact'
    BY <1>1, <1>6 DEF LifecycleInv, FlagDown, OutcomeExact, AfterStop, Awaits
  <1>9. IdleIsFinal' /\ DrainNotStranded'
    BY <1>1, <1>3, <1>6 DEF LifecycleInv, IdleIsFinal, DrainNotStranded
  <1>10. LifecycleTypeOK'
    BY <1>1, <1>2, <1>3, <1>4, <1>5, <1>6 DEF LifecycleTypeOK
  <1> QED  BY <1>4, <1>7, <1>8, <1>9, <1>10 DEF LifecycleInv

-----------------------------------------------------------------------------
(* Theorems.                                                               *)

\* The initial states.
LEMMA InvInit == LifecycleInit => LifecycleInv
  <1> SUFFICES ASSUME LifecycleInit PROVE LifecycleInv
    OBVIOUS
  <1>1. Live = {} /\ in_flight = 0
    BY DEF LifecycleInit, Live, Counted
  <1>2. CountExact /\ in_flight \in 0..Cardinality(HttpRequests)
    BY <1>1, SomeRequests DEF CountExact
  <1>3. LifecycleTypeOK
    <2>1. progress \in [HttpRequests -> Places]
      BY DEF LifecycleInit, Places
    <2>2. client \in [HttpRequests -> BOOLEAN]
      BY DEF LifecycleInit
    <2> QED  BY <1>2, <2>1, <2>2 DEF LifecycleInit, LifecycleTypeOK, Places
  <1>4. FlagDown /\ OutcomeExact /\ CoordinatorFirst /\ IdleIsFinal /\ DrainNotStranded
    BY DEF LifecycleInit, FlagDown, OutcomeExact, CoordinatorFirst, IdleIsFinal, DrainNotStranded, AfterStop
  <1> QED  BY <1>2, <1>3, <1>4 DEF LifecycleInv

\* Every step keeps the invariant.
LEMMA InvStep == LifecycleInv /\ [LifecycleNext]_lifecycleVars => LifecycleInv'
  <1> SUFFICES ASSUME LifecycleInv, [LifecycleNext]_lifecycleVars PROVE LifecycleInv'
    OBVIOUS
  <1>1. CASE UNCHANGED lifecycleVars
    <2>1. UNCHANGED <<accepting, storing, in_flight, notified, progress, client, coordinator, drained,
                      deadline, stop_http, http, main>>
      BY <1>1 DEF lifecycleVars, drainVars, requestVars, signalVars
    <2>2. CountExact' /\ in_flight' \in 0..Cardinality(HttpRequests)
      BY <2>1, RequestsUntouched
    <2>3. LifecycleTypeOK'
      BY <2>1, <2>2 DEF LifecycleInv, LifecycleTypeOK
    <2> QED  BY <2>1, <2>2, <2>3 DEF LifecycleInv, FlagDown, OutcomeExact, CoordinatorFirst, IdleIsFinal,
                                     DrainNotStranded
  <1> QED  BY <1>1, RequestPreserves, CoordinatorPreserves, ServerPreserves DEF LifecycleNext

\* For any number of requests, every variable keeps its type, and the count of the drain
\* controller never falls below zero (drain.rs:40-75).
THEOREM LifecycleTypeCorrect == LifecycleSpec => []LifecycleTypeOK
  <1>1. LifecycleInv => LifecycleTypeOK
    BY DEF LifecycleInv
  <1> QED  BY <1>1, InvInit, InvStep, PTL DEF LifecycleSpec

\* The count of the drain controller is the number of requests that hold a permit or are about
\* to give it back (drain.rs:40, drain.rs:96).
THEOREM DrainCountExact == LifecycleSpec => []CountExact
  <1>1. LifecycleInv => CountExact
    BY DEF LifecycleInv
  <1> QED  BY <1>1, InvInit, InvStep, PTL DEF LifecycleSpec

\* A node that wait_idle calls idle stays without a running request, and a parked wait_idle has
\* a request in flight or a signal to come, however the requests interleave with the store of
\* the flag (drain.rs:40, drain.rs:58, drain.rs:75).
THEOREM DrainStaysExact == LifecycleSpec => []DrainExact
  <1>1. LifecycleInv => DrainExact
    BY DEF LifecycleInv, DrainExact
  <1> QED  BY <1>1, InvInit, InvStep, PTL DEF LifecycleSpec

\* The workers are closed under a running render only after the drain grace, the process
\* deadline or a listener's failure (run.rs:162).
THEOREM WorkersClosedDrained == LifecycleSpec => []ClosesDrained
  <1>1. LifecycleInv => ClosesDrained
    BY DEF LifecycleInv, LifecycleTypeOK, ClosesDrained, CoordinatorFirst, OutcomeExact, IdleIsFinal
  <1> QED  BY <1>1, InvInit, InvStep, PTL DEF LifecycleSpec

-----------------------------------------------------------------------------
(* Forwarding.                                                             *)

\* Where a call is in the output cache.
CachePhases == {"idle", "lookup", "wait", "run", "insert", "release", "done"}

\* The types of the variables that work is counted by.
Types ==
    /\ phase \in [Callers -> CachePhases]
    /\ stage \in [Callers -> Stages]
    /\ plan \in [Callers -> Seq(Nodes)]
    /\ overflow \in [Callers -> BOOLEAN]
    /\ excuse \in [Callers -> Reasons \cup {NoVal}]
    /\ reason \in [Callers -> Reasons \cup {NoVal}]
    /\ net \in [Callers -> {"none", "sent", "delivered", "refused", "lost"}]
    /\ renders \in [Ingress -> Nat]
    /\ losses \in [Ingress -> Nat]

\* A call at its origin has no exchange of its own; one at a peer is never forwarded again,
\* and does nothing before it is delivered. A rejection that invites another attempt comes
\* from a call that did not reach the renderer.
CallSound(c) ==
    /\ phase[c] \in {"idle", "lookup", "wait"} => stage[c] = "start"
    /\ reason[c] # NoVal => phase[c] \in {"release", "done"}
    /\ reason[c] \in Retryable \cup {"ForwardFailed"} => stage[c] \notin {"native", "sending"}
    /\ Entry(c) => net[c] = "none"
    /\ ~Entry(c) =>
        /\ plan[c] = <<>> /\ ~overflow[c] /\ reason[c] # "ForwardFailed"
        /\ stage[c] \in {"start", "prepare", "admit", "queued", "native"}
        /\ net[c] \in {"none", "sent", "refused"} => phase[c] = "idle"

\* The forwarded call has not rendered and never will, or its answer is lost.
Settled(h) ==
    \/ net[h] \in {"refused", "lost"}
    \/ net[h] = "delivered" /\ phase[h] = "done" /\ stage[h] # "native"

Made(i) == Cardinality(Attempts(i))

\* Attempts are made one after the other, and each is settled before anything else is tried.
RequestSound(i) ==
    /\ Attempts(i) = 1..Made(i)
    /\ Made(i) \in Nat
    /\ Len(plan[<<i, 0>>]) + Made(i) <= DEFAULT_FORWARD_CANDIDATES
    /\ stage[<<i, 0>>] = "start" => Made(i) = 0
    /\ \A n \in Attempts(i) : n < Made(i) \/ stage[<<i, 0>>] # "sending" => Settled(<<i, n>>)

Native(i) == {n \in 0..DEFAULT_FORWARD_CANDIDATES : stage[<<i, n>>] = "native"}
Lost(i) == {n \in 1..DEFAULT_FORWARD_CANDIDATES : net[<<i, n>>] = "lost"}

\* Each call renders at most once, and each loss is that of one exchange.
RendersCounted(i) == renders[i] = Cardinality(Native(i)) /\ losses[i] = Cardinality(Lost(i))

ForwardingInv ==
    /\ Types
    /\ \A c \in Callers : CallSound(c)
    /\ \A i \in Ingress : RequestSound(i)
    /\ \A i \in Ingress : RendersCounted(i)

-----------------------------------------------------------------------------
\* A call is of a request, at its origin or at the peer of one of its attempts.
LEMMA CallOf ==
    ASSUME NEW c \in Callers
    PROVE  /\ c[1] \in Ingress /\ c[2] \in 0..DEFAULT_FORWARD_CANDIDATES
           /\ c = <<c[1], c[2]>>
           /\ Entry(c) => c = <<c[1], 0>>
  BY ForwardingAssumption DEF Entry

\* ... and every such pair is a call.
LEMMA CallIn ==
    ASSUME NEW i \in Ingress, NEW n \in 0..DEFAULT_FORWARD_CANDIDATES
    PROVE  <<i, n>> \in Callers /\ <<i, n>>[1] = i /\ <<i, n>>[2] = n
  BY ForwardingAssumption

\* The call of a request at its origin.
LEMMA OriginIn ==
    ASSUME NEW i \in Ingress
    PROVE  <<i, 0>> \in Callers /\ Entry(<<i, 0>>) /\ <<i, 0>>[1] = i
  BY ForwardingAssumption DEF Entry

\* The calls of a request are finitely many.
LEMMA SetsFinite ==
    ASSUME NEW i \in Ingress
    PROVE  /\ IsFiniteSet(Native(i)) /\ IsFiniteSet(Lost(i))
           /\ Cardinality(Native(i)) \in 0..(1 + DEFAULT_FORWARD_CANDIDATES)
           /\ Cardinality(Lost(i)) \in Nat
  <1>1. DEFAULT_FORWARD_CANDIDATES \in Nat
    BY ForwardingAssumption
  <1>2. /\ IsFiniteSet(0..DEFAULT_FORWARD_CANDIDATES)
        /\ Cardinality(0..DEFAULT_FORWARD_CANDIDATES) = 1 + DEFAULT_FORWARD_CANDIDATES
    BY <1>1, FS_Interval
  <1>3. IsFiniteSet(1..DEFAULT_FORWARD_CANDIDATES)
    BY <1>1, FS_Interval
  <1>4. Native(i) \subseteq 0..DEFAULT_FORWARD_CANDIDATES /\ Lost(i) \subseteq 1..DEFAULT_FORWARD_CANDIDATES
    BY DEF Native, Lost
  <1>5. IsFiniteSet(Native(i)) /\ IsFiniteSet(Lost(i)) /\ Cardinality(Native(i)) <= 1 + DEFAULT_FORWARD_CANDIDATES
    BY <1>2, <1>3, <1>4, FS_Subset
  <1>6. Cardinality(Native(i)) \in Nat /\ Cardinality(Lost(i)) \in Nat
    BY <1>5, FS_CardinalityType
  <1> QED  BY <1>1, <1>5, <1>6

\* What the invariant says, of a request.
LEMMA WorkOnce ==
    ASSUME ForwardingInv, NEW i \in Ingress
    PROVE  /\ \E x : Native(i) \subseteq Lost(i) \cup {x}
           /\ reason[<<i, 0>>] \in Retryable \cup {"ForwardFailed"} => Native(i) \subseteq Lost(i)
  <1> DEFINE o == <<i, 0>>
  <1>0. o \in Callers /\ Entry(o) /\ DEFAULT_FORWARD_CANDIDATES \in Nat
    BY OriginIn, ForwardingAssumption
  <1>1. ASSUME NEW n \in Native(i), n # 0
        PROVE  /\ n \in Attempts(i) /\ n \in 1..Made(i) /\ stage[<<i, n>>] = "native"
               /\ Settled(<<i, n>>) => n \in Lost(i)
    <2>1. n \in 1..DEFAULT_FORWARD_CANDIDATES /\ stage[<<i, n>>] = "native"
      BY <1>0, <1>1 DEF Native
    <2>2. <<i, n>> \in Callers /\ ~Entry(<<i, n>>)
      BY <2>1, CallIn DEF Entry
    <2>3. CallSound(<<i, n>>) /\ RequestSound(i)
      BY <2>2 DEF ForwardingInv
    <2>4. net[<<i, n>>] \notin {"none", "sent", "refused"}
      BY <2>1, <2>2, <2>3 DEF CallSound
    <2>5. n \in Attempts(i)
      BY <2>1, <2>4 DEF Attempts
    <2> QED  BY <2>1, <2>3, <2>4, <2>5 DEF RequestSound, Settled, Lost
  <1>2. CASE stage[o] = "sending"
    <2>1. 0 \notin Native(i)
      BY <1>2 DEF Native
    <2>2. ASSUME NEW n \in Native(i), n # Made(i)
          PROVE  n \in Lost(i)
      <3>1. n \in Attempts(i) /\ n \in 1..Made(i) /\ (Settled(<<i, n>>) => n \in Lost(i))
        BY <1>1, <2>1
      <3>2. RequestSound(i)
        BY DEF ForwardingInv
      <3>3. n < Made(i)
        BY <2>2, <3>1, <3>2 DEF RequestSound
      <3> QED  BY <3>1, <3>2, <3>3 DEF RequestSound
    <2>3. Native(i) \subseteq Lost(i) \cup {Made(i)}
      BY <2>2
    <2>4. reason[o] \notin Retryable \cup {"ForwardFailed"}
      BY <1>0, <1>2 DEF ForwardingInv, CallSound
    <2> QED  BY <2>3, <2>4
  <1>3. CASE stage[o] # "sending"
    <2>1. ASSUME NEW n \in Native(i), n # 0
          PROVE  n \in Lost(i)
      BY <1>1, <1>3, <2>1 DEF ForwardingInv, RequestSound
    <2>2. Native(i) \subseteq Lost(i) \cup {0}
      BY <2>1
    <2>3. reason[o] \in Retryable \cup {"ForwardFailed"} => 0 \notin Native(i)
      BY <1>0 DEF ForwardingInv, CallSound, Native
    <2> QED  BY <2>1, <2>2, <2>3
  <1> QED  BY <1>2, <1>3

\* The invariant implies what is to be shown.
LEMMA InvImplies == ASSUME ForwardingInv PROVE TypeOK /\ WorkNotRepeated
  <1>1. TypeOK
    <2>1. ASSUME NEW i \in Ingress
          PROVE  /\ renders[i] \in 0..(1 + DEFAULT_FORWARD_CANDIDATES)
                 /\ Len(plan[<<i, 0>>]) + Cardinality(Attempts(i)) <= DEFAULT_FORWARD_CANDIDATES
      BY SetsFinite DEF ForwardingInv, RendersCounted, RequestSound, Made
    <2>2. renders \in [Ingress -> 0..(1 + DEFAULT_FORWARD_CANDIDATES)]
      BY <2>1 DEF ForwardingInv, Types
    <2> QED  BY <2>1, <2>2 DEF ForwardingInv, Types, TypeOK
  <1>2. ASSUME NEW i \in Ingress
        PROVE  /\ renders[i] <= 1 + losses[i]
               /\ reason[<<i, 0>>] \in Retryable \cup {"ForwardFailed"} /\ renders[i] > 0 => losses[i] > 0
    <2>1. /\ IsFiniteSet(Native(i)) /\ IsFiniteSet(Lost(i))
          /\ Cardinality(Native(i)) \in Nat /\ Cardinality(Lost(i)) \in Nat
      BY SetsFinite, FS_CardinalityType
    <2>2. renders[i] = Cardinality(Native(i)) /\ losses[i] = Cardinality(Lost(i))
      BY DEF ForwardingInv, RendersCounted
    <2>3. PICK x : Native(i) \subseteq Lost(i) \cup {x}
      BY WorkOnce
    <2>4. /\ IsFiniteSet(Lost(i) \cup {x})
          /\ Cardinality(Lost(i) \cup {x}) = Cardinality(Lost(i)) \/ Cardinality(Lost(i) \cup {x}) = Cardinality(Lost(i)) + 1
      BY <2>1, FS_AddElement
    <2>5. Cardinality(Native(i)) <= Cardinality(Lost(i) \cup {x})
      BY <2>3, <2>4, FS_Subset
    <2>6. renders[i] <= 1 + losses[i]
      BY <2>1, <2>2, <2>4, <2>5
    <2>7. ASSUME reason[<<i, 0>>] \in Retryable \cup {"ForwardFailed"}, renders[i] > 0
          PROVE  losses[i] > 0
      <3>1. Cardinality(Native(i)) <= Cardinality(Lost(i))
        BY <2>1, <2>7, WorkOnce, FS_Subset
      <3> QED  BY <2>1, <2>2, <2>7, <3>1
    <2> QED  BY <2>6, <2>7
  <1> QED  BY <1>1, <1>2 DEF WorkNotRepeated, RendersBounded, RejectedUnrendered
-----------------------------------------------------------------------------
(* Steps of a call.                                                        *)

OthersRest(c) ==
    \A d \in Callers \ {c} :
        /\ phase'[d] = phase[d] /\ stage'[d] = stage[d] /\ plan'[d] = plan[d]
        /\ overflow'[d] = overflow[d] /\ reason'[d] = reason[d]

\* A step of the work of c that sends nothing: what it must see to. An origin comes back from
\* an exchange only when the exchange is settled.
OwnStep(c) ==
    /\ OthersRest(c) /\ net' = net
    /\ phase[c] # "done"
    /\ plan'[c] \in Seq(Nodes)
    /\ CallSound(c)'
    /\ Entry(c) =>
        /\ Len(plan'[c]) <= DEFAULT_FORWARD_CANDIDATES - Made(c[1])
        /\ stage'[c] = "start" => stage[c] = "start"
        /\ stage'[c] = "sending" => stage[c] = "sending"
        /\ stage[c] = "sending" /\ stage'[c] # "sending" => Made(c[1]) = 0 \/ Settled(Current(c))

\* Such a step keeps what is known of calls and of requests.
LEMMA OwnStepSound ==
    ASSUME ForwardingInv, NEW c \in Callers, OwnStep(c)
    PROVE  (\A d \in Callers : CallSound(d)') /\ (\A i \in Ingress : RequestSound(i)')
  <1>1. ASSUME NEW d \in Callers
        PROVE  CallSound(d)'
    <2>1. CASE d = c
      BY <2>1 DEF OwnStep
    <2>2. CASE d # c
      BY <2>2 DEF OwnStep, OthersRest, ForwardingInv, CallSound, Entry
    <2> QED  BY <2>1, <2>2
  <1>2. ASSUME NEW i \in Ingress
        PROVE  RequestSound(i)'
    <2> DEFINE o == <<i, 0>>
    <2>0. o \in Callers /\ Entry(o) /\ o[1] = i /\ DEFAULT_FORWARD_CANDIDATES \in Nat
      BY OriginIn, ForwardingAssumption
    <2>1. Attempts(i)' = Attempts(i) /\ Made(i)' = Made(i)
      BY DEF OwnStep, Attempts, Made
    <2>2. RequestSound(i)
      BY DEF ForwardingInv
    <2>3. ASSUME NEW n \in Attempts(i), Settled(<<i, n>>)
          PROVE  Settled(<<i, n>>)'
      <3>1. <<i, n>> \in Callers
        BY CallIn DEF Attempts
      <3> QED  BY <2>3, <3>1 DEF OwnStep, OthersRest, Settled
    <2>4. /\ Len(plan'[o]) + Made(i) <= DEFAULT_FORWARD_CANDIDATES
          /\ stage'[o] = "start" => stage[o] = "start"
          /\ stage'[o] = "sending" => stage[o] = "sending"
          /\ stage[o] = "sending" /\ stage'[o] # "sending" => Made(i) = 0 \/ Settled(<<i, Made(i)>>)
      <3>1. CASE o = c
        <4>1. /\ Len(plan'[c]) <= DEFAULT_FORWARD_CANDIDATES - Made(i)
              /\ stage'[c] = "start" => stage[c] = "start"
              /\ stage'[c] = "sending" => stage[c] = "sending"
              /\ stage[c] = "sending" /\ stage'[c] # "sending" => Made(i) = 0 \/ Settled(<<i, Made(i)>>)
          BY <2>0, <3>1 DEF OwnStep, Current, Made
        <4>2. Made(i) \in Nat /\ Len(plan'[c]) \in Nat
          <5>1. plan'[c] \in Seq(Nodes)
            BY DEF OwnStep
          <5> QED  BY <2>2, <5>1, LenProperties DEF RequestSound
        <4> QED  BY <2>0, <3>1, <4>1, <4>2
      <3>2. CASE o # c
        BY <2>0, <2>2, <3>2 DEF OwnStep, OthersRest, RequestSound
      <3> QED  BY <3>1, <3>2
    <2>5. ASSUME NEW n \in Attempts(i), n < Made(i) \/ stage'[o] # "sending"
          PROVE  Settled(<<i, n>>)
      <3>1. CASE n < Made(i) \/ stage[o] # "sending"
        BY <2>2, <3>1 DEF RequestSound
      <3>2. CASE stage[o] = "sending" /\ stage'[o] # "sending"
        BY <2>2, <2>4, <3>1, <3>2 DEF RequestSound
      <3> QED  BY <2>5, <3>1, <3>2
    <2> QED  BY <2>1, <2>2, <2>3, <2>4, <2>5 DEF RequestSound
  <1> QED  BY <1>1, <1>2
\* Of such steps, those that start no render.
QuietStep(c) ==
    /\ OwnStep(c) /\ Types'
    /\ stage'[c] = "native" <=> stage[c] = "native"
    /\ renders' = renders /\ losses' = losses

\* Where no call begins to render and no exchange is lost, the counts stand.
LEMMA SameCounts ==
    ASSUME ForwardingInv, renders' = renders, losses' = losses,
           \A d \in Callers : stage'[d] = "native" <=> stage[d] = "native",
           \A d \in Callers : net'[d] = "lost" <=> net[d] = "lost"
    PROVE  \A i \in Ingress : RendersCounted(i)'
  <1> TAKE i \in Ingress
  <1>1. \A n \in 0..DEFAULT_FORWARD_CANDIDATES : <<i, n>> \in Callers
    BY CallIn
  <1>2. Native(i)' = Native(i)
    BY <1>1 DEF Native
  <1>3. Lost(i)' = Lost(i)
    <2>1. 1..DEFAULT_FORWARD_CANDIDATES \subseteq 0..DEFAULT_FORWARD_CANDIDATES
      BY ForwardingAssumption
    <2> QED  BY <1>1, <2>1 DEF Lost
  <1> QED  BY <1>2, <1>3 DEF ForwardingInv, RendersCounted

\* A quiet step keeps the invariant.
LEMMA QuietStepSound ==
    ASSUME ForwardingInv, NEW c \in Callers, QuietStep(c)
    PROVE  ForwardingInv'
  <1>1. (\A d \in Callers : CallSound(d)') /\ (\A i \in Ingress : RequestSound(i)')
    BY OwnStepSound DEF QuietStep
  <1>2. \A d \in Callers : stage'[d] = "native" <=> stage[d] = "native"
    BY DEF QuietStep, OwnStep, OthersRest
  <1>3. net' = net /\ renders' = renders /\ losses' = losses
    BY DEF QuietStep, OwnStep
  <1>4. \A i \in Ingress : RendersCounted(i)'
    BY <1>2, <1>3, SameCounts
  <1> QED  BY <1>1, <1>4 DEF ForwardingInv, QuietStep

\* A step from stage to stage, within a call's own work.
Advances(c, s) ==
    /\ phase[c] = "run" /\ s \in Stages \ {"start"}
    /\ stage' = [stage EXCEPT ![c] = s]
    /\ UNCHANGED <<phase, reason, net, losses>>
    /\ plan' \in [Callers -> Seq(Nodes)] /\ (\A d \in Callers \ {c} : plan'[d] = plan[d])
    /\ overflow' \in [Callers -> BOOLEAN] /\ (\A d \in Callers \ {c} : overflow'[d] = overflow[d])
    /\ excuse' \in [Callers -> Reasons \cup {NoVal}]
    /\ Entry(c) =>
        /\ Len(plan'[c]) <= DEFAULT_FORWARD_CANDIDATES - Made(c[1])
        /\ s # "sending"
        /\ stage[c] = "sending" => Made(c[1]) = 0 \/ Settled(Current(c))
    /\ ~Entry(c) =>
        plan'[c] = <<>> /\ ~overflow'[c] /\ s \in {"prepare", "admit", "queued", "native"}

\* Advancing is a step of one's own, ...
LEMMA AdvanceOwn ==
    ASSUME ForwardingInv, NEW c \in Callers, NEW s, Advances(c, s), renders' \in [Ingress -> Nat]
    PROVE  OwnStep(c) /\ Types' /\ stage'[c] = s
  <1>1. stage'[c] = s /\ \A d \in Callers \ {c} : stage'[d] = stage[d]
    BY DEF Advances, ForwardingInv, Types
  <1>2. Types'
    BY DEF Advances, ForwardingInv, Types
  <1>3. reason[c] = NoVal
    BY DEF Advances, ForwardingInv, CallSound
  <1>4. NoVal \notin Retryable \cup {"ForwardFailed"}
    BY ForwardingAssumption DEF Reasons
  <1>5. CallSound(c)'
    <2>1. phase'[c] = "run" /\ reason'[c] = NoVal /\ net'[c] = net[c] /\ CallSound(c)
      BY <1>3 DEF Advances, ForwardingInv
    <2>2. /\ ~Entry(c) => plan'[c] = <<>> /\ ~overflow'[c] /\ s \in {"prepare", "admit", "queued", "native"}
          /\ phase[c] = "run"
      BY DEF Advances
    <2>3. NoVal # "ForwardFailed"
      BY <1>4
    <2> QED  BY <1>1, <1>4, <2>1, <2>2, <2>3 DEF CallSound, Entry
  <1>6. OthersRest(c)
    BY <1>1 DEF Advances, OthersRest
  <1>7. plan'[c] \in Seq(Nodes) /\ net' = net /\ phase[c] # "done"
    BY DEF Advances
  <1>8. Entry(c) =>
        /\ Len(plan'[c]) <= DEFAULT_FORWARD_CANDIDATES - Made(c[1])
        /\ stage'[c] = "start" => stage[c] = "start"
        /\ stage'[c] = "sending" => stage[c] = "sending"
        /\ stage[c] = "sending" /\ stage'[c] # "sending" => Made(c[1]) = 0 \/ Settled(Current(c))
    BY <1>1 DEF Advances
  <1> QED  BY <1>1, <1>2, <1>5, <1>6, <1>7, <1>8 DEF OwnStep

\* ... and a quiet one unless it starts a render.
LEMMA AdvanceQuiet ==
    ASSUME ForwardingInv, NEW c \in Callers, NEW s, Advances(c, s),
           s # "native", stage[c] # "native", renders' = renders
    PROVE  QuietStep(c)
  <1>1. renders' \in [Ingress -> Nat]
    BY DEF ForwardingInv, Types
  <1> QED  BY <1>1, AdvanceOwn DEF QuietStep, Advances

\* A step that leaves the call's stage, its plan and all exchanges alone.
LEMMA PhaseQuiet ==
    ASSUME ForwardingInv, NEW c \in Callers, NEW p \in CachePhases, NEW r \in Reasons \cup {NoVal},
           phase' = [phase EXCEPT ![c] = p], reason' = [reason EXCEPT ![c] = r],
           UNCHANGED <<workVars, netVars, renders, losses>>,
           phase[c] # "done",
           p \in {"idle", "lookup", "wait"} => stage[c] = "start",
           r # NoVal => p \in {"release", "done"},
           r \in Retryable \cup {"ForwardFailed"} => stage[c] \notin {"native", "sending"},
           ~Entry(c) => r # "ForwardFailed" /\ (net[c] \in {"none", "sent", "refused"} => p = "idle")
    PROVE  QuietStep(c)
  <1>1. phase'[c] = p /\ reason'[c] = r /\ phase' \in [Callers -> CachePhases]
        /\ reason' \in [Callers -> Reasons \cup {NoVal}]
    BY DEF ForwardingInv, Types
  <1>2. \A d \in Callers \ {c} : phase'[d] = phase[d] /\ reason'[d] = reason[d]
    BY DEF ForwardingInv, Types
  <1>3. UNCHANGED <<stage, plan, excuse, overflow, net, renders, losses>>
    BY DEF workVars, netVars
  <1>4. Types'
    BY <1>1, <1>3 DEF ForwardingInv, Types
  <1>5. CallSound(c)'
    BY <1>1, <1>3 DEF ForwardingInv, CallSound, Entry
  <1>6. OthersRest(c)
    BY <1>2, <1>3 DEF OthersRest
  <1>7. Entry(c) => Len(plan'[c]) <= DEFAULT_FORWARD_CANDIDATES - Made(c[1])
    <2> SUFFICES ASSUME Entry(c) PROVE Len(plan[c]) <= DEFAULT_FORWARD_CANDIDATES - Made(c[1])
      BY <1>3
    <2>1. c[1] \in Ingress /\ c = <<c[1], 0>> /\ DEFAULT_FORWARD_CANDIDATES \in Nat
      BY CallOf, ForwardingAssumption
    <2>2. Len(plan[c]) \in Nat
      BY LenProperties DEF ForwardingInv, Types
    <2> QED  BY <2>1, <2>2 DEF ForwardingInv, RequestSound
  <1>8. plan'[c] \in Seq(Nodes)
    BY <1>4 DEF Types
  <1> QED  BY <1>3, <1>4, <1>5, <1>6, <1>7, <1>8 DEF OwnStep, QuietStep
\* Where the end of its work takes a call.
LEMMA EndedPhase ==
    ASSUME NEW c, NEW a, RunEnds(c, a)
    PROVE  /\ phase[c] = "run"
           /\ \E p \in {"insert", "release", "done"} :
                 phase' = [phase EXCEPT ![c] = p] /\ (a # "completed" => p # "insert")
  <1> DEFINE p == CASE ~request[c].cacheable -> "done"
                    [] request[c].cacheable /\ a = "completed" -> "insert"
                    [] OTHER -> "release"
  <1>1. p \in {"insert", "release", "done"} /\ (a # "completed" => p # "insert")
    OBVIOUS
  <1>2. phase' = [phase EXCEPT ![c] = p] /\ phase[c] = "run"
    BY DEF RunEnds, GoTo
  <1> HIDE DEF p
  <1> QED  BY <1>1, <1>2

\* A call that is rejected; with a reason to retry only before it renders.
LEMMA RejectQuiet ==
    ASSUME ForwardingInv, NEW c \in Callers, NEW r \in Reasons \cup {NoVal}, Reject(c, r),
           r \in Retryable \cup {"ForwardFailed"} => stage[c] \notin {"native", "sending"},
           ~Entry(c) => r # "ForwardFailed"
    PROVE  QuietStep(c)
  <1>1. phase[c] = "run"
    BY EndedPhase DEF Reject
  <1>2. PICK p \in {"release", "done"} : phase' = [phase EXCEPT ![c] = p]
    BY EndedPhase DEF Reject
  <1>3. ~Entry(c) => net[c] \notin {"none", "sent", "refused"}
    BY <1>1 DEF ForwardingInv, CallSound
  <1>4. /\ reason' = [reason EXCEPT ![c] = r] /\ UNCHANGED <<workVars, netVars, renders, losses>>
    BY DEF Reject
  <1>5. p \in CachePhases
    BY DEF CachePhases
  <1> QED  BY <1>1, <1>2, <1>3, <1>4, <1>5, PhaseQuiet

\* A call that ends in another way.
LEMMA EndQuiet ==
    ASSUME ForwardingInv, NEW c \in Callers, NEW a, End(c, a)
    PROVE  QuietStep(c)
  <1>1. PICK p \in {"insert", "release", "done"} : phase' = [phase EXCEPT ![c] = p]
    BY EndedPhase DEF End
  <1>2. phase[c] = "run"
    BY EndedPhase DEF End
  <1>3. ~Entry(c) => net[c] \notin {"none", "sent", "refused"}
    BY <1>2 DEF ForwardingInv, CallSound
  <1>4. reason[c] = NoVal /\ NoVal \notin Reasons
    BY <1>2, ForwardingAssumption DEF ForwardingInv, CallSound
  <1>5. reason' = [reason EXCEPT ![c] = NoVal] /\ UNCHANGED <<workVars, netVars, renders, losses>>
    BY <1>4 DEF End, ForwardingInv, Types
  <1>6. p \in CachePhases /\ NoVal \notin Retryable \cup {"ForwardFailed"} /\ NoVal # "ForwardFailed"
    BY <1>4 DEF CachePhases, Reasons
  <1> QED  BY <1>1, <1>2, <1>3, <1>5, <1>6, PhaseQuiet

\* A step that goes from stage to stage and keeps the plan.
LEMMA StageQuiet ==
    ASSUME ForwardingInv, NEW c \in Callers, NEW s \in Stages \ {"start", "native", "sending"},
           phase[c] = "run", stage[c] \notin {"native", "sending"}, Step(c, s),
           UNCHANGED <<flightVars, plan, netVars, reason, renders, losses>>,
           excuse' = excuse, overflow' \in [Callers -> BOOLEAN],
           \A d \in Callers \ {c} : overflow'[d] = overflow[d],
           ~Entry(c) => overflow' = overflow /\ s \in {"prepare", "admit", "queued"}
    PROVE  QuietStep(c)
  <1>1. Entry(c) => Len(plan'[c]) <= DEFAULT_FORWARD_CANDIDATES - Made(c[1])
    <2> SUFFICES ASSUME Entry(c) PROVE Len(plan[c]) <= DEFAULT_FORWARD_CANDIDATES - Made(c[1])
      OBVIOUS
    <2>1. c[1] \in Ingress /\ c = <<c[1], 0>> /\ DEFAULT_FORWARD_CANDIDATES \in Nat
      BY CallOf, ForwardingAssumption
    <2>2. Len(plan[c]) \in Nat
      BY LenProperties DEF ForwardingInv, Types
    <2> QED  BY <2>1, <2>2 DEF ForwardingInv, RequestSound
  <1>2. ~Entry(c) => plan'[c] = <<>> /\ ~overflow'[c]
    BY DEF ForwardingInv, CallSound
  <1>3. UNCHANGED <<phase, reason, net, losses>>
    BY DEF flightVars, netVars
  <1>4. plan' \in [Callers -> Seq(Nodes)] /\ excuse' \in [Callers -> Reasons \cup {NoVal}]
    BY DEF ForwardingInv, Types
  <1>5. stage' = [stage EXCEPT ![c] = s]
    BY DEF Step
  <1>6. Advances(c, s)
    BY <1>1, <1>2, <1>3, <1>4, <1>5 DEF Advances
  <1> QED  BY <1>6, AdvanceQuiet
\* A step within the output cache that gives no reason.
LEMMA PhaseKeeps ==
    ASSUME ForwardingInv, NEW c \in Callers, NEW p \in CachePhases \ {"idle"},
           phase' = [phase EXCEPT ![c] = p],
           UNCHANGED <<workVars, netVars, reason, renders, losses>>,
           phase[c] # "done", phase[c] = "release" => p = "done",
           Entry(c) \/ phase[c] # "idle",
           p \in {"lookup", "wait"} => stage[c] = "start"
    PROVE  QuietStep(c)
  <1>1. CallSound(c) /\ reason[c] \in Reasons \cup {NoVal} /\ reason' = [reason EXCEPT ![c] = reason[c]]
    BY DEF ForwardingInv, Types
  <1> DEFINE r == reason[c]
  <1>2. r # NoVal => p \in {"release", "done"}
    BY <1>1 DEF CallSound
  <1>3. r \in Retryable \cup {"ForwardFailed"} => stage[c] \notin {"native", "sending"}
    BY <1>1 DEF CallSound
  <1>4. ~Entry(c) => r # "ForwardFailed" /\ (net[c] \in {"none", "sent", "refused"} => p = "idle")
    BY <1>1 DEF CallSound
  <1> QED  BY <1>1, <1>2, <1>3, <1>4, PhaseQuiet

\* The steps of a request's entry, ...
LEMMA SubmitQuiet ==
    ASSUME ForwardingInv, NEW c \in Callers, Submit(c)
    PROVE  QuietStep(c)
  <1>1. Entry(c) /\ phase[c] = "idle" /\ UNCHANGED <<workVars, netVars, renders, losses>>
    BY DEF Submit
  <1>2. CASE \E r \in Requests : Arrive(c, r) /\ UNCHANGED reason
    <2>1. PICK p \in {"lookup", "run"} : phase' = [phase EXCEPT ![c] = p]
      BY <1>2 DEF Arrive, GoTo
    <2>2. stage[c] = "start"
      BY <1>1 DEF ForwardingInv, CallSound
    <2>3. p \in CachePhases \ {"idle"}
      BY DEF CachePhases
    <2> QED  BY <1>1, <1>2, <2>1, <2>2, <2>3, PhaseKeeps
  <1>3. CASE GoTo(c, "done") /\ reason' = [reason EXCEPT ![c] = "DeadlineExceeded"]
    <2>1. phase' = [phase EXCEPT ![c] = "done"] /\ "done" \in CachePhases /\ "DeadlineExceeded" \in Reasons
      BY <1>3 DEF GoTo, CachePhases, Reasons
    <2>2. "DeadlineExceeded" \notin Retryable \cup {"ForwardFailed"}
      BY DEF Retryable
    <2> QED  BY <1>1, <1>3, <2>1, <2>2, PhaseQuiet
  <1> QED  BY <1>2, <1>3 DEF Submit

\* ... of the output cache, ...
LEMMA UseCacheQuiet ==
    ASSUME ForwardingInv, NEW c \in Callers, UseCache(c)
    PROVE  QuietStep(c)
  <1>1. UNCHANGED <<workVars, netVars, renders, losses>> /\ CallSound(c)
    BY DEF UseCache, ForwardingInv
  <1>2. ASSUME NEW p \in {"lookup", "wait", "run", "release", "done"}, phase' = [phase EXCEPT ![c] = p],
               reason' = reason, phase[c] \in {"lookup", "wait", "insert", "release"},
               phase[c] = "release" => p = "done", p \in {"lookup", "wait"} => phase[c] \in {"lookup", "wait"}
        PROVE  QuietStep(c)
    <2>1. p \in {"lookup", "wait"} => stage[c] = "start"
      BY <1>1, <1>2 DEF CallSound
    <2>2. p \in CachePhases \ {"idle"}
      BY DEF CachePhases
    <2> QED  BY <1>1, <1>2, <2>1, <2>2, PhaseKeeps
  <1>3. CASE Serve(c) /\ UNCHANGED reason
    BY <1>2, <1>3 DEF Serve, GoTo
  <1>4. CASE Join(c) /\ UNCHANGED reason
    BY <1>2, <1>4 DEF Join, GoTo
  <1>5. CASE Elected(c) /\ UNCHANGED reason
    BY <1>2, <1>5 DEF Elected, GoTo
  <1>6. CASE Wake(c) /\ UNCHANGED reason
    BY <1>2, <1>6 DEF Wake, GoTo
  <1>7. CASE Insert(c) /\ UNCHANGED reason
    BY <1>2, <1>7 DEF Insert, GoTo
  <1>8. CASE Release(c) /\ UNCHANGED reason
    BY <1>2, <1>8 DEF Release, GoTo
  <1>9. CASE StopWaiting(c, "rejected") /\ reason' = [reason EXCEPT ![c] = "DeadlineExceeded"]
    <2>1. phase' = [phase EXCEPT ![c] = "done"] /\ phase[c] = "wait"
      BY <1>9 DEF StopWaiting, GoTo
    <2>2. /\ "done" \in CachePhases /\ "DeadlineExceeded" \in Reasons
          /\ "DeadlineExceeded" \notin Retryable \cup {"ForwardFailed"}
      BY DEF CachePhases, Reasons, Retryable
    <2>3. ~Entry(c) => net[c] \notin {"none", "sent", "refused"}
      BY <1>1, <2>1 DEF CallSound
    <2> QED  BY <1>1, <1>9, <2>1, <2>2, <2>3, PhaseQuiet
  <1> QED  BY <1>3, <1>4, <1>5, <1>6, <1>7, <1>8, <1>9 DEF UseCache

\* ... of a call that the local pool does not take, ...
LEMMA NotTakenQuiet ==
    ASSUME ForwardingInv, NEW c \in Callers, NEW r \in {"RendererDegraded", "QueueFull"}, NotTaken(c, r),
           phase[c] = "run", stage[c] \in {"local", "admit"}
    PROVE  QuietStep(c)
  <1>0. CallSound(c) /\ r \in Reasons /\ r # "ForwardFailed"
    BY DEF ForwardingInv, Reasons, Retryable
  <1>1. CASE plan[c] # <<>> /\ Step(c, "send")
             /\ UNCHANGED <<flightVars, plan, excuse, overflow, netVars, left, reason, renders, losses>>
    <2>1. Entry(c)
      BY <1>0, <1>1 DEF CallSound
    <2>2. "send" \in Stages \ {"start", "native", "sending"} /\ overflow' \in [Callers -> BOOLEAN]
      BY <1>1 DEF Stages, ForwardingInv, Types
    <2> QED  BY <1>1, <2>1, <2>2, StageQuiet
  <1>2. CASE plan[c] = <<>> /\ Reject(c, IF overflow[c] /\ r = "QueueFull" THEN excuse[c] ELSE r)
    <2> DEFINE e == IF overflow[c] /\ r = "QueueFull" THEN excuse[c] ELSE r
    <2>1. e \in Reasons \cup {NoVal} /\ (~Entry(c) => e # "ForwardFailed")
      BY <1>0 DEF ForwardingInv, Types, CallSound
    <2>2. stage[c] \notin {"native", "sending"} /\ Reject(c, e)
      BY <1>2
    <2> HIDE DEF e
    <2> QED  BY <2>1, <2>2, RejectQuiet
  <1> QED  BY <1>1, <1>2 DEF NotTaken
-----------------------------------------------------------------------------
\* A plan names no more candidates than it may.
LEMMA PeersTyped ==
    ASSUME NEW c, NEW max \in Int, NEW p \in Peers(c, max)
    PROVE  p \in Seq(Nodes) /\ Len(p) \in Nat /\ Len(p) <= max
  <1>1. PICK m \in 0..max : p \in [1..m -> Nodes \ {Node(c)}]
    BY DEF Peers, BoundedSeq, SeqOf
  <1>2. m \in Nat /\ p \in [1..m -> Nodes]
    BY <1>1
  <1>3. p \in Seq(Nodes) /\ Len(p) = m
    BY <1>2, SeqDef, LenProperties
  <1> QED  BY <1>1, <1>2, <1>3

\* ... of routing, ...
LEMMA RouteQuiet ==
    ASSUME ForwardingInv, NEW c \in Callers, Route(c)
    PROVE  QuietStep(c)
  <1>0. /\ Entry(c) /\ phase[c] = "run" /\ stage[c] = "start"
        /\ DEFAULT_FORWARD_CANDIDATES \in Nat
    BY ForwardingAssumption DEF Route
  <1>1. ASSUME NEW r \in {"NoCapacity", "RendererDegraded", "DeadlineExceeded"}, Reject(c, r)
        PROVE  QuietStep(c)
    <2>1. r \in Reasons \cup {NoVal} /\ stage[c] \notin {"native", "sending"}
      BY <1>0 DEF Reasons, Retryable
    <2> QED  BY <1>0, <1>1, <2>1, RejectQuiet
  <1>2. ASSUME NEW p \in Peers(c, DEFAULT_FORWARD_CANDIDATES), NEW s \in {"local", "send"},
               plan' = [plan EXCEPT ![c] = p], Step(c, s),
               UNCHANGED <<flightVars, excuse, overflow, netVars, left, reason, renders, losses>>
        PROVE  QuietStep(c)
    <2>1. p \in Seq(Nodes) /\ Len(p) \in Nat /\ Len(p) <= DEFAULT_FORWARD_CANDIDATES
      BY <1>0, PeersTyped
    <2>2. Made(c[1]) = 0
      BY <1>0, CallOf DEF ForwardingInv, RequestSound
    <2>3. plan' \in [Callers -> Seq(Nodes)] /\ plan'[c] = p /\ \A d \in Callers \ {c} : plan'[d] = plan[d]
      BY <1>2, <2>1 DEF ForwardingInv, Types
    <2>4. s \in Stages \ {"start"} /\ stage' = [stage EXCEPT ![c] = s]
      BY <1>2 DEF Step, Stages
    <2>5. UNCHANGED <<phase, reason, net, losses, overflow, excuse, renders>>
      BY <1>2 DEF flightVars, netVars
    <2>6. overflow' \in [Callers -> BOOLEAN] /\ excuse' \in [Callers -> Reasons \cup {NoVal}]
      BY <2>5 DEF ForwardingInv, Types
    <2>7. Len(plan'[c]) <= DEFAULT_FORWARD_CANDIDATES - Made(c[1])
      BY <1>0, <2>1, <2>2, <2>3
    <2>8. Advances(c, s)
      BY <1>0, <2>3, <2>4, <2>5, <2>6, <2>7 DEF Advances
    <2> QED  BY <1>0, <2>5, <2>8, AdvanceQuiet
  <1>3. Peers(c, DEFAULT_FORWARD_CANDIDATES - 1) \subseteq Peers(c, DEFAULT_FORWARD_CANDIDATES)
    <2>1. 0..(DEFAULT_FORWARD_CANDIDATES - 1) \subseteq 0..DEFAULT_FORWARD_CANDIDATES
      BY <1>0
    <2> QED  BY <2>1 DEF Peers, BoundedSeq, SeqOf
  <1> QED  BY <1>1, <1>2, <1>3 DEF Route

\* ... of local work, ...
LEMMA LocalQuiet ==
    ASSUME ForwardingInv, NEW c \in Callers, Local(c), ~StartNative(c)
    PROVE  QuietStep(c)
  <1>0. CallSound(c)
    BY DEF ForwardingInv
  <1>1. ASSUME NEW r \in {"RendererDegraded", "DeadlineExceeded"}, Reject(c, r),
               r = "RendererDegraded" => stage[c] \notin {"native", "sending"}
        PROVE  QuietStep(c)
    <2>1. /\ r \in Reasons \cup {NoVal} /\ r # "ForwardFailed"
          /\ r \in Retryable \cup {"ForwardFailed"} => r = "RendererDegraded"
      BY DEF Reasons, Retryable
    <2> QED  BY <1>1, <2>1, RejectQuiet
  <1>2. ASSUME NEW s \in {"prepare", "admit", "queued"}, Step(c, s), phase[c] = "run",
               stage[c] \notin {"native", "sending"},
               UNCHANGED <<flightVars, plan, excuse, overflow, netVars, left, reason, renders, losses>>
        PROVE  QuietStep(c)
    <2>1. s \in Stages \ {"start", "native", "sending"} /\ overflow' \in [Callers -> BOOLEAN]
      BY <1>2 DEF Stages, ForwardingInv, Types
    <2> QED  BY <1>2, <2>1, StageQuiet
  <1>3. CASE Route(c)
    BY <1>3, RouteQuiet
  <1>4. CASE RouteForwarded(c)
    BY <1>1, <1>2, <1>4 DEF RouteForwarded
  <1>5. CASE CheckAdmission(c)
    BY <1>2, <1>5, NotTakenQuiet DEF CheckAdmission, Work
  <1>6. CASE PrepareProfile(c)
    BY <1>2, <1>6, EndQuiet DEF PrepareProfile, Work
  <1>7. CASE Admit(c)
    BY <1>2, <1>7, NotTakenQuiet DEF Admit, Work
  <1>8. CASE QueuedTooLong(c)
    BY <1>1, <1>8 DEF QueuedTooLong, Work
  <1>9. CASE NativeEnds(c)
    BY <1>9, EndQuiet DEF NativeEnds
  <1>10. CASE Disconnected(c)
    BY <1>10, EndQuiet DEF Disconnected
  <1> QED  BY <1>3, <1>4, <1>5, <1>6, <1>7, <1>8, <1>9, <1>10 DEF Local

\* One more render is one more call that has reached the renderer.
LEMMA StartNativeSound ==
    ASSUME ForwardingInv, NEW c \in Callers, StartNative(c)
    PROVE  ForwardingInv'
  <1>0. /\ phase[c] = "run" /\ stage[c] = "queued" /\ stage' = [stage EXCEPT ![c] = "native"]
        /\ renders' = [renders EXCEPT ![c[1]] = @ + 1]
        /\ UNCHANGED <<phase, plan, excuse, overflow, net, reason, losses>>
        /\ c[1] \in Ingress /\ c[2] \in 0..DEFAULT_FORWARD_CANDIDATES /\ c = <<c[1], c[2]>>
        /\ DEFAULT_FORWARD_CANDIDATES \in Nat
    BY CallOf, ForwardingAssumption DEF StartNative, Work, Step, flightVars, netVars
  <1>1. Entry(c) => Len(plan'[c]) <= DEFAULT_FORWARD_CANDIDATES - Made(c[1])
    <2> SUFFICES ASSUME Entry(c) PROVE Len(plan[c]) <= DEFAULT_FORWARD_CANDIDATES - Made(c[1])
      BY <1>0
    <2>1. c = <<c[1], 0>>
      BY CallOf
    <2>2. Len(plan[c]) \in Nat
      BY LenProperties DEF ForwardingInv, Types
    <2> QED  BY <1>0, <2>1, <2>2 DEF ForwardingInv, RequestSound
  <1>2. ~Entry(c) => plan'[c] = <<>> /\ ~overflow'[c]
    BY <1>0 DEF ForwardingInv, CallSound
  <1>3. /\ plan' \in [Callers -> Seq(Nodes)] /\ excuse' \in [Callers -> Reasons \cup {NoVal}]
        /\ overflow' \in [Callers -> BOOLEAN] /\ renders' \in [Ingress -> Nat]
    BY <1>0 DEF ForwardingInv, Types
  <1>4. Advances(c, "native")
    BY <1>0, <1>1, <1>2, <1>3 DEF Advances, Stages
  <1>5. OwnStep(c) /\ Types' /\ stage'[c] = "native"
    BY <1>3, <1>4, AdvanceOwn
  <1>6. ASSUME NEW i \in Ingress
        PROVE  RendersCounted(i)'
    <2>1. Lost(i)' = Lost(i) /\ losses' = losses
      BY <1>0 DEF Lost
    <2>2. RendersCounted(i) /\ renders[i] \in Nat
      BY DEF ForwardingInv, Types
    <2>3. \A n \in 0..DEFAULT_FORWARD_CANDIDATES :
              stage'[<<i, n>>] = IF <<i, n>> = c THEN "native" ELSE stage[<<i, n>>]
      BY <1>0, CallIn DEF ForwardingInv, Types
    <2>4. CASE i # c[1]
      <3>1. \A n : <<i, n>> # c
        BY <1>0, <2>4
      <3>2. Native(i)' = Native(i) /\ renders'[i] = renders[i]
        BY <1>0, <2>3, <2>4, <3>1 DEF Native, ForwardingInv, Types
      <3> QED  BY <2>1, <2>2, <3>2 DEF RendersCounted
    <2>5. CASE i = c[1]
      <3>1. \A n : <<i, n>> = c <=> n = c[2]
        BY <1>0, <2>5
      <3>2. Native(i)' = Native(i) \cup {c[2]} /\ c[2] \notin Native(i)
        BY <1>0, <2>3, <2>5, <3>1 DEF Native
      <3>3. Cardinality(Native(i)') = Cardinality(Native(i)) + 1
        BY <3>2, SetsFinite, FS_AddElement
      <3>4. renders'[i] = renders[i] + 1
        BY <1>0, <2>5 DEF ForwardingInv, Types
      <3> QED  BY <2>1, <2>2, <3>3, <3>4 DEF RendersCounted
    <2> QED  BY <2>4, <2>5
  <1> QED  BY <1>5, <1>6, OwnStepSound DEF ForwardingInv
\* Where an attempt has led, to the next candidate: it is settled.
LEMMA NextCandidateQuiet ==
    ASSUME ForwardingInv, NEW c \in Callers, NEW e \in Reasons \cup {NoVal}, NextCandidate(c, e),
           phase[c] = "run", stage[c] = "sending", Settled(Current(c)),
           UNCHANGED <<flightVars, plan, overflow, netVars, left, reason, renders, losses>>
    PROVE  QuietStep(c)
  <1> DEFINE s == IF plan[c] # <<>> THEN "send" ELSE "exhausted"
  <1>0. Entry(c)
    BY DEF ForwardingInv, CallSound
  <1>1. s \in {"send", "exhausted"} /\ stage' = [stage EXCEPT ![c] = s] /\ excuse' = [excuse EXCEPT ![c] = e]
    BY DEF NextCandidate, Step
  <1>2. UNCHANGED <<phase, reason, net, losses, plan, overflow, renders>>
    BY DEF flightVars, netVars
  <1>3. Len(plan'[c]) <= DEFAULT_FORWARD_CANDIDATES - Made(c[1])
    <2>1. c[1] \in Ingress /\ c = <<c[1], 0>> /\ DEFAULT_FORWARD_CANDIDATES \in Nat
      BY <1>0, CallOf, ForwardingAssumption
    <2>2. Len(plan[c]) \in Nat
      BY LenProperties DEF ForwardingInv, Types
    <2>3. Len(plan[c]) <= DEFAULT_FORWARD_CANDIDATES - Made(c[1])
      BY <2>1, <2>2 DEF ForwardingInv, RequestSound
    <2> QED  BY <1>2, <2>3
  <1>4. /\ plan' \in [Callers -> Seq(Nodes)] /\ excuse' \in [Callers -> Reasons \cup {NoVal}]
        /\ overflow' \in [Callers -> BOOLEAN]
    BY <1>1, <1>2 DEF ForwardingInv, Types
  <1>5. s \in Stages \ {"start"} /\ s # "sending" /\ s # "native"
    BY <1>1 DEF Stages
  <1> HIDE DEF s
  <1>6. Advances(c, s)
    BY <1>0, <1>1, <1>2, <1>3, <1>4, <1>5 DEF Advances
  <1> QED  BY <1>2, <1>5, <1>6, AdvanceQuiet

\* Who has answered is a peer, and has rendered unless it says that it has not.
LEMMA AnswerSound ==
    ASSUME ForwardingInv, NEW c \in Callers, Entry(c), net[Current(c)] = "delivered"
    PROVE  /\ Current(c) \in Callers /\ reason[Current(c)] \in (Reasons \cup {NoVal}) \ {"ForwardFailed"}
           /\ phase[Current(c)] = "done" /\ reason[Current(c)] \in Retryable => Settled(Current(c))
  <1> DEFINE i == c[1]
             h == Current(c)
  <1>1. i \in Ingress /\ c = <<i, 0>> /\ h = <<i, Made(i)>> /\ DEFAULT_FORWARD_CANDIDATES \in Nat
    BY CallOf, ForwardingAssumption DEF Current, Made
  <1>2. Made(i) \in 0..DEFAULT_FORWARD_CANDIDATES
    <2>1. plan[c] \in Seq(Nodes)
      BY DEF ForwardingInv, Types
    <2>2. Len(plan[c]) \in Nat
      BY <2>1, LenProperties
    <2> QED  BY <1>1, <2>2 DEF ForwardingInv, RequestSound
  <1>3. h \in Callers
    BY <1>1, <1>2, CallIn
  <1>4. CallSound(c) /\ CallSound(h)
    BY <1>3 DEF ForwardingInv
  <1>5. h # c /\ ~Entry(h)
    BY <1>1, <1>4 DEF CallSound, Entry
  <1>6. reason[h] \in Reasons \cup {NoVal}
    BY <1>3 DEF ForwardingInv, Types
  <1> HIDE DEF h
  <1>7. reason[h] # "ForwardFailed" /\ (reason[h] \in Retryable => stage[h] # "native")
    BY <1>4, <1>5 DEF CallSound
  <1> QED  BY <1>3, <1>6, <1>7 DEF Settled, h

\* ... and of failover.
LEMMA ForwardQuiet ==
    ASSUME ForwardingInv, NEW c \in Callers, Forward(c), ~Send(c)
    PROVE  QuietStep(c)
  <1>0. CallSound(c) /\ excuse[c] \in Reasons \cup {NoVal}
    BY DEF ForwardingInv, Types
  <1>1. ASSUME NEW r \in {"DeadlineTooClose", "DeadlineExceeded"}, Reject(c, r)
        PROVE  QuietStep(c)
    <2>1. r \in Reasons \cup {NoVal} /\ r # "ForwardFailed" /\ r \notin Retryable \cup {"ForwardFailed"}
      BY DEF Reasons, Retryable
    <2> QED  BY <1>1, <2>1, RejectQuiet
  <1>2. CASE BudgetTooSmall(c)
    BY <1>1, <1>2 DEF BudgetTooSmall
  <1>3. CASE SendTimeout(c)
    BY <1>1, <1>3 DEF SendTimeout
  <1>4. CASE TransportFails(c)
    <2> DEFINE e == IF excuse[c] \in Retryable THEN excuse[c] ELSE "ForwardFailed"
    <2>1. e \in Reasons \cup {NoVal}
      BY <1>0 DEF Reasons
    <2>2. Settled(Current(c)) /\ NextCandidate(c, e) /\ phase[c] = "run" /\ stage[c] = "sending"
      BY <1>4 DEF TransportFails, Settled, Work
    <2>3. UNCHANGED <<flightVars, plan, overflow, netVars, left, reason, renders, losses>>
      BY <1>4 DEF TransportFails
    <2> HIDE DEF e
    <2> QED  BY <2>1, <2>2, <2>3, NextCandidateQuiet
  <1>5. CASE PeerAnswers(c)
    <2> DEFINE h == Current(c)
    <2>1. phase[c] = "run" /\ stage[c] = "sending" /\ net[h] = "delivered" /\ phase[h] = "done"
      BY <1>5 DEF PeerAnswers, Work
    <2>2. Entry(c)
      BY <1>0, <2>1 DEF CallSound
    <2>3. /\ reason[h] \in (Reasons \cup {NoVal}) \ {"ForwardFailed"}
          /\ reason[h] \in Retryable => Settled(h)
      BY <2>1, <2>2, AnswerSound
    <2>4. \/ /\ reason[h] \in Retryable /\ NextCandidate(c, reason[h])
             /\ UNCHANGED <<flightVars, plan, overflow, netVars, left, reason, renders, losses>>
          \/ reason[h] \notin Retryable /\ Reject(c, reason[h])
          \/ \E a : End(c, a)
      BY <1>5 DEF PeerAnswers
    <2> HIDE DEF h
    <2>5. CASE /\ reason[h] \in Retryable /\ NextCandidate(c, reason[h])
               /\ UNCHANGED <<flightVars, plan, overflow, netVars, left, reason, renders, losses>>
      <3>1. Settled(Current(c)) /\ reason[h] \in Reasons \cup {NoVal}
        BY <2>3, <2>5 DEF h
      <3> QED  BY <2>1, <2>5, <3>1, NextCandidateQuiet
    <2>6. CASE reason[h] \notin Retryable /\ Reject(c, reason[h])
      <3>1. /\ reason[h] \in Reasons \cup {NoVal} /\ reason[h] # "ForwardFailed"
            /\ reason[h] \notin Retryable \cup {"ForwardFailed"}
        BY <2>3, <2>6
      <3> QED  BY <2>6, <3>1, RejectQuiet
    <2> QED  BY <2>4, <2>5, <2>6, EndQuiet
  <1>6. CASE Exhausted(c)
    <2>1. phase[c] = "run" /\ stage[c] = "exhausted"
      BY <1>6 DEF Exhausted, Work
    <2>2. Entry(c)
      BY <1>0, <2>1 DEF CallSound
    <2>3. CASE Reject(c, excuse[c])
      BY <1>0, <2>1, <2>2, <2>3, RejectQuiet
    <2>4. CASE Step(c, "prepare") /\ overflow' = [overflow EXCEPT ![c] = TRUE]
               /\ UNCHANGED <<flightVars, plan, excuse, netVars, left, reason, renders, losses>>
      <3>1. overflow' \in [Callers -> BOOLEAN] /\ \A d \in Callers \ {c} : overflow'[d] = overflow[d]
        BY <2>4 DEF ForwardingInv, Types
      <3>2. "prepare" \in Stages \ {"start", "native", "sending"}
        BY DEF Stages
      <3> QED  BY <2>1, <2>2, <2>4, <3>1, <3>2, StageQuiet
    <2> QED  BY <1>1, <1>6, <2>3, <2>4 DEF Exhausted
  <1> QED  BY <1>2, <1>3, <1>4, <1>5, <1>6 DEF Forward
-----------------------------------------------------------------------------
(* Exchanges.                                                              *)

\* A step of an exchange that is under way.
LEMMA ExchangeSound ==
    ASSUME ForwardingInv, NEW h \in Callers, net[h] # "none", NEW v, v # "none",
           net' = [net EXCEPT ![h] = v], UNCHANGED <<stage, plan, overflow>>,
           \A d \in Callers \ {h} : phase'[d] = phase[d] /\ reason'[d] = reason[d],
           CallSound(h)', Settled(h) => Settled(h)'
    PROVE  (\A d \in Callers : CallSound(d)') /\ (\A i \in Ingress : RequestSound(i)')
  <1>0. \A d \in Callers : net'[d] = IF d = h THEN v ELSE net[d]
    BY DEF ForwardingInv, Types
  <1>1. ASSUME NEW d \in Callers
        PROVE  CallSound(d)'
    BY <1>0 DEF ForwardingInv, CallSound, Entry
  <1>2. ASSUME NEW i \in Ingress
        PROVE  RequestSound(i)'
    <2>1. DEFAULT_FORWARD_CANDIDATES \in Nat
      BY ForwardingAssumption
    <2>2. \A n \in 1..DEFAULT_FORWARD_CANDIDATES : <<i, n>> \in Callers
      BY <2>1, CallIn
    <2>3. Attempts(i)' = Attempts(i)
      BY <1>0, <2>2 DEF Attempts
    <2>4. Made(i)' = Made(i)
      BY <2>3 DEF Made
    <2>5. ASSUME NEW n \in Attempts(i), Settled(<<i, n>>)
          PROVE  Settled(<<i, n>>)'
      BY <1>0, <2>2, <2>5 DEF Attempts, Settled
    <2>6. RequestSound(i)
      BY DEF ForwardingInv
    <2> QED  BY <2>3, <2>4, <2>5, <2>6 DEF RequestSound
  <1> QED  BY <1>1, <1>2

\* A call that is under way is at a peer.
LEMMA Underway ==
    ASSUME ForwardingInv, NEW h \in Callers, net[h] # "none"
    PROVE  ~Entry(h) /\ CallSound(h)
  BY DEF ForwardingInv, CallSound

\* A call reaches its peer, and starts there without a reason to retry.
LEMMA DeliverSound ==
    ASSUME ForwardingInv, NEW h \in Callers, Deliver(h)
    PROVE  ForwardingInv'
  <1> DEFINE v == IF net[h] = "sent" THEN "delivered" ELSE net[h]
  <1>1. /\ net[h] \in {"sent", "lost"} /\ phase[h] = "idle" /\ net' = [net EXCEPT ![h] = v]
        /\ UNCHANGED <<stage, plan, excuse, overflow, renders, losses>>
    BY DEF Deliver, workVars
  <1>2. v \in {"delivered", "lost"} /\ (net[h] = "lost" => v = "lost") /\ (v = "lost" => net[h] = "lost")
    BY <1>1
  <1> HIDE DEF v
  <1>3. ~Entry(h) /\ CallSound(h)
    BY <1>1, Underway
  <1>4. /\ phase' \in [Callers -> CachePhases] /\ reason' \in [Callers -> Reasons \cup {NoVal}]
        /\ phase'[h] # "idle" /\ (reason'[h] # NoVal => phase'[h] = "done")
        /\ reason'[h] \notin Retryable \cup {"ForwardFailed"}
        /\ \A d \in Callers \ {h} : phase'[d] = phase[d] /\ reason'[d] = reason[d]
    <2>0. NoVal \notin Reasons /\ reason[h] = NoVal
      BY <1>1, <1>3, ForwardingAssumption DEF CallSound
    <2>1. CASE (\E r : Arrive(h, r)) /\ reason' = reason
      <3>1. PICK p \in {"lookup", "run"} : phase' = [phase EXCEPT ![h] = p]
        BY <2>1 DEF Arrive, GoTo
      <3> QED  BY <2>0, <2>1, <3>1 DEF ForwardingInv, Types, CachePhases, Reasons
    <2>2. CASE GoTo(h, "done") /\ \E why \in {"UnknownStyle", "DeadlineExceeded"} : reason' = [reason EXCEPT ![h] = why]
      <3>1. phase' = [phase EXCEPT ![h] = "done"]
        BY <2>2 DEF GoTo
      <3>2. PICK why \in {"UnknownStyle", "DeadlineExceeded"} : reason' = [reason EXCEPT ![h] = why]
        BY <2>2
      <3>3. why \in Reasons /\ why \notin Retryable \cup {"ForwardFailed"}
        BY DEF Reasons, Retryable
      <3> QED  BY <3>1, <3>2, <3>3 DEF ForwardingInv, Types, CachePhases
    <2>3. \/ (\E r : Arrive(h, r)) /\ reason' = reason
          \/ GoTo(h, "done") /\ \E why \in {"UnknownStyle", "DeadlineExceeded"} : reason' = [reason EXCEPT ![h] = why]
      BY DEF Deliver
    <2> QED  BY <2>1, <2>2, <2>3
  <1>5. Types'
    BY <1>1, <1>2, <1>4 DEF ForwardingInv, Types
  <1>6. net'[h] = v /\ stage[h] = "start"
    BY <1>1, <1>3 DEF ForwardingInv, Types, CallSound
  <1>7. CallSound(h)'
    BY <1>1, <1>2, <1>3, <1>4, <1>6 DEF CallSound, Entry
  <1>8. Settled(h) => Settled(h)'
    BY <1>1, <1>2, <1>6 DEF Settled
  <1>9. (\A d \in Callers : CallSound(d)') /\ (\A i \in Ingress : RequestSound(i)')
    BY <1>1, <1>2, <1>4, <1>7, <1>8, ExchangeSound
  <1>10. \A i \in Ingress : RendersCounted(i)'
    <2>1. \A d \in Callers : net'[d] = "lost" <=> net[d] = "lost"
      BY <1>1, <1>2 DEF ForwardingInv, Types
    <2> QED  BY <1>1, <2>1, SameCounts
  <1> QED  BY <1>5, <1>9, <1>10 DEF ForwardingInv

\* A call that is refused has done nothing and never will.
LEMMA RefuseSound ==
    ASSUME ForwardingInv, NEW h \in Callers, Refuse(h)
    PROVE  ForwardingInv'
  <1>1. /\ net[h] = "sent" /\ net' = [net EXCEPT ![h] = "refused"]
        /\ UNCHANGED <<phase, stage, plan, excuse, overflow, reason, renders, losses>>
    BY DEF Refuse, workVars, flightVars
  <1>2. ~Entry(h) /\ CallSound(h)
    BY <1>1, Underway
  <1>3. Types' /\ net'[h] = "refused"
    BY <1>1 DEF ForwardingInv, Types
  <1>4. CallSound(h)'
    BY <1>1, <1>2, <1>3 DEF CallSound, Entry
  <1>5. (\A d \in Callers : CallSound(d)') /\ (\A i \in Ingress : RequestSound(i)')
    BY <1>1, <1>3, <1>4, ExchangeSound DEF Settled
  <1>6. \A i \in Ingress : RendersCounted(i)'
    <2>1. \A d \in Callers : net'[d] = "lost" <=> net[d] = "lost"
      BY <1>1 DEF ForwardingInv, Types
    <2> QED  BY <1>1, <2>1, SameCounts
  <1> QED  BY <1>3, <1>5, <1>6 DEF ForwardingInv

\* One more loss is one more exchange that was lost.
LEMMA LoseAnswerSound ==
    ASSUME ForwardingInv, NEW h \in Callers, LoseAnswer(h)
    PROVE  ForwardingInv'
  <1>1. /\ net[h] \in {"sent", "delivered"} /\ net' = [net EXCEPT ![h] = "lost"]
        /\ losses' = [losses EXCEPT ![h[1]] = @ + 1]
        /\ UNCHANGED <<phase, stage, plan, excuse, overflow, reason, renders>>
    BY DEF LoseAnswer, workVars, flightVars
  <1>2. ~Entry(h) /\ CallSound(h)
    BY <1>1, Underway
  <1>3. Types' /\ net'[h] = "lost"
    <2>1. losses' \in [Ingress -> Nat]
      <3>1. losses \in [Ingress -> Nat] /\ h[1] \in Ingress
        BY CallOf DEF ForwardingInv, Types
      <3>2. losses[h[1]] + 1 \in Nat
        BY <3>1
      <3> QED  BY <1>1, <3>1, <3>2
    <2>2. net \in [Callers -> {"none", "sent", "delivered", "refused", "lost"}]
      BY DEF ForwardingInv, Types
    <2>3. net' \in [Callers -> {"none", "sent", "delivered", "refused", "lost"}] /\ net'[h] = "lost"
      BY <1>1, <2>2
    <2> QED  BY <1>1, <2>1, <2>3 DEF ForwardingInv, Types
  <1>4. CallSound(h)'
    BY <1>1, <1>2, <1>3 DEF CallSound, Entry
  <1>5. (\A d \in Callers : CallSound(d)') /\ (\A i \in Ingress : RequestSound(i)')
    BY <1>1, <1>3, <1>4, ExchangeSound DEF Settled
  <1>6. ASSUME NEW i \in Ingress
        PROVE  RendersCounted(i)'
    <2>0. h[2] \in 1..DEFAULT_FORWARD_CANDIDATES /\ h = <<h[1], h[2]>> /\ h[1] \in Ingress
      BY <1>2, CallOf, ForwardingAssumption DEF Entry
    <2>1. Native(i)' = Native(i) /\ renders' = renders
      BY <1>1 DEF Native
    <2>2. RendersCounted(i) /\ losses[i] \in Nat
      BY DEF ForwardingInv, Types
    <2>3. \A n \in 1..DEFAULT_FORWARD_CANDIDATES :
              net'[<<i, n>>] = IF <<i, n>> = h THEN "lost" ELSE net[<<i, n>>]
      <3>1. \A n \in 1..DEFAULT_FORWARD_CANDIDATES : <<i, n>> \in Callers
        BY CallIn, ForwardingAssumption
      <3> QED  BY <1>1, <3>1 DEF ForwardingInv, Types
    <2>4. CASE i # h[1]
      <3>1. \A n : <<i, n>> # h
        BY <2>0, <2>4
      <3>2. Lost(i)' = Lost(i)
        BY <2>3, <3>1 DEF Lost
      <3>3. losses'[i] = losses[i]
        BY <1>1, <2>4 DEF ForwardingInv, Types
      <3> QED  BY <2>1, <2>2, <3>2, <3>3 DEF RendersCounted
    <2>5. CASE i = h[1]
      <3>1. \A n : <<i, n>> = h <=> n = h[2]
        BY <2>0, <2>5
      <3>2. Lost(i)' = Lost(i) \cup {h[2]} /\ h[2] \notin Lost(i)
        BY <1>1, <2>0, <2>3, <2>5, <3>1 DEF Lost
      <3>3. Cardinality(Lost(i)') = Cardinality(Lost(i)) + 1
        BY <3>2, SetsFinite, FS_AddElement
      <3>4. losses'[i] = losses[i] + 1
        BY <1>1, <2>5 DEF ForwardingInv, Types
      <3> QED  BY <2>1, <2>2, <3>3, <3>4 DEF RendersCounted
    <2> QED  BY <2>4, <2>5
  <1> QED  BY <1>3, <1>5, <1>6 DEF ForwardingInv
\* The next attempt is made only when all before it are settled.
LEMMA SendSound ==
    ASSUME ForwardingInv, NEW c \in Callers, Send(c)
    PROVE  ForwardingInv'
  <1> DEFINE i == c[1]
             h == <<i, Made(i) + 1>>
  <1>1. /\ phase[c] = "run" /\ stage[c] = "send" /\ plan[c] # <<>>
        /\ net' = [net EXCEPT ![h] = "sent"] /\ stage' = [stage EXCEPT ![c] = "sending"]
        /\ plan' = [plan EXCEPT ![c] = Tail(@)]
        /\ UNCHANGED <<phase, excuse, overflow, reason, renders, losses>>
    BY DEF Send, SendTo, Step, Work, flightVars, Made
  <1>2. Entry(c) /\ c = <<i, 0>> /\ i \in Ingress /\ DEFAULT_FORWARD_CANDIDATES \in Nat
    BY <1>1, CallOf, ForwardingAssumption DEF ForwardingInv, CallSound
  <1>3. /\ plan[c] \in Seq(Nodes) /\ Tail(plan[c]) \in Seq(Nodes)
        /\ Len(plan[c]) \in Nat \ {0} /\ Len(Tail(plan[c])) = Len(plan[c]) - 1
    <2>1. plan[c] \in Seq(Nodes)
      BY DEF ForwardingInv, Types
    <2> QED  BY <1>1, <2>1, HeadTailProperties, EmptySeq, LenProperties
  <1>4. RequestSound(i)
    BY <1>2 DEF ForwardingInv
  <1>5. Made(i) \in Nat /\ Made(i) + 1 \in 1..DEFAULT_FORWARD_CANDIDATES
    BY <1>2, <1>3, <1>4 DEF RequestSound
  <1>6. h \in Callers /\ ~Entry(h) /\ h # c
    <2>1. Made(i) + 1 \in 0..DEFAULT_FORWARD_CANDIDATES
      BY <1>2, <1>5
    <2> QED  BY <1>2, <1>5, <2>1, CallIn DEF Entry
  <1>7. net[h] = "none"
    <2>1. Made(i) + 1 \notin Attempts(i)
      BY <1>4, <1>5 DEF RequestSound
    <2> QED  BY <1>5, <2>1 DEF Attempts
  <1> HIDE DEF h
  <1>8. Types'
    BY <1>1, <1>3 DEF ForwardingInv, Types, Stages
  <1>9. /\ \A d \in Callers : net'[d] = IF d = h THEN "sent" ELSE net[d]
        /\ \A d \in Callers : stage'[d] = IF d = c THEN "sending" ELSE stage[d]
        /\ \A d \in Callers : plan'[d] = IF d = c THEN Tail(plan[c]) ELSE plan[d]
    BY <1>1 DEF ForwardingInv, Types
  <1>10. ASSUME NEW d \in Callers
         PROVE  CallSound(d)'
    <2>0. CallSound(d) /\ CallSound(c) /\ CallSound(h)
      BY <1>6 DEF ForwardingInv
    <2>1. CASE d = c
      <3>1. reason[c] = NoVal /\ NoVal \notin Retryable \cup {"ForwardFailed"}
        BY <1>1, <2>0, ForwardingAssumption DEF CallSound, Reasons
      <3> QED  BY <1>1, <1>2, <1>6, <1>9, <2>0, <2>1, <3>1 DEF CallSound, Entry
    <2>2. CASE d = h
      BY <1>1, <1>6, <1>7, <1>9, <2>0, <2>2 DEF CallSound, Entry
    <2>3. CASE d # c /\ d # h
      BY <1>1, <1>9, <2>0, <2>3 DEF CallSound, Entry
    <2> QED  BY <2>1, <2>2, <2>3
  <1>11. ASSUME NEW j \in Ingress
         PROVE  RequestSound(j)'
    <2>0. \A n \in 0..DEFAULT_FORWARD_CANDIDATES : <<j, n>> \in Callers
      BY CallIn
    <2>1. \A n \in 1..DEFAULT_FORWARD_CANDIDATES : <<j, n>> \in Callers
      BY <1>2, <2>0
    <2>2. RequestSound(j)
      BY DEF ForwardingInv
    <2>3. ASSUME NEW n \in Attempts(j), Settled(<<j, n>>)
          PROVE  Settled(<<j, n>>)'
      <3>1. <<j, n>> \in Callers /\ net[<<j, n>>] # "none"
        BY <2>1, <2>3 DEF Attempts
      <3>2. <<j, n>> # h
        BY <1>7, <3>1
      <3> QED  BY <1>1, <1>9, <2>3, <3>1, <3>2 DEF Settled
    <2>4. CASE j # i
      <3>1. \A n : <<j, n>> # h /\ <<j, n>> # c
        BY <1>2, <2>4 DEF h
      <3>2. Attempts(j)' = Attempts(j)
        BY <1>9, <2>1, <3>1 DEF Attempts
      <3>3. Made(j)' = Made(j)
        BY <3>2 DEF Made
      <3>4. <<j, 0>> \in Callers
        BY <1>2, <2>0
      <3> QED  BY <1>9, <2>2, <2>3, <3>1, <3>2, <3>3, <3>4 DEF RequestSound
    <2>5. CASE j = i
      <3>1. \A n : <<i, n>> = h <=> n = Made(i) + 1
        BY DEF h
      <3>2. Attempts(i)' = Attempts(i) \cup {Made(i) + 1}
        BY <1>5, <1>9, <2>1, <2>5, <3>1 DEF Attempts
      <3>3. Attempts(i)' = 1..(Made(i) + 1)
        <4>1. Attempts(i) = 1..Made(i)
          BY <1>4 DEF RequestSound
        <4> QED  BY <1>5, <3>2, <4>1
      <3>4. Made(i)' = Made(i) + 1
        <4>1. Cardinality(1..(Made(i) + 1)) = Made(i) + 1
          BY <1>5, FS_Interval
        <4> QED  BY <3>3, <4>1 DEF Made
      <3>5. stage'[<<i, 0>>] = "sending" /\ plan'[<<i, 0>>] = Tail(plan[<<i, 0>>])
        BY <1>2, <1>9, <2>0, <2>5
      <3>6. Len(plan'[<<i, 0>>]) + Made(i)' <= DEFAULT_FORWARD_CANDIDATES
        <4>1. Len(plan[c]) + Made(i) <= DEFAULT_FORWARD_CANDIDATES
          BY <1>2, <1>4 DEF RequestSound
        <4> QED  BY <1>2, <1>3, <1>5, <3>4, <3>5, <4>1
      <3>7. ASSUME NEW n \in Attempts(i)', n < Made(i)'
            PROVE  Settled(<<i, n>>)'
        <4>1. n \in Attempts(i)
          BY <1>5, <3>2, <3>4, <3>7
        <4>2. Settled(<<i, n>>)
          BY <1>1, <1>2, <1>4, <4>1 DEF RequestSound
        <4> QED  BY <2>3, <2>5, <4>1, <4>2
      <3> QED  BY <1>5, <2>5, <3>3, <3>4, <3>5, <3>6, <3>7 DEF RequestSound
    <2> QED  BY <2>4, <2>5
  <1>12. \A j \in Ingress : RendersCounted(j)'
    <2>1. /\ \A d \in Callers : stage'[d] = "native" <=> stage[d] = "native"
          /\ \A d \in Callers : net'[d] = "lost" <=> net[d] = "lost"
      BY <1>1, <1>7, <1>9
    <2> QED  BY <1>1, <2>1, SameCounts
  <1> QED  BY <1>8, <1>10, <1>11, <1>12 DEF ForwardingInv

-----------------------------------------------------------------------------
\* Nothing in the invariant changes with time or with an entry of a cache.
LEMMA UnchangedSound ==
    ASSUME ForwardingInv, UNCHANGED <<phase, workVars, net, reason, renders, losses>>
    PROVE  ForwardingInv'
  <1> USE DEF workVars
  <1>1. Types'
    BY DEF ForwardingInv, Types
  <1>2. \A d \in Callers : CallSound(d)'
    BY DEF ForwardingInv, CallSound, Entry
  <1>3. \A i \in Ingress : RequestSound(i)'
    BY DEF ForwardingInv, RequestSound, Made, Attempts, Settled
  <1>4. \A i \in Ingress : RendersCounted(i)'
    BY DEF ForwardingInv, RendersCounted, Native, Lost
  <1> QED  BY <1>1, <1>2, <1>3, <1>4 DEF ForwardingInv

\* The invariant holds at first, ...
LEMMA InitSound == ForwardingInit => ForwardingInv
  <1> SUFFICES ASSUME ForwardingInit PROVE ForwardingInv
    OBVIOUS
  <1>0. /\ phase = [c \in Callers |-> "idle"] /\ stage = [c \in Callers |-> "start"]
        /\ plan = [c \in Callers |-> <<>>] /\ excuse = [c \in Callers |-> NoVal]
        /\ overflow = [c \in Callers |-> FALSE] /\ net = [c \in Callers |-> "none"]
        /\ reason = [c \in Callers |-> NoVal]
        /\ renders = [i \in Ingress |-> 0] /\ losses = [i \in Ingress |-> 0]
    BY DEF ForwardingInit, Init
  <1>1. Types
    BY <1>0, EmptySeq DEF Types, CachePhases, Stages
  <1>2. ASSUME NEW c \in Callers
        PROVE  CallSound(c)
    <2>1. NoVal \notin Retryable \cup {"ForwardFailed"} /\ NoVal # "ForwardFailed"
      BY ForwardingAssumption DEF Reasons
    <2> QED  BY <1>0, <2>1 DEF CallSound
  <1>3. ASSUME NEW i \in Ingress
        PROVE  RequestSound(i) /\ RendersCounted(i)
    <2>1. DEFAULT_FORWARD_CANDIDATES \in Nat /\ <<i, 0>> \in Callers
      BY OriginIn, ForwardingAssumption
    <2>2. /\ \A n \in 0..DEFAULT_FORWARD_CANDIDATES : <<i, n>> \in Callers
          /\ \A n \in 1..DEFAULT_FORWARD_CANDIDATES : <<i, n>> \in Callers
      BY <2>1, CallIn
    <2>3. Attempts(i) = {} /\ Native(i) = {} /\ Lost(i) = {}
      BY <1>0, <2>2 DEF Attempts, Native, Lost
    <2>4. Made(i) = 0
      BY <2>3, FS_EmptySet DEF Made
    <2>5. 1..0 = {} /\ plan[<<i, 0>>] = <<>> /\ Len(<<>>) = 0
      BY <1>0, <2>1
    <2>6. RequestSound(i)
      BY <2>1, <2>3, <2>4, <2>5 DEF RequestSound
    <2>7. RendersCounted(i)
      BY <1>0, <2>3, FS_EmptySet DEF RendersCounted
    <2> QED  BY <2>6, <2>7
  <1> QED  BY <1>1, <1>2, <1>3 DEF ForwardingInv

\* ... and after every step.
LEMMA NextSound == ForwardingInv /\ [ForwardingNext]_vars => ForwardingInv'
  <1> SUFFICES ASSUME ForwardingInv, [ForwardingNext]_vars PROVE ForwardingInv'
    OBVIOUS
  <1>1. ASSUME NEW c \in Callers, Submit(c) \/ UseCache(c) \/ Local(c) \/ Forward(c) \/ Network(c) \/ Tick(c)
        PROVE  ForwardingInv'
    <2>1. CASE Submit(c)
      BY <2>1, SubmitQuiet, QuietStepSound
    <2>2. CASE UseCache(c)
      BY <2>2, UseCacheQuiet, QuietStepSound
    <2>3. CASE Local(c)
      BY <2>3, LocalQuiet, StartNativeSound, QuietStepSound
    <2>4. CASE Forward(c)
      BY <2>4, ForwardQuiet, SendSound, QuietStepSound
    <2>5. CASE Network(c)
      BY <2>5, DeliverSound, RefuseSound, LoseAnswerSound DEF Network
    <2>6. CASE Tick(c)
      BY <2>6, UnchangedSound DEF Tick, flightVars, netVars
    <2> QED  BY <1>1, <2>1, <2>2, <2>3, <2>4, <2>5, <2>6
  <1>2. ASSUME NEW k \in Keys, Expire(k) /\ UNCHANGED <<workVars, netVars, left, reason, renders, losses>>
        PROVE  ForwardingInv'
    BY <1>2, UnchangedSound DEF Expire, netVars
  <1>3. CASE UNCHANGED vars
    BY <1>3, UnchangedSound DEF vars, flightVars, netVars
  <1> QED  BY <1>1, <1>2, <1>3 DEF ForwardingNext

\* Every variable of a cluster keeps its type: a request is forwarded no more often than the
\* dispatcher allows, whatever its peers and the network do (node.rs, forward_with_failover).
THEOREM ForwardingTypeCorrect == ForwardingSpec => []TypeOK
  <1>1. ForwardingSpec => []ForwardingInv
    BY InitSound, NextSound, PTL DEF ForwardingSpec
  <1>2. ForwardingInv => TypeOK
    BY InvImplies
  <1> QED  BY <1>1, <1>2, PTL

\* For any number of requests, nodes and candidates: a request is rendered natively at most once
\* more than answers of peers were lost, and a rejection that its client may retry is given to
\* a request that was rendered only when one was lost (forward_with_failover and
\* process_local_route of node.rs).
THEOREM WorkIsNotRepeated == ForwardingSpec => []WorkNotRepeated
  <1>1. ForwardingSpec => []ForwardingInv
    BY InitSound, NextSound, PTL DEF ForwardingSpec
  <1>2. ForwardingInv => WorkNotRepeated
    BY InvImplies
  <1> QED  BY <1>1, <1>2, PTL
==============================================================================
