---------------------------- MODULE NodeLifecycle ----------------------------
(***************************************************************************)
(* The life of a biei process around its requests: admission under the     *)
(* drain controller, the shutdown coordinator started by the signal, the   *)
(* HTTP listeners, and the main task that closes the workers and the       *)
(* membership once the listeners have stopped.                             *)
(*                                                                         *)
(* `accepting' is stored with Release and read with Acquire, so a store    *)
(* may stay invisible to other threads (`storing') until the coordinator's *)
(* next read-modify-write: notify_waiters, the chitchat lock and the watch *)
(* channel all make one on the targets the servers are built for.          *)
(***************************************************************************)
EXTENDS Naturals, FiniteSets

CONSTANTS HttpRequests,  \* requests, public or forwarded
          Limit          \* permits of the ingress (the internal endpoint has its own)

ASSUME LifecycleAssumption == Limit \in Nat \ {0} /\ IsFiniteSet(HttpRequests)

VARIABLES accepting,     \* DrainState::accepting, as other threads read it
          storing,       \* the coordinator's store is not visible yet
          in_flight,     \* DrainState::in_flight
          progress,      \* where each request is
          client,        \* whether its connection handler still exists
          coordinator,   \* where the shutdown task is
          notified,      \* whether the coordinator's Notified has been signalled
          drained,       \* what wait_idle returned: "unknown", "idle" or "timeout"
          deadline,      \* ShutdownState::deadline: "none", "set" or "passed"
          stop_http,     \* ShutdownState::stop_http
          http,          \* the listeners: "serving", "stopping", "stopped"
          main           \* where run() is

drainVars == <<accepting, storing, in_flight, notified>>
requestVars == <<progress, client>>
signalVars == <<deadline, stop_http>>
lifecycleVars == <<drainVars, requestVars, coordinator, drained, signalVars, http, main>>

Counted == {"counted", "running"}
InHandler == {"admitted", "checked", "counted", "backing_out"}
HoldsPermit(r) == progress[r] \in {"admitted", "checked", "counted", "running"}
Awaits == {"signal", "publish", "parked"}     \* where an aborted coordinator ends

LifecycleTypeOK ==
    /\ accepting \in BOOLEAN /\ storing \in BOOLEAN /\ notified \in BOOLEAN
    /\ in_flight \in 0..Cardinality(HttpRequests)
    /\ progress \in [HttpRequests -> {"idle", "admitted", "checked", "counted", "backing_out",
                                 "running", "leaving", "done"}]
    /\ client \in [HttpRequests -> BOOLEAN]
    /\ coordinator \in {"signal", "begin", "notify", "publish", "stop", "first_look",
                        "register", "look", "parked", "finished", "aborted"}
    /\ drained \in {"unknown", "idle", "timeout"}
    /\ deadline \in {"none", "set", "passed"} /\ stop_http \in BOOLEAN
    /\ http \in {"serving", "stopping", "stopped"}
    /\ main \in {"serving", "aborting", "finishing", "workers", "membership", "exited"}

LifecycleInit ==
    /\ accepting = TRUE /\ storing = FALSE /\ in_flight = 0 /\ notified = FALSE
    /\ progress = [r \in HttpRequests |-> "idle"] /\ client = [r \in HttpRequests |-> FALSE]
    /\ coordinator = "signal" /\ drained = "unknown"
    /\ deadline = "none" /\ stop_http = FALSE
    /\ http = "serving" /\ main = "serving"

-----------------------------------------------------------------------------
(* Requests. *)

Move(r, to) == progress' = [progress EXCEPT ![r] = to]
OnlyRequests == UNCHANGED <<coordinator, drained, signalVars, http, main>>

\* A connection runs in a task of its own. It takes requests until it is told to stop, also
\* when its listener has failed; the concurrency permit comes first, and a forwarded request
\* reads its body before it asks the drain controller.
AdmitRequest(r) ==
    /\ progress[r] = "idle"
    /\ http = "serving" \/ (http = "stopped" /\ ~stop_http)
    /\ Cardinality({q \in HttpRequests : HoldsPermit(q)}) < Limit
    /\ Move(r, "admitted") /\ client' = [client EXCEPT ![r] = TRUE]
    /\ UNCHANGED drainVars /\ OnlyRequests

\* try_acquire: look, count, look again.
FirstCheck(r) ==
    /\ progress[r] = "admitted"
    /\ Move(r, IF accepting THEN "checked" ELSE "done")
    /\ UNCHANGED <<client, drainVars>> /\ OnlyRequests

Count(r) ==
    /\ progress[r] = "checked"
    /\ in_flight' = in_flight + 1
    /\ Move(r, "counted")
    /\ UNCHANGED <<accepting, storing, notified, client>> /\ OnlyRequests

\* With a permit the render is spawned and owns it; the handler only awaits the task.
SecondCheck(r) ==
    /\ progress[r] = "counted"
    /\ IF accepting
         THEN Move(r, "running") /\ UNCHANGED in_flight
         ELSE /\ in_flight' = in_flight - 1
              /\ Move(r, IF in_flight = 1 THEN "backing_out" ELSE "done")
    /\ UNCHANGED <<client, accepting, storing, notified>> /\ OnlyRequests

\* DrainPermit::drop: the one that brings the count to zero signals afterwards.
FinishRender(r) ==
    /\ progress[r] = "running"
    /\ in_flight' = in_flight - 1
    /\ Move(r, IF in_flight = 1 THEN "leaving" ELSE "done")
    /\ UNCHANGED <<client, accepting, storing, notified>> /\ OnlyRequests

\* notify_waiters reaches a Notified that is registered, and is lost otherwise.
NotifyWaiters(r) ==
    /\ progress[r] \in {"backing_out", "leaving"}
    /\ notified' = (notified \/ coordinator \in {"look", "parked"})
    /\ Move(r, "done")
    /\ UNCHANGED <<client, accepting, storing, in_flight>> /\ OnlyRequests

\* The answer is written, or the client goes away: before the drain controller is asked that
\* ends the request, later the spawned render keeps its permits.
Disconnect(r) ==
    /\ client[r] /\ progress[r] \in {"admitted", "running", "done", "leaving"}
    /\ client' = [client EXCEPT ![r] = FALSE]
    /\ progress' = [progress EXCEPT ![r] = IF @ = "admitted" THEN "done" ELSE @]
    /\ UNCHANGED drainVars /\ OnlyRequests

-----------------------------------------------------------------------------
(* The shutdown coordinator. *)

OnlyCoordinator == UNCHANGED <<requestVars, http, main>>

Signal ==
    /\ coordinator = "signal" /\ main # "aborting"
    /\ coordinator' = "begin"
    /\ deadline' = "set"
    /\ UNCHANGED <<drainVars, drained, stop_http>> /\ OnlyCoordinator

\* begin_draining stores the flag, and notifies if nobody is in flight, ...
BeginDraining ==
    /\ coordinator = "begin"
    /\ storing' = TRUE
    /\ coordinator' = IF in_flight = 0 THEN "notify" ELSE "publish"
    /\ UNCHANGED <<accepting, in_flight, notified, drained, signalVars>> /\ OnlyCoordinator

StoreVisible ==
    /\ storing /\ storing' = FALSE /\ accepting' = FALSE
    /\ UNCHANGED <<in_flight, notified, coordinator, drained, signalVars>> /\ OnlyCoordinator

\* ... which reaches nobody yet.
NotifyNobody ==
    /\ coordinator = "notify" /\ ~storing
    /\ coordinator' = "publish"
    /\ UNCHANGED <<drainVars, drained, signalVars>> /\ OnlyCoordinator

\* set_draining completes, times out, or there is no membership.
Published ==
    /\ coordinator = "publish" /\ main # "aborting"
    /\ coordinator' = "stop"
    /\ UNCHANGED <<drainVars, drained, signalVars>> /\ OnlyCoordinator

\* Faulty: nothing between the store of the flag and the look at the count.
StopHttp_unfenced ==
    /\ coordinator = "stop"
    /\ stop_http' = TRUE
    /\ coordinator' = "first_look"
    /\ UNCHANGED <<drainVars, drained, deadline>> /\ OnlyCoordinator

\* The watch channel's lock is a read-modify-write: the store is visible from here on.
StopHttp ==
    /\ coordinator = "stop" /\ ~storing
    /\ stop_http' = TRUE
    /\ coordinator' = "first_look"
    /\ UNCHANGED <<drainVars, drained, deadline>> /\ OnlyCoordinator

Idle == coordinator' = "finished" /\ drained' = "idle"

\* wait_idle looks twice before it registers, once on its own and once in wait_for_change.
LookBeforeWaiting ==
    /\ coordinator = "first_look"
    /\ \/ in_flight = 0 /\ Idle
       \/ in_flight > 0 /\ coordinator' = "register" /\ UNCHANGED drained
    /\ UNCHANGED <<drainVars, signalVars>> /\ OnlyCoordinator

Register ==
    /\ coordinator = "register"
    /\ coordinator' = "look" /\ notified' = FALSE
    /\ UNCHANGED <<accepting, storing, in_flight, drained, signalVars>> /\ OnlyCoordinator

Look ==
    /\ coordinator = "look"
    /\ \/ in_flight = 0 /\ Idle
       \/ in_flight > 0 /\ coordinator' = "parked" /\ UNCHANGED drained
    /\ UNCHANGED <<drainVars, signalVars>> /\ OnlyCoordinator

Woken ==
    /\ coordinator = "parked" /\ notified /\ main # "aborting"
    /\ coordinator' = "register"
    /\ UNCHANGED <<drainVars, drained, signalVars>> /\ OnlyCoordinator

DrainGraceElapses ==
    /\ coordinator = "parked" /\ main # "aborting"
    /\ coordinator' = "finished" /\ drained' = "timeout"
    /\ UNCHANGED <<drainVars, signalVars>> /\ OnlyCoordinator

-----------------------------------------------------------------------------
(* The listeners and the main task. *)

OnlyServer == UNCHANGED <<drainVars, coordinator, drained, deadline, stop_http>>

HttpStops ==
    /\ http = "serving" /\ stop_http
    /\ http' = "stopping"
    /\ UNCHANGED <<requestVars, main>> /\ OnlyServer

\* Graceful: every connection has been answered.
HttpFinishes ==
    /\ http = "stopping" /\ \A r \in HttpRequests : ~client[r]
    /\ http' = "stopped"
    /\ UNCHANGED <<requestVars, main>> /\ OnlyServer

\* Faulty: the listeners wait for their clients however long they stay.
HttpGraceElapses_waits ==
    /\ http = "stopping" /\ \A r \in HttpRequests : ~client[r]
    /\ http' = "stopped"
    /\ UNCHANGED <<requestVars, main>> /\ OnlyServer

\* HTTP_SHUTDOWN_GRACE elapses; the listener's future is dropped, its connections go on.
HttpGraceElapses ==
    /\ http = "stopping"
    /\ http' = "stopped"
    /\ UNCHANGED <<requestVars, main>> /\ OnlyServer

ListenerFails ==
    /\ http = "serving"
    /\ http' = "stopped"
    /\ UNCHANGED <<requestVars, main>> /\ OnlyServer

MainMoves(to) ==
    /\ main' = to
    /\ UNCHANGED <<requestVars, http>>

\* finish_shutdown: without a deadline the coordinator is aborted, ...
ListenersDone ==
    /\ main = "serving" /\ http = "stopped"
    /\ MainMoves(IF deadline = "none" THEN "aborting" ELSE "finishing")
    /\ OnlyServer

\* ... which ends it at its next await,
Aborted ==
    /\ main = "aborting"
    /\ \/ coordinator \in Awaits /\ coordinator' = "aborted"
       \/ coordinator = "finished" /\ UNCHANGED coordinator
    /\ MainMoves("workers")
    /\ UNCHANGED <<drainVars, drained, signalVars>>

\* Faulty: the workers are closed as soon as the listeners have stopped.
CoordinatorDone_unawaited ==
    /\ main = "finishing"
    /\ MainMoves("workers") /\ OnlyServer

\* ... with one it is awaited,
CoordinatorDone ==
    /\ main = "finishing" /\ coordinator = "finished"
    /\ MainMoves("workers") /\ OnlyServer

\* ... until the process deadline, and then aborted.
FinishExpires ==
    /\ main = "finishing" /\ deadline = "passed"
    /\ MainMoves("aborting") /\ OnlyServer

ProcessDeadline ==
    /\ deadline = "set" /\ deadline' = "passed"
    /\ UNCHANGED <<drainVars, requestVars, coordinator, drained, stop_http, http, main>>

\* node.shutdown and shutdown_membership end by themselves within the deadline.
WorkersClosed == main = "workers" /\ MainMoves("membership") /\ OnlyServer
Exit == main = "membership" /\ MainMoves("exited") /\ OnlyServer

-----------------------------------------------------------------------------
RequestStep(r) ==
    FirstCheck(r) \/ Count(r) \/ SecondCheck(r) \/ FinishRender(r) \/ NotifyWaiters(r)

CoordinatorStep ==
    \/ BeginDraining \/ NotifyNobody \/ Published \/ StopHttp
    \/ LookBeforeWaiting \/ Register \/ Look \/ Woken

MainStep ==
    \/ HttpStops \/ HttpFinishes \/ HttpGraceElapses
    \/ ListenersDone \/ Aborted \/ CoordinatorDone \/ FinishExpires \/ WorkersClosed \/ Exit

LifecycleNext ==
    \/ \E r \in HttpRequests : AdmitRequest(r) \/ RequestStep(r) \/ Disconnect(r)
    \/ Signal \/ CoordinatorStep \/ StoreVisible \/ DrainGraceElapses
    \/ MainStep \/ ListenerFails \/ ProcessDeadline
    \/ main = "exited" /\ UNCHANGED lifecycleVars

\* Threads run, stores become visible, the timers of the shutdown fire and synchronous
\* request code runs to its end.  A render may hang, and a client may stay.
LifecycleFairness ==
    /\ WF_lifecycleVars(CoordinatorStep) /\ WF_lifecycleVars(StoreVisible) /\ WF_lifecycleVars(MainStep)
    /\ WF_lifecycleVars(DrainGraceElapses) /\ WF_lifecycleVars(ProcessDeadline)
    /\ \A r \in HttpRequests : WF_lifecycleVars(FirstCheck(r) \/ Count(r) \/ SecondCheck(r) \/ NotifyWaiters(r))

LifecycleSpec == LifecycleInit /\ [][LifecycleNext]_lifecycleVars /\ LifecycleFairness

(***************************************************************************)
(* Properties.                                                             *)
(***************************************************************************)

\* Once wait_idle has reported an idle node, no request holds a drain permit and none gets
\* one any more: the workers may be closed (drain.rs:40, drain.rs:58).
IdleIsFinal == drained = "idle" => \A r \in HttpRequests : progress[r] # "running"

\* A coordinator parked in wait_idle without a signal still has a request in flight, or one
\* that is about to signal (drain.rs:75).
DrainNotStranded ==
    coordinator = "parked" /\ ~notified =>
        in_flight > 0 \/ \E r \in HttpRequests : progress[r] \in {"leaving", "backing_out"}

\* The drain neither ends early nor sleeps through its end.
DrainExact == IdleIsFinal /\ DrainNotStranded

\* The workers are closed under a running render only when the drain grace or the process
\* deadline has passed, or a listener failed before any signal (run.rs:162).
ClosesDrained ==
    main \in {"workers", "membership", "exited"} /\ (\E r \in HttpRequests : progress[r] = "running") =>
        drained = "timeout" \/ coordinator = "aborted"

\* A signalled process ends, whatever its renders and clients do.
ShutdownEnds == deadline # "none" ~> main = "exited"
=============================================================================
