------------------------------ MODULE MCProcess ------------------------------
(* Three parts of one node that share no state: its snapshots of the       *)
(* cluster, a renderer slot and the shutdown of the process.  Nothing is   *)
(* gained by interleaving them, so a behaviour moves one of them, `part',  *)
(* and leaves the other two as they start.  Each is owed the fairness of   *)
(* its module while it moves.                                              *)
EXTENDS SnapshotCache, RendererSlot, NodeLifecycle, TLC

CONSTANTS c1, c2

MCCallers == {c1, c2}

VARIABLE part

processVars == <<part, vars, rendererVars, lifecycleVars>>

Snapshots == part = "snapshots"
Slot == part = "slot"
Shutdown == part = "shutdown"

ProcessInit ==
    /\ part \in {"snapshots", "slot", "shutdown"}
    /\ Init /\ SlotInit /\ LifecycleInit
    /\ Snapshots \/ cache = "view"      \* which of the caches rests makes no difference

\* A worker that is gone stays gone; any other slot that cannot move is stuck.
SlotDropped == (\A s \in Slots : phase[s] = "dropped") /\ UNCHANGED rendererVars

ProcessNext ==
    /\ UNCHANGED part
    /\ \/ Snapshots /\ Next /\ UNCHANGED <<rendererVars, lifecycleVars>>
       \/ Slot /\ (SlotNext \/ SlotDropped) /\ UNCHANGED <<vars, lifecycleVars>>
       \/ Shutdown /\ LifecycleNext /\ UNCHANGED <<vars, rendererVars>>

\* Fairness, SlotFairness and LifecycleFairness, action by action.
ProcessFairness ==
    /\ \A c \in Callers : WF_vars(Snapshots /\ CallerStep(c))
    /\ \A s \in Slots :
          /\ WF_rendererVars(Slot /\ StartReplacement(s))
          /\ WF_rendererVars(Slot /\ (TryAbandon(s) \/ CompareExchange(s)))
          /\ SF_rendererVars(Slot /\ SpawnReplacement(s))
          /\ \A t \in Tids : WF_rendererVars(Slot /\ Thread(s, t))
    /\ WF_lifecycleVars(Shutdown /\ CoordinatorStep)
    /\ WF_lifecycleVars(Shutdown /\ StoreVisible)
    /\ WF_lifecycleVars(Shutdown /\ MainStep)
    /\ WF_lifecycleVars(Shutdown /\ DrainGraceElapses)
    /\ WF_lifecycleVars(Shutdown /\ ProcessDeadline)
    /\ \A r \in HttpRequests :
          WF_lifecycleVars(Shutdown /\ (FirstCheck(r) \/ Count(r) \/ SecondCheck(r) \/ NotifyWaiters(r)))

ProcessSpec == ProcessInit /\ [][ProcessNext]_processVars /\ ProcessFairness
=============================================================================
