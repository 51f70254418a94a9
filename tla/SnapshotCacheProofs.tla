------------------------- MODULE SnapshotCacheProofs -------------------------
(***************************************************************************)
(* Proofs about SnapshotCache, for any set of callers and any number of    *)
(* membership changes, expiries and dropped calls: one loader at a time,   *)
(* nobody waits without somebody who will notify, and a view shows what    *)
(* its tag names.                                                          *)
(***************************************************************************)
EXTENDS SnapshotCache, TLAPS

-----------------------------------------------------------------------------
(* The inductive invariant of the views.                                   *)

\* Every change of the bus is a turn, so epochs stay below the bound on turns.
EpochIsPast == epoch <= turns

\* A call began when the bus was no further than it is.
CallsArePast == \A c \in Callers : since[c] <= epoch

\* What a loader has in hand: its tag was read before the state, both in the past.
LoadsArePast ==
    cache = "view" => \A c \in Callers :
        /\ at[c] = "asking" => loaded[c].tag <= epoch
        /\ at[c] = "read" => loaded[c].tag <= loaded[c].state /\ loaded[c].state <= epoch

TypeInv == TypeOK /\ EpochIsPast

ViewInv == TypeInv /\ CallsArePast /\ LoadsArePast /\ ViewsCurrent

-----------------------------------------------------------------------------
(* Types.                                                                  *)

\* The initial states.
LEMMA TypeInit == Init => TypeInv
  <1> SUFFICES ASSUME Init PROVE TypeInv
    OBVIOUS
  <1>1. /\ cache \in Caches /\ epoch \in Epochs /\ turns \in 0..MaxTurns
        /\ cached = NoVal /\ epoch <= turns
        /\ since \in [Callers -> Epochs]
    BY SnapshotAssumption DEF Init, Epochs
  <1>2. at \in [Callers -> Phases] /\ then \in [Callers -> {"idle", "first", "done"}]
    BY DEF Init, Phases
  <1>3. loaded \in [Callers -> [tag: Epochs, state: Epochs]]
    BY SnapshotAssumption DEF Init, Epochs, NothingRead
  <1>4. loading \in BOOLEAN /\ woken \in [Callers -> BOOLEAN] /\ answer \in [Callers -> {NoVal} \cup Epochs]
    BY DEF Init
  <1> QED  BY <1>1, <1>2, <1>3, <1>4 DEF TypeInv, TypeOK, EpochIsPast

\* One step of one call keeps the types.
LEMMA CallerStepTypes ==
    ASSUME TypeInv, NEW c \in Callers, Call(c) \/ CallerStep(c)
    PROVE  TypeInv'
  <1> USE SnapshotAssumption DEF TypeInv, TypeOK, EpochIsPast, Epochs, Phases, LoaderAt, Goto
  <1>1. CASE Call(c)
    BY <1>1 DEF Call
  <1>2. CASE FirstLook(c)
    BY <1>2 DEF FirstLook, Return, usable
  <1>3. CASE Subscribe(c)
    BY <1>3 DEF Subscribe
  <1>4. CASE SecondLook(c)
    BY <1>4 DEF SecondLook, Return, usable
  <1>5. CASE Wake(c)
    BY <1>5 DEF Wake
  <1>6. CASE BeginLoad(c)
    <2>1. view_epoch \in Epochs
      BY DEF view_epoch
    <2>2. loaded' \in [Callers -> [tag: Epochs, state: Epochs]]
      BY <1>6, <2>1 DEF BeginLoad
    <2> QED  BY <1>6, <2>2 DEF BeginLoad
  <1>7. CASE GossipAnswers(c)
    BY <1>7 DEF GossipAnswers
  <1>8. CASE Complete(c)
    BY <1>8 DEF Complete
  <1>9. CASE ViewMoved(c)
    BY <1>9 DEF ViewMoved, DropLoad
  <1>10. CASE Notify(c)
    BY <1>10 DEF Notify, NothingRead
  <1> QED  BY <1>1, <1>2, <1>3, <1>4, <1>5, <1>6, <1>7, <1>8, <1>9, <1>10 DEF CallerStep

\* So does what happens to the calls.
LEMMA TurnTypes ==
    ASSUME TypeInv,
           (\E c \in Callers : Deadline(c) \/ Cancel(c)) \/ MembershipChanges \/ Age
    PROVE  TypeInv'
  <1> USE SnapshotAssumption DEF TypeInv, TypeOK, EpochIsPast, Epochs, Phases, LoaderAt, Goto
  <1>1. ASSUME NEW c \in Callers, Deadline(c)
        PROVE  TypeInv'
    <2>1. /\ turns' \in 0..MaxTurns /\ turns <= turns'
          /\ UNCHANGED <<cache, epoch, cached, since, loaded, woken, answer>>
      BY <1>1 DEF Deadline, DropLoad
    <2>2. loading' \in BOOLEAN
      BY <1>1 DEF Deadline, DropLoad
    <2>3. at' \in [Callers -> Phases] /\ then' \in [Callers -> {"idle", "first", "done"}]
      BY <1>1 DEF Deadline, DropLoad
    <2> QED  BY <2>1, <2>2, <2>3
  <1>2. ASSUME NEW c \in Callers, Cancel(c)
        PROVE  TypeInv'
    <2>1. /\ turns' \in 0..MaxTurns /\ turns <= turns'
          /\ UNCHANGED <<cache, epoch, cached, since, loaded, woken, answer>>
      BY <1>2 DEF Cancel, DropLoad
    <2>2. loading' \in BOOLEAN
      BY <1>2 DEF Cancel, DropLoad
    <2>3. at' \in [Callers -> Phases] /\ then' \in [Callers -> {"idle", "first", "done"}]
      BY <1>2 DEF Cancel, DropLoad
    <2> QED  BY <2>1, <2>2, <2>3
  <1>3. CASE MembershipChanges
    BY <1>3 DEF MembershipChanges
  <1>4. CASE Age
    BY <1>4 DEF Age
  <1> QED  BY <1>1, <1>2, <1>3, <1>4

\* Every step keeps the types.
LEMMA TypeStep == TypeInv /\ [Next]_vars => TypeInv'
  <1> SUFFICES ASSUME TypeInv, [Next]_vars PROVE TypeInv'
    OBVIOUS
  <1>1. CASE UNCHANGED vars
    BY <1>1 DEF vars, TypeInv, TypeOK, EpochIsPast
  <1>2. CASE Next
    BY <1>2, CallerStepTypes, TurnTypes DEF Next
  <1> QED  BY <1>1, <1>2

\* Every variable of the caches keeps its type, in particular the snapshot's tag and state stay
\* epochs the bus has had (view_cache.rs:34-50).
THEOREM TypeCorrect == Spec => []TypeOK
  <1>1. TypeInv => TypeOK
    BY DEF TypeInv
  <1> QED  BY <1>1, TypeInit, TypeStep, PTL DEF Spec

-----------------------------------------------------------------------------
(* One loader, and nobody stranded.                                        *)

\* A step of one call that is neither elected nor a loader, and does not begin to wait, leaves
\* the flag, the loader and the waiters' hope as they are.
LEMMA LoaderUntouched ==
    ASSUME TypeOK, NobodyStranded, NEW c \in Callers, NEW phase \in Phases,
           at[c] \notin LoaderAt \cup {"notify"}, phase \notin LoaderAt \cup {"wait"},
           Goto(c, phase), UNCHANGED loading, 
           \A d \in Callers \ {c} : woken'[d] = woken[d]
    PROVE  NobodyStranded'
  <1>1. /\ at'[c] = phase
        /\ \A d \in Callers \ {c} : at'[d] = at[d]
    BY DEF TypeOK, Goto
  <1>2. \A d \in Callers : at'[d] \in LoaderAt <=> at[d] \in LoaderAt
    BY <1>1
  <1>3. \A d \in Callers : at[d] \in LoaderAt \cup {"notify"} => at'[d] \in LoaderAt \cup {"notify"}
    BY <1>1
  <1>4. \A d \in Callers : at'[d] = "wait" /\ ~woken'[d] => at[d] = "wait" /\ ~woken[d]
    BY <1>1
  <1> QED  BY <1>2, <1>3, <1>4 DEF NobodyStranded

\* A caller elected while nobody loads becomes the only loader.
LEMMA Elected ==
    ASSUME TypeOK, NobodyStranded, NEW c \in Callers, ~loading, loading' = TRUE,
           Goto(c, "load"), UNCHANGED woken
    PROVE  NobodyStranded'
  <1>1. /\ at'[c] = "load"
        /\ \A d \in Callers \ {c} : at'[d] = at[d]
    BY DEF TypeOK, Goto
  <1>2. \A d \in Callers : at[d] \notin LoaderAt
    BY DEF NobodyStranded
  <1> QED  BY <1>1, <1>2 DEF NobodyStranded, LoaderAt

\* A loader that goes from one of its phases to the next.
LEMMA LoaderMoves ==
    ASSUME TypeOK, NobodyStranded, NEW c \in Callers, NEW phase \in LoaderAt,
           at[c] \in LoaderAt, Goto(c, phase), UNCHANGED <<loading, woken>>
    PROVE  NobodyStranded'
  <1>1. /\ at'[c] = phase
        /\ \A d \in Callers \ {c} : at'[d] = at[d]
    BY DEF TypeOK, Goto
  <1>2. \A d \in Callers : at'[d] \in LoaderAt <=> at[d] \in LoaderAt
    BY <1>1
  <1>3. \A d \in Callers : at'[d] = "wait" => at[d] = "wait"
    BY <1>1 DEF LoaderAt
  <1>4. \E d \in Callers : at'[d] \in LoaderAt \cup {"notify"}
    BY <1>1
  <1> QED  BY <1>2, <1>3, <1>4 DEF NobodyStranded

\* A loader that ends, with or without a snapshot, still has to notify.
LEMMA LoaderEnds ==
    ASSUME TypeOK, NobodyStranded, NEW c \in Callers, at[c] \in LoaderAt,
           loading' = FALSE, Goto(c, "notify"), UNCHANGED woken
    PROVE  NobodyStranded'
  <1>1. /\ at'[c] = "notify"
        /\ \A d \in Callers \ {c} : at'[d] = at[d]
    BY DEF TypeOK, Goto
  <1>2. \A d \in Callers : at'[d] \notin LoaderAt
    BY <1>1 DEF NobodyStranded, LoaderAt
  <1> QED  BY <1>1, <1>2 DEF NobodyStranded

\* Every step keeps one loader and a hope for every waiter.
LEMMA StrandedStep ==
    TypeOK /\ NobodyStranded /\ [Next]_vars => NobodyStranded'
  <1> SUFFICES ASSUME TypeOK, NobodyStranded, [Next]_vars PROVE NobodyStranded'
    OBVIOUS
  <1>1. CASE UNCHANGED vars
    BY <1>1 DEF vars, NobodyStranded
  <1>2. CASE MembershipChanges \/ Age
    BY <1>2 DEF MembershipChanges, Age, NobodyStranded
  <1>3. ASSUME NEW c \in Callers,
               Call(c) \/ Subscribe(c) \/ Wake(c)
        PROVE  NobodyStranded'
    <2> PICK phase \in Phases :
            /\ at[c] \notin LoaderAt \cup {"notify"} /\ phase \notin LoaderAt \cup {"wait"}
            /\ Goto(c, phase) /\ UNCHANGED loading
            /\ \A d \in Callers \ {c} : woken'[d] = woken[d]
      BY <1>3 DEF Call, Subscribe, Wake, TypeOK, Phases, LoaderAt
    <2> QED  BY LoaderUntouched
  <1>4. ASSUME NEW c \in Callers, FirstLook(c)
        PROVE  NobodyStranded'
    <2>1. at[c] = "first" /\ UNCHANGED woken
      BY <1>4 DEF FirstLook
    <2>2. CASE ~loading /\ loading' = TRUE /\ Goto(c, "load")
      BY <2>1, <2>2, Elected
    <2>3. CASE UNCHANGED loading /\ (Goto(c, "done") \/ Goto(c, "subscribe"))
      BY <2>1, <2>3, LoaderUntouched DEF Phases, LoaderAt
    <2> QED  BY <1>4, <2>2, <2>3 DEF FirstLook, Return
  <1>5. ASSUME NEW c \in Callers, SecondLook(c)
        PROVE  NobodyStranded'
    <2>1. at[c] = "locked" /\ UNCHANGED woken
      BY <1>5 DEF SecondLook
    <2>2. CASE UNCHANGED loading /\ Goto(c, "done")
      BY <2>1, <2>2, LoaderUntouched DEF Phases, LoaderAt
    <2>3. CASE ~loading /\ loading' = TRUE /\ Goto(c, "load")
      BY <2>1, <2>3, Elected
    <2>4. CASE loading /\ loading' = TRUE /\ Goto(c, "wait")
      <3>1. /\ at'[c] = "wait"
            /\ \A d \in Callers \ {c} : at'[d] = at[d]
        BY <2>4 DEF TypeOK, Goto
      <3>2. \A d \in Callers : at'[d] \in LoaderAt <=> at[d] \in LoaderAt
        BY <2>1, <3>1 DEF LoaderAt
      <3> QED  BY <2>1, <2>4, <3>2 DEF NobodyStranded
    <2> QED  BY <1>5, <2>2, <2>3, <2>4 DEF SecondLook, Return
  <1>6. ASSUME NEW c \in Callers, BeginLoad(c) \/ GossipAnswers(c)
        PROVE  NobodyStranded'
    BY <1>6, LoaderMoves DEF BeginLoad, GossipAnswers, LoaderAt
  <1>7. ASSUME NEW c \in Callers, Complete(c) \/ ViewMoved(c)
        PROVE  NobodyStranded'
    BY <1>7, LoaderEnds DEF Complete, ViewMoved, DropLoad, LoaderAt
  <1>8. ASSUME NEW c \in Callers, Notify(c)
        PROVE  NobodyStranded'
    <2>1. /\ at'[c] \in {"idle", "first", "done"}
          /\ \A d \in Callers \ {c} : at'[d] = at[d]
      BY <1>8 DEF Notify, TypeOK, Goto
    <2>2. \A d \in Callers : at'[d] \in LoaderAt <=> at[d] \in LoaderAt
      BY <1>8, <2>1 DEF Notify, LoaderAt
    <2>3. \A d \in Callers : at'[d] = "wait" => woken'[d]
      BY <1>8, <2>1 DEF Notify, Registered
    <2> QED  BY <1>8, <2>2, <2>3 DEF Notify, NobodyStranded
  <1>9. ASSUME NEW c \in Callers, Deadline(c) \/ Cancel(c)
        PROVE  NobodyStranded'
    <2>1. CASE /\ at[c] \in {"first", "wait"} /\ (Goto(c, "done") \/ Goto(c, "idle"))
               /\ UNCHANGED <<loading, woken>>
      BY <2>1, LoaderUntouched DEF Phases, LoaderAt
    <2>2. CASE /\ at[c] = "asking" /\ loading' = FALSE /\ Goto(c, "notify") /\ UNCHANGED woken
      BY <2>2, LoaderEnds DEF LoaderAt
    <2> QED  BY <1>9, <2>1, <2>2 DEF Deadline, Cancel, DropLoad
  <1> QED  BY <1>1, <1>2, <1>3, <1>4, <1>5, <1>6, <1>7, <1>8, <1>9 DEF Next, CallerStep

\* For any number of callers, `loading' is set exactly while one task loads, and a task that
\* waits unwoken has a loader or a notifier ahead of it: neither a dropped loader
\* (view_cache.rs:153, peer.rs:155, membership.rs:68) nor a completion between the two looks
\* (view_cache.rs:60) strands anybody.
THEOREM NoCallerStranded == Spec => []NobodyStranded
  <1>1. Init => NobodyStranded
    BY DEF Init, NobodyStranded, LoaderAt
  <1> QED  BY <1>1, TypeCorrect, StrandedStep, PTL DEF Spec

-----------------------------------------------------------------------------
(* Views.                                                                  *)

\* A snapshot that may be given out while the bus counts epochs shows its present state.
LEMMA UsableIsPresent ==
    ASSUME ViewInv, cache = "view", usable
    PROVE  cached.state = epoch
  BY DEF ViewInv, ViewsCurrent, TagNamesState, usable, view_epoch

\* A step of the calls that reads, loads or stores.
LEMMA ViewCallerStep ==
    ASSUME ViewInv, NEW c \in Callers, Call(c) \/ CallerStep(c), TypeInv'
    PROVE  ViewInv'
  <1>0. \A read, now \in Nat : now <= read /\ read <= now => read = now
    OBVIOUS
  <1> USE DEF ViewInv, TypeInv, TypeOK, CallsArePast, LoadsArePast, ViewsCurrent,
              TagNamesState, AnswersCurrent, Epochs, Goto
  <1>1. CASE Call(c)
    BY <1>1 DEF Call
  <1>2. CASE FirstLook(c)
    BY <1>2, UsableIsPresent DEF FirstLook, Return
  <1>3. CASE Subscribe(c)
    BY <1>3 DEF Subscribe
  <1>4. CASE SecondLook(c)
    BY <1>4, UsableIsPresent DEF SecondLook, Return
  <1>5. CASE Wake(c)
    BY <1>5 DEF Wake
  <1>6. CASE BeginLoad(c)
    BY <1>6 DEF BeginLoad, view_epoch
  <1>7. CASE GossipAnswers(c)
    BY <1>7 DEF GossipAnswers
  <1>8. CASE Complete(c)
    <2>1. cache = "view" => /\ loaded[c].tag = epoch
                            /\ loaded[c].tag <= loaded[c].state /\ loaded[c].state <= epoch
      BY <1>8 DEF Complete, view_epoch
    <2>2. loaded[c].state \in Nat /\ epoch \in Nat
      BY SnapshotAssumption
    <2>3. cache = "view" => loaded[c].tag = epoch /\ loaded[c].state = epoch
      BY <1>0, <2>1, <2>2
    <2> QED  BY <1>8, <2>3 DEF Complete
  <1>9. CASE ViewMoved(c)
    BY <1>9 DEF ViewMoved, DropLoad
  <1>10. CASE Notify(c)
    BY <1>10 DEF Notify
  <1> QED  BY <1>1, <1>2, <1>3, <1>4, <1>5, <1>6, <1>7, <1>8, <1>9, <1>10 DEF CallerStep

\* Every step keeps views what they claim to be.
LEMMA ViewStep == ViewInv /\ [Next]_vars => ViewInv'
  <1> SUFFICES ASSUME ViewInv, [Next]_vars PROVE ViewInv'
    OBVIOUS
  <1>1. TypeInv'
    BY TypeStep DEF ViewInv
  <1> USE DEF ViewInv, TypeInv, TypeOK, CallsArePast, LoadsArePast, ViewsCurrent,
              TagNamesState, AnswersCurrent, Epochs, Goto
  <1>2. CASE UNCHANGED vars
    BY <1>1, <1>2 DEF vars
  <1>3. ASSUME NEW c \in Callers, Call(c) \/ CallerStep(c)
        PROVE  ViewInv'
    BY <1>1, <1>3, ViewCallerStep
  <1>4. ASSUME NEW c \in Callers, Deadline(c) \/ Cancel(c)
        PROVE  ViewInv'
    BY <1>1, <1>4 DEF Deadline, Cancel, DropLoad
  <1>5. CASE MembershipChanges
    BY <1>1, <1>5 DEF MembershipChanges
  <1>6. CASE Age
    BY <1>1, <1>6 DEF Age
  <1> QED  BY <1>2, <1>3, <1>4, <1>5, <1>6 DEF Next

\* Over a bus that counts epochs, a stored view shows the state its tag names and no call is
\* answered with a view older than its beginning, however the bus moves while a view is read
\* (view_cache.rs:86).
THEOREM ViewsStayCurrent == Spec => []ViewsCurrent
  <1>1. Init => ViewInv
    <2>1. Init => CallsArePast /\ LoadsArePast /\ ViewsCurrent
      BY DEF Init, CallsArePast, LoadsArePast, ViewsCurrent, TagNamesState, AnswersCurrent
    <2> QED  BY <2>1, TypeInit DEF ViewInv
  <1>2. ViewInv => ViewsCurrent
    BY DEF ViewInv
  <1> QED  BY <1>1, <1>2, ViewStep, PTL DEF Spec
=============================================================================
