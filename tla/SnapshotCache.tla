---------------------------- MODULE SnapshotCache ----------------------------
(***************************************************************************)
(* The three caches of what a node knows of its cluster: the cluster view  *)
(* of biei (ClusterViewCache), the routable peers of ishikari              *)
(* (PeerSnapshotCache) and biei's table of peer addresses                  *)
(* (Membership::advertise_addr_of).  They follow one scheme: a caller that *)
(* finds nothing usable becomes the loader if nobody loads, and waits for  *)
(* a change otherwise; the loader awaits the gossip state, and a loader    *)
(* dropped at that await must hand over.  They differ in what is usable    *)
(* while somebody loads, in the epoch test of the view, and in its         *)
(* deadline.  `cache' says which one a behaviour is about; "plain" is the  *)
(* view over a bus that keeps the default view_epoch, as production's does.*)
(***************************************************************************)
EXTENDS Naturals, RustOption

CONSTANTS Callers,      \* tasks that call get_or_load or advertise_addr_of
          MaxTurns      \* bound: membership changes, expiries, deadlines and dropped calls

ASSUME SnapshotAssumption == MaxTurns \in Nat

Caches == {"view", "plain", "peers", "addresses"}
Views == {"view", "plain"}

VARIABLES cache,        \* which of them
          epoch,        \* the state of the gossip bus, numbered
          cached,       \* NoVal, or the snapshot: the state it shows, its tag, its age
          loading,      \* ClusterViewCacheState::loading, PeerAddressCacheState::refreshing
          at,           \* where each call is
          since,        \* the bus when the call began
          loaded,       \* what a loader has in hand: the tag read first, the state read after
          then,         \* where a loader goes once it has notified
          woken,        \* whether the change a caller registered for has come
          answer,       \* the state the call was given
          turns

vars == <<cache, epoch, cached, loading, at, since, loaded, then, woken, answer, turns>>

LoaderAt == {"load", "asking", "read"}
Phases == LoaderAt \cup {"idle", "first", "subscribe", "locked", "wait", "notify", "done"}
Registered == {"locked", "wait"}       \* holds a receiver or an enabled Notified
Epochs == 0..MaxTurns
NothingRead == [tag |-> 0, state |-> 0]

TypeOK ==
    /\ cache \in Caches /\ epoch \in Epochs /\ turns \in 0..MaxTurns
    /\ cached \in {NoVal} \cup [state: Epochs, tag: Epochs, age: {"fresh", "stale", "old"}]
    /\ loading \in BOOLEAN
    /\ at \in [Callers -> Phases]
    /\ since \in [Callers -> Epochs]
    /\ loaded \in [Callers -> [tag: Epochs, state: Epochs]]
    /\ then \in [Callers -> {"idle", "first", "done"}]
    /\ woken \in [Callers -> BOOLEAN]
    /\ answer \in [Callers -> {NoVal} \cup Epochs]

Init ==
    /\ cache \in Caches /\ epoch = 0 /\ cached = NoVal /\ loading = FALSE /\ turns = 0
    /\ at = [c \in Callers |-> "idle"] /\ since = [c \in Callers |-> 0]
    /\ loaded = [c \in Callers |-> NothingRead]
    /\ then = [c \in Callers |-> "idle"]
    /\ woken = [c \in Callers |-> FALSE] /\ answer = [c \in Callers |-> NoVal]

view_epoch == IF cache = "view" THEN epoch ELSE 0

(***************************************************************************)
(* What a caller may be given.  A view must carry the bus's present epoch, *)
(* and while somebody loads it may be late by one more TTL.  Addresses may *)
(* be of any age while somebody refreshes them.  Peers must be fresh.      *)
(***************************************************************************)
usable ==
    /\ cached # NoVal
    /\ cached.tag = view_epoch
    /\ \/ cached.age = "fresh"
       \/ cache \in Views /\ loading /\ cached.age = "stale"
       \/ cache = "addresses" /\ loading

Goto(c, phase) == at' = [at EXCEPT ![c] = phase]

Return(c, state) ==
    /\ Goto(c, "done")
    /\ answer' = [answer EXCEPT ![c] = state]

Call(c) ==
    /\ at[c] \in {"idle", "done"}
    /\ Goto(c, "first")
    /\ since' = [since EXCEPT ![c] = epoch]
    /\ answer' = [answer EXCEPT ![c] = NoVal]
    /\ UNCHANGED <<cache, epoch, cached, loading, loaded, then, woken, turns>>

\* The look without a registration.  That of the addresses may elect: wait_for_change runs
\* its check once before it registers.
FirstLook(c) ==
    /\ at[c] = "first"
    /\ \/ usable /\ Return(c, cached.state) /\ UNCHANGED loading
       \/ /\ ~usable /\ cache = "addresses" /\ ~loading
          /\ loading' = TRUE /\ Goto(c, "load") /\ UNCHANGED answer
       \/ /\ ~usable /\ (cache = "addresses" => loading)
          /\ Goto(c, "subscribe") /\ UNCHANGED <<loading, answer>>
    /\ UNCHANGED <<cache, epoch, cached, since, loaded, then, woken, turns>>

Subscribe(c) ==
    /\ at[c] = "subscribe"
    /\ Goto(c, "locked")
    /\ woken' = [woken EXCEPT ![c] = FALSE]
    /\ UNCHANGED <<cache, epoch, cached, loading, since, loaded, then, answer, turns>>

\* Faulty: the caller registers for the change only when it starts to wait.
SecondLook_registers_late(c) ==
    /\ at[c] = "locked"
    /\ ~usable
    /\ loading' = TRUE
    /\ Goto(c, IF loading THEN "wait" ELSE "load")
    /\ woken' = [woken EXCEPT ![c] = FALSE]
    /\ UNCHANGED <<cache, epoch, cached, since, loaded, then, answer, turns>>

\* The look under the lock, registered: served, elected, or left to wait.
SecondLook(c) ==
    /\ at[c] = "locked"
    /\ \/ usable /\ Return(c, cached.state) /\ UNCHANGED loading
       \/ /\ ~usable
          /\ loading' = TRUE
          /\ Goto(c, IF loading THEN "wait" ELSE "load")
          /\ UNCHANGED answer
    /\ UNCHANGED <<cache, epoch, cached, since, loaded, then, woken, turns>>

\* The loader reads view_epoch before it asks for the gossip state, ...
BeginLoad(c) ==
    /\ at[c] = "load"
    /\ loaded' = [loaded EXCEPT ![c].tag = view_epoch]
    /\ Goto(c, "asking")
    /\ UNCHANGED <<cache, epoch, cached, loading, since, then, woken, answer, turns>>

\* ... which answers later, at an await.
GossipAnswers(c) ==
    /\ at[c] = "asking"
    /\ loaded' = [loaded EXCEPT ![c].state = epoch]
    /\ Goto(c, "read")
    /\ UNCHANGED <<cache, epoch, cached, loading, since, then, woken, answer, turns>>

\* Faulty: the view is stored without the second look at the epoch.
Complete_unchecked(c) ==
    /\ at[c] = "read"
    /\ cached' = [state |-> loaded[c].state, tag |-> loaded[c].tag, age |-> "fresh"]
    /\ loading' = FALSE
    /\ Goto(c, "notify") /\ then' = [then EXCEPT ![c] = "done"]
    /\ answer' = [answer EXCEPT ![c] = loaded[c].state]
    /\ UNCHANGED <<cache, epoch, since, loaded, woken, turns>>

\* The snapshot is stored and the loading flag cleared in one critical section; the
\* notification comes after it.  The second look at the epoch comes before that section; a bus
\* that moves in between might as well move right after it: the tag is the one read first.
Complete(c) ==
    /\ at[c] = "read" /\ loaded[c].tag = view_epoch
    /\ cached' = [state |-> loaded[c].state, tag |-> loaded[c].tag, age |-> "fresh"]
    /\ loading' = FALSE
    /\ Goto(c, "notify") /\ then' = [then EXCEPT ![c] = "done"]
    /\ answer' = [answer EXCEPT ![c] = loaded[c].state]
    /\ UNCHANGED <<cache, epoch, since, loaded, woken, turns>>

DropLoad(c, next) ==
    /\ loading' = FALSE
    /\ Goto(c, "notify") /\ then' = [then EXCEPT ![c] = next]
    /\ UNCHANGED <<cache, epoch, cached, since, loaded, woken, answer>>

\* The bus moved while the view was read: the load is dropped and the call starts over.
ViewMoved(c) ==
    /\ at[c] = "read" /\ loaded[c].tag # view_epoch
    /\ DropLoad(c, "first") /\ UNCHANGED turns

\* Faulty: only waiters of a finished load are told.
Notify_finished_only(c) ==
    /\ at[c] = "notify"
    /\ woken' = [d \in Callers |-> at[d] \in Registered /\ (answer[c] # NoVal \/ woken[d])]
    /\ Goto(c, then[c])
    /\ UNCHANGED <<cache, epoch, cached, loading, since, loaded, then, answer, turns>>

Notify(c) ==
    /\ at[c] = "notify"
    /\ woken' = [d \in Callers |-> at[d] \in Registered]
    /\ Goto(c, then[c])
    /\ then' = [then EXCEPT ![c] = "idle"]
    /\ loaded' = [loaded EXCEPT ![c] = NothingRead]
    /\ UNCHANGED <<cache, epoch, cached, loading, since, answer, turns>>

\* A change lets the waiter look again; wait_for_change registers before it does.
Wake(c) ==
    /\ at[c] = "wait" /\ woken[c]
    /\ Goto(c, IF cache = "addresses" THEN "subscribe" ELSE "first")
    /\ UNCHANGED <<cache, epoch, cached, loading, since, loaded, then, woken, answer, turns>>

\* The request's deadline, which only the views have.
Deadline(c) ==
    /\ cache \in Views
    /\ turns < MaxTurns /\ turns' = turns + 1
    /\ \/ /\ at[c] \in {"first", "wait"} /\ Goto(c, "done")
          /\ UNCHANGED <<cache, epoch, cached, loading, since, loaded, then, woken, answer>>
       \/ at[c] = "asking" /\ DropLoad(c, "done")

\* The calling task is dropped at one of the two awaits.
Cancel(c) ==
    /\ turns < MaxTurns /\ turns' = turns + 1
    /\ \/ /\ at[c] = "wait" /\ Goto(c, "idle")
          /\ UNCHANGED <<cache, epoch, cached, loading, since, loaded, then, woken, answer>>
       \/ at[c] = "asking" /\ DropLoad(c, "idle")

MembershipChanges ==
    /\ turns < MaxTurns /\ turns' = turns + 1
    /\ epoch' = epoch + 1
    /\ UNCHANGED <<cache, cached, loading, at, since, loaded, then, woken, answer>>

\* One TTL passes.
Age ==
    /\ cached # NoVal /\ cached.age # "old"
    /\ turns < MaxTurns /\ turns' = turns + 1
    /\ cached' = [cached EXCEPT !.age = IF @ = "fresh" THEN "stale" ELSE "old"]
    /\ UNCHANGED <<cache, epoch, loading, at, since, loaded, then, woken, answer>>

CallerStep(c) ==
    \/ FirstLook(c) \/ Subscribe(c) \/ SecondLook(c) \/ Wake(c)
    \/ BeginLoad(c) \/ GossipAnswers(c) \/ Complete(c) \/ ViewMoved(c) \/ Notify(c)

Next ==
    \/ \E c \in Callers : Call(c) \/ CallerStep(c) \/ Deadline(c) \/ Cancel(c)
    \/ MembershipChanges \/ Age

\* Tasks keep running and the gossip state's lock is granted.  Deadlines, expiries and new
\* calls owe nothing.
Fairness == \A c \in Callers : WF_vars(CallerStep(c))

Spec == Init /\ [][Next]_vars /\ Fairness

(***************************************************************************)
(* Properties.                                                             *)
(***************************************************************************)

\* `loading' is set exactly while one task is between its election and the end of its load,
\* and a task that waits unwoken has somebody who will still notify: a loader dropped at its
\* await never leaves the flag behind (view_cache.rs:153, peer.rs:155, membership.rs:68), and a
\* completion between the first look and the wait is never lost (view_cache.rs:60).
NobodyStranded ==
    /\ loading <=> \E c \in Callers : at[c] \in LoaderAt
    /\ \A c, d \in Callers : at[c] \in LoaderAt /\ at[d] \in LoaderAt => c = d
    /\ \A c \in Callers : at[c] = "wait" /\ ~woken[c] =>
           \E d \in Callers : at[d] \in LoaderAt \cup {"notify"}

\* Over a bus that counts epochs, a stored view shows the state its tag names, however the
\* bus moved while it was read (view_cache.rs:86).
TagNamesState == cache = "view" /\ cached # NoVal => cached.tag = cached.state

\* ... and a call is never answered with a view older than the bus was when the call began.
AnswersCurrent ==
    cache = "view" => \A c \in Callers : answer[c] # NoVal => answer[c] >= since[c]

\* Both, for every view that is stored or given out.
ViewsCurrent == TagNamesState /\ AnswersCurrent

\* Once membership rests, snapshots stop expiring under the callers and nobody gives up or is
\* dropped, every call ends (it may otherwise start over as often as that happens).
CallsEnd == \A c \in Callers : at[c] # "idle" ~> at[c] \in {"idle", "done"}
=============================================================================
