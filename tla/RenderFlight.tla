---------------------------- MODULE RenderFlight ----------------------------
(***************************************************************************)
(* The render output cache of a node and its single flights                *)
(* (crates/biei-core/src/render_cache.rs), with the loop around them in    *)
(* acquire_render_output_cache (crates/biei-core/src/node.rs).             *)
(*                                                                         *)
(* A call looks its key up twice, the second time under the lock of the    *)
(* flight map. It then joins the flight it finds there or leads one of its *)
(* own. What a leader does, locally or on another node, is the step        *)
(* RunEnds. The cache is not under the lock: a leader inserts, and entries *)
(* expire, between any two steps of the others.                            *)
(*                                                                         *)
(* To its callers all this looks like the contract of FlightContract.      *)
(***************************************************************************)
EXTENDS OutputCache

VARIABLES
    phase,          \* caller -> the step it is at
    request,        \* caller -> its request, NoVal when idle
    answer,         \* caller -> how the call ended
    cache,          \* key -> [required, made] or NoVal
    lock,           \* key -> the caller that holds its shard of in_flight
    flight,         \* key -> the leader of the flight in in_flight, NoVal if there is none
    waits_on,       \* caller -> the leader whose flight it joined
    woken,          \* caller -> that flight's channel has changed or closed
    served          \* auxiliary: caller -> the grant the output it was served was made with

vars == <<phase, request, answer, cache, lock, flight, waits_on, woken, served>>

Phases == {"idle", "disabled", "get", "lock", "elect", "wait", "lead", "run", "check", "insert",
           "remove", "signal", "done"}
Answers == {"hit", "completed", "failed", "rejected", "cancelled"}
Entries == [required : Grants, made : Grants]

ASSUME AnswersAssumption == NoVal \notin Answers
ASSUME EntryAssumption == NoVal \notin Entries /\ NoVal \notin [required : Grants]

Key(c) == request[c].key
Grant(c) == request[c].grant
GoTo(c, p) == phase' = [phase EXCEPT ![c] = p]

Init ==
    /\ phase = [c \in Callers |-> "idle"]
    /\ request = [c \in Callers |-> NoVal]
    /\ answer = [c \in Callers |-> NoVal]
    /\ cache = [k \in Keys |-> NoVal]
    /\ lock = [k \in Keys |-> NoVal]
    /\ flight = [k \in Keys |-> NoVal]
    /\ waits_on = [c \in Callers |-> NoVal]
    /\ woken = [c \in Callers |-> FALSE]
    /\ served = [c \in Callers |-> NoVal]

Hit(c) == cache[Key(c)] # NoVal /\ is_authorized_for(cache[Key(c)].required, Grant(c))

\* RenderCacheLookup::Hit
Serve(c) ==
    /\ answer' = [answer EXCEPT ![c] = "hit"]
    /\ served' = [served EXCEPT ![c] = cache[Key(c)].made]
    /\ GoTo(c, "done")

-----------------------------------------------------------------------------
(* lookup_or_join                                                          *)

\* A request whose source is not reusable bypasses the cache.
Arrive(c) ==
    /\ phase[c] = "idle"
    /\ \E r \in Requests :
        /\ request' = [request EXCEPT ![c] = r]
        /\ GoTo(c, IF r.cacheable THEN "get" ELSE "disabled")
    /\ UNCHANGED <<answer, cache, lock, flight, waits_on, woken, served>>

FirstGet(c) ==
    /\ phase[c] = "get"
    /\ \/ Hit(c) /\ Serve(c)
       \/ ~Hit(c) /\ GoTo(c, "lock") /\ UNCHANGED <<answer, served>>
    /\ UNCHANGED <<request, cache, lock, flight, waits_on, woken>>

\* Faulty: the cache is not asked again under the lock.
SecondGet_skipped(c) ==
    /\ phase[c] = "lock" /\ lock[Key(c)] = NoVal
    /\ lock' = [lock EXCEPT ![Key(c)] = c]
    /\ GoTo(c, "elect")
    /\ UNCHANGED <<request, answer, cache, flight, waits_on, woken, served>>

\* The shard is locked and the cache asked again; a hit returns and unlocks.
SecondGet(c) ==
    /\ phase[c] = "lock" /\ lock[Key(c)] = NoVal
    /\ \/ Hit(c) /\ Serve(c) /\ UNCHANGED lock
       \/ ~Hit(c) /\ lock' = [lock EXCEPT ![Key(c)] = c] /\ GoTo(c, "elect")
          /\ UNCHANGED <<answer, served>>
    /\ UNCHANGED <<request, cache, flight, waits_on, woken>>

\* Still under the lock: subscribe to the flight, or enter a new one.
Elect(c) ==
    /\ phase[c] = "elect"
    /\ lock' = [lock EXCEPT ![Key(c)] = NoVal]
    /\ \/ /\ flight[Key(c)] # NoVal
          /\ waits_on' = [waits_on EXCEPT ![c] = flight[Key(c)]]
          /\ woken' = [woken EXCEPT ![c] = FALSE]
          /\ GoTo(c, "wait")
          /\ UNCHANGED flight
       \/ /\ flight[Key(c)] = NoVal
          /\ flight' = [flight EXCEPT ![Key(c)] = c]
          /\ GoTo(c, "lead")
          /\ UNCHANGED <<waits_on, woken>>
    /\ UNCHANGED <<request, answer, cache, served>>

-----------------------------------------------------------------------------
(* acquire_render_output_cache                                             *)

\* A forwarded miss is shed when the renderer is degraded; its health may change at any
\* time.
Bypass(c) ==
    /\ phase[c] = "disabled"
    /\ \/ /\ request[c].forwarded
          /\ answer' = [answer EXCEPT ![c] = "rejected"]
          /\ GoTo(c, "done")
       \/ GoTo(c, "run") /\ UNCHANGED answer
    /\ UNCHANGED <<request, cache, lock, flight, waits_on, woken, served>>

\* Likewise for a leader, whose flight then ends.
Lead(c) ==
    /\ phase[c] = "lead"
    /\ \/ /\ request[c].forwarded
          /\ answer' = [answer EXCEPT ![c] = "rejected"]
          /\ GoTo(c, "remove")
       \/ GoTo(c, "run") /\ UNCHANGED answer
    /\ UNCHANGED <<request, cache, lock, flight, waits_on, woken, served>>

\* The flight changed, or its channel closed: look the key up again.
Wake(c) ==
    /\ phase[c] = "wait" /\ woken[c]
    /\ waits_on' = [waits_on EXCEPT ![c] = NoVal]
    /\ woken' = [woken EXCEPT ![c] = FALSE]
    /\ GoTo(c, "get")
    /\ UNCHANGED <<request, answer, cache, lock, flight, served>>

\* A follower leaves: its own deadline passes, or its future is dropped.
StopWaiting(c) ==
    /\ phase[c] = "wait"
    /\ \E a \in {"rejected", "cancelled"} : answer' = [answer EXCEPT ![c] = a]
    /\ waits_on' = [waits_on EXCEPT ![c] = NoVal]
    /\ woken' = [woken EXCEPT ![c] = FALSE]
    /\ GoTo(c, "done")
    /\ UNCHANGED <<request, cache, lock, flight, served>>

-----------------------------------------------------------------------------
(* The render, the leader's insertion and the end of its flight            *)

\* The outcome is there, or the future is dropped. Only a completed one is inserted.
RunEnds(c) ==
    /\ phase[c] = "run"
    /\ \E a \in {"completed", "failed", "rejected", "cancelled"} :
        /\ answer' = [answer EXCEPT ![c] = a]
        /\ GoTo(c, CASE ~request[c].cacheable -> "done"
                     [] request[c].cacheable /\ a = "completed" -> "check"
                     [] OTHER -> "remove")
    /\ UNCHANGED <<request, cache, lock, flight, waits_on, woken, served>>

\* insert_from_outcome: an entry with another requirement is neither relaxed nor replaced ...
CheckResident(c) ==
    /\ phase[c] = "check"
    /\ GoTo(c, IF cache[Key(c)] # NoVal /\ cache[Key(c)].required # Grant(c)
               THEN "remove" ELSE "insert")
    /\ UNCHANGED <<request, answer, cache, lock, flight, waits_on, woken, served>>

\* ... and the insertion is a step of its own.
Insert(c) ==
    /\ phase[c] = "insert"
    /\ cache' = [cache EXCEPT ![Key(c)] = [required |-> Grant(c), made |-> Grant(c)]]
    /\ GoTo(c, "remove")
    /\ UNCHANGED <<request, answer, lock, flight, waits_on, woken, served>>

\* Faulty: the flight is removed without the lock.
RemoveFlight_unlocked(c) ==
    /\ phase[c] = "remove"
    /\ flight' = [flight EXCEPT ![Key(c)] = NoVal]
    /\ GoTo(c, "signal")
    /\ UNCHANGED <<request, answer, cache, lock, waits_on, woken, served>>

\* Drop for RenderFlightLeader: out of the map, under the lock, ...
RemoveFlight(c) ==
    /\ phase[c] = "remove" /\ lock[Key(c)] = NoVal
    /\ flight' = [flight EXCEPT ![Key(c)] = NoVal]
    /\ GoTo(c, "signal")
    /\ UNCHANGED <<request, answer, cache, lock, waits_on, woken, served>>

\* Faulty: only a completed render wakes the followers.
Signal_completed_only(c) ==
    /\ phase[c] = "signal"
    /\ woken' = [f \in Callers |-> woken[f] \/ (waits_on[f] = c /\ answer[c] = "completed")]
    /\ GoTo(c, "done")
    /\ UNCHANGED <<request, answer, cache, lock, flight, waits_on, served>>

\* ... and then the followers are woken, by the change or by the sender's drop.
Signal(c) ==
    /\ phase[c] = "signal"
    /\ woken' = [f \in Callers |-> woken[f] \/ waits_on[f] = c]
    /\ GoTo(c, "done")
    /\ UNCHANGED <<request, answer, cache, lock, flight, waits_on, served>>

\* The answer is given; the next call may come.
Leave(c) ==
    /\ phase[c] = "done"
    /\ request' = [request EXCEPT ![c] = NoVal]
    /\ answer' = [answer EXCEPT ![c] = NoVal]
    /\ served' = [served EXCEPT ![c] = NoVal]
    /\ GoTo(c, "idle")
    /\ UNCHANGED <<cache, lock, flight, waits_on, woken>>

\* The entry's time to live passes, or the cache is full.
Expire(k) ==
    /\ cache[k] # NoVal
    /\ cache' = [cache EXCEPT ![k] = NoVal]
    /\ UNCHANGED <<phase, request, answer, lock, flight, waits_on, woken, served>>

-----------------------------------------------------------------------------
Lookup(c) == FirstGet(c) \/ SecondGet(c) \/ Elect(c) \/ Bypass(c) \/ Lead(c) \/ Wake(c)
EndFlight(c) == RunEnds(c) \/ CheckResident(c) \/ Insert(c) \/ RemoveFlight(c) \/ Signal(c)
Next ==
    \/ \E c \in Callers : Arrive(c) \/ Lookup(c) \/ StopWaiting(c) \/ EndFlight(c) \/ Leave(c)
    \/ \E k \in Keys : Expire(k)

Spec == Init /\ [][Next]_vars

\* A call runs on until it awaits, the lock is fair, and a render comes to an end (its
\* deadline sees to that). A follower's own deadline is not relied upon.
Fairness == \A c \in Callers : /\ WF_vars(FirstGet(c)) /\ SF_vars(SecondGet(c))
                               /\ WF_vars(Elect(c) \/ Bypass(c) \/ Lead(c) \/ Wake(c))
                               /\ WF_vars(RunEnds(c) \/ CheckResident(c) \/ Insert(c))
                               /\ SF_vars(RemoveFlight(c)) /\ WF_vars(Signal(c))

FairSpec == Spec /\ Fairness

-----------------------------------------------------------------------------
(* Properties                                                              *)

\* Every variable has its type; the lock is held from the second lookup to the election.
TypeOK ==
    /\ phase \in [Callers -> Phases]
    /\ request \in [Callers -> Requests \cup {NoVal}]
    /\ answer \in [Callers -> Answers \cup {NoVal}]
    /\ cache \in [Keys -> Entries \cup {NoVal}]
    /\ lock \in [Keys -> Callers \cup {NoVal}]
    /\ flight \in [Keys -> Callers \cup {NoVal}]
    /\ waits_on \in [Callers -> Callers \cup {NoVal}]
    /\ woken \in [Callers -> BOOLEAN]
    /\ served \in [Callers -> Grants \cup {NoVal}]
    /\ \A k \in Keys, c \in Callers : lock[k] = c <=> (phase[c] = "elect" /\ Key(c) = k)

\* The caller holds the RenderFlightLeader of its key.
Leading(c) == \/ phase[c] \in {"lead", "check", "insert", "remove"}
              \/ phase[c] = "run" /\ request[c].cacheable

\* The flight map holds exactly the flights that are led, each by the one caller that leads
\* its key: no interleaving of lookups and drops elects a second leader or leaves a flight
\* behind that nobody ends.
FlightsLed ==
    \A k \in Keys : \A c \in Callers : (flight[k] = c) <=> (Leading(c) /\ Key(c) = k)

\* Nobody renders what the cache could serve: while a caller leads a flight up to its own
\* insertion, its key has no entry that it is authorised to read, whatever it saw when it
\* looked the key up.
NoRedundantRender ==
    \A c \in Callers : (Leading(c) /\ phase[c] \in {"lead", "run", "check"}) => ~Hit(c)

\* An output served from the cache was made with a grant that the caller's covers; an
\* unauthenticated caller gets only what was made without authorization.
HitsCovered ==
    \A c \in Callers : answer[c] = "hit" =>
        IF served[c] = NoVal THEN Grant(c) = NoVal
        ELSE Grant(c) # NoVal /\ allows(Grant(c), served[c])

\* A follower that has not been woken waits for a leader that is still going to wake it,
\* whether it completes, fails or is dropped.
NobodyForgotten ==
    \A c \in Callers : (phase[c] = "wait" /\ ~woken[c]) =>
        \E l \in Callers : waits_on[c] = l /\ (Leading(l) \/ phase[l] = "signal")

\* One flight to a key, led by one caller that has to render, with nobody waiting for a
\* leader that is gone.
FlightsSound == FlightsLed /\ NoRedundantRender /\ NobodyForgotten

\* The requirement of a resident entry is never relaxed or replaced while it stays, though
\* checking it and inserting are two steps without a lock.
RequirementKept ==
    [][\A k \in Keys : (cache[k] # NoVal /\ cache'[k] # NoVal) =>
            cache'[k].required = cache[k].required]_vars

\* Its callers see the steps of FlightContract: between its lookups a caller is looking up,
\* a flight out of the map has ended, and a leader about to be shed is running.
Seen(c) == CASE phase[c] \in {"get", "lock", "elect"} -> "lookup"
             [] phase[c] \in {"disabled", "lead"} -> "run"
             [] phase[c] = "check" -> "insert"
             [] phase[c] = "remove" -> "release"
             [] phase[c] = "signal" -> "done"
             [] OTHER -> phase[c]

\* The contract knows of an entry what it requires, and of a follower whether its leader has
\* taken the flight out of the map.
SeenEntry(k) == IF cache[k] = NoVal THEN NoVal ELSE [required |-> cache[k].required]
SeenWoken(c) ==
    woken[c] \/ (phase[c] = "wait" /\ waits_on[c] \in Callers /\ phase[waits_on[c]] = "signal")

Contract == INSTANCE FlightContract WITH
    phase <- [c \in Callers |-> Seen(c)],
    cache <- [k \in Keys |-> SeenEntry(k)],
    woken <- [c \in Callers |-> SeenWoken(c)]

\* Two lookups, a lock and a channel keep the contract of one atomic lookup: in particular
\* a caller is elected only if nothing could be served or joined at that moment.
KeepsFlightContract == Contract!Spec

\* A follower gets on, even if its deadline never comes.
FollowerWoken == \A c \in Callers : (phase[c] = "wait") ~> (phase[c] # "wait")
=============================================================================
