--------------------------- MODULE FlightContract ---------------------------
(***************************************************************************)
(* What the render output cache promises its callers: a lookup is one step *)
(* that serves, joins or elects, and the end of a flight wakes those who   *)
(* joined it. RenderFlight implements it with two lookups, a lock and a    *)
(* channel; Forwarding is built upon it.                                   *)
(***************************************************************************)
EXTENDS OutputCache

VARIABLES
    phase,          \* caller -> idle, lookup, wait, run, insert, release or done
    request,        \* caller -> its request, NoVal when idle
    answer,         \* caller -> how the call ended
    cache,          \* key -> [required] or NoVal
    flight,         \* key -> the leader of its flight or NoVal
    waits_on,       \* caller -> the leader whose flight it joined
    woken           \* caller -> that flight has ended

flightVars == <<phase, request, answer, cache, flight, waits_on, woken>>

Key(c) == request[c].key
GoTo(c, p) == phase' = [phase EXCEPT ![c] = p]
Hit(c) == cache[Key(c)] # NoVal /\ is_authorized_for(cache[Key(c)].required, request[c].grant)

Init ==
    /\ phase = [c \in Callers |-> "idle"]
    /\ request = [c \in Callers |-> NoVal]
    /\ answer = [c \in Callers |-> NoVal]
    /\ cache = [k \in Keys |-> NoVal]
    /\ flight = [k \in Keys |-> NoVal]
    /\ waits_on = [c \in Callers |-> NoVal]
    /\ woken = [c \in Callers |-> FALSE]

Arrive(c, r) ==
    /\ phase[c] = "idle"
    /\ request' = [request EXCEPT ![c] = r]
    /\ GoTo(c, IF r.cacheable THEN "lookup" ELSE "run")
    /\ UNCHANGED <<answer, cache, flight, waits_on, woken>>

\* An authorised entry is served.
Serve(c) ==
    /\ phase[c] = "lookup" /\ Hit(c)
    /\ answer' = [answer EXCEPT ![c] = "hit"]
    /\ GoTo(c, "done")
    /\ UNCHANGED <<request, cache, flight, waits_on, woken>>

\* A flight is joined.
Join(c) ==
    /\ phase[c] = "lookup" /\ flight[Key(c)] # NoVal
    /\ waits_on' = [waits_on EXCEPT ![c] = flight[Key(c)]]
    /\ GoTo(c, "wait")
    /\ UNCHANGED <<request, answer, cache, flight, woken>>

\* Only where nothing can be served or joined is the caller elected.
Elected(c) ==
    /\ phase[c] = "lookup" /\ ~Hit(c) /\ flight[Key(c)] = NoVal
    /\ flight' = [flight EXCEPT ![Key(c)] = c]
    /\ GoTo(c, "run")
    /\ UNCHANGED <<request, answer, cache, waits_on, woken>>

Forget(c) ==
    /\ waits_on' = [waits_on EXCEPT ![c] = NoVal]
    /\ woken' = [woken EXCEPT ![c] = FALSE]

Wake(c) ==
    /\ phase[c] = "wait" /\ woken[c]
    /\ Forget(c)
    /\ GoTo(c, "lookup")
    /\ UNCHANGED <<request, answer, cache, flight>>

StopWaiting(c, a) ==
    /\ phase[c] = "wait"
    /\ answer' = [answer EXCEPT ![c] = a]
    /\ Forget(c)
    /\ GoTo(c, "done")
    /\ UNCHANGED <<request, cache, flight>>

\* The call's own work ends with answer a.
RunEnds(c, a) ==
    /\ phase[c] = "run"
    /\ answer' = [answer EXCEPT ![c] = a]
    /\ GoTo(c, CASE ~request[c].cacheable -> "done"
                 [] request[c].cacheable /\ a = "completed" -> "insert"
                 [] OTHER -> "release")
    /\ UNCHANGED <<request, cache, flight, waits_on, woken>>

\* A completed output is inserted, unless one with another requirement is resident.
Insert(c) ==
    /\ phase[c] = "insert"
    /\ cache' = IF cache[Key(c)] # NoVal /\ cache[Key(c)].required # request[c].grant THEN cache
                ELSE [cache EXCEPT ![Key(c)] = [required |-> request[c].grant]]
    /\ GoTo(c, "release")
    /\ UNCHANGED <<request, answer, flight, waits_on, woken>>

Release(c) ==
    /\ phase[c] = "release"
    /\ flight' = [flight EXCEPT ![Key(c)] = NoVal]
    /\ woken' = [f \in Callers |-> woken[f] \/ waits_on[f] = c]
    /\ GoTo(c, "done")
    /\ UNCHANGED <<request, answer, cache, waits_on>>

Leave(c) ==
    /\ phase[c] = "done"
    /\ request' = [request EXCEPT ![c] = NoVal]
    /\ answer' = [answer EXCEPT ![c] = NoVal]
    /\ GoTo(c, "idle")
    /\ UNCHANGED <<cache, flight, waits_on, woken>>

Expire(k) ==
    /\ cache[k] # NoVal
    /\ cache' = [cache EXCEPT ![k] = NoVal]
    /\ UNCHANGED <<phase, request, answer, flight, waits_on, woken>>

Next ==
    \/ \E c \in Callers :
        \/ \E r \in Requests : Arrive(c, r)
        \/ Serve(c) \/ Join(c) \/ Elected(c) \/ Wake(c) \/ Insert(c) \/ Release(c) \/ Leave(c)
        \/ \E a \in {"rejected", "cancelled"} : StopWaiting(c, a)
        \/ \E a \in {"completed", "failed", "rejected", "cancelled"} : RunEnds(c, a)
    \/ \E k \in Keys : Expire(k)

Spec == Init /\ [][Next]_flightVars
=============================================================================
