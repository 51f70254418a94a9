----------------------------- MODULE FileSource -----------------------------
(***************************************************************************)
(* How a resource of a style reaches MapLibre Native: DatabaseFileSource   *)
(* looks in the process-wide cache, NetworkFileSource fetches, coalescing  *)
(* equal requests into a flight, retrying transient failures under         *)
(* admission permits, and keeping the evidence of a bad provider the       *)
(* renderer supervisor reads.  One resource; the requests for it differ in *)
(* what they may use and in what the consumer already holds.  The consumer *)
(* is MapLibre's MainResourceLoader: the database first, then the network  *)
(* with the validators, and the body unless delivered, of what it found.   *)
(***************************************************************************)
EXTENDS Integers, FiniteSets, RustOption

CONSTANTS Requests,         \* tasks, each serving one native resource request after another
          Modes,            \* \subseteq {"cached", "networkOnly", "volatile"}
          RegularPermits, LowPermits, BodyPermits,
          RetryWindow,      \* RETRY_WINDOW, in attempts
          MaxTurns          \* bound: repeats, cancellations, expiries, changes at the provider

Flights == 0..Cardinality(Requests)         \* allocations: never all of them are referenced
Versions == 1..(MaxTurns + 1)
Gone == 0                                   \* the provider has no such resource

Empty == [body |-> NoVal, etag |-> NoVal]
\* What an attempt may be conditional on: a body is stored with its validator.
Prior == {p \in [body: {NoVal} \cup Versions, etag: {NoVal} \cup Versions] : p.body # NoVal => p.etag # NoVal}
Keys == [mode: Modes, lane: {"low", "regular"}, prior: Prior]

ASSUME FileSourceAssumption ==
    /\ Modes \subseteq {"cached", "networkOnly", "volatile"}
    /\ RegularPermits \in Nat \ {0} /\ LowPermits \in Nat \ {0} /\ BodyPermits \in Nat \ {0}
    /\ RetryWindow \in Nat \ {0} /\ MaxTurns \in Nat
    /\ IsFiniteSet(Requests)
    /\ NoVal \notin Flights /\ NoVal \notin Versions /\ NoVal \notin Keys

Kinds == {"data", "notModified", "missing", "transient", "rejected", "pending", "aborted"}
Response(kind, prior, tries) == [kind |-> kind, prior |-> prior, tries |-> tries]
Responses == [kind: Kinds, prior: Prior, tries: 0..RetryWindow]
Pending == Response("pending", Empty, 0)
Aborted == Response("aborted", Empty, 0)

VARIABLES provider,     \* the version the provider serves, or Gone
          cache,        \* the shared cache: NoVal, or a body, its etag, whether it is fresh
          negative,     \* the negative cache holds an unexpired entry
          lanes, bodies,                  \* permits left
          active_retries, slow_attempts,  \* ProviderHealthTracker
          map,          \* the key under which the flight map holds a flight
          flight,       \* Flight::state
          at,           \* where each request is
          mode, prior,  \* the request: what it may use, the validators and body it carries
          low,          \* its priority
          holds,        \* its reference to a flight
          woken,        \* its registration for a change was notified
          used,         \* what the attempt under way was made conditional on
          tries, late, slow, retrying,    \* of a leader: attempts, slow threshold, guards
          answer,
          turns

requestVars == <<mode, prior, low>>
leaderVars == <<used, tries, late, slow, retrying>>
health == <<active_retries, slow_attempts>>
vars == <<provider, cache, negative, lanes, bodies, health, map, flight, at, requestVars, holds, woken,
          leaderVars, answer, turns>>

Waiting == {"look", "armed", "wait"}
OnNetwork == {"send", "bodywait", "body"}       \* with a lane permit
Fetching == OnNetwork \cup {"acquire", "retry", "backoff", "finish", "complete"}
Aborting == {"abort", "remove"}
Phases == Waiting \cup Fetching \cup Aborting
            \cup {"idle", "database", "asked", "deferred", "negative", "join", "notify", "done"}

Lane(r) == IF low[r] THEN "low" ELSE "regular"
Key(r) == [mode |-> mode[r], lane |-> Lane(r), prior |-> prior[r]]

uses_shared_cache(r) == mode[r] # "volatile"
may_consult_shared_cache(r) == mode[r] = "cached"
tracks_provider_health(r) == ~low[r]
Fresh == cache # NoVal /\ cache.fresh

TypeOK ==
    /\ provider \in {Gone} \cup Versions
    /\ cache \in {NoVal} \cup [body: Versions, etag: Versions, fresh: BOOLEAN]
    /\ negative \in BOOLEAN
    /\ lanes \in [{"low", "regular"} -> Nat] /\ bodies \in Nat
    /\ active_retries \in Nat /\ slow_attempts \in Nat
    /\ map \in [Flights -> {NoVal} \cup Keys]
    /\ flight \in [Flights -> Responses]
    /\ at \in [Requests -> Phases]
    /\ mode \in [Requests -> Modes] /\ prior \in [Requests -> Prior]
    /\ low \in [Requests -> BOOLEAN]
    /\ holds \in [Requests -> {NoVal} \cup Flights] /\ woken \in [Requests -> BOOLEAN]
    /\ used \in [Requests -> Prior] /\ tries \in [Requests -> 0..RetryWindow]
    /\ late \in [Requests -> BOOLEAN] /\ slow \in [Requests -> BOOLEAN]
    /\ retrying \in [Requests -> BOOLEAN]
    /\ answer \in [Requests -> {NoVal} \cup Responses]
    /\ turns \in 0..MaxTurns

Init ==
    /\ provider \in {Gone, 1} /\ cache = NoVal /\ negative = FALSE
    /\ lanes = [low |-> LowPermits, regular |-> RegularPermits] /\ bodies = BodyPermits
    /\ active_retries = 0 /\ slow_attempts = 0
    /\ map = [f \in Flights |-> NoVal] /\ flight = [f \in Flights |-> Pending]
    /\ at = [r \in Requests |-> "idle"] /\ mode \in [Requests -> Modes]
    /\ prior = [r \in Requests |-> Empty]
    /\ low = [r \in Requests |-> FALSE]
    /\ holds = [r \in Requests |-> NoVal] /\ woken = [r \in Requests |-> FALSE]
    /\ used = [r \in Requests |-> Empty] /\ tries = [r \in Requests |-> 0]
    /\ late = [r \in Requests |-> FALSE] /\ slow = [r \in Requests |-> FALSE]
    /\ retrying = [r \in Requests |-> FALSE]
    /\ answer = [r \in Requests |-> NoVal] /\ turns = 0

Goto(r, phase) == at' = [at EXCEPT ![r] = phase]
Turn == turns < MaxTurns /\ turns' = turns + 1
Answer(r, response) == Goto(r, "done") /\ answer' = [answer EXCEPT ![r] = response]
HoldsNothing(r) == holds' = [holds EXCEPT ![r] = NoVal]

-----------------------------------------------------------------------------
(* The consumer, and the database *)

\* MainResourceLoader takes up a resource; NetworkOnly skips the database.
Start(r) ==
    /\ \/ at[r] = "idle" /\ UNCHANGED turns
       \/ at[r] = "done" /\ Turn
    /\ Goto(r, IF mode[r] = "networkOnly" THEN "asked" ELSE "database")
    /\ prior' = [prior EXCEPT ![r] = Empty] /\ low' = [low EXCEPT ![r] = FALSE]
    /\ answer' = [answer EXCEPT ![r] = NoVal]
    /\ UNCHANGED <<provider, cache, negative, lanes, bodies, health, map, flight, mode, holds, woken, leaderVars>>

\* A fresh entry is delivered, and only refreshed at low priority; a stale one is the prior of
\* the network request that must confirm it.
DatabaseLookup(r) ==
    /\ at[r] = "database"
    /\ Goto(r, "asked")
    /\ LET found == may_consult_shared_cache(r) /\ cache # NoVal
       IN  /\ prior' = [prior EXCEPT ![r] = IF ~found THEN Empty
                           ELSE [body |-> IF Fresh THEN NoVal ELSE cache.body, etag |-> cache.etag]]
           /\ low' = [low EXCEPT ![r] = found /\ Fresh]
    /\ UNCHANGED <<provider, cache, negative, lanes, bodies, health, map, flight, mode, holds, woken,
                   leaderVars, answer, turns>>

-----------------------------------------------------------------------------
(* NetworkFileSource::request *)

\* While the cached entry is fresh there is nothing to fetch: the refresh is put off.
Request(r) ==
    /\ at[r] = "asked"
    /\ Goto(r, IF may_consult_shared_cache(r) /\ Fresh THEN "deferred" ELSE "negative")
    /\ UNCHANGED <<provider, cache, negative, lanes, bodies, health, map, flight, requestVars, holds, woken,
                   leaderVars, answer, turns>>

\* The wait ends, at the cap or at the expiry that was seen.
DeferralEnds(r) ==
    /\ at[r] = "deferred"
    /\ \/ Answer(r, Response("notModified", Empty, 0))
       \/ ~Fresh /\ Goto(r, "negative") /\ UNCHANGED answer
    /\ UNCHANGED <<provider, cache, negative, lanes, bodies, health, map, flight, requestVars, holds, woken,
                   leaderVars, turns>>

NegativeLook(r) ==
    /\ at[r] = "negative"
    /\ IF may_consult_shared_cache(r) /\ negative
         THEN Answer(r, Response("missing", Empty, 0))
         ELSE Goto(r, "join") /\ UNCHANGED answer
    /\ UNCHANGED <<provider, cache, negative, lanes, bodies, health, map, flight, requestVars, holds, woken,
                   leaderVars, turns>>

-----------------------------------------------------------------------------
(* fetch_coalesced and its flights *)

strong_count(f) == Cardinality({r \in Requests : holds[r] = f}) + (IF map[f] = NoVal THEN 0 ELSE 1)

\* The flight map is locked by a leader that completes.
Unlocked == \A r \in Requests : at[r] # "notify"

\* One critical section: a reference to the flight of the key, or a new flight to lead.
Join(r) ==
    /\ at[r] = "join" /\ Unlocked
    /\ \/ \E f \in Flights :
             /\ map[f] = Key(r)
             /\ holds' = [holds EXCEPT ![r] = f] /\ Goto(r, "look")
             /\ UNCHANGED <<map, flight>>
       \/ /\ \A f \in Flights : map[f] # Key(r)
          /\ LET new == CHOOSE f \in Flights : strong_count(f) = 0
             IN  /\ map' = [map EXCEPT ![new] = Key(r)]
                 /\ flight' = [flight EXCEPT ![new] = Pending]
                 /\ holds' = [holds EXCEPT ![r] = new]
          /\ Goto(r, "acquire")
    /\ tries' = [tries EXCEPT ![r] = 0]
    /\ UNCHANGED <<provider, cache, negative, lanes, bodies, health, requestVars, woken,
                   used, late, slow, retrying, answer, turns>>

\* Faulty: the registration is made after the last look.
Wait_registers_late(r) ==
    /\ at[r] \in {"look", "armed"} /\ (at[r] = "look" => flight[holds[r]] = Pending)
    /\ Goto(r, IF at[r] = "look" THEN "armed" ELSE "wait")
    /\ woken' = [woken EXCEPT ![r] = FALSE]
    /\ UNCHANGED <<provider, cache, negative, lanes, bodies, health, map, flight, requestVars, holds,
                   leaderVars, answer, turns>>

\* Flight::wait looks, registers, looks again, parks.
Wait(r) ==
    /\ at[r] \in {"look", "armed"} /\ flight[holds[r]] = Pending
    /\ IF at[r] = "look"
         THEN Goto(r, "armed") /\ woken' = [woken EXCEPT ![r] = FALSE]
         ELSE Goto(r, "wait") /\ UNCHANGED woken
    /\ UNCHANGED <<provider, cache, negative, lanes, bodies, health, map, flight, requestVars, holds,
                   leaderVars, answer, turns>>

Wake(r) ==
    /\ at[r] = "wait" /\ woken[r]
    /\ Goto(r, "armed")
    /\ woken' = [woken EXCEPT ![r] = FALSE]
    /\ UNCHANGED <<provider, cache, negative, lanes, bodies, health, map, flight, requestVars, holds,
                   leaderVars, answer, turns>>

\* Faulty: the waiters of a dropped leader fail with it.
Resolve_aborted_fails(r) ==
    /\ at[r] \in {"look", "armed"} /\ flight[holds[r]] # Pending
    /\ Answer(r, IF flight[holds[r]] = Aborted THEN Response("transient", Empty, 0) ELSE flight[holds[r]])
    /\ HoldsNothing(r) /\ woken' = [woken EXCEPT ![r] = FALSE]
    /\ UNCHANGED <<provider, cache, negative, lanes, bodies, health, map, flight, requestVars,
                   leaderVars, turns>>

\* A completed flight is the answer, an aborted one is left for another.
Resolve(r) ==
    /\ at[r] \in {"look", "armed"} /\ flight[holds[r]] # Pending
    /\ IF flight[holds[r]] = Aborted
         THEN Goto(r, "join") /\ UNCHANGED answer
         ELSE Answer(r, flight[holds[r]])
    /\ HoldsNothing(r) /\ woken' = [woken EXCEPT ![r] = FALSE]
    /\ UNCHANGED <<provider, cache, negative, lanes, bodies, health, map, flight, requestVars,
                   leaderVars, turns>>

notify_waiters(f) ==
    woken' = [r \in Requests |-> woken[r] \/ (holds[r] = f /\ at[r] \in {"armed", "wait"})]

-----------------------------------------------------------------------------
(* fetch_with_retries, by the leader *)

\* A permit of the lane; the attempt is conditional on what the request carries and, where it
\* may, on what the cache holds now.
Acquire(r) ==
    /\ at[r] = "acquire" /\ lanes[Lane(r)] > 0
    /\ lanes' = [lanes EXCEPT ![Lane(r)] = @ - 1]
    /\ LET cached == may_consult_shared_cache(r) /\ cache # NoVal
           or(own, other) == IF own = NoVal /\ cached THEN other ELSE own
       IN  used' = [used EXCEPT ![r] = [body |-> or(prior[r].body, cache.body),
                                        etag |-> or(prior[r].etag, cache.etag)]]
    /\ late' = [late EXCEPT ![r] = FALSE]
    /\ Goto(r, "send")
    /\ UNCHANGED <<provider, cache, negative, bodies, health, map, flight, requestVars, holds, woken,
                   tries, slow, retrying, answer, turns>>

\* The first attempt has spent the slow threshold on the network.
TurnsSlow(r) ==
    /\ at[r] \in {"send", "body"} /\ ~late[r] /\ tries[r] = 0 /\ tracks_provider_health(r)
    /\ late' = [late EXCEPT ![r] = TRUE] /\ slow' = [slow EXCEPT ![r] = TRUE]
    /\ slow_attempts' = slow_attempts + 1
    /\ UNCHANGED <<provider, cache, negative, lanes, bodies, active_retries, map, flight, at, requestVars,
                   holds, woken, used, tries, retrying, answer, turns>>

\* Faulty: the slow evidence lives on into the wait for a body permit.
OperationEnds_keeps_evidence(r) == UNCHANGED <<slow, slow_attempts>>

\* The network operation of r is over: its slow evidence goes with it.
OperationEnds(r) ==
    /\ slow' = [slow EXCEPT ![r] = FALSE]
    /\ slow_attempts' = IF slow[r] THEN slow_attempts - 1 ELSE slow_attempts

\* The attempt is over: permits are returned, and the outcome is with r.
AttemptEnds(r, phase, outcome) ==
    /\ Goto(r, phase)
    /\ answer' = [answer EXCEPT ![r] = outcome]
    /\ lanes' = [lanes EXCEPT ![Lane(r)] = @ + 1]
    /\ bodies' = IF at[r] = "body" THEN bodies + 1 ELSE bodies
    /\ OperationEnds(r)
    /\ UNCHANGED <<provider, cache, active_retries, map, flight, requestVars, holds, woken,
                   used, tries, late, retrying, turns>>

\* Transport errors, timeouts, 408, 429 and 5xx, before or within the body.
Fails(r) ==
    /\ at[r] \in {"send", "body"}
    /\ AttemptEnds(r, "retry", Response("transient", Empty, tries[r] + 1))
    /\ UNCHANGED negative

\* 404 and 410 are remembered for requests that may store, if the headers leave a lifetime.
NotFound(r) ==
    /\ at[r] = "send" /\ provider = Gone
    /\ AttemptEnds(r, "finish", Response("missing", Empty, 0))
    /\ negative' \in {negative, negative \/ uses_shared_cache(r)}

\* not_modified_attempt; without a body to materialize nothing will be stored.
NotModified(r) ==
    /\ at[r] = "send" /\ provider # Gone /\ used[r].etag = provider
    /\ AttemptEnds(r, "finish", Response("notModified", used[r], 0))
    /\ UNCHANGED negative

\* Other statuses, and bodies that are announced or turn out too large.
Rejects(r) ==
    /\ at[r] \in {"send", "body"}
    /\ AttemptEnds(r, "finish", Response("rejected", Empty, 0))
    /\ UNCHANGED negative

\* 200, from a provider that honours validators: the body needs a permit of its own.
Headers(r) ==
    /\ at[r] = "send" /\ provider # Gone /\ used[r].etag # provider
    /\ Goto(r, "bodywait")
    /\ used' = [used EXCEPT ![r] = [body |-> provider, etag |-> provider]]
    /\ OperationEnds(r)
    /\ UNCHANGED <<provider, cache, negative, lanes, bodies, active_retries, map, flight, requestVars, holds,
                   woken, tries, late, retrying, answer, turns>>

AcquireBody(r) ==
    /\ at[r] = "bodywait" /\ bodies > 0
    /\ bodies' = bodies - 1
    /\ Goto(r, "body")
    /\ slow' = [slow EXCEPT ![r] = late[r]]
    /\ slow_attempts' = IF late[r] THEN slow_attempts + 1 ELSE slow_attempts
    /\ UNCHANGED <<provider, cache, negative, lanes, active_retries, map, flight, requestVars, holds, woken,
                   used, tries, late, retrying, answer, turns>>

BodyEnds(r) ==
    /\ at[r] = "body"
    /\ AttemptEnds(r, "finish", Response("data", used[r], 0))
    /\ UNCHANGED negative

\* The evidence of a retry sequence begins with its first failure; beyond the window the
\* failure is the answer.
Retry(r) ==
    /\ at[r] = "retry"
    /\ IF tracks_provider_health(r) /\ ~retrying[r]
         THEN retrying' = [retrying EXCEPT ![r] = TRUE] /\ active_retries' = active_retries + 1
         ELSE UNCHANGED <<retrying, active_retries>>
    /\ IF tries[r] + 1 = RetryWindow
         THEN Goto(r, "finish") /\ UNCHANGED answer
         ELSE Goto(r, "backoff") /\ answer' = [answer EXCEPT ![r] = NoVal]
    /\ UNCHANGED <<provider, cache, negative, lanes, bodies, slow_attempts, map, flight, requestVars, holds,
                   woken, used, tries, late, slow, turns>>

Backoff(r) ==
    /\ at[r] = "backoff"
    /\ tries' = [tries EXCEPT ![r] = @ + 1]
    /\ Goto(r, "acquire")
    /\ UNCHANGED <<provider, cache, negative, lanes, bodies, health, map, flight, requestVars, holds, woken,
                   used, late, slow, retrying, answer, turns>>

SequenceEnds(r) ==
    /\ retrying' = [retrying EXCEPT ![r] = FALSE]
    /\ active_retries' = IF retrying[r] THEN active_retries - 1 ELSE active_retries

\* finish_fetch: a body, received or materialized, is stored or removed as the headers say.
Finish(r) ==
    /\ at[r] = "finish"
    /\ LET prior_ == answer[r].prior
       IN  IF uses_shared_cache(r) /\ answer[r].kind \in {"data", "notModified"} /\ prior_.body # NoVal
             THEN \/ cache' = NoVal
                  \/ \E fresh \in BOOLEAN :
                        cache' = [body |-> prior_.body, etag |-> prior_.etag, fresh |-> fresh]
             ELSE UNCHANGED cache
    /\ SequenceEnds(r)
    /\ Goto(r, "complete")
    /\ UNCHANGED <<provider, negative, lanes, bodies, slow_attempts, map, flight, requestVars, holds, woken,
                   used, tries, late, slow, answer, turns>>

\* Faulty: one joined caller is taken for none.
Complete_three_refs(r) ==
    /\ at[r] = "complete" /\ Unlocked
    /\ flight' = IF strong_count(holds[r]) > 3
                   THEN [flight EXCEPT ![holds[r]] = answer[r]] ELSE flight
    /\ Goto(r, "notify")
    /\ UNCHANGED <<provider, cache, negative, lanes, bodies, health, map, requestVars, holds, woken,
                   leaderVars, answer, turns>>

\* FlightLeader::complete, under the lock of the map: published only if somebody else refers
\* to the flight, ...
Complete(r) ==
    /\ at[r] = "complete" /\ Unlocked
    /\ LET owned_refs == 1 + (IF map[holds[r]] = NoVal THEN 0 ELSE 1)
       IN  flight' = IF strong_count(holds[r]) > owned_refs
                       THEN [flight EXCEPT ![holds[r]] = answer[r]] ELSE flight
    /\ Goto(r, "notify")
    /\ UNCHANGED <<provider, cache, negative, lanes, bodies, health, map, requestVars, holds, woken,
                   leaderVars, answer, turns>>

\* ... and then removed.
Completed(r) ==
    /\ at[r] = "notify"
    /\ notify_waiters(holds[r])
    /\ map' = [map EXCEPT ![holds[r]] = NoVal]
    /\ HoldsNothing(r)
    /\ Goto(r, "done")
    /\ used' = [used EXCEPT ![r] = Empty] /\ tries' = [tries EXCEPT ![r] = 0]
    /\ late' = [late EXCEPT ![r] = FALSE]
    /\ UNCHANGED <<provider, cache, negative, lanes, bodies, health, flight, requestVars, slow, retrying,
                   answer, turns>>

-----------------------------------------------------------------------------
\* MapLibre drops the request at an await.  A leader's guards go first, then its flight is
\* marked aborted, ...
Cancel(r) ==
    /\ Turn
    /\ \/ /\ at[r] \in {"deferred", "wait"}
          /\ HoldsNothing(r) /\ Goto(r, "idle")
          /\ UNCHANGED <<flight, lanes, bodies, health, slow, retrying>>
       \/ /\ at[r] \in OnNetwork \cup {"acquire", "backoff"}
          /\ lanes' = IF at[r] \in OnNetwork THEN [lanes EXCEPT ![Lane(r)] = @ + 1] ELSE lanes
          /\ bodies' = IF at[r] = "body" THEN bodies + 1 ELSE bodies
          /\ OperationEnds(r) /\ SequenceEnds(r)
          /\ flight' = [flight EXCEPT ![holds[r]] = Aborted]
          /\ Goto(r, "abort") /\ UNCHANGED holds
    /\ woken' = [woken EXCEPT ![r] = FALSE]
    /\ UNCHANGED <<provider, cache, negative, map, requestVars, used, tries, late, answer>>

AbortNotify(r) ==
    /\ at[r] = "abort"
    /\ notify_waiters(holds[r])
    /\ Goto(r, "remove")
    /\ UNCHANGED <<provider, cache, negative, lanes, bodies, health, map, flight, requestVars, holds,
                   leaderVars, answer, turns>>

\* ... and removed in a critical section of its own: meanwhile it can still be joined.
remove_flight(r) ==
    /\ at[r] = "remove" /\ Unlocked
    /\ map' = [map EXCEPT ![holds[r]] = NoVal]
    /\ HoldsNothing(r)
    /\ Goto(r, "idle")
    /\ used' = [used EXCEPT ![r] = Empty] /\ tries' = [tries EXCEPT ![r] = 0]
    /\ late' = [late EXCEPT ![r] = FALSE]
    /\ UNCHANGED <<provider, cache, negative, lanes, bodies, health, flight, requestVars, woken, slow,
                   retrying, answer, turns>>

-----------------------------------------------------------------------------
ProviderChanges ==
    /\ Turn
    /\ provider' \in {Gone, turns' + 1}
    /\ UNCHANGED <<cache, negative, lanes, bodies, health, map, flight, at, requestVars, holds, woken,
                   leaderVars, answer>>

\* An entry expires or is evicted.
CacheAges ==
    /\ Turn
    /\ \/ cache # NoVal /\ cache' \in {NoVal, [cache EXCEPT !.fresh = FALSE]} /\ UNCHANGED negative
       \/ negative /\ negative' = FALSE /\ UNCHANGED cache
    /\ UNCHANGED <<provider, lanes, bodies, health, map, flight, at, requestVars, holds, woken,
                   leaderVars, answer>>

RequestStep(r) ==
    \/ DatabaseLookup(r) \/ Request(r) \/ DeferralEnds(r) \/ NegativeLook(r)
    \/ Join(r) \/ Wait(r) \/ Wake(r) \/ Resolve(r)
    \/ Acquire(r) \/ Fails(r) \/ NotFound(r) \/ NotModified(r) \/ Rejects(r) \/ Headers(r)
    \/ AcquireBody(r) \/ BodyEnds(r) \/ Retry(r) \/ Backoff(r) \/ Finish(r)
    \/ Complete(r) \/ Completed(r) \/ AbortNotify(r) \/ remove_flight(r)

Next ==
    \/ \E r \in Requests : Start(r) \/ RequestStep(r) \/ TurnsSlow(r) \/ Cancel(r)
    \/ ProviderChanges \/ CacheAges

\* Tasks run, sleeps end, and REQUEST_TIMEOUT ends what the provider does not.
Spec == Init /\ [][Next]_vars /\ \A r \in Requests : WF_vars(RequestStep(r))
(***************************************************************************)
(* Properties.                                                             *)
(***************************************************************************)

\* The flight map and the references agree: what the map holds is being fetched or being
\* aborted, by one leader; a request that refers to a pending flight has that leader, which
\* has not decided against publishing; and a parked request whose flight has ended is woken or
\* about to be (singleflight.rs:110, :127).
NobodyStranded ==
    /\ \A f \in Flights : map[f] # NoVal =>
           \E r \in Requests : holds[r] = f /\ at[r] \in Fetching \cup Aborting \cup {"notify"} /\ Key(r) = map[f]
    /\ \A f, g \in Flights : map[f] # NoVal /\ map[f] = map[g] => f = g
    /\ \A r \in Requests : at[r] \in Waiting /\ flight[holds[r]] = Pending =>
           \E d \in Requests : holds[d] = holds[r] /\ at[d] \in Fetching
    /\ \A r \in Requests : at[r] = "wait" /\ flight[holds[r]] # Pending =>
           woken[r] \/ \E d \in Requests : holds[d] = holds[r] /\ at[d] \in {"notify", "abort"}

\* Every guard is returned exactly once, on whichever path its task ended or was dropped: the
\* permits left and the permits held add up, nobody holds one while it waits for a flight or
\* sleeps between attempts, and the evidence that excuses lost renderers is there exactly as
\* long as a render-blocking request retries or is slow on the network (source.rs:483, health.rs:68).
GuardsExact ==
    /\ \A lane \in {"low", "regular"} :
           lanes[lane] + Cardinality({r \in Requests : at[r] \in OnNetwork /\ Lane(r) = lane})
               = (IF lane = "low" THEN LowPermits ELSE RegularPermits)
    /\ bodies + Cardinality({r \in Requests : at[r] = "body"}) = BodyPermits
    /\ active_retries = Cardinality({r \in Requests : retrying[r]})
    /\ slow_attempts = Cardinality({r \in Requests : slow[r]})
    /\ \A r \in Requests :
           /\ retrying[r] => ~low[r] /\ at[r] \in Fetching \ {"complete"}
           /\ slow[r] => ~low[r] /\ at[r] \in {"send", "body"}

\* No request, leader or waiter, is answered with a transient failure before its flight has
\* used up the retry window: a dropped leader does not end the flight for the others
\* (source.rs:458).
PatientErrors ==
    \A r \in Requests : at[r] = "done" /\ answer[r].kind = "transient" => answer[r].tries = RetryWindow

\* Every request is answered or dropped.
RequestsEnd == \A r \in Requests : at[r] # "idle" ~> at[r] \in {"idle", "done"}
=============================================================================
