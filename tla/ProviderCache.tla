---------------------------- MODULE ProviderCache ----------------------------
(***************************************************************************)
(* The tile server's cache of a provider's styles, glyphs and sprites:     *)
(* ProviderFetchCache with the two users of it, a request                  *)
(* (fetch_limited_bytes_with_validation) and the revalidation a stale hit  *)
(* spawns.  One key: entries, cool-downs and flights of two keys do not    *)
(* meet.  What the fetches of other keys do to this one, a full queue or a *)
(* permit that does not come within the deadline, is one of the errors a   *)
(* fetch may end with.  The origin and its intermediaries are another      *)
(* party's: any policy, any Age, a 304, a 404 or an error.  The key's URL  *)
(* says what the origin is, an HTTP server or an object store; the code    *)
(* charges the time an answer was under way to the windows of the one, and *)
(* not to those of the other.                                              *)
(***************************************************************************)
EXTENDS Integers, RustOption

CONSTANTS Requests,      \* requests of the resource
          Task,          \* the spawned revalidation, as the holder of a flight
          Policies,      \* CachePolicy: [store, fresh, swr, explicit]
          NegPolicies,   \* NegativeCachePolicy, in the same shape and without swr
          MaxAge,        \* bound: the corrected age of an HTTP answer, its transfer included
          PROVIDER_FETCH_TIMEOUT,  \* how long one answer may be under way
          COOLDOWN,      \* PROVIDER_STALE_REVALIDATION_FAILURE_COOLDOWN
          MaxTime,       \* bound: the clock
          MaxAnswers,    \* bound: answers of the origin
          MaxDrops       \* bound: callers that go away, and evictions

ASSUME ProviderCacheAssumption ==
    /\ {MaxAge, PROVIDER_FETCH_TIMEOUT, COOLDOWN, MaxTime, MaxAnswers, MaxDrops} \subseteq Nat
    /\ Task \notin Requests /\ NoVal \notin Requests \cup {Task}
    /\ \A p \in Policies \cup NegPolicies :
           p.store \in BOOLEAN /\ p.explicit \in BOOLEAN /\ p.fresh \in Nat /\ p.swr \in Nat
    /\ \A p \in NegPolicies : p.swr = 0

VARIABLES origin,       \* what the key's URL names
          now,          \* the clock, in units of the policies
          entry,        \* the cached entry, or NoVal
          retryAt,      \* failed_revalidations: when the cool-down ends, or NoVal
          leader,       \* who holds the flight of the key
          at,           \* where each request is
          got,          \* the number of the answer a request returns; 0 for an error, NoVal for none yet
          task,         \* the spawned revalidation, or NoVal
          answers,      \* how many answers of the origin were applied
          since,        \* `answers` when each request began
          drops

shared == <<origin, now, entry, retryAt, leader>>
calls == <<at, got, task, since>>
providerVars == <<shared, calls, answers, drops>>

Option(S) == S \cup {NoVal}
Entries == [kind: {"found", "negative"}, number: 1..MaxAnswers, policy: Policies \cup NegPolicies,
            confirmed: Int, freshUntil: Nat, staleUntil: Nat]
Revalidating == {"allowed", "clear", "begin", "allowed2", "clear2", "copy"}   \* the steps of spawn_stale_revalidation

ProviderTypeOK ==
    /\ origin \in {"http", "object_store"}
    /\ now \in 0..MaxTime
    /\ entry \in Option(Entries)
    /\ retryAt \in Option(Nat)
    /\ leader \in Option(Requests \cup {Task})
    /\ at \in [Requests -> Revalidating \cup {"idle", "lookup", "elect", "recheck", "fetch", "close", "follow", "done"}]
    /\ got \in [Requests -> Option(0..MaxAnswers)]
    /\ task \in Option([at: {"fetch", "close"}, copy: Policies, got: Option(0..MaxAnswers)])
    /\ answers \in 0..MaxAnswers
    /\ since \in [Requests -> 0..MaxAnswers]
    /\ drops \in 0..MaxDrops

ProviderInit ==
    /\ origin \in {"http", "object_store"}
    /\ now = 0 /\ entry = NoVal /\ retryAt = NoVal /\ leader = NoVal
    /\ at = [r \in Requests |-> "idle"]
    /\ got = [r \in Requests |-> NoVal]
    /\ task = NoVal
    /\ answers = 0
    /\ since = [r \in Requests |-> 0]
    /\ drops = 0

---------------------------------------------------------------------------
(* The entry and its windows.                                              *)

freshness(e) ==
    IF now < e.freshUntil THEN "fresh" ELSE IF now < e.staleUntil THEN "stale" ELSE "expired"

\* An expired entry is a miss, and stays where it is.
get == IF entry # NoVal /\ freshness(entry) # "expired" THEN entry ELSE NoVal

\* A negative entry has no stale window, so a stale entry is a body.
stale_representation == IF get # NoVal /\ freshness(get) = "stale" THEN get ELSE NoVal

SaturatingSub(a, b) == IF a > b THEN a - b ELSE 0

\* What is left of the policy's windows is counted from now; an answer
\* nothing is left of, or that forbids it, removes what was cached.
Retained(a) == a.policy.store /\ SaturatingSub(a.policy.fresh + a.policy.swr, a.age) > 0

\* Faulty: an answer that is not retained leaves the old body where it is.
put_found_keeps(a) ==
    IF Retained(a)
    THEN [kind |-> a.kind, number |-> answers + 1, policy |-> a.policy, confirmed |-> a.confirmed,
          freshUntil |-> now + SaturatingSub(a.policy.fresh, a.age),
          staleUntil |-> now + SaturatingSub(a.policy.fresh + a.policy.swr, a.age)]
    ELSE entry

put_found(a) ==
    IF Retained(a)
    THEN [kind |-> a.kind, number |-> answers + 1, policy |-> a.policy, confirmed |-> a.confirmed,
          freshUntil |-> now + SaturatingSub(a.policy.fresh, a.age),
          staleUntil |-> now + SaturatingSub(a.policy.fresh + a.policy.swr, a.age)]
    ELSE NoVal

put_negative(a) ==
    LET fresh == SaturatingSub(a.policy.fresh, a.age)
    IN IF a.policy.store /\ fresh > 0
       THEN [kind |-> a.kind, number |-> answers + 1, policy |-> a.policy, confirmed |-> a.confirmed,
             freshUntil |-> now + fresh, staleUntil |-> now + fresh]
       ELSE NoVal

Put(a) == IF a.kind = "found" THEN put_found(a) ELSE put_negative(a)

---------------------------------------------------------------------------
(* What a fetch may bring back.  `age` is what the code charges against    *)
(* the policy, `confirmed` when the origin really said so: the answer may  *)
(* have been in an intermediary's cache, and it was under way.             *)

Answer(kind, p, age, charged) ==
    [kind |-> kind, policy |-> p, confirmed |-> now - age, age |-> IF charged THEN age ELSE 0]

\* A 304: its own policy if it has one, else the one the copy was stored with.
revalidated_provider_resource(copy, own, ages, charged) ==
    {Answer("found", p, age, charged) : p \in own \cup {copy}, age \in ages}

\* A 200, and a 404 or 410: the age, which the transfer is part of, counts
\* against a lifetime the origin declared.  A 304 is an answer to a
\* conditional request only.
fetch_http_provider(copy) ==
    {Answer("found", p, age, p.explicit) : p \in Policies, age \in 0..MaxAge}
    \cup {Answer("negative", p, age, p.explicit) : p \in NegPolicies, age \in 0..MaxAge}
    \cup (IF copy = NoVal THEN {} ELSE revalidated_provider_resource(copy, Policies, 0..MaxAge, TRUE))

\* An object store has no policy for what it does not hold.  Its answers start
\* with an age of zero when they have arrived, whatever lifetime the object
\* declares: the time they were under way is charged to nothing.
fetch_object_store_provider(copy) ==
    LET transfer == 0..PROVIDER_FETCH_TIMEOUT
    IN {Answer("found", p, t, FALSE) : p \in Policies, t \in transfer}
       \cup {Answer("negative", p, t, FALSE) : p \in {q \in NegPolicies : q.store /\ ~q.explicit}, t \in transfer}
       \cup (IF copy = NoVal THEN {} ELSE revalidated_provider_resource(copy, {}, transfer, FALSE))

\* An error is an outcome of its own.
fetch_limited_bytes_uncached(copy) ==
    IF origin = "http" THEN fetch_http_provider(copy) ELSE fetch_object_store_provider(copy)

---------------------------------------------------------------------------
(* The flight.  A leader that ends wakes every follower, with its outcome  *)
(* if it has one.                                                          *)

Followers == {r \in Requests : at[r] = "follow"}

Wake(outcome) ==
    [r \in Requests |-> IF r \notin Followers THEN at[r] ELSE IF outcome = NoVal THEN "lookup" ELSE "done"]
Hear(outcome) == [r \in Requests |-> IF r \in Followers THEN outcome ELSE got[r]]

\* LeaderGuard::drop, with the state r itself goes to.
Release(r, to, outcome) ==
    /\ leader' = NoVal
    /\ at' = [Wake(outcome) EXCEPT ![r] = to]

Goto(r, to) == at' = [at EXCEPT ![r] = to]

\* Applies an answer: store_leader_result up to the end of the flight.
Store(a) ==
    /\ answers < MaxAnswers
    /\ entry' = Put(a)
    /\ retryAt' = NoVal
    /\ answers' = answers + 1

---------------------------------------------------------------------------
(* A request: fetch_limited_bytes_with_validation.                         *)

Begin(r) ==
    /\ at[r] \in {"idle", "done"}
    /\ Goto(r, "lookup")
    /\ got' = [got EXCEPT ![r] = NoVal]
    /\ since' = [since EXCEPT ![r] = answers]
    /\ UNCHANGED <<shared, task, answers, drops>>

Lookup(r) ==
    /\ at[r] = "lookup"
    /\ IF get = NoVal
       THEN Goto(r, "elect") /\ UNCHANGED got
       ELSE /\ Goto(r, IF freshness(get) = "stale" THEN "allowed" ELSE "done")
            /\ got' = [got EXCEPT ![r] = get.number]
    /\ UNCHANGED <<shared, task, since, answers, drops>>

Elect(r) ==
    /\ at[r] = "elect"
    /\ IF leader = NoVal
       THEN leader' = r /\ Goto(r, "recheck")
       ELSE Goto(r, "follow") /\ UNCHANGED leader
    /\ UNCHANGED <<origin, now, entry, retryAt, got, task, since, answers, drops>>

\* Faulty: the new leader trusts the miss from before its election.
Recheck_trusting(r) ==
    /\ at[r] = "recheck"
    /\ Goto(r, "fetch")
    /\ UNCHANGED <<shared, got, task, since, answers, drops>>

\* Another leader may have stored a replacement since the miss.
Recheck(r) ==
    /\ at[r] = "recheck"
    /\ IF get # NoVal
       THEN Release(r, "lookup", NoVal)
       ELSE Goto(r, "fetch") /\ UNCHANGED leader
    /\ UNCHANGED <<origin, now, entry, retryAt, got, task, since, answers, drops>>

FetchEnds(r) ==
    /\ at[r] = "fetch"
    /\ Goto(r, "close")
    /\ \/ /\ \E a \in fetch_limited_bytes_uncached(NoVal) : Store(a)
          /\ got' = [got EXCEPT ![r] = answers']
       \/ /\ got' = [got EXCEPT ![r] = 0]
          /\ UNCHANGED <<entry, retryAt, answers>>
    /\ UNCHANGED <<origin, now, leader, task, since, drops>>

CloseFlight(r) ==
    /\ at[r] = "close"
    /\ Release(r, "done", got[r])
    /\ got' = Hear(got[r])
    /\ UNCHANGED <<origin, now, entry, retryAt, task, since, answers, drops>>

\* Faulty: the flight of a leader that goes away stays registered.
Drop_keeps_flight(r) ==
    /\ drops < MaxDrops
    /\ drops' = drops + 1
    /\ at[r] \in {"fetch", "follow"} /\ Goto(r, "idle")
    /\ UNCHANGED <<shared, got, task, since, answers>>

\* The client goes away while the request waits: for the origin, or for a leader.
Drop(r) ==
    /\ drops < MaxDrops
    /\ drops' = drops + 1
    /\ \/ at[r] = "fetch" /\ Release(r, "idle", NoVal)
       \/ at[r] = "follow" /\ Goto(r, "idle") /\ UNCHANGED leader
    /\ UNCHANGED <<origin, now, entry, retryAt, got, task, since, answers>>

---------------------------------------------------------------------------
(* A stale hit: spawn_stale_revalidation.  The cool-down is read, and if   *)
(* it is over removed, once before the election and once after it.  A      *)
(* request that stops anywhere returns the stale body it has found.        *)

\* stale_revalidation_allowed, up to its `invalidate`.
Allowed(r, from, over, next, otherwise) ==
    /\ at[r] = from
    /\ IF retryAt = NoVal THEN Goto(r, next) /\ UNCHANGED leader
       ELSE IF now < retryAt THEN otherwise
       ELSE Goto(r, over) /\ UNCHANGED leader
    /\ UNCHANGED <<origin, now, entry, retryAt, got, task, since, answers, drops>>

Clear(r, from, next) ==
    /\ at[r] = from
    /\ retryAt' = NoVal
    /\ Goto(r, next)
    /\ UNCHANGED <<origin, now, entry, leader, got, task, since, answers, drops>>

FirstCheck(r) ==
    \/ Allowed(r, "allowed", "clear", "begin", Goto(r, "done") /\ UNCHANGED leader)
    \/ Clear(r, "clear", "begin")

ElectStale(r) ==
    /\ at[r] = "begin"
    /\ IF leader = NoVal
       THEN leader' = r /\ Goto(r, "allowed2")
       ELSE Goto(r, "done") /\ UNCHANGED leader
    /\ UNCHANGED <<origin, now, entry, retryAt, got, task, since, answers, drops>>

SecondCheck(r) ==
    \/ Allowed(r, "allowed2", "clear2", "copy", Release(r, "done", NoVal))
    \/ Clear(r, "clear2", "copy")

\* The copy is taken under the flight, and the flight goes to the task.
SpawnRevalidation(r) ==
    /\ at[r] = "copy"
    /\ IF stale_representation = NoVal
       THEN Release(r, "done", NoVal) /\ UNCHANGED task
       ELSE /\ task' = [at |-> "fetch", copy |-> stale_representation.policy, got |-> NoVal]
            /\ leader' = Task
            /\ Goto(r, "done")
    /\ UNCHANGED <<origin, now, entry, retryAt, got, since, answers, drops>>

\* A failure is remembered while the entry is stale; an expired one goes.
mark_stale_revalidation_failure ==
    CASE entry # NoVal /\ freshness(entry) = "stale"   -> retryAt' = now + COOLDOWN /\ UNCHANGED entry
      [] entry # NoVal /\ freshness(entry) = "expired" -> retryAt' = NoVal /\ entry' = NoVal
      [] OTHER                                         -> retryAt' = NoVal /\ UNCHANGED entry

\* The failure is installed before the flight ends.
TaskFetchEnds ==
    /\ task # NoVal /\ task.at = "fetch"
    /\ \/ /\ \E a \in fetch_limited_bytes_uncached(task.copy) : Store(a)
          /\ task' = [task EXCEPT !.at = "close", !.got = answers']
       \/ /\ mark_stale_revalidation_failure
          /\ task' = [task EXCEPT !.at = "close", !.got = 0]
          /\ UNCHANGED answers
    /\ UNCHANGED <<origin, now, leader, at, got, since, drops>>

TaskCloses ==
    /\ task # NoVal /\ task.at = "close"
    /\ leader' = NoVal
    /\ at' = Wake(task.got)
    /\ got' = Hear(task.got)
    /\ task' = NoVal
    /\ UNCHANGED <<origin, now, entry, retryAt, since, answers, drops>>

---------------------------------------------------------------------------
(* The clock, and the byte-bounded cache.                                  *)

Tick ==
    /\ now < MaxTime
    /\ now' = now + 1
    /\ UNCHANGED <<origin, entry, retryAt, leader, calls, answers, drops>>

Evict ==
    /\ drops < MaxDrops /\ entry # NoVal
    /\ entry' = NoVal
    /\ drops' = drops + 1
    /\ UNCHANGED <<origin, now, retryAt, leader, calls, answers>>

\* What a request or the task does of itself; a fetch ends, at its timeout at the latest.
Step(r) ==
    \/ Lookup(r) \/ Elect(r) \/ Recheck(r) \/ FetchEnds(r) \/ CloseFlight(r)
    \/ FirstCheck(r) \/ ElectStale(r) \/ SecondCheck(r) \/ SpawnRevalidation(r)
TaskStep == TaskFetchEnds \/ TaskCloses

ProviderNext ==
    \/ \E r \in Requests : Begin(r) \/ Step(r) \/ Drop(r)
    \/ TaskStep \/ Tick \/ Evict

ProviderFairness == WF_providerVars(TaskStep) /\ \A r \in Requests : WF_providerVars(Step(r))
ProviderSpec == ProviderInit /\ [][ProviderNext]_providerVars /\ ProviderFairness

---------------------------------------------------------------------------
(* Properties                                                              *)

\* A request never returns an answer older than the last one applied before
\* it began: not the stale body a later answer replaced, forbade to keep
\* (`put_found` on no-store) or left nothing of, nor what a leader it follows
\* had found.
NeverSuperseded ==
    \A r \in Requests : at[r] = "done" /\ got[r] # 0 => got[r] >= since[r] /\ got[r] > 0

\* What the code does not charge to an answer's windows: all the time it was
\* under way from an object store, and, of an HTTP answer, the age of one whose
\* lifetime the origin did not declare.
Uncharged(o, p) ==
    IF o = "object_store" THEN PROVIDER_FETCH_TIMEOUT ELSE IF p.explicit THEN 0 ELSE MaxAge

\* What is served from the CACHE was confirmed by the origin within the
\* policy's windows, to what is not charged: within both, or within the first
\* when it is called fresh; however many 304s renewed it and whatever age they
\* carried.  Nothing is said of an answer that is handed to the leader and the
\* followers of its own flight: it may be past its windows when it arrives.
ConfirmedInWindow ==
    get # NoVal =>
        /\ now - get.confirmed < get.policy.fresh + get.policy.swr + Uncharged(origin, get.policy)
        /\ freshness(get) = "fresh" => now - get.confirmed < get.policy.fresh + Uncharged(origin, get.policy)

\* Both: no request is given what an answer before it replaced, and what is
\* served from the cache is within its windows, to what is not charged.
AnswersCurrent == NeverSuperseded /\ ConfirmedInWindow

\* The origin is asked only when it must be: a request asks while nothing
\* servable is cached, the task while what is cached is not fresh.  An
\* observation from before the election, expired or stale, starts no fetch of
\* what another leader has just replaced (the re-check under the flight and
\* `stale_representation`).
AsksOnlyWhenNeeded ==
    /\ \A r \in Requests : at[r] = "fetch" => get = NoVal
    /\ task # NoVal /\ task.at = "fetch" => entry = NoVal \/ freshness(entry) # "fresh"

\* Every request ends: one that follows a leader which goes away without an
\* outcome looks and runs for leader again until it has an answer, an error or
\* no client any more.
RequestsEnd ==
    \A r \in Requests : at[r] = "lookup" ~> at[r] \in {"done", "idle"}
=============================================================================
