----------------------------- MODULE AuthRefresh -----------------------------
(***************************************************************************)
(* How a delivery server keeps the registries it authenticates against:    *)
(* DeliveryAuth::snapshot and refresh.  A snapshot is served from a        *)
(* bounded cache until it is due; then one caller per registry refreshes   *)
(* it from the object store, the others follow its flight.  A failed       *)
(* refresh serves the last good snapshot for a cool-down, and without one  *)
(* nobody asks the store again until a cool-down has passed.  What the     *)
(* store holds is another party's: it may be rolled back, changed without  *)
(* a new revision, or invalid.                                             *)
(***************************************************************************)
EXTENDS Integers, FiniteSets, RustOption

CONSTANTS Callers,                        \* requests that authenticate
          Registries,                     \* the configured catalog
          Valid,                          \* the valid documents: [revision, body]
          MAX_CONCURRENT_REGISTRY_LOADS,
          MaxTurns                        \* bound: changes, expiries, evictions, drops and repeats

\* What is not a valid document, in the shape of one.
Not(what) == [revision |-> 0, body |-> what]
Invalid == Not("invalid")
Unchanged == Not("unchanged")         \* ObjectStoreError::NotModified
StoreError == Not("error")
Unavailable == Not("unavailable")     \* AuthUnavailable
Documents == Valid \cup {Invalid}

ASSUME AuthAssumption ==
    /\ MAX_CONCURRENT_REGISTRY_LOADS \in Nat \ {0} /\ MaxTurns \in Nat
    /\ \A doc \in Valid : doc.revision \in Nat
    /\ IsFiniteSet(Callers) /\ NoVal \notin Callers
    /\ NoVal \notin Documents /\ NoVal \notin {"none", "error"}
    /\ \A what \in {"invalid", "unchanged", "error", "unavailable"} : Not(what) \notin Valid

VARIABLES store,        \* current.json of each registry
          cache,        \* NoVal, or the cached document and whether it is not due yet
          installed,    \* installed_revisions
          cold,         \* cold_retry_after is in the future
          leader,       \* the caller that holds the flight of a registry
          at,           \* where each call is
          registry,     \* the registry of each call
          previous,     \* the cached document a refresh began with
          reply,        \* what the store answered
          heard,        \* how the flight a follower waits on ended: NoVal, "none" or "error"
          answer,       \* the document the call got, or Unavailable
          floor,        \* the highest revision given out for the registry when the call began
          turns

shared == <<store, cache, installed, cold, leader>>
calls == <<at, registry, previous, reply, heard, answer, floor>>
vars == <<shared, calls, turns>>

Loading == {"ask", "check", "compared", "insert", "failed"}  \* between permit and the end of it
Leading == {"refresh"} \cup Loading
Replies == Documents \cup {NoVal, Unchanged, StoreError}

TypeOK ==
    /\ store \in [Registries -> Documents]
    /\ cache \in [Registries -> {NoVal} \cup [doc: Valid, due: BOOLEAN]]
    /\ installed \in [Registries -> {NoVal} \cup Valid]
    /\ cold \in [Registries -> BOOLEAN]
    /\ leader \in [Registries -> {NoVal} \cup Callers]
    /\ at \in [Callers -> Leading \cup {"idle", "look", "cold", "begin", "follow", "done"}]
    /\ registry \in [Callers -> Registries]
    /\ previous \in [Callers -> {NoVal} \cup Valid]
    /\ reply \in [Callers -> Replies]
    /\ heard \in [Callers -> {NoVal, "none", "error"}]
    /\ answer \in [Callers -> {NoVal, Unavailable} \cup Valid]
    /\ floor \in [Callers -> {-1} \cup {doc.revision : doc \in Valid}]
    /\ turns \in 0..MaxTurns

Init ==
    /\ store \in [Registries -> Documents]
    /\ cache = [r \in Registries |-> NoVal] /\ installed = [r \in Registries |-> NoVal]
    /\ cold = [r \in Registries |-> FALSE] /\ leader = [r \in Registries |-> NoVal]
    /\ at = [c \in Callers |-> "idle"] /\ registry \in [Callers -> Registries]
    /\ previous = [c \in Callers |-> NoVal] /\ reply = [c \in Callers |-> NoVal]
    /\ heard = [c \in Callers |-> NoVal] /\ answer = [c \in Callers |-> NoVal]
    /\ floor = [c \in Callers |-> -1] /\ turns = 0

Goto(c, phase) == at' = [at EXCEPT ![c] = phase]

\* The highest revision a finished call has been given for r, -1 if none.
GivenOut(r) ==
    LET given == {answer[c].revision : c \in {d \in Callers :
                      registry[d] = r /\ answer[d] \in Valid}}
    IN  CHOOSE top \in {-1} \cup given : \A revision \in given : top >= revision

Turn == turns < MaxTurns /\ turns' = turns + 1

Answer(c, what) == Goto(c, "done") /\ answer' = [answer EXCEPT ![c] = what]

-----------------------------------------------------------------------------
\* authorize with a well-formed token: one request after another.
Call(c) ==
    /\ \/ at[c] = "idle" /\ UNCHANGED turns
       \/ at[c] = "done" /\ Turn
    /\ Goto(c, "look")
    /\ floor' = [floor EXCEPT ![c] = GivenOut(registry[c])]
    /\ answer' = [answer EXCEPT ![c] = NoVal]
    /\ UNCHANGED <<shared, registry, previous, reply, heard>>

\* A snapshot that is not due is the answer.
Look(c) ==
    /\ at[c] = "look"
    /\ LET cached == cache[registry[c]]
       IN  IF cached # NoVal /\ ~cached.due
             THEN Answer(c, cached.doc)
             ELSE Goto(c, "cold") /\ UNCHANGED answer
    /\ UNCHANGED <<shared, registry, previous, reply, heard, floor, turns>>

\* Without any, a recent failure is the answer: the store is not asked again.
LookCold(c) ==
    /\ at[c] = "cold"
    /\ IF cache[registry[c]] = NoVal /\ cold[registry[c]]
         THEN Answer(c, Unavailable)
         ELSE Goto(c, "begin") /\ UNCHANGED answer
    /\ UNCHANGED <<shared, registry, previous, reply, heard, floor, turns>>

\* Faulty: a second refresh of a registry may begin beside the first.
Begin_everyone_leads(c) ==
    /\ at[c] = "begin"
    /\ leader' = [leader EXCEPT ![registry[c]] = c]
    /\ Goto(c, "refresh")
    /\ UNCHANGED <<store, cache, installed, cold, registry, previous, reply, heard, answer, floor, turns>>

\* SingleFlight::begin.
Begin(c) ==
    /\ at[c] = "begin"
    /\ IF leader[registry[c]] = NoVal
         THEN /\ leader' = [leader EXCEPT ![registry[c]] = c]
              /\ Goto(c, "refresh") /\ UNCHANGED heard
         ELSE /\ heard' = [heard EXCEPT ![c] = NoVal]
              /\ Goto(c, "follow") /\ UNCHANGED leader
    /\ UNCHANGED <<store, cache, installed, cold, registry, previous, reply, answer, floor, turns>>

\* The flight ends: the key is removed and its followers hear the outcome.
Land(r, outcome) ==
    /\ leader' = [leader EXCEPT ![r] = NoVal]
    /\ heard' = [d \in Callers |-> IF at[d] = "follow" /\ registry[d] = r /\ heard[d] = NoVal
                                     THEN outcome ELSE heard[d]]

Followed(c) ==
    /\ at[c] = "follow" /\ heard[c] # NoVal
    /\ IF heard[c] = "error"
         THEN Answer(c, Unavailable)
         ELSE Goto(c, "look") /\ UNCHANGED answer
    /\ UNCHANGED <<shared, registry, previous, reply, heard, floor, turns>>

-----------------------------------------------------------------------------
(* refresh, by the leader *)

\* A permit is taken or the refresh fails at once; the cached document is remembered, and its
\* etag makes the request conditional.
AskStore(c) ==
    /\ at[c] = "refresh"
    /\ IF Cardinality({d \in Callers : at[d] \in {"ask", "check", "compared", "insert"}})
              < MAX_CONCURRENT_REGISTRY_LOADS
         THEN /\ Goto(c, "ask")
              /\ previous' = [previous EXCEPT ![c] =
                      IF cache[registry[c]] = NoVal THEN NoVal ELSE cache[registry[c]].doc]
         ELSE Goto(c, "failed") /\ UNCHANGED previous
    /\ UNCHANGED <<shared, registry, reply, heard, answer, floor, turns>>

\* The store answers with what it holds now, says that nothing changed, or fails.
StoreAnswers(c) ==
    /\ at[c] = "ask"
    /\ Goto(c, "check")
    /\ \/ reply' = [reply EXCEPT ![c] =
              IF previous[c] = store[registry[c]] THEN Unchanged ELSE store[registry[c]]]
       \/ reply' = [reply EXCEPT ![c] = StoreError]
    /\ UNCHANGED <<shared, registry, previous, heard, answer, floor, turns>>

\* Faulty: a lower revision is installed like a higher one.
Acceptable_any(r, doc) == doc # Invalid

\* What the revision and the digest installed last allow.
Acceptable(r, doc) ==
    /\ doc # Invalid
    /\ installed[r] # NoVal => \/ doc.revision > installed[r].revision
                               \/ doc = installed[r]

\* The reply is parsed and compared with what is installed, in one critical section ...
Compare(c) ==
    /\ at[c] = "check" /\ reply[c] # Unchanged
    /\ Goto(c, IF reply[c] \in Documents /\ Acceptable(registry[c], reply[c])
                 THEN "compared" ELSE "failed")
    /\ UNCHANGED <<shared, registry, previous, reply, heard, answer, floor, turns>>

\* ... and installed in another; the cold mark is lifted before the snapshot is cached.
Install(c) ==
    /\ at[c] = "compared"
    /\ installed' = [installed EXCEPT ![registry[c]] = reply[c]]
    /\ cold' = [cold EXCEPT ![registry[c]] = FALSE]
    /\ Goto(c, "insert")
    /\ UNCHANGED <<store, cache, leader, registry, previous, reply, heard, answer, floor, turns>>

\* The snapshot, new or confirmed, is cached and answered; the flight ends without an outcome.
Cached(c, doc) ==
    /\ cache' = [cache EXCEPT ![registry[c]] = [doc |-> doc, due |-> FALSE]]
    /\ Answer(c, doc)
    /\ Land(registry[c], "none")
    /\ previous' = [previous EXCEPT ![c] = NoVal] /\ reply' = [reply EXCEPT ![c] = NoVal]
    /\ UNCHANGED <<store, installed, cold, registry, floor, turns>>

Insert(c) == at[c] = "insert" /\ Cached(c, reply[c])

NotModified(c) == at[c] = "check" /\ reply[c] = Unchanged /\ Cached(c, previous[c])

\* defer_failed_refresh with a snapshot: it is good for a cool-down.
Defer(c) == at[c] = "failed" /\ cache[registry[c]] # NoVal /\ Cached(c, cache[registry[c]].doc)

\* Faulty: the leader returns its error without ending the flight for its followers.
Fail_keeps_flight(c) ==
    /\ at[c] = "failed" /\ cache[registry[c]] = NoVal
    /\ cold' = [cold EXCEPT ![registry[c]] = TRUE]
    /\ Answer(c, Unavailable)
    /\ UNCHANGED <<store, cache, installed, leader, registry, previous, reply, heard, floor, turns>>

\* ... and without: the store is left alone for a cool-down, and the followers hear the error.
Fail(c) ==
    /\ at[c] = "failed" /\ cache[registry[c]] = NoVal
    /\ cold' = [cold EXCEPT ![registry[c]] = TRUE]
    /\ Answer(c, Unavailable)
    /\ Land(registry[c], "error")
    /\ previous' = [previous EXCEPT ![c] = NoVal] /\ reply' = [reply EXCEPT ![c] = NoVal]
    /\ UNCHANGED <<store, cache, installed, registry, floor, turns>>

-----------------------------------------------------------------------------
Publish(r) ==
    /\ Turn
    /\ \E doc \in Documents : store' = [store EXCEPT ![r] = doc]
    /\ UNCHANGED <<cache, installed, cold, leader, calls>>

\* REFRESH_INTERVAL or REFRESH_FAILURE_COOLDOWN passes.
ComesDue(r) ==
    /\ Turn /\ cache[r] # NoVal
    /\ cache' = [cache EXCEPT ![r].due = TRUE]
    /\ UNCHANGED <<store, installed, cold, leader, calls>>

Evict(r) ==
    /\ Turn /\ cache[r] # NoVal
    /\ cache' = [cache EXCEPT ![r] = NoVal]
    /\ UNCHANGED <<store, installed, cold, leader, calls>>

CoolDown(r) ==
    /\ cold[r]
    /\ cold' = [cold EXCEPT ![r] = FALSE]
    /\ UNCHANGED <<store, cache, installed, leader, calls, turns>>

\* The request is dropped at an await: while it follows, or while the store is asked.
Cancel(c) ==
    /\ Turn
    /\ \/ at[c] = "follow" /\ UNCHANGED <<leader, heard>>
       \/ at[c] = "ask" /\ Land(registry[c], "none")
    /\ Goto(c, "idle")
    /\ previous' = [previous EXCEPT ![c] = NoVal]
    /\ UNCHANGED <<store, cache, installed, cold, registry, reply, answer, floor>>

CallerStep(c) ==
    \/ Look(c) \/ LookCold(c) \/ Begin(c) \/ Followed(c)
    \/ AskStore(c) \/ StoreAnswers(c) \/ Compare(c) \/ Install(c) \/ Insert(c)
    \/ NotModified(c) \/ Defer(c) \/ Fail(c)

Next ==
    \/ \E c \in Callers : Call(c) \/ CallerStep(c) \/ Cancel(c)
    \/ \E r \in Registries : Publish(r) \/ ComesDue(r) \/ Evict(r) \/ CoolDown(r)

\* Requests run, and the store's operation timeout answers in its place.
Spec == Init /\ [][Next]_vars /\ \A c \in Callers : WF_vars(CallerStep(c))

(***************************************************************************)
(* Properties.                                                             *)
(***************************************************************************)

\* No request is authenticated against an older revision than one that ended before it
\* began: neither a rolled-back store, nor an eviction, nor two requests in a race bring a
\* withdrawn grant back (lib.rs:367).  The floor is taken over the answers on record; once its
\* caller has called again, an answer binds that call and no later one.
NeverGoesBack ==
    \A c \in Callers : answer[c] \in Valid => answer[c].revision >= floor[c]

\* Two requests that saw the same revision saw the same grants, so a cache partition, which
\* carries the revision only, names one set of grants (lib.rs:379).
RevisionNamesGrants ==
    \A c, d \in Callers :
        /\ answer[c] \in Valid /\ answer[d] \in Valid /\ registry[c] = registry[d]
        /\ answer[c].revision = answer[d].revision
        => answer[c] = answer[d]

\* The registries a request is judged by only advance: an answer is never older than one
\* given before, and a revision stands for one document.
RegistriesAdvance == NeverGoesBack /\ RevisionNamesGrants

\* Every registry has at most one refresh, whose leader holds the flight; a follower that has
\* heard nothing has a leader to hear from; and the loads stay within their permits.
FlightsLed ==
    /\ \A c \in Callers : at[c] \in Leading => leader[registry[c]] = c
    /\ \A r \in Registries : leader[r] # NoVal =>
           at[leader[r]] \in Leading /\ registry[leader[r]] = r
    /\ \A c \in Callers : at[c] = "follow" /\ heard[c] = NoVal => leader[registry[c]] # NoVal
    /\ Cardinality({c \in Callers : at[c] \in Loading \ {"failed"}}) <= MAX_CONCURRENT_REGISTRY_LOADS

\* Every call is answered once the changes around it have ended (lib.rs:413).
CallsEnd == \A c \in Callers : at[c] # "idle" ~> at[c] \in {"idle", "done"}
=============================================================================
