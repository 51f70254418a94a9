------------------------------- MODULE Worker -------------------------------
(***************************************************************************)
(* The stages a worker runs for one command: run_stages and the part of    *)
(* worker_loop around it (crates/biei-core/src/worker.rs), for all workers *)
(* of a node, which share the two permit semaphores. Behind each worker is *)
(* a MapLibreRenderer (servers/biei/src/renderer/maplibre.rs); its actor   *)
(* answers as module RendererBackend says, or not at all.                  *)
(*                                                                         *)
(* Every action ends at an await or at a deadline check: time passes       *)
(* between actions, and Expire may come between any two of them.           *)
(***************************************************************************)
EXTENDS RendererBackend, RunContract, Naturals, FiniteSets, SequencesExt

CONSTANTS
    Workers,                \* the worker_loop tasks of the node
    Requests,               \* [profile, partition, source, cacheable, prepared]
    RenderPermits,          \* permits of the render semaphore
    NativePermits,          \* permits of the native render semaphore
    source_cache_capacity   \* SourceCache.capacity

\* A native renderer, and the actor behind a worker, as module RendererBackend has them.
Documents == {Document(r) : r \in Requests}
Revisions == {Revision(r) : r \in Requests}
Renderers == [key : {RenderKey(r) : r \in Requests}, rev : Revisions \cup {NoVal},
              doc : Documents \cup {NoVal}, broken : BOOLEAN]
Actors == [loaded : Revisions \cup {NoVal}, style : Documents \cup {NoVal},
           active : Renderers \cup {NoVal}]

ASSUME WorkerAssumption ==
    /\ IsFiniteSet(Workers)
    /\ RenderPermits \in Nat \ {0} /\ NativePermits \in Nat \ {0}
    /\ NativePermits <= RenderPermits
    /\ source_cache_capacity \in Nat \ {0}
    /\ NoVal \notin RendererError /\ NoVal # "completed"
    /\ NoVal \notin Actors
    /\ \A r \in Requests : /\ r.profile = <<Revision(r), RenderKey(r)>>
                          /\ Revision(r) # NoVal /\ StyleKey(r) # NoVal

VARIABLES
    at,                     \* worker -> the await or check it has reached
    req,                    \* worker -> the request it runs
    expired,                \* worker -> that request's deadline has passed
    current_profile,        \* worker -> <<profile, partition>> or NoVal
    cache,                  \* worker -> SourceCache.entries
    native,                 \* worker -> its actor, NoVal while it has no usable one
    result,                 \* worker -> the outcome kind of the run that just ended
    error,                  \* worker -> its RendererError or NoVal
    render_permits,         \* available permits of the two semaphores
    native_render_permits,
    before,                 \* auxiliary: current_profile when the run began
    ensured,                \* auxiliary: the sources loaded into the actor's style
    warmed,                 \* auxiliary: the style keys set up since the actor had to load
    lost,                   \* auxiliary: the error that emptied the actor and left the record
    drawn                   \* auxiliary: the native renderer that drew a completed request

permitVars == <<render_permits, native_render_permits>>
vars == <<at, req, expired, current_profile, cache, native, result, error, permitVars,
          before, ensured, warmed, lost, drawn>>

-----------------------------------------------------------------------------
(* The permits a worker holds, by where it is.                             *)

HoldsNative(w) == at[w] \in {"draw", "rendering"}
HoldsRender(w) == at[w] \in {"setup", "loading", "source", "ensuring", "check_native", "native"}
                  \/ HoldsNative(w)
Awaiting == {"permit", "native"}
Checked  == {"admit", "setup", "source", "check_native", "draw"}
Stages   == {"idle", "loading", "ensuring", "rendering", "finish"} \cup Awaiting \cup Checked

-----------------------------------------------------------------------------
Init ==
    /\ at = [w \in Workers |-> "idle"]
    /\ req = [w \in Workers |-> NoVal]
    /\ expired = [w \in Workers |-> FALSE]
    /\ current_profile = [w \in Workers |-> NoVal]
    /\ cache = [w \in Workers |-> <<>>]
    /\ native = [w \in Workers |-> Fresh]
    /\ result = [w \in Workers |-> NoVal]
    /\ error = [w \in Workers |-> NoVal]
    /\ render_permits = RenderPermits
    /\ native_render_permits = NativePermits
    /\ before = [w \in Workers |-> NoVal]
    /\ ensured = [w \in Workers |-> {}]
    /\ warmed = [w \in Workers |-> {}]
    /\ lost = [w \in Workers |-> NoVal]
    /\ drawn = [w \in Workers |-> NoVal]

GoTo(w, stage) == at' = [at EXCEPT ![w] = stage]

\* Faulty: the native permit outlives a failing run.
DropPermits_render_only(w) ==
    /\ render_permits' = IF HoldsRender(w) THEN render_permits + 1 ELSE render_permits
    /\ UNCHANGED native_render_permits

\* The run ends: its permits are dropped, whatever it held.
DropPermits(w) ==
    /\ render_permits' = IF HoldsRender(w) THEN render_permits + 1 ELSE render_permits
    /\ native_render_permits' = IF HoldsNative(w) THEN native_render_permits + 1
                                ELSE native_render_permits

\* StageFailure::DeadlineExceeded
Reject(w) ==
    /\ GoTo(w, "finish")
    /\ result' = [result EXCEPT ![w] = "rejected"]
    /\ DropPermits(w)
    /\ UNCHANGED <<req, expired, current_profile, cache, native, error, before, ensured, warmed, lost, drawn>>

\* The errors after which the worker counts as cold.
renderer_error_invalidates_warm_state(err) ==
    err \in {"StyleLoadFailed", "SetupFailed", "StyleNotReady", "Timeout", "ActorDead"}

HasLoaded(n) == n # NoVal /\ n.loaded # NoVal

\* retire_after_current: the actor is replaced at once, or the slot is left without one.
Retired(n, err) == IF err = "Timeout" THEN {Fresh, NoVal} ELSE {n}

\* StageFailure::RendererError and its handling in worker_loop; n is the actor afterwards.
Fail(w, err, n) ==
    /\ GoTo(w, "finish")
    /\ result' = [result EXCEPT ![w] = "failed"]
    /\ error' = [error EXCEPT ![w] = err]
    /\ \E m \in Retired(n, err) :
        /\ native' = [native EXCEPT ![w] = m]
        /\ ensured' = [ensured EXCEPT ![w] = IF HasLoaded(m) THEN @ ELSE {}]
        /\ warmed' = [warmed EXCEPT ![w] = IF HasLoaded(m) THEN @ ELSE {}]
        /\ lost' = [lost EXCEPT ![w] = IF renderer_error_invalidates_warm_state(err) THEN NoVal
                                      ELSE IF HasLoaded(native[w]) /\ ~HasLoaded(m) THEN err ELSE @]
    /\ IF renderer_error_invalidates_warm_state(err)
       THEN /\ current_profile' = [current_profile EXCEPT ![w] = NoVal]
            /\ cache' = [cache EXCEPT ![w] = <<>>]
       ELSE UNCHANGED <<current_profile, cache>>
    /\ DropPermits(w)
    /\ UNCHANGED <<req, expired, before, drawn>>

-----------------------------------------------------------------------------
(* worker_loop: commands and the repair tick                               *)

\* A command is received; its deadline may already have passed.
Recv(w) ==
    /\ at[w] = "idle"
    /\ \E r \in Requests, late \in BOOLEAN :
        /\ req' = [req EXCEPT ![w] = r]
        /\ expired' = [expired EXCEPT ![w] = late]
    /\ before' = [before EXCEPT ![w] = current_profile[w]]
    /\ GoTo(w, "admit")
    /\ UNCHANGED <<current_profile, cache, native, result, error, permitVars, ensured, warmed, lost,
                   drawn>>

\* The outcome is delivered.
Finish(w) ==
    /\ at[w] = "finish"
    /\ GoTo(w, "idle")
    /\ result' = [result EXCEPT ![w] = NoVal]
    /\ error' = [error EXCEPT ![w] = NoVal]
    /\ drawn' = [drawn EXCEPT ![w] = NoVal]
    /\ before' = [before EXCEPT ![w] = NoVal]
    /\ req' = [req EXCEPT ![w] = NoVal]
    /\ expired' = [expired EXCEPT ![w] = FALSE]
    /\ UNCHANGED <<current_profile, cache, native, permitVars, ensured, warmed, lost>>

\* repair_if_needed finds the actor replaceable.
Repair(w) ==
    /\ at[w] = "idle" /\ native[w] = NoVal
    /\ native' = [native EXCEPT ![w] = Fresh]
    /\ UNCHANGED <<at, req, expired, current_profile, cache, result, error, permitVars, before,
                   ensured, warmed, lost, drawn>>

\* The deadline of the running request passes.
Expire(w) ==
    /\ at[w] \notin {"idle", "finish"} /\ ~expired[w]
    /\ expired' = [expired EXCEPT ![w] = TRUE]
    /\ UNCHANGED <<at, req, current_profile, cache, native, result, error, permitVars, before,
                   ensured, warmed, lost, drawn>>

-----------------------------------------------------------------------------
(* run_stages                                                              *)

\* Faulty: a change of credentials alone does not set the style up again.
style_swap_ignores_partition(w) ==
    current_profile[w] = NoVal \/ current_profile[w][1] # req[w].profile

style_swap(w) == current_profile[w] # StyleKey(req[w])

\* check_deadline_at, before each stage.
DeadlineCheck(w) ==
    /\ at[w] \in Checked /\ expired[w]
    /\ Reject(w)

\* The deadline arm of acquire_permit's select.
PermitTimeout(w) ==
    /\ at[w] \in Awaiting /\ expired[w]
    /\ Reject(w)

\* acquire_permit starts to wait for the render permit ...
AwaitRenderPermit(w) ==
    /\ at[w] = "admit" /\ ~expired[w]
    /\ GoTo(w, "permit")
    /\ UNCHANGED <<req, expired, current_profile, cache, native, result, error, permitVars,
                   before, ensured, warmed, lost, drawn>>

\* ... and gets it. The deadline may pass at the same moment.
AcquireRenderPermit(w) ==
    /\ at[w] = "permit" /\ render_permits > 0
    /\ render_permits' = render_permits - 1
    /\ GoTo(w, IF style_swap(w) THEN "setup" ELSE "source")
    /\ UNCHANGED <<req, expired, current_profile, cache, native, result, error,
                   native_render_permits, before, ensured, warmed, lost, drawn>>

\* MapLibreRenderer::actor: a slot without an actor tries to replace it first.
Actor(n) == IF n = NoVal THEN {NoVal, Fresh} ELSE {n}

\* A call of the renderer needs an actor: none, and the call fails with ActorDead, or with
\* RenderFailed when no thread could be spawned.
Call(w, stage) ==
    \E n \in Actor(native[w]) :
        \/ /\ n = NoVal
           /\ \E err \in {"ActorDead", "RenderFailed"} : Fail(w, err, NoVal)
        \/ /\ n # NoVal
           /\ native' = [native EXCEPT ![w] = n]
           /\ GoTo(w, stage)
           /\ UNCHANGED <<req, expired, current_profile, cache, result, error, permitVars,
                          before, ensured, warmed, lost, drawn>>

\* setup_profile: a missing or stale preparation fails before the actor is asked.
SetupProfile(w) ==
    /\ at[w] = "setup" /\ ~expired[w]
    /\ IF req[w].prepared THEN Call(w, "loading") ELSE Fail(w, "StyleLoadFailed", native[w])

\* The actor replies to LoadProfile.
ProfileLoaded(w) ==
    /\ at[w] = "loading"
    /\ \E reply \in LoadProfile(native[w], req[w]) :
        \/ /\ reply.err # NoVal
           /\ Fail(w, reply.err, reply.native)
        \/ /\ reply.err = NoVal
           /\ native' = [native EXCEPT ![w] = reply.native]
           /\ current_profile' = [current_profile EXCEPT ![w] = StyleKey(req[w])]
           /\ cache' = [cache EXCEPT ![w] = <<>>]
           /\ ensured' = [ensured EXCEPT ![w] = {}]
           /\ warmed' = [warmed EXCEPT ![w] = {k \in @ : k[1] = req[w].profile} \cup {StyleKey(req[w])}]
           /\ lost' = [lost EXCEPT ![w] = NoVal]
           /\ GoTo(w, "source")
           /\ UNCHANGED <<req, expired, result, error, permitVars, before, drawn>>

\* Faulty: only a render is cut off at the deadline.
ReplyTimeout_render_only(w) ==
    /\ at[w] = "rendering" /\ expired[w]
    /\ Fail(w, "Timeout", native[w])

\* await_actor_reply gives up at the deadline.
ReplyTimeout(w) ==
    /\ at[w] \in {"loading", "rendering"} /\ expired[w]
    /\ Fail(w, "Timeout", native[w])

\* SourceCache::touch
Touched(entries, h) ==
    LET moved == Append(RemoveFirst(entries, h), h)
    IN  IF Len(moved) > source_cache_capacity THEN Tail(moved) ELSE moved

TouchSource(w) ==
    cache' = [cache EXCEPT ![w] = IF req[w].cacheable THEN Touched(@, req[w].source) ELSE @]

\* A source that is cached, or a request without one, needs no call.
SourceReady(w) ==
    /\ at[w] = "source" /\ ~expired[w]
    /\ IF req[w].source = NoVal THEN UNCHANGED cache
       ELSE req[w].source \in ToSet(cache[w]) /\ TouchSource(w)
    /\ GoTo(w, "check_native")
    /\ UNCHANGED <<req, expired, current_profile, native, result, error, permitVars, before,
                   ensured, warmed, lost, drawn>>

EnsureSource(w) ==
    /\ at[w] = "source" /\ ~expired[w]
    /\ req[w].source # NoVal /\ req[w].source \notin ToSet(cache[w])
    /\ GoTo(w, "ensuring")
    /\ UNCHANGED <<req, expired, current_profile, cache, native, result, error, permitVars,
                   before, ensured, warmed, lost, drawn>>

SourceEnsured(w) ==
    /\ at[w] = "ensuring"
    /\ \/ Fail(w, "SourceFetchFailed", native[w])
       \/ /\ ensured' = [ensured EXCEPT ![w] = @ \cup {req[w].source}]
          /\ TouchSource(w)
          /\ GoTo(w, "check_native")
          /\ UNCHANGED <<req, expired, current_profile, native, result, error, permitVars,
                         before, warmed, lost, drawn>>

AwaitNativePermit(w) ==
    /\ at[w] = "check_native" /\ ~expired[w]
    /\ GoTo(w, "native")
    /\ UNCHANGED <<req, expired, current_profile, cache, native, result, error, permitVars,
                   before, ensured, warmed, lost, drawn>>

AcquireNativePermit(w) ==
    /\ at[w] = "native" /\ native_render_permits > 0
    /\ native_render_permits' = native_render_permits - 1
    /\ GoTo(w, "draw")
    /\ UNCHANGED <<req, expired, current_profile, cache, native, result, error,
                   render_permits, before, ensured, warmed, lost, drawn>>

StartRender(w) ==
    /\ at[w] = "draw" /\ ~expired[w]
    /\ Call(w, "rendering")

\* The actor replies to Render. An image that comes after the deadline is a Timeout.
Rendered(w) ==
    /\ at[w] = "rendering"
    /\ \E reply \in Render(native[w], req[w]) :
        \/ /\ reply.err # NoVal
           /\ Fail(w, reply.err, reply.native)
        \/ /\ reply.err = NoVal /\ expired[w]
           /\ Fail(w, "Timeout", reply.native)
        \/ /\ reply.err = NoVal /\ ~expired[w]
           /\ native' = [native EXCEPT ![w] = reply.native]
           /\ GoTo(w, "finish")
           /\ result' = [result EXCEPT ![w] = "completed"]
           /\ drawn' = [drawn EXCEPT ![w] = reply.native.active]
           /\ DropPermits(w)
           /\ UNCHANGED <<req, expired, current_profile, cache, error, before, ensured,
                          warmed, lost>>

-----------------------------------------------------------------------------
\* The steps that need no answer from the renderer.
Local(w) ==
    \/ DeadlineCheck(w) \/ PermitTimeout(w) \/ ReplyTimeout(w) \/ Finish(w)
    \/ AwaitRenderPermit(w) \/ AcquireRenderPermit(w) \/ SetupProfile(w)
    \/ SourceReady(w) \/ EnsureSource(w) \/ SourceEnsured(w)
    \/ AwaitNativePermit(w) \/ AcquireNativePermit(w) \/ StartRender(w)
Reply(w) == ProfileLoaded(w) \/ Rendered(w)

Next == \E w \in Workers : Recv(w) \/ Repair(w) \/ Expire(w) \/ Local(w) \/ Reply(w)

Spec == Init /\ [][Next]_vars

\* A worker runs until it awaits, a woken wait is served, and time passes. Nothing is
\* assumed of the actor: it may never reply.
Fairness == \A w \in Workers : WF_vars(Local(w)) /\ WF_vars(Expire(w))

FairSpec == Spec /\ Fairness

-----------------------------------------------------------------------------
(* Properties                                                              *)

\* Every variable has its type; a source cache holds no source twice and keeps to its
\* capacity.
TypeOK ==
    /\ at \in [Workers -> Stages]
    /\ req \in [Workers -> Requests \cup {NoVal}]
    /\ expired \in [Workers -> BOOLEAN]
    /\ current_profile \in [Workers -> {StyleKey(r) : r \in Requests} \cup {NoVal}]
    /\ native \in [Workers -> Actors \cup {NoVal}]
    /\ \A w \in Workers : Len(cache[w]) <= source_cache_capacity /\ IsInjective(cache[w])
    /\ result \in [Workers -> {"completed", "rejected", "failed", NoVal}]
    /\ error \in [Workers -> RendererError \cup {NoVal}]
    /\ drawn \in [Workers -> Renderers \cup {NoVal}]
    /\ render_permits \in 0..RenderPermits
    /\ native_render_permits \in 0..NativePermits

\* No permit is lost or handed out twice: whichever stage a run ends in, and however, its
\* permits are available again.
PermitsConserved ==
    /\ render_permits + Cardinality({w \in Workers : HoldsRender(w)}) = RenderPermits
    /\ native_render_permits + Cardinality({w \in Workers : HoldsNative(w)}) = NativePermits

\* Every run ends as RunContract says: the abstraction on which module WorkerPool rests.
KeepsRunContract ==
    \A w \in Workers : at[w] = "finish" =>
        [result |-> result[w], current |-> current_profile[w]] \in RunResults(before[w], req[w])

\* What the worker's record of a loaded style is worth. An actor that has a style loaded
\* has that one: revision, mode, scale, and the document of the record's credentials as the
\* style the backend was last given. An actor that has none while its worker counts as warm
\* lost it with a RenderFailed, which empties the actor after a panic or when a renderer
\* cannot be built, and leaves the worker's record alone. A worker without a record may
\* have an actor that is still loaded; it sets up again.
RecordsAgree ==
    \A w \in Workers : current_profile[w] # NoVal =>
        IF HasLoaded(native[w])
        THEN /\ native[w].loaded = current_profile[w][1][1]
             /\ native[w].active.key = current_profile[w][1][2]
             /\ native[w].active.rev = native[w].loaded
             /\ native[w].style = <<native[w].loaded, current_profile[w][2]>>
        ELSE lost[w] = "RenderFailed"

\* A completed request was drawn in its own revision, mode and scale, in time, after its own
\* credentials had been set up, and in the document of one of the credentials for which the
\* same profile was set up without another one, or a loss of the loaded state, in between. It
\* may be another one than its own: a renderer is kept while the revision is the same.
DrawsOwnProfile ==
    \A w \in Workers : result[w] = "completed" =>
        /\ StyleKey(req[w]) \in warmed[w]
        /\ \E k \in warmed[w] : k[1] = req[w].profile /\ drawn[w].doc = <<Revision(req[w]), k[2]>>
        /\ drawn[w].key = RenderKey(req[w])
        /\ ~expired[w]

\* A source that the worker skips loading is loaded in the actor's style.
CachedSourcesLoaded ==
    \A w \in Workers : HasLoaded(native[w]) => ToSet(cache[w]) \subseteq ensured[w]

\* All that being warm is worth, whatever failed before: what a worker's record says of its
\* actor, that the sources it skips are loaded, and what a completed request was drawn in.
WarmStateSound == RecordsAgree /\ CachedSourcesLoaded /\ DrawsOwnProfile

\* "Identical style revisions prepared for different credentials cannot remain warm across
\* one another": a completed request was drawn in the document of its own credentials.
CredentialsKeptApart ==
    \A w \in Workers : result[w] = "completed" => drawn[w].doc = Document(req[w])

\* "Worker and actor state cannot disagree" about what an error invalidates: after a failed
\* run, a worker that counts as warm has an actor that has something loaded.
FailuresKeepRecordsEqual ==
    \A w \in Workers : result[w] = "failed" /\ current_profile[w] # NoVal => HasLoaded(native[w])

\* A run comes to its end, even if the actor never replies.
RunEnds == \A w \in Workers : (at[w] # "idle") ~> (at[w] = "idle")

=============================================================================
