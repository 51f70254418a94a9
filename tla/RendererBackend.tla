--------------------------- MODULE RendererBackend ---------------------------
(***************************************************************************)
(* What one command does to a renderer actor: the loop of run_actor        *)
(* (servers/biei/src/renderer/actor/protocol.rs) around the MapLibre       *)
(* backend (actor/backend.rs), as functions from the actor's state to the  *)
(* results it may reply with.                                              *)
(*                                                                         *)
(* The state of an actor is [loaded, style, active]: the revision run_actor*)
(* has loaded, the style document the backend was given, and the native    *)
(* renderer, [key, rev, doc, broken]: its mode and scale, the revision it  *)
(* is marked with, the document it holds, and whether its overlay slots    *)
(* need a rebuild. A document is <<revision, credential partition>>: the   *)
(* style JSON of one revision differs between partitions. A profile is     *)
(* <<revision, key>>.                                                      *)
(***************************************************************************)
EXTENDS RustOption

CONSTANT StaticKeys     \* the render keys of mode Static, which carry overlay slots

RendererError == {"StyleLoadFailed", "SetupFailed", "StyleNotReady", "SourceFetchFailed",
                  "RenderFailed", "Timeout", "ActorDead"}

Revision(r) == r.profile[1]
RenderKey(r) == r.profile[2]
Document(r) == <<Revision(r), r.partition>>

\* A newly spawned actor.
Fresh == [loaded |-> NoVal, style |-> NoVal, active |-> NoVal]

\* loaded = None and backend.reset(): the native renderer stays, unmarked; what it holds
\* is loaded again before it is used.
Reset(n) ==
    [loaded |-> NoVal, style |-> NoVal,
     active |-> IF n.active = NoVal THEN NoVal
                ELSE [n.active EXCEPT !.rev = NoVal, !.doc = NoVal]]

\* A renderer of another mode or scale, or with corrupt overlay slots, is built anew.
NeedsRebuild(n, key) ==
    n.active = NoVal \/ n.active.key # key \/ n.active.broken

\* Faulty: a renderer that is kept keeps its document, whatever its revision.
NeedsLoad_key_only(n, key) == NeedsRebuild(n, key)

\* A renderer that is kept loads the document only when the revision differs.
NeedsLoad(n, key) == NeedsRebuild(n, key) \/ n.active.rev # n.style[1]

\* ensure_static_renderer and ensure_tile_renderer.
Ensured(n, key) ==
    IF NeedsLoad(n, key)
    THEN [n EXCEPT !.active = [key |-> key, rev |-> n.style[1], doc |-> n.style, broken |-> FALSE]]
    ELSE n

\* Loading a document can fail, and so can the overlay slots of a static renderer.
LoadErrors(n, key) ==
    IF ~NeedsLoad(n, key) THEN {}
    ELSE {"StyleLoadFailed"} \cup (IF key \in StaticKeys THEN {"SetupFailed"} ELSE {})

\* RenderCmd::LoadProfile. Building a renderer, or a panic, gives RenderFailed; every error
\* resets the actor.
LoadProfile(n, r) ==
    LET given == [n EXCEPT !.style = Document(r)] IN
    {[err |-> NoVal, native |-> [Ensured(given, RenderKey(r)) EXCEPT !.loaded = Revision(r)]]}
        \cup {[err |-> e, native |-> Reset(n)] :
                e \in LoadErrors(given, RenderKey(r)) \cup {"RenderFailed"}}

\* An overlay move that fails and cannot be undone leaves the slots of a static renderer
\* corrupt.
MaybeBroken(n, key) ==
    {n} \cup (IF key \in StaticKeys /\ n.active # NoVal
              THEN {[n EXCEPT !.active.broken = TRUE]} ELSE {})

\* RenderCmd::Render: refused unless the revision is loaded. A RenderFailed, which may come
\* before or after the renderer is ensured, keeps the loaded state unless it was a panic;
\* every other error resets it.
Render(n, r) ==
    IF n.loaded # Revision(r)
    THEN {[err |-> "StyleNotReady", native |-> Reset(n)]}
    ELSE LET e == Ensured(n, RenderKey(r))
             failed == {n} \cup MaybeBroken(e, RenderKey(r)) IN
         {[err |-> NoVal, native |-> e]}
            \cup {[err |-> "RenderFailed", native |-> m] : m \in failed \cup {Reset(f) : f \in failed}}
            \cup {[err |-> x, native |-> Reset(n)] : x \in LoadErrors(n, RenderKey(r))}
=============================================================================
