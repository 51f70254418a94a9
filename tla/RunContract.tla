---------------------------- MODULE RunContract ----------------------------
(***************************************************************************)
(* What one run of run_stages (crates/biei-core/src/worker.rs) may do to   *)
(* the worker's record of the style it has loaded. Module Worker shows     *)
(* that the stages keep to it, module WorkerPool builds on it.             *)
(***************************************************************************)
EXTENDS RustOption

\* The style a worker has to have loaded for a request: profile and credentials.
StyleKey(r) == <<r.profile, r.partition>>

\* A completed task has set up its own style. A rejected one (deadline), or one whose
\* error leaves the renderer's state alone, may have stopped before or after set-up; an
\* error that invalidates the loaded state leaves nothing behind.
RunResults(current, r) ==
    {[result |-> "completed", current |-> StyleKey(r)],
     [result |-> "failed", current |-> NoVal]}
        \cup {[result |-> x, current |-> c] : x \in {"rejected", "failed"},
                                              c \in {current, StyleKey(r)}}
=============================================================================
