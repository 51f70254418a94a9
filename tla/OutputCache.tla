----------------------------- MODULE OutputCache -----------------------------
(* Requests, entries and authorization of the render output cache               *)
(* (crates/biei-core/src/render_cache.rs).                                      *)
EXTENDS RustOption

CONSTANTS
    Callers,        \* the calls of handle_incoming and handle_forwarded
    Keys,           \* RenderCacheKey, on one node or on several
    Grants,         \* sets of namespaces, and NoVal for a call without authorization
    Cacheable,      \* the answers of is_enabled_for that occur
    Wildcard        \* the namespace "*"

ASSUME CallersAssumption == NoVal \notin Callers /\ Cacheable \subseteq BOOLEAN

Requests == [key : Keys, grant : Grants, forwarded : BOOLEAN, cacheable : Cacheable]

\* NamespaceSet::allows
allows(readable, needed) == Wildcard \in readable \/ needed \subseteq readable

\* Faulty: an output without a requirement is everyone's.
is_authorized_for_anyone(required, readable) ==
    required = NoVal \/ (readable # NoVal /\ allows(readable, required))

\* CachedRenderOutput::is_authorized_for
is_authorized_for(required, readable) ==
    \/ required = NoVal /\ readable = NoVal
    \/ required # NoVal /\ readable # NoVal /\ allows(readable, required)
=============================================================================
