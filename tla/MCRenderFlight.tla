--------------------------- MODULE MCRenderFlight ---------------------------
(* Instances of RenderFlight for TLC. *)
EXTENDS RenderFlight

\* No authorization, one namespace, and every namespace.
SomeGrants == {NoVal, {"a"}, {Wildcard}}
=============================================================================
