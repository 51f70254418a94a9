---------------------------- MODULE MCAuthRefresh ----------------------------
EXTENDS AuthRefresh, TLC

\* Two revisions, the first of them with two bodies.
MCDocuments == { [revision |-> 1, body |-> "a"], [revision |-> 1, body |-> "b"], [revision |-> 2, body |-> "a"]}
=============================================================================
