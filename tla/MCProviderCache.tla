--------------------------- MODULE MCProviderCache ---------------------------
EXTENDS ProviderCache

Policy(store, fresh, swr, explicit) == [store |-> store, fresh |-> fresh, swr |-> swr, explicit |-> explicit]

\* stale-while-revalidate that the origin declares, the defaults, and no-store.
MCPolicies == {Policy(TRUE, 0, 2, TRUE), Policy(TRUE, 1, 1, FALSE), Policy(FALSE, 0, 0, FALSE)}
\* The default for a 404.
MCNegPolicies == {Policy(TRUE, 1, 0, FALSE)}
=============================================================================
