------------------------------ MODULE MCWorker ------------------------------
(* The instance of Worker for TLC: one worker through every order of       *)
(* requests, or two that compete for the permits.                          *)
EXTENDS Worker

CONSTANTS w1, w2

\* Whether only w1 gets requests.
VARIABLE solo

Req(p, c, s, k, ok) == [profile |-> p, partition |-> c, source |-> s, cacheable |-> k,
                        prepared |-> ok]

P1 == <<"s1", "static">>
P2 == <<"s2", "static">>
P3 == <<"s1", "tile">>

\* Two workers; sources are left out.
PermitRequests == {Req(P1, "anon", NoVal, FALSE, TRUE), Req(P2, "anon", NoVal, FALSE, TRUE)}

\* One worker: styles, modes, credentials, preparations and sources.
StyleRequests ==
    {Req(P1, c, s, s = "a", TRUE) : c \in {"anon", "alice"}, s \in {"a", "b", NoVal}}
        \cup {Req(P2, "anon", s, TRUE, TRUE) : s \in {"b", "c"}}
        \cup {Req(P3, "anon", "a", TRUE, TRUE), Req(P1, "anon", "a", TRUE, FALSE)}

MCWorkers  == {w1, w2}
MCRequests == PermitRequests \cup StyleRequests

Taken(w) == IF solo THEN w = w1 /\ req'[w] \in StyleRequests ELSE req'[w] \in PermitRequests

MCInit == Init /\ solo \in BOOLEAN

MCNext == \E w \in Workers :
    \/ Recv(w) /\ Taken(w) /\ UNCHANGED solo
    \/ Repair(w) /\ UNCHANGED solo
    \/ Expire(w) /\ UNCHANGED solo
    \/ Local(w) /\ UNCHANGED solo
    \/ Reply(w) /\ UNCHANGED solo

MCSpec == MCInit /\ [][MCNext]_<<vars, solo>> /\ Fairness
=============================================================================
