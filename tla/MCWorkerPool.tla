---------------------------- MODULE MCWorkerPool ----------------------------
(* The instance of WorkerPool for TLC: two slots of two places.            *)
EXTENDS WorkerPool

CONSTANTS p1, p2, s1, t1, t2, t3, t4, t5

\* Whether this is the crowd, below.
VARIABLE crowd

Calls == <<t1, t2, t3, t4, t5>>
MCTasks == {Calls[i] : i \in DOMAIN Calls}

MCShapeOf(p) == "static"

\* Two styles: one scanned for, one with an add-layer source and its slot named.
Scanned == [profile |-> p1, partition |-> "anon", source |-> NoVal, hint |-> NoVal]
Named   == [profile |-> p2, partition |-> "anon", source |-> s1, hint |-> 1]
MCRequests == {Scanned, Named}

Sent(t) == pc[t] \in {"sent"} \cup Answers

\* Calls are interchangeable and submitted in the order of their names.
InOrder == \A i \in 1..4 : pc[Calls[i]] = "idle" => pc[Calls[i + 1]] = "idle"

\* Two calls in every interleaving, cancelled and shut down at any point.
Pair == \A i \in 3..5 : pc[Calls[i]] = "idle"

\* Five calls, one more than there are places, none of them cancelled, without a shutdown:
\* the first three are sent one by one, the last two race for the place that is left.
Crowd ==
    /\ \A i \in 1..3 : pc[Calls[i + 1]] # "idle" => Sent(Calls[i])
    /\ \A i \in 1..4 : req[Calls[i]] \in {NoVal, Scanned}
    /\ \A t \in Tasks : pc[t] # "cancelled"
    /\ shutdown.at = "off"

MCInit == Init /\ crowd \in BOOLEAN

Kept == crowd' = crowd /\ InOrder' /\ IF crowd THEN Crowd' ELSE Pair'

MCNext ==
    \/ \E t \in Tasks :
        \/ Submit(t) /\ Kept
        \/ Scan(t) /\ Kept
        \/ TryReserve(t) /\ Kept
        \/ Mark(t) /\ Kept
        \/ Send(t) /\ Kept
        \/ SendFails(t) /\ Kept
        \/ CancelBeforeSend(t) /\ Kept
        \/ CancelAfterSend(t) /\ Kept
    \/ \E w \in Workers :
        \/ Recv(w) /\ Kept
        \/ RunStages(w) /\ Kept
        \/ Release(w) /\ Kept
        \/ ExitLoop(w) /\ Kept
        \/ DropQueued(w) /\ Kept
    \/ StartShutdown /\ Kept
    \/ ShutdownExpires /\ Kept
    \/ SendRetire /\ Kept
    \/ GiveUpRetiring /\ Kept
    \/ Join /\ Kept
    \/ Detach /\ Kept

MCSpec == MCInit /\ [][MCNext]_<<vars, crowd>> /\ Fairness
=============================================================================
