----------------------------- MODULE Forwarding -----------------------------
(***************************************************************************)
(* A cluster that renders: handle_incoming, handle_forwarded,              *)
(* process_local_route, process_local_task and forward_with_failover of    *)
(* crates/biei-core/src/node.rs, over the HTTP transport and the forward   *)
(* endpoint of servers/biei/src/http/internal.rs.                          *)
(*                                                                         *)
(* A request i enters at some node as the call <<i, 0>>. Its n-th forward  *)
(* attempt, delivered, is the call <<i, n>> at the peer: a task of its own,*)
(* which goes on when the origin has stopped waiting. Every call uses the  *)
(* output cache of its node as FlightContract promises; a key is           *)
(* <<node, render key>>.                                                   *)
(*                                                                         *)
(* Routing is any decision materialize_candidates can take; renderer       *)
(* health, queues and deadlines change between any two steps.              *)
(***************************************************************************)
EXTENDS FlightContract, Naturals, SequencesExt

CONSTANTS
    Ingress,                    \* the requests of clients
    Nodes,
    RenderKeys,
    DEFAULT_FORWARD_CANDIDATES

Retryable == {"QueueFull", "NoCapacity", "RendererDegraded"}
Reasons == Retryable \cup {"UnknownStyle", "DeadlineExceeded", "DeadlineTooClose", "ForwardFailed"}

ASSUME ForwardingAssumption ==
    /\ DEFAULT_FORWARD_CANDIDATES \in Nat
    /\ Callers = Ingress \X (0..DEFAULT_FORWARD_CANDIDATES)
    /\ Keys = Nodes \X RenderKeys
    /\ NoVal \notin Reasons

VARIABLES
    stage,      \* caller -> how far its own work is, within phase "run"
    plan,       \* caller -> the candidates it has not tried yet
    excuse,     \* caller -> exhaustion_reason so far
    overflow,   \* caller -> its candidates are exhausted
    net,        \* caller -> the state of the exchange that carries a forwarded call
    sent_to,    \* caller -> the peer that exchange is with
    left,       \* caller -> time to its deadline: ample, short of the forward budget, none
    reason,     \* caller -> RejectionReason of a rejected call
    renders,    \* auxiliary: request -> native renders started for it
    losses      \* auxiliary: request -> forwarded calls whose answer never came

workVars == <<stage, plan, excuse, overflow>>
netVars == <<net, sent_to>>
vars == <<flightVars, workVars, netVars, left, reason, renders, losses>>

Node(c) == Key(c)[1]
Entry(c) == c[2] = 0
Attempts(i) == {n \in 1..DEFAULT_FORWARD_CANDIDATES : net[<<i, n>>] # "none"}
Current(c) == <<c[1], Cardinality(Attempts(c[1]))>>

Stages == {"start", "local", "prepare", "admit", "queued", "native", "send", "sending",
           "exhausted"}

ForwardingInit ==
    /\ Init
    /\ stage = [c \in Callers |-> "start"]
    /\ plan = [c \in Callers |-> <<>>]
    /\ excuse = [c \in Callers |-> NoVal]
    /\ overflow = [c \in Callers |-> FALSE]
    /\ net = [c \in Callers |-> "none"]
    /\ sent_to = [c \in Callers |-> NoVal]
    /\ left = [c \in Callers |-> "ample"]
    /\ reason = [c \in Callers |-> NoVal]
    /\ renders = [i \in Ingress |-> 0]
    /\ losses = [i \in Ingress |-> 0]

Step(c, s) == stage' = [stage EXCEPT ![c] = s]

\* The call's own work ends.
Reject(c, r) ==
    /\ RunEnds(c, "rejected")
    /\ reason' = [reason EXCEPT ![c] = r]
    /\ UNCHANGED <<workVars, netVars, left, renders, losses>>
End(c, a) ==
    /\ RunEnds(c, a)
    /\ UNCHANGED <<workVars, netVars, left, reason, renders, losses>>

-----------------------------------------------------------------------------
(* Entry, and the output cache                                             *)

\* handle_incoming: a request whose deadline has passed is turned away.
Submit(c) ==
    /\ Entry(c) /\ phase[c] = "idle"
    /\ \E r \in Requests :
        /\ ~r.forwarded
        /\ \/ Arrive(c, r) /\ UNCHANGED <<left, reason>>
           \/ /\ left' = [left EXCEPT ![c] = "none"]
              /\ request' = [request EXCEPT ![c] = r]
              /\ answer' = [answer EXCEPT ![c] = "rejected"]
              /\ reason' = [reason EXCEPT ![c] = "DeadlineExceeded"]
              /\ GoTo(c, "done")
              /\ UNCHANGED <<cache, flight, waits_on, woken>>
    /\ UNCHANGED <<workVars, netVars, renders, losses>>

\* The steps of the output cache; a follower leaves it at its own deadline.
UseCache(c) ==
    /\ \/ Serve(c) /\ UNCHANGED reason
       \/ Join(c) /\ UNCHANGED reason
       \/ Elected(c) /\ UNCHANGED reason
       \/ Wake(c) /\ UNCHANGED reason
       \/ Insert(c) /\ UNCHANGED reason
       \/ Release(c) /\ UNCHANGED reason
       \/ /\ left[c] = "none" /\ StopWaiting(c, "rejected")
          /\ reason' = [reason EXCEPT ![c] = "DeadlineExceeded"]
    /\ UNCHANGED <<workVars, netVars, left, renders, losses>>

-----------------------------------------------------------------------------
(* Routing                                                                 *)

\* The candidates after this node: at most as many as the dispatcher keeps. A drain-and-swap
\* route may name two workers of one node.
Peers(c, max) == BoundedSeq(Nodes \ {Node(c)}, max)

\* The view is loaded, unless the deadline comes first; the dispatcher then decides.
Route(c) ==
    /\ Entry(c) /\ phase[c] = "run" /\ stage[c] = "start"
    /\ \/ left[c] = "none" /\ Reject(c, "DeadlineExceeded")
       \/ left[c] # "none" /\ \E r \in {"NoCapacity", "RendererDegraded"} : Reject(c, r)
       \/ /\ left[c] # "none"
          /\ \/ /\ \E p \in Peers(c, DEFAULT_FORWARD_CANDIDATES - 1) : plan' = [plan EXCEPT ![c] = p]
                /\ Step(c, "local")
             \/ /\ \E p \in Peers(c, DEFAULT_FORWARD_CANDIDATES) :
                    p # <<>> /\ plan' = [plan EXCEPT ![c] = p]
                /\ Step(c, "send")
          /\ UNCHANGED <<flightVars, excuse, overflow, netVars, left, reason, renders, losses>>

\* A forwarded call is not routed again: it is shed by a degraded renderer, or prepared.
RouteForwarded(c) ==
    /\ ~Entry(c) /\ phase[c] = "run" /\ stage[c] = "start"
    /\ \/ Reject(c, "RendererDegraded")
       \/ /\ Step(c, "prepare")
          /\ UNCHANGED <<flightVars, plan, excuse, overflow, netVars, left, reason, renders, losses>>

-----------------------------------------------------------------------------
(* Local work                                                              *)

Work(c, s) == phase[c] = "run" /\ stage[c] = s

\* The local renderer, or its queue, does not take the call: try the remaining candidates;
\* without any, the call is rejected, after a failover for the reason that exhausted it.
NotTaken(c, r) ==
    \/ /\ plan[c] # <<>>
       /\ Step(c, "send")
       /\ UNCHANGED <<flightVars, plan, excuse, overflow, netVars, left, reason, renders, losses>>
    \/ /\ plan[c] = <<>>
       /\ Reject(c, IF overflow[c] /\ r = "QueueFull" THEN excuse[c] ELSE r)

\* can_start_render before any profile I/O
CheckAdmission(c) ==
    /\ Work(c, "local")
    /\ \/ NotTaken(c, "RendererDegraded")
       \/ /\ Step(c, "prepare")
          /\ UNCHANGED <<flightVars, plan, excuse, overflow, netVars, left, reason, renders, losses>>

PrepareProfile(c) ==
    /\ Work(c, "prepare")
    /\ \/ End(c, "failed")
       \/ /\ Step(c, "admit")
          /\ UNCHANGED <<flightVars, plan, excuse, overflow, netVars, left, reason, renders, losses>>

\* process_local_task: admission is checked once more, then the pool takes the command.
Admit(c) ==
    /\ Work(c, "admit")
    /\ \/ \E r \in {"RendererDegraded", "QueueFull"} : NotTaken(c, r)
       \/ /\ Step(c, "queued")
          /\ UNCHANGED <<flightVars, plan, excuse, overflow, netVars, left, reason, renders, losses>>

StartNative(c) ==
    /\ Work(c, "queued")
    /\ Step(c, "native")
    /\ renders' = [renders EXCEPT ![c[1]] = @ + 1]
    /\ UNCHANGED <<flightVars, plan, excuse, overflow, netVars, left, reason, losses>>

\* The worker rejects a command whose deadline has passed.
QueuedTooLong(c) ==
    /\ Work(c, "queued") /\ left[c] = "none"
    /\ Reject(c, "DeadlineExceeded")

NativeEnds(c) ==
    /\ Work(c, "native")
    /\ \/ left[c] # "none" /\ End(c, "completed")
       \/ End(c, "failed")

\* Faulty: a lost worker counts as a full queue.
Disconnected_retries(c) ==
    /\ Work(c, "queued") \/ Work(c, "native")
    /\ NotTaken(c, "QueueFull")

\* QueueDisconnected: the worker is gone, and nobody knows whether it rendered. The call is
\* not tried elsewhere.
Disconnected(c) ==
    /\ Work(c, "queued") \/ Work(c, "native")
    /\ End(c, "failed")

-----------------------------------------------------------------------------
(* forward_with_failover                                                   *)

BudgetTooSmall(c) ==
    /\ Work(c, "send") /\ plan[c] # <<>> /\ left[c] # "ample"
    /\ Reject(c, "DeadlineTooClose")

SendTo(c, node) ==
    LET h == <<c[1], Cardinality(Attempts(c[1])) + 1>> IN
    /\ net' = [net EXCEPT ![h] = "sent"]
    /\ sent_to' = [sent_to EXCEPT ![h] = node]
    /\ Step(c, "sending")

Send(c) ==
    /\ Work(c, "send") /\ plan[c] # <<>> /\ left[c] = "ample"
    /\ SendTo(c, Head(plan[c]))
    /\ plan' = [plan EXCEPT ![c] = Tail(@)]
    /\ UNCHANGED <<flightVars, excuse, overflow, left, reason, renders, losses>>

\* Faulty: the deadline does not cover the time until the request is delivered.
SendTimeout_delivered_only(c) ==
    /\ Work(c, "sending") /\ left[c] = "none" /\ net[Current(c)] = "delivered"
    /\ Reject(c, "DeadlineExceeded")

\* The origin stops waiting at its deadline; the peer does not.
SendTimeout(c) ==
    /\ Work(c, "sending") /\ left[c] = "none"
    /\ Reject(c, "DeadlineExceeded")

\* On to the next candidate.
NextCandidate(c, e) ==
    /\ excuse' = [excuse EXCEPT ![c] = e]
    /\ Step(c, IF plan[c] # <<>> THEN "send" ELSE "exhausted")

\* ForwardError: no answer will come, whether or not the call was delivered.
TransportFails(c) ==
    /\ Work(c, "sending") /\ net[Current(c)] \in {"refused", "lost"}
    /\ NextCandidate(c, IF excuse[c] \in Retryable THEN excuse[c] ELSE "ForwardFailed")
    /\ UNCHANGED <<flightVars, plan, overflow, netVars, left, reason, renders, losses>>

\* The peer's answer. A retryable rejection moves on, everything else is the outcome.
PeerAnswers(c) ==
    LET h == Current(c) IN
    /\ Work(c, "sending") /\ net[h] = "delivered" /\ phase[h] = "done"
    /\ \/ /\ answer[h] = "rejected" /\ reason[h] \in Retryable
          /\ NextCandidate(c, reason[h])
          /\ UNCHANGED <<flightVars, plan, overflow, netVars, left, reason, renders, losses>>
       \/ answer[h] = "rejected" /\ reason[h] \notin Retryable /\ Reject(c, reason[h])
       \/ answer[h] \in {"hit", "completed"} /\ End(c, "completed")
       \/ answer[h] = "failed" /\ End(c, "failed")

\* Local overflow, unless the renderer is degraded or time is up.
Exhausted(c) ==
    /\ Work(c, "exhausted")
    /\ \/ Reject(c, excuse[c])
       \/ left[c] = "none" /\ Reject(c, "DeadlineExceeded")
       \/ /\ left[c] # "none"
          /\ overflow' = [overflow EXCEPT ![c] = TRUE]
          /\ Step(c, "prepare")
          /\ UNCHANGED <<flightVars, plan, excuse, netVars, left, reason, renders, losses>>

-----------------------------------------------------------------------------
(* The network and time                                                    *)

Forwarded(r, node) == [r EXCEPT !.key = <<node, r.key[2]>>, !.forwarded = TRUE]

\* handle_forwarded: a style the peer does not know, or a budget that ran out on the way,
\* is rejected at once.
Deliver(h) ==
    /\ net[h] \in {"sent", "lost"} /\ phase[h] = "idle"
    /\ net' = [net EXCEPT ![h] = IF @ = "sent" THEN "delivered" ELSE @]
    /\ LET r == Forwarded(request[<<h[1], 0>>], sent_to[h])
       IN  \/ Arrive(h, r) /\ UNCHANGED reason
           \/ /\ \E why \in {"UnknownStyle", "DeadlineExceeded"} : reason' = [reason EXCEPT ![h] = why]
              /\ request' = [request EXCEPT ![h] = r]
              /\ answer' = [answer EXCEPT ![h] = "rejected"]
              /\ GoTo(h, "done")
              /\ UNCHANGED <<cache, flight, waits_on, woken>>
    /\ UNCHANGED <<workVars, sent_to, left, renders, losses>>

\* The peer cannot be reached, or refuses with an unframed status before it looks at the
\* request: overloaded, draining.
Refuse(h) ==
    /\ net[h] = "sent"
    /\ net' = [net EXCEPT ![h] = "refused"]
    /\ UNCHANGED <<flightVars, workVars, sent_to, left, reason, renders, losses>>

\* The exchange breaks, perhaps before the peer has even seen the request.
LoseAnswer(h) ==
    /\ net[h] \in {"sent", "delivered"} /\ Work(<<h[1], 0>>, "sending") /\ Current(<<h[1], 0>>) = h
    /\ net' = [net EXCEPT ![h] = "lost"]
    /\ losses' = [losses EXCEPT ![h[1]] = @ + 1]
    /\ UNCHANGED <<flightVars, workVars, sent_to, left, reason, renders>>

\* Time passes. Only an origin has a use for the forward budget.
Tick(c) ==
    /\ phase[c] \notin {"idle", "done"} /\ left[c] # "none"
    /\ left' = [left EXCEPT ![c] = IF @ = "ample" /\ Entry(c) THEN "short" ELSE "none"]
    /\ UNCHANGED <<flightVars, workVars, netVars, reason, renders, losses>>

-----------------------------------------------------------------------------
Local(c) == \/ Route(c) \/ RouteForwarded(c) \/ CheckAdmission(c) \/ PrepareProfile(c) \/ Admit(c)
            \/ StartNative(c) \/ QueuedTooLong(c) \/ NativeEnds(c) \/ Disconnected(c)
Forward(c) == \/ BudgetTooSmall(c) \/ Send(c) \/ SendTimeout(c) \/ TransportFails(c)
              \/ PeerAnswers(c) \/ Exhausted(c)
Network(h) == Deliver(h) \/ Refuse(h) \/ LoseAnswer(h)

ForwardingNext ==
    \/ \E c \in Callers : Submit(c) \/ UseCache(c) \/ Local(c) \/ Forward(c) \/ Network(c) \/ Tick(c)
    \/ \E k \in Keys : Expire(k) /\ UNCHANGED <<workVars, netVars, left, reason, renders, losses>>

ForwardingSpec == ForwardingInit /\ [][ForwardingNext]_vars

\* Calls run until they await, time passes, and a worker answers in bounded time (Worker:
\* RunEnds). Nothing is assumed of the network.
ForwardingFairSpec ==
    /\ ForwardingSpec
    /\ \A c \in Callers : /\ WF_vars(UseCache(c)) /\ WF_vars(Local(c)) /\ WF_vars(Forward(c))
                          /\ WF_vars(Tick(c))

-----------------------------------------------------------------------------
(* Properties                                                              *)

\* Every variable has its type; the attempts made and planned keep to the dispatcher's limit.
TypeOK ==
    /\ stage \in [Callers -> Stages]
    /\ \A i \in Ingress : Len(plan[<<i, 0>>]) + Cardinality(Attempts(i)) <= DEFAULT_FORWARD_CANDIDATES
    /\ excuse \in [Callers -> Reasons \cup {NoVal}]
    /\ reason \in [Callers -> Reasons \cup {NoVal}]
    /\ net \in [Callers -> {"none", "sent", "delivered", "refused", "lost"}]
    /\ renders \in [Ingress -> 0..(1 + DEFAULT_FORWARD_CANDIDATES)]

\* A request is rendered natively at most once, and once more for each forwarded call whose
\* answer was lost: no retry, failover or local overflow repeats work that may be under way.
RendersBounded == \A i \in Ingress : renders[i] <= 1 + losses[i]

\* The rejections a client is told to retry are given only to requests that were not
\* rendered, unless an answer was lost.
RejectedUnrendered ==
    \A i \in Ingress : (reason[<<i, 0>>] \in Retryable \cup {"ForwardFailed"} /\ renders[i] > 0)
                            => losses[i] > 0

\* No failover repeats native work: a request is rendered at most once more than answers
\* were lost, and one that its client may retry was not rendered unless one was.
WorkNotRepeated == RendersBounded /\ RejectedUnrendered

\* A request comes to its end, at the origin and at the peers it was forwarded to, whatever
\* the network does.
RequestSettles ==
    \A i \in Ingress : (phase[<<i, 0>>] # "idle") ~>
        (\A n \in 0..DEFAULT_FORWARD_CANDIDATES : phase[<<i, n>>] \in {"idle", "done"})

=============================================================================
