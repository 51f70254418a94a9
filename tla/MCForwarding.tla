---------------------------- MODULE MCForwarding ----------------------------
(* Instances of Forwarding for TLC, and of the dispatcher that makes its   *)
(* plans.                                                                  *)
EXTENDS Forwarding, TLC

AllCallers == Ingress \X (0..DEFAULT_FORWARD_CANDIDATES)
AllKeys == Nodes \X RenderKeys

-----------------------------------------------------------------------------
\* The dispatcher of the second of three nodes; 2 and 3 have the same weight. Of the
\* profiles p is wanted and q is of its shape.
SomeStyle(profile) == profile
SomeShape(profile) == IF profile = "r" THEN "tile" ELSE "static"
SomeWeight(style, shape, n) == IF n = 1 THEN 5 ELSE 7
Dispatch(strategy, drains) ==
    INSTANCE Dispatcher WITH
        Here <- 2, StyleOf <- SomeStyle, ShapeOf <- SomeShape, Weight <- SomeWeight, NodeLess <- <,
        tier1_strategy <- strategy, tier3_enabled <- drains, drain_max_queue <- 2, bl_capacity <- 1,
        queue_limit <- 2, warm_render <- 1, first_render <- 2, style_setup <- 1, sla <- 6, DurationMax <- 100

View(profile, depth) == [loaded_profile |-> profile, queue_depth |-> depth]
Slots == [loaded_profile: {NoVal, "p", "q", "r"}, queue_depth: 0..2]
\* Renderer health has closed it; nothing of its workers has been seen yet.
Degraded == [accepts |-> FALSE, workers |-> <<View("p", 0)>>]
Unknown == [accepts |-> TRUE, workers |-> <<>>]
Peer == {[accepts |-> TRUE, workers |-> <<w>>] : w \in Slots} \cup {Degraded, Unknown}
Own == {[accepts |-> TRUE, workers |-> <<w, x>>] :
            w \in Slots, x \in {View("q", 0), View("p", 1), View(NoVal, 1), View("r", 2)}} \cup {Degraded}

\* Every decision for every view of the peers and of the own pool keeps what routing
\* promises, for tasks that are new, late, or came from another node, and its plan is
\* one that Forwarding.Route takes.
ASSUME RoutingSound ==
    \A config \in {<<<<1, 2, 3>>, "PowerOfTwo", TRUE>>, <<<<3, 1>>, "WeightedRandom", TRUE>>,
                   <<<<1, 3>>, "PowerOfTwo", FALSE>>} :
    \A a \in Peer, c \in Peer, own \in IF 2 \in ToSet(config[1]) THEN Own ELSE {Degraded} :
        LET v == Dispatch(config[2], config[3])!DispatchView(config[1], <<a, Degraded, c>>, own)
        IN  \A waited \in {0, 1}, hops \in {0, 1} :
                Dispatch(config[2], config[3])!DecisionsSound(v, {<<1, 2, 3>>, <<3, 2, 1>>}, "p", waited, hops)
=============================================================================
