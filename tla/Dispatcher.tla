----------------------------- MODULE Dispatcher -----------------------------
(***************************************************************************)
(* The routing decision of crates/biei-core/src/dispatcher.rs.  A view is  *)
(* what gossip gives: the members in order and the decoded   *)
(* state of each.  Of this node the dispatcher uses the state of its own   *)
(* pool instead, while the view has it as a member.                        *)
(*                                                                         *)
(* The tiers: a node with the profile loaded and a place; the members with *)
(* a place below the soft limit, in the order of their rendezvous weights; *)
(* a worker to drain and swap; members below the hard limit.               *)
(***************************************************************************)
EXTENDS Integers, SequencesExt, RustOption

CONSTANTS Here,             \* Dispatcher::node_id
          StyleOf(_), ShapeOf(_),   \* of a profile: the style without its version; mode and scale
          Weight(_, _, _),  \* hrw_weight of style, shape and node
          NodeLess(_, _),   \* the order of node ids
          DEFAULT_FORWARD_CANDIDATES,
          tier1_strategy, tier3_enabled, drain_max_queue,
          bl_capacity, queue_limit,
          warm_render, first_render, style_setup, sla,  \* CostConfig, the middle of each range
          DurationMax       \* Duration::MAX

\* Dispatcher::new
queue_capacity == Max({queue_limit, bl_capacity})

Candidate(node, worker) == [node_id |-> node, drain_worker |-> worker]

\* DispatchView: the view with this node's own state, if it is a member.
DispatchView(members, states, own) ==
    [members |-> members,
     states  |-> [n \in Range(members) |-> IF n = Here THEN own ELSE states[n]]]

\* state_entries: the others as the HashMap gives them, and this node at the end.
StateEntries(v, order) ==
    SelectSeq(order, LAMBDA n : n \in Range(v.members) /\ n # Here)
        \o SelectSeq(v.members, LAMBDA n : n = Here)

HasRoom(node, limit) == node.accepts /\ \E w \in DOMAIN node.workers : node.workers[w].queue_depth < limit

-----------------------------------------------------------------------------
(* Tier 1                                                                  *)

Warm(node, profile) == {w \in DOMAIN node.workers : node.workers[w].loaded_profile = profile}
Spare(worker) == IF worker.queue_depth < bl_capacity THEN bl_capacity - worker.queue_depth ELSE 0
style_spare_bl(node, profile) ==
    SumFunctionOnSet([w \in DOMAIN node.workers |-> Spare(node.workers[w])], Warm(node, profile))

\* warm_candidate: warm, and a place below the soft limit or a fresh worker to expand into.
warm_candidate(node, profile) ==
    /\ node.accepts
    /\ Warm(node, profile) # {}
    /\ \E w \in DOMAIN node.workers :
        \/ node.workers[w].loaded_profile = profile /\ node.workers[w].queue_depth < bl_capacity
        \/ node.workers[w].loaded_profile = NoVal

warm_candidates(v, profile) == {n \in Range(v.members) : warm_candidate(v.states[n], profile)}

\* select_warm_target: the nodes that its draws may choose. A ticket falls to each
\* candidate, as each has a warm worker; of two different ones drawn the one with more room is taken,
\* and the first of two equals.
select_warm_target(v, profile) ==
    LET c == warm_candidates(v, profile)
        spare(n) == style_spare_bl(v.states[n], profile)
    IN  IF tier1_strategy = "WeightedRandom" \/ Cardinality(c) = 1 THEN c
        ELSE {n \in c : \E m \in c \ {n} : spare(n) >= spare(m)}

-----------------------------------------------------------------------------
(* Tiers 2 and 4                                                           *)

hrw_weight(profile, node) == Weight(StyleOf(profile), ShapeOf(profile), node)

\* One round of the loop of top_hrw_candidates.
Inserted(top, node, profile, limit) ==
    LET below == {i \in DOMAIN top : hrw_weight(profile, node) > hrw_weight(profile, top[i])}
        at == IF below = {} THEN Len(top) + 1 ELSE Min(below)
    IN  IF at > limit THEN top
        ELSE LET grown == InsertAt(top, at, node) IN SubSeq(grown, 1, Min({limit, Len(grown)}))

top_hrw_candidates(members, profile, limit, eligible) ==
    LET top == FoldLeft(LAMBDA t, n : Inserted(t, n, profile, limit), <<>>,
                        SelectSeq(members, LAMBDA n : n \in eligible))
    IN  [i \in DOMAIN top |-> Candidate(top[i], NoVal)]

Eligible(v, limit) == {n \in Range(v.members) : HasRoom(v.states[n], limit)}

-----------------------------------------------------------------------------
(* Tier 3                                                                  *)

\* estimate_drain_eta: everything ahead pays a swap and a first render; saturating.
estimate_drain_eta(worker, profile) ==
    LET ahead == worker.queue_depth * (first_render + style_setup)
        own == IF worker.loaded_profile = profile THEN warm_render ELSE style_setup + first_render
    IN  Min({DurationMax, Min({DurationMax, ahead}) + own})

\* The workers of the accepting nodes, in the order in which they are met.
Entries(v, order) ==
    FlattenSeq(<<<<>>>> \o
               [i \in DOMAIN StateEntries(v, order) |->
                LET n == StateEntries(v, order)[i]
                    ws == SetToSortSeq(DOMAIN v.states[n].workers, <)
                IN  IF ~v.states[n].accepts THEN <<>>
                    ELSE [j \in DOMAIN ws |-> [node |-> n, id |-> ws[j], view |-> v.states[n].workers[ws[j]]]]])

cluster_counts(entries, profile) == Cardinality({i \in DOMAIN entries : entries[i].view.loaded_profile = profile})

Bit(b) == IF b THEN 1 ELSE 0

\* Reverse(count) is the negated count; a fresh worker counts as usize::MAX, here DurationMax.
tier3_sort_key(entries, loaded, profile) ==
    IF loaded = NoVal THEN <<0, 1, - DurationMax>>
    ELSE LET count == cluster_counts(entries, loaded)
         IN  <<Bit(count <= 1), Bit(ShapeOf(loaded) # ShapeOf(profile)), - count>>

KeyLess(a, b) == \E i \in DOMAIN a : a[i] < b[i] /\ \A j \in 1..(i - 1) : a[j] = b[j]

Tier3Before(entries, profile, a, b) ==
    LET key(e) == tier3_sort_key(entries, e.view.loaded_profile, profile) \o <<e.view.queue_depth>>
    IN  \/ KeyLess(key(a), key(b))
        \/ key(a) = key(b) /\ NodeLess(a.node, b.node)
        \/ key(a) = key(b) /\ a.node = b.node /\ a.id < b.id

\* A stable sort by that order.
Sorted(entries, profile, s) ==
    LET less(i, j) == Tier3Before(entries, profile, s[i], s[j]) \/ (~Tier3Before(entries, profile, s[j], s[i]) /\ i < j)
        p == SetToSortSeq(DOMAIN s, less)
    IN  [i \in DOMAIN p |-> s[p[i]]]

\* Below drain_max_queue, and not warm for the task already.
Drainable(e, profile) == e.view.queue_depth < drain_max_queue /\ e.view.loaded_profile # profile

\* A deadline beyond the clock is none.
InTime(e, profile, waited) == sla = DurationMax \/ waited + estimate_drain_eta(e.view, profile) <= sla

\* waited: the time since the task's arrival
tier3_candidates(v, order, profile, waited, limit) ==
    LET entries == Entries(v, order)
        sorted == Sorted(entries, profile, SelectSeq(entries, LAMBDA e : Drainable(e, profile)))
        fit == SelectSeq(sorted, LAMBDA e : InTime(e, profile, waited))
    IN  [i \in 1..Min({limit, Len(fit)}) |-> Candidate(fit[i].node, fit[i].id)]

-----------------------------------------------------------------------------
Rejected == [kind |-> "Reject", tier |-> NoVal, hint |-> NoVal, candidates |-> <<>>]

\* The candidates kept: this node is no candidate for a forward.
Others(s) == SelectSeq(s, LAMBDA c : c.node_id # Here)

\* A task that was forwarded once stays here, without the hint of another node's worker.
materialize_candidates(tier, candidates, hops) ==
    IF candidates = <<>> THEN Rejected
    ELSE LET first == Head(candidates) IN
         IF first.node_id = Here
         THEN [kind |-> "Local", tier |-> tier, hint |-> first.drain_worker,
               candidates |-> IF hops >= 1 THEN <<>> ELSE Others(Tail(candidates))]
         ELSE IF hops >= 1
         THEN [kind |-> "Local", tier |-> tier, hint |-> NoVal, candidates |-> <<>>]
         ELSE [kind |-> "Forward", tier |-> tier, hint |-> NoVal, candidates |-> Others(candidates)]

\* The warm target and one more by weight.
WarmRoute(v, profile, target) ==
    <<Candidate(target, NoVal)>> \o
        LET more == top_hrw_candidates(v.members, profile, DEFAULT_FORWARD_CANDIDATES,
                                       Eligible(v, bl_capacity) \ {target})
        IN  SubSeq(more, 1, Min({Len(more), DEFAULT_FORWARD_CANDIDATES - 1}))

\* decide_view: the decisions that may be made for a task.
decide_view(v, order, profile, waited, hops) ==
    LET warm == select_warm_target(v, profile)
        ranked(limit) == top_hrw_candidates(v.members, profile, DEFAULT_FORWARD_CANDIDATES, Eligible(v, limit))
        drained == IF tier3_enabled THEN tier3_candidates(v, order, profile, waited, DEFAULT_FORWARD_CANDIDATES) ELSE <<>>
        made(tier, s) == materialize_candidates(tier, s, hops)
    IN  IF warm # {} THEN {made(1, WarmRoute(v, profile, t)) : t \in warm}
        ELSE IF ranked(bl_capacity) # <<>> THEN {made(2, ranked(bl_capacity))}
        ELSE IF drained # <<>> THEN {made(3, drained)}
        ELSE {made(4, ranked(queue_capacity))}
-----------------------------------------------------------------------------
(* What a decision promises, with no word of tiers and of loops.           *)

Room(v, limit) == {n \in Range(v.members) : HasRoom(v.states[n], limit)}

\* A task is rejected only when no member, this node by its own pool included, is
\* seen with a place below the hard limit, whatever tiers came to nothing before.
RejectsOnlyWhenFull(v, d) == d.kind = "Reject" => Room(v, queue_capacity) = {}

Position(v, n) == CHOOSE i \in DOMAIN v.members : v.members[i] = n
Outranks(v, profile, a, b) ==
    \/ hrw_weight(profile, a) > hrw_weight(profile, b)
    \/ hrw_weight(profile, a) = hrw_weight(profile, b) /\ Position(v, a) < Position(v, b)

\* The nodes in the order in which they are going to be tried, this node first if Local.
Plan(d) ==
    (IF d.kind = "Local" THEN <<Here>> ELSE <<>>) \o [i \in DOMAIN d.candidates |-> d.candidates[i].node_id]

\* Routes by weight are the head of the ranking of all eligible members: the insertion
\* into a list cut at its limit is the "stable `sort_by_key`" its comment names, with
\* equal weights in the order of the members.
RanksByWeight(v, profile, hops, d) ==
    d.kind # "Reject" /\ d.tier \in {2, 4} /\ hops = 0 =>
        LET eligible == Room(v, IF d.tier = 2 THEN bl_capacity ELSE queue_capacity)
            plan == Plan(d)
        IN  /\ Range(plan) \subseteq eligible
            /\ \A i, j \in DOMAIN plan : i < j => Outranks(v, profile, plan[i], plan[j])
            /\ \A n \in eligible \ Range(plan) : n # Here => \A i \in DOMAIN plan : Outranks(v, profile, plan[i], n)
            /\ \A n \in eligible \ {plan[1]} : Outranks(v, profile, plan[1], n)

Seen(v) == UNION {{n} \X DOMAIN v.states[n].workers : n \in {m \in Range(v.members) : v.states[m].accepts}}
Slot(v, e) == v.states[e[1]].workers[e[2]]
LastCopy(v, e) ==
    /\ Slot(v, e).loaded_profile # NoVal
    /\ \A f \in Seen(v) \ {e} : Slot(v, f).loaded_profile # Slot(v, e).loaded_profile

\* The workers that could be swapped in time.
Swappable(v, profile, waited) ==
    {e \in Seen(v) :
        /\ Slot(v, e).queue_depth < drain_max_queue
        /\ Slot(v, e).loaded_profile # profile
        /\ (Slot(v, e).queue_depth + 1) * (first_render + style_setup) <= sla - waited}

\* Drain-and-swap takes the last worker of a profile only when each worker that could
\* be swapped in time is the last of its own ("protect singleton profiles"), and what it
\* takes is one of those.
EvictsSparingly(v, profile, waited, hops, d) ==
    d.tier = 3 /\ hops = 0 =>
        LET c == d.candidates
            first == IF d.kind = "Local" THEN <<Here, d.hint>> ELSE <<c[1].node_id, c[1].drain_worker>>
            swappable == Swappable(v, profile, waited)
        IN  /\ first \in swappable
            /\ \A i \in DOMAIN c : <<c[i].node_id, c[i].drain_worker>> \in swappable
            /\ LastCopy(v, first) => \A e \in swappable : LastCopy(v, e)

\* What the handling of routes relies on (Forwarding.Route): a forward names others only
\* and at least one, a local route at most one fallback and never this node again, a hint
\* names a worker of this node, and a task that came from another node is not sent on.
PlansAsForwarded(v, hops, d) ==
    /\ \A i \in DOMAIN d.candidates : d.candidates[i].node_id \in Range(v.members) \ {Here}
    /\ d.kind = "Forward" => Len(d.candidates) \in 1..DEFAULT_FORWARD_CANDIDATES
    /\ d.kind = "Local" => Len(d.candidates) < DEFAULT_FORWARD_CANDIDATES
    /\ d.hint # NoVal => Here \in Range(v.members) /\ v.states[Here].accepts /\ d.hint \in DOMAIN v.states[Here].workers
    /\ hops >= 1 => d.kind # "Forward" /\ d.candidates = <<>>

\* All of it; and "every dispatcher with the same ClusterView picks the same eviction
\* target": the order in which the map of states is walked shows in no decision.
DecisionsSound(v, orders, profile, waited, hops) ==
    LET decisions(o) == decide_view(v, o, profile, waited, hops)
        some == CHOOSE o \in orders : TRUE
    IN  /\ \A o \in orders : decisions(o) = decisions(some)
        /\ \A d \in decisions(some) :
               /\ RejectsOnlyWhenFull(v, d)
               /\ RanksByWeight(v, profile, hops, d)
               /\ EvictsSparingly(v, profile, waited, hops, d)
               /\ PlansAsForwarded(v, hops, d)
=============================================================================
