----------------------------- MODULE WorkerPick -----------------------------
(***************************************************************************)
(* The pure part of crates/biei-core/src/worker_pool.rs: how a node ranks  *)
(* its renderer slots for an incoming task (pick_score, PickTier) and the  *)
(* bounded record of the GeoJSON sources a slot has seen                   *)
(* (mark_addlayer_source).                                                 *)
(*                                                                         *)
(* A pick context is a record of the fields of PickContext:                *)
(*   loaded    worker -> profile or NoVal     sources  worker -> sequence  *)
(*   counts    profile -> number of workers   last_used worker -> tick, 0  *)
(*             for None, the order of the Instants                         *)
(***************************************************************************)
EXTENDS Integers, Sequences, FiniteSets, RustOption

CONSTANTS
    ShapeOf(_),         \* a profile's render mode and scale
    bl_capacity,        \* soft queue limit per slot
    queue_capacity,     \* hard queue limit per slot
    AffinityCap         \* ADDLAYER_SOURCE_AFFINITY_CAPACITY

ASSUME CapacityAssumption ==
    /\ bl_capacity \in Nat \ {0}
    /\ queue_capacity \in Nat
    /\ bl_capacity <= queue_capacity
    /\ AffinityCap \in Nat \ {0}

\* The variants of PickTier, in the order of their derived Ord.
WarmComfort   == 0
Fresh         == 1
WarmFull      == 2
AllocSwapIdle == 3
WarmOverflow  == 4
WarmSaturated == 5
ShortestQueue == 6

\* A warm slot is comfortable below this depth; above it a cold slot is preferred.
expand_threshold ==
    LET t == (bl_capacity * 2) \div 3 IN IF t < 1 THEN 1 ELSE t

pick_tier(at, profile, depth) ==
    CASE at = profile /\ depth < expand_threshold -> WarmComfort
      [] at = NoVal                               -> Fresh
      [] at = profile /\ depth >= expand_threshold /\ depth < bl_capacity -> WarmFull
      [] at \notin {profile, NoVal} /\ depth = 0  -> AllocSwapIdle
      [] at = profile /\ depth >= expand_threshold /\ depth >= bl_capacity
                      /\ depth < queue_capacity   -> WarmOverflow
      [] at = profile /\ depth >= queue_capacity  -> WarmSaturated
      [] OTHER                                    -> ShortestQueue

Bit(b) == IF b THEN 1 ELSE 0

\* PickScore as a tuple compared field by field; Reverse(count) is the negated count.
\* (The fields after queue_depth only tell idle swap candidates apart.)
pick_score(ctx, profile, source, w, depth) ==
    LET at    == ctx.loaded[w]
        tier  == pick_tier(at, profile, depth)
        miss  == Bit(source # NoVal /\ \A i \in DOMAIN ctx.sources[w] : ctx.sources[w][i] # source)
        swap  == tier = AllocSwapIdle
    IN  << tier, miss, depth,
           IF swap THEN Bit(ctx.counts[at] <= 1) ELSE 0,
           IF swap THEN Bit(ShapeOf(at) # ShapeOf(profile)) ELSE 0,
           IF swap THEN - ctx.counts[at] ELSE 0,
           IF swap THEN ctx.last_used[w] ELSE 0 >>

\* The derived lexicographic Ord of PickScore.
Precedes(a, b) ==
    \E i \in 1..Len(a) : a[i] < b[i] /\ \A j \in 1..(i - 1) : a[j] = b[j]

\* best_available_worker: of the slots below the hard limit the one with the least score,
\* the first index on ties (min_by_key). The set is empty when every slot is full.
best_available_worker(ctx, profile, source, workers, depths) ==
    LET open == {w \in workers : depths[w] < queue_capacity}
        score(w) == pick_score(ctx, profile, source, w, depths[w])
    IN  {w \in open : \A v \in open \ {w} : \/ Precedes(score(w), score(v))
                                            \/ score(w) = score(v) /\ w < v}

\* mark_addlayer_source: move to the back, evicting the oldest ids when full.
\* (The HashSet of ids is the range of this sequence.)
mark_addlayer_source(lru, source) ==
    LET at     == {i \in DOMAIN lru : lru[i] = source}
        excess == IF Len(lru) >= AffinityCap THEN Len(lru) - AffinityCap + 1 ELSE 0
    IN  Append(IF at = {} THEN SubSeq(lru, excess + 1, Len(lru))
               ELSE LET i == CHOOSE i \in at : TRUE
                    IN  SubSeq(lru, 1, i - 1) \o SubSeq(lru, i + 1, Len(lru)),
               source)
=============================================================================
