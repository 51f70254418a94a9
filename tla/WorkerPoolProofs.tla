-------------------------- MODULE WorkerPoolProofs --------------------------
(***************************************************************************)
(* Proofs about the admission accounting of WorkerPool, for any number of  *)
(* calls, slots and styles.                                                *)
(***************************************************************************)
EXTENDS WorkerPool, FiniteSetTheorems, SequenceTheorems, TLAPS

-----------------------------------------------------------------------------
(* The inductive invariant.                                                *)

Elems(q) == {q[i] : i \in DOMAIN q}

\* A call past Submit has its request, and one that has a slot knows it.
CallsFormed ==
    \A t \in Tasks : /\ pc[t] # "idle" => req[t] \in Requests
                     /\ pc[t] \in {"reserve", "reserved", "marked"} => idx[t] \in Workers

\* A command is in one place only, at the slot its call reserved, and its call is past the
\* send.
CommandsPlaced ==
    \A w \in Workers :
        /\ \A t \in InQueue(w) \cup Executing(w) : idx[t] = w /\ pc[t] \in {"sent", "cancelled"}
        /\ running[w] # NoVal => releasing[w] = NoVal
        /\ InQueue(w) \cap Executing(w) = {}
        /\ \A i, j \in DOMAIN queue[w] : queue[w][i] = queue[w][j] => i = j

\* Retire is sent to a slot once, and nothing of it is left once the loop has ended.
RetiredOnce ==
    \A w \in Workers :
        /\ closed[w] => Retire \notin Elems(queue[w])
        /\ shutdown.at = "off" \/ (shutdown.at = "retiring" /\ shutdown.k <= w)
                => ~closed[w] /\ Retire \notin Elems(queue[w])

\* The generations of the outstanding dispatches to a slot are distinct and none is ahead
\* of the slot's counter.
Marked(w) == {t \in Outstanding(w) : pc[t] # "reserved"}
GenerationsDistinct ==
    \A w \in Workers :
        /\ \A t \in Marked(w) : dispatch_generation[t] <= dispatch_generations[w]
        /\ \A t, u \in Marked(w) : dispatch_generation[t] = dispatch_generation[u] => t = u

\* A step that records no prediction: the outstanding dispatches can only become fewer.
Shrinks == \A w \in Workers : Marked(w)' \subseteq Marked(w)

HardLimit == \A w \in Workers : queue_depth[w] <= queue_capacity

Accounting ==
    /\ TypeOK /\ CallsFormed /\ CommandsPlaced /\ RetiredOnce
    /\ DepthIsOutstanding /\ HardLimit /\ ProfileCountsExact

-----------------------------------------------------------------------------
(* Sequences without repetition.                                           *)

Injective(q) == \A i, j \in DOMAIN q : q[i] = q[j] => i = j

\* Sending a command that is not in the channel adds it and nothing else.
LEMMA AppendElems ==
    ASSUME NEW S, NEW q \in Seq(S), NEW x \in S
    PROVE  /\ Append(q, x) \in Seq(S)
           /\ Elems(Append(q, x)) = Elems(q) \cup {x}
           /\ Injective(q) /\ x \notin Elems(q) => Injective(Append(q, x))
  <1>1. /\ Append(q, x) \in Seq(S)
        /\ Len(Append(q, x)) = Len(q) + 1
        /\ \A i \in 1..Len(q) : Append(q, x)[i] = q[i]
        /\ Append(q, x)[Len(q) + 1] = x
    BY AppendProperties
  <1>2. DOMAIN q = 1..Len(q) /\ DOMAIN Append(q, x) = 1..(Len(q) + 1) /\ Len(q) \in Nat
    BY <1>1, LenProperties
  <1>3. Elems(Append(q, x)) = Elems(q) \cup {x}
    BY <1>1, <1>2 DEF Elems
  <1>4. ASSUME Injective(q), x \notin Elems(q) PROVE Injective(Append(q, x))
    BY <1>1, <1>2, <1>4 DEF Injective, Elems
  <1> QED  BY <1>1, <1>3, <1>4

\* Receiving from a channel without repetitions removes its head and nothing else.
LEMMA TailElems ==
    ASSUME NEW S, NEW q \in Seq(S), q # <<>>, Injective(q)
    PROVE  /\ Head(q) \in Elems(q)
           /\ Tail(q) \in Seq(S)
           /\ Elems(Tail(q)) = Elems(q) \ {Head(q)}
           /\ Injective(Tail(q))
  <1>1. /\ Tail(q) \in Seq(S)
        /\ Len(Tail(q)) = Len(q) - 1
        /\ \A i \in 1..Len(Tail(q)) : Tail(q)[i] = q[i + 1]
    BY HeadTailProperties
  <1>2. Head(q) = q[1]
    OBVIOUS
  <1>3. Len(q) \in Nat /\ Len(q) >= 1 /\ DOMAIN q = 1..Len(q)
    BY LenProperties, EmptySeq
  <1>4. DOMAIN Tail(q) = 1..(Len(q) - 1)
    BY <1>1, LenProperties
  <1>5. Head(q) \in Elems(q)
    BY <1>2, <1>3 DEF Elems
  <1>6. Injective(Tail(q))
    BY <1>1, <1>3, <1>4 DEF Injective
  <1>7. ASSUME NEW x \in Elems(Tail(q)) PROVE x \in Elems(q) /\ x # Head(q)
    <2>1. PICK i \in 1..(Len(q) - 1) : x = q[i + 1]
      BY <1>1, <1>4, <1>3, <1>7 DEF Elems
    <2>2. i + 1 \in 1..Len(q) /\ i + 1 # 1 /\ 1 \in 1..Len(q)
      BY <1>3
    <2> QED  BY <2>1, <2>2, <1>2, <1>3 DEF Elems, Injective
  <1>8. ASSUME NEW x \in Elems(q), x # Head(q) PROVE x \in Elems(Tail(q))
    <2>1. PICK i \in 1..Len(q) : x = q[i]
      BY <1>3, <1>8 DEF Elems
    <2>2. i # 1
      BY <2>1, <1>2, <1>8
    <2>3. i - 1 \in 1..(Len(q) - 1) /\ (i - 1) + 1 = i
      BY <2>2, <1>3
    <2>4. Tail(q)[i - 1] = x
      BY <2>1, <2>3, <1>1
    <2> QED  BY <2>3, <2>4, <1>4 DEF Elems
  <1> QED  BY <1>1, <1>5, <1>6, <1>7, <1>8

-----------------------------------------------------------------------------
(* Counting.                                                               *)

LEMMA WorkersFinite == IsFiniteSet(Workers)
  BY PoolAssumption, FS_Interval DEF Workers

\* Recording or withdrawing a prediction keeps the counts exact.
LEMMA Recount ==
    ASSUME ProfileCountsExact, loaded \in [Workers -> Profiles \cup {NoVal}],
           profile_counts \in [Profiles -> Nat],
           NEW w \in Workers, NEW x \in Profiles \cup {NoVal}, x # loaded[w],
           loaded' = [loaded EXCEPT ![w] = x],
           profile_counts' =
               [p \in Profiles |-> IF p = x THEN profile_counts[p] + 1
                                   ELSE IF p = loaded[w] THEN profile_counts[p] - 1
                                   ELSE profile_counts[p]]
    PROVE  ProfileCountsExact' /\ profile_counts' \in [Profiles -> Nat]
  <1> DEFINE At(p) == {v \in Workers : loaded[v] = p}
  <1>1. ASSUME NEW p \in Profiles
        PROVE  profile_counts'[p] = Cardinality(At(p)') /\ profile_counts'[p] \in Nat
    <2>1. IsFiniteSet(At(p)) /\ profile_counts[p] = Cardinality(At(p))
      BY WorkersFinite, FS_Subset DEF ProfileCountsExact
    <2>2. CASE p = x
      <3>1. At(p)' = At(p) \cup {w} /\ w \notin At(p)
        BY <2>2
      <3>2. Cardinality(At(p) \cup {w}) = Cardinality(At(p)) + 1
        BY <2>1, <3>1, FS_AddElement
      <3>3. profile_counts'[p] = profile_counts[p] + 1 /\ profile_counts[p] \in Nat
        BY <2>2
      <3> QED  BY <2>1, <3>1, <3>2, <3>3
    <2>3. CASE p # x /\ p = loaded[w]
      <3>1. At(p)' = At(p) \ {w} /\ w \in At(p)
        BY <2>3
      <3>2. IsFiniteSet(At(p) \ {w}) /\ Cardinality(At(p) \ {w}) = Cardinality(At(p)) - 1
        BY <2>1, <3>1, FS_RemoveElement
      <3>3. Cardinality(At(p) \ {w}) \in Nat
        BY <3>2, FS_CardinalityType
      <3> QED  BY <2>1, <2>3, <3>1, <3>2, <3>3
    <2>4. CASE p # x /\ p # loaded[w]
      <3>1. At(p)' = At(p)
        BY <2>4
      <3> QED  BY <2>1, <2>4, <3>1
    <2> QED  BY <2>2, <2>3, <2>4
  <1> QED  BY <1>1 DEF ProfileCountsExact

\* What is outstanding at a slot is a finite set of calls.
LEMMA OutstandingFinite ==
    ASSUME TypeOK, NEW w \in Workers
    PROVE  /\ InQueue(w) \subseteq Tasks /\ Outstanding(w) \subseteq Tasks
           /\ IsFiniteSet(Outstanding(w)) /\ Cardinality(Outstanding(w)) \in Nat
  <1>1. queue[w] \in Seq(Tasks \cup {Retire})
    BY DEF TypeOK
  <1>2. \A i \in DOMAIN queue[w] : queue[w][i] \in Tasks \cup {Retire}
    BY <1>1, ElementOfSeq, LenProperties
  <1>3. InQueue(w) \subseteq Tasks
    BY <1>2 DEF InQueue
  <1>4. Outstanding(w) \subseteq Tasks
    BY <1>3 DEF Outstanding, Executing, TypeOK
  <1> QED  BY <1>3, <1>4, PoolAssumption, FS_Subset, FS_CardinalityType

\* A step that takes (gives back) one reservation of slot w and counts it, and one that
\* does neither.
LEMMA DepthUp ==
    ASSUME TypeOK, DepthIsOutstanding, NEW w \in Workers, NEW t, t \notin Outstanding(w),
           \A v \in Workers : Outstanding(v)' = IF v = w THEN Outstanding(v) \cup {t}
                                                ELSE Outstanding(v),
           queue_depth' = [queue_depth EXCEPT ![w] = @ + 1]
    PROVE  DepthIsOutstanding' /\ queue_depth' \in [Workers -> Nat]
  <1>1. IsFiniteSet(Outstanding(w)) /\ Cardinality(Outstanding(w)) \in Nat
    BY OutstandingFinite
  <1>2. Cardinality(Outstanding(w) \cup {t}) = Cardinality(Outstanding(w)) + 1
    BY <1>1, FS_AddElement
  <1>3. queue_depth \in [Workers -> Nat]
    BY DEF TypeOK
  <1>4. ASSUME NEW v \in Workers PROVE queue_depth'[v] = Cardinality(Outstanding(v)')
    <2>1. CASE v = w
      BY <2>1, <1>2, <1>3 DEF DepthIsOutstanding
    <2>2. CASE v # w
      BY <2>2, <1>3 DEF DepthIsOutstanding
    <2> QED  BY <2>1, <2>2
  <1> QED  BY <1>3, <1>4 DEF DepthIsOutstanding

LEMMA DepthDown ==
    ASSUME TypeOK, DepthIsOutstanding, NEW w \in Workers, NEW t, t \in Outstanding(w),
           \A v \in Workers : Outstanding(v)' = IF v = w THEN Outstanding(v) \ {t}
                                                ELSE Outstanding(v),
           queue_depth' = [queue_depth EXCEPT ![w] = @ - 1]
    PROVE  DepthIsOutstanding' /\ queue_depth' \in [Workers -> Nat]
  <1>1. IsFiniteSet(Outstanding(w)) /\ Cardinality(Outstanding(w)) \in Nat
    BY OutstandingFinite
  <1>2. /\ IsFiniteSet(Outstanding(w) \ {t})
        /\ Cardinality(Outstanding(w) \ {t}) = Cardinality(Outstanding(w)) - 1
    BY <1>1, FS_RemoveElement
  <1>3. Cardinality(Outstanding(w) \ {t}) \in Nat
    BY <1>2, FS_CardinalityType
  <1>4. queue_depth \in [Workers -> Nat]
    BY DEF TypeOK
  <1>5. ASSUME NEW v \in Workers
        PROVE  queue_depth'[v] = Cardinality(Outstanding(v)') /\ queue_depth'[v] \in Nat
    <2>1. CASE v = w
      BY <2>1, <1>2, <1>3, <1>4 DEF DepthIsOutstanding
    <2>2. CASE v # w
      BY <2>2, <1>4 DEF DepthIsOutstanding
    <2> QED  BY <2>1, <2>2
  <1> QED  BY <1>4, <1>5 DEF DepthIsOutstanding

LEMMA DepthSame ==
    ASSUME DepthIsOutstanding, UNCHANGED queue_depth,
           \A v \in Workers : Outstanding(v)' = Outstanding(v)
    PROVE  DepthIsOutstanding'
  BY DEF DepthIsOutstanding

-----------------------------------------------------------------------------
(* The steps that record or withdraw a prediction.                         *)

LEMMA CountsSame ==
    ASSUME ProfileCountsExact, loaded' = loaded, profile_counts' = profile_counts
    PROVE  ProfileCountsExact'
  <1>1. ASSUME NEW p \in Profiles
        PROVE  profile_counts'[p] = Cardinality({w \in Workers : loaded'[w] = p})
    <2>1. {w \in Workers : loaded'[w] = p} = {w \in Workers : loaded[w] = p}
      OBVIOUS
    <2> QED  BY <2>1 DEF ProfileCountsExact
  <1> QED  BY <1>1 DEF ProfileCountsExact

LEMMA MarkLoaded ==
    ASSUME TypeOK, ProfileCountsExact, NEW w \in Workers, NEW p \in Profiles, mark_loaded(w, p)
    PROVE  /\ ProfileCountsExact' /\ profile_counts' \in [Profiles -> Nat]
           /\ loaded' \in [Workers -> Profiles \cup {NoVal}]
           /\ dispatch_generations' \in [Workers -> Nat]
           /\ last_used' \in [Workers -> Nat] /\ now' \in Nat
  <1>1. /\ loaded \in [Workers -> Profiles \cup {NoVal}] /\ profile_counts \in [Profiles -> Nat]
        /\ dispatch_generations \in [Workers -> Nat] /\ last_used \in [Workers -> Nat] /\ now \in Nat
    BY DEF TypeOK
  <1>2. /\ loaded' \in [Workers -> Profiles \cup {NoVal}]
        /\ dispatch_generations' \in [Workers -> Nat]
        /\ last_used' \in [Workers -> Nat] /\ now' \in Nat
    BY <1>1 DEF mark_loaded
  <1>3. CASE loaded[w] = p
    <2>1. loaded' = loaded /\ profile_counts' = profile_counts
      BY <1>1, <1>3 DEF mark_loaded
    <2> QED  BY <1>1, <1>2, <2>1, CountsSame
  <1>4. CASE loaded[w] # p
    <2>1. profile_counts' = [q \in Profiles |-> IF q = p THEN profile_counts[q] + 1
                                               ELSE IF q = loaded[w] THEN profile_counts[q] - 1
                                               ELSE profile_counts[q]]
      <3>1. CASE loaded[w] = NoVal
        BY <1>1, <1>4, <3>1, PoolAssumption DEF mark_loaded
      <3>2. CASE loaded[w] # NoVal
        BY <1>1, <1>4, <3>2 DEF mark_loaded, Decremented
      <3> QED  BY <3>1, <3>2
    <2>2. loaded' = [loaded EXCEPT ![w] = p] /\ p # loaded[w] /\ p \in Profiles \cup {NoVal}
      BY <1>4 DEF mark_loaded
    <2>3. ProfileCountsExact' /\ profile_counts' \in [Profiles -> Nat]
      BY <1>1, <2>1, <2>2, Recount
    <2> QED  BY <1>2, <2>3
  <1> QED  BY <1>3, <1>4

LEMMA ClearLoaded ==
    ASSUME TypeOK, ProfileCountsExact, NEW w \in Workers, NEW g, clear_loaded_if_latest(w, g)
    PROVE  /\ ProfileCountsExact' /\ profile_counts' \in [Profiles -> Nat]
           /\ loaded' \in [Workers -> Profiles \cup {NoVal}]
           /\ dispatch_generations' = dispatch_generations
           /\ last_used' \in [Workers -> Nat] /\ now' = now
           /\ addlayer_source_lru' \in [Workers -> Seq(Sources)]
           /\ \A v \in Workers : (v # w \/ dispatch_generations[v] # g) => loaded'[v] = loaded[v]
  <1>1. /\ loaded \in [Workers -> Profiles \cup {NoVal}] /\ profile_counts \in [Profiles -> Nat]
        /\ last_used \in [Workers -> Nat] /\ addlayer_source_lru \in [Workers -> Seq(Sources)]
    BY DEF TypeOK
  <1>2. CASE dispatch_generations[w] # g
    <2>1. UNCHANGED stateVars
      BY <1>2 DEF clear_loaded_if_latest
    <2>2. /\ loaded' = loaded /\ profile_counts' = profile_counts /\ last_used' = last_used
          /\ addlayer_source_lru' = addlayer_source_lru /\ now' = now
          /\ dispatch_generations' = dispatch_generations
      BY <2>1 DEF stateVars
    <2> QED  BY <1>1, <2>2, CountsSame
  <1>3. CASE dispatch_generations[w] = g
    <2>1. clear_loaded(w)
      BY <1>3 DEF clear_loaded_if_latest
    <2>2. /\ loaded' = [loaded EXCEPT ![w] = NoVal]
          /\ last_used' \in [Workers -> Nat] /\ now' = now
          /\ addlayer_source_lru' \in [Workers -> Seq(Sources)]
          /\ dispatch_generations' = dispatch_generations
      BY <1>1, <2>1, EmptySeq DEF clear_loaded
    <2>3. ProfileCountsExact' /\ profile_counts' \in [Profiles -> Nat]
      <3>1. CASE loaded[w] = NoVal
        <4>1. loaded' = loaded /\ profile_counts' = profile_counts
          BY <1>1, <2>1, <3>1 DEF clear_loaded
        <4> QED  BY <1>1, <4>1, CountsSame
      <3>2. CASE loaded[w] # NoVal
        <4>1. profile_counts' = [q \in Profiles |-> IF q = NoVal THEN profile_counts[q] + 1
                                                   ELSE IF q = loaded[w] THEN profile_counts[q] - 1
                                                   ELSE profile_counts[q]]
          BY <1>1, <2>1, <3>2, PoolAssumption DEF clear_loaded, Decremented
        <4>2. NoVal # loaded[w] /\ NoVal \in Profiles \cup {NoVal}
          BY <3>2
        <4> QED  BY <1>1, <2>2, <4>1, <4>2, Recount
      <3> QED  BY <3>1, <3>2
    <2> QED  BY <1>1, <1>3, <2>2, <2>3
  <1> QED  BY <1>2, <1>3

\* The bounded record of sources stays a sequence of sources.
LEMMA MarkSource ==
    ASSUME NEW lru \in Seq(Sources), NEW x \in Sources
    PROVE  mark_addlayer_source(lru, x) \in Seq(Sources)
  <1> DEFINE at == {i \in DOMAIN lru : lru[i] = x}
             excess == IF Len(lru) >= AffinityCap THEN Len(lru) - AffinityCap + 1 ELSE 0
             j == CHOOSE i \in at : TRUE
             base == IF at = {} THEN SubSeq(lru, excess + 1, Len(lru))
                     ELSE SubSeq(lru, 1, j - 1) \o SubSeq(lru, j + 1, Len(lru))
  <1>1. Len(lru) \in Nat /\ DOMAIN lru = 1..Len(lru) /\ \A i \in 1..Len(lru) : lru[i] \in Sources
    BY LenProperties, ElementOfSeq
  <1>2. excess \in Nat
    BY <1>1, CapacityAssumption
  <1>3. CASE at = {}
    <2>1. SubSeq(lru, excess + 1, Len(lru)) \in Seq(Sources)
      BY <1>1, <1>2, SubSeqProperties
    <2> QED  BY <1>3, <2>1 DEF mark_addlayer_source
  <1>4. CASE at # {}
    <2>1. j \in 1..Len(lru)
      BY <1>1, <1>4
    <2> HIDE DEF j
    <2>2. SubSeq(lru, 1, j - 1) \in Seq(Sources)
      BY <1>1, <2>1, SubSeqProperties
    <2>3. SubSeq(lru, j + 1, Len(lru)) \in Seq(Sources)
      BY <1>1, <2>1, SubSeqProperties
    <2> QED  BY <1>4, <2>2, <2>3, ConcatProperties DEF mark_addlayer_source, j
  <1> QED  BY <1>3, <1>4

-----------------------------------------------------------------------------
(* Each step of a call keeps the accounting.                               *)

\* A step that moves no command and no reservation.
LEMMA QuietStep ==
    ASSUME Accounting, CallsFormed', TypeOK',
           UNCHANGED <<queue, closed, running, releasing, queue_depth, loaded, profile_counts, shutdown>>,
           \A t \in Tasks : \/ pc'[t] = pc[t] /\ idx'[t] = idx[t]
                            \/ /\ pc[t] \notin {"reserved", "marked", "sent", "cancelled"}
                               /\ pc'[t] \notin {"reserved", "marked"}
                            \/ pc[t] = "sent" /\ pc'[t] = "cancelled" /\ idx'[t] = idx[t]
    PROVE  Accounting' /\ Shrinks
  <1> USE DEF Accounting
  <1>1. \A w \in Workers : /\ InQueue(w)' = InQueue(w) /\ Executing(w)' = Executing(w)
                           /\ InQueue(w) \subseteq Tasks /\ Executing(w) \subseteq Tasks
    BY OutstandingFinite DEF InQueue, Executing, Outstanding
  <1>2. \A w \in Workers : Outstanding(w)' = Outstanding(w)
    BY <1>1 DEF Outstanding
  <1>3. CommandsPlaced'
    BY <1>1 DEF CommandsPlaced
  <1>4. RetiredOnce'
    BY DEF RetiredOnce, Elems
  <1>5. DepthIsOutstanding' /\ HardLimit'
    BY <1>2, DepthSame DEF HardLimit
  <1>6. ProfileCountsExact'
    BY CountsSame
  <1>7. Shrinks
    <2>1. \A w \in Workers : Outstanding(w) \subseteq Tasks
      BY OutstandingFinite
    <2> QED  BY <1>2, <2>1 DEF Shrinks, Marked
  <1> QED  BY <1>7, <1>3, <1>4, <1>5, <1>6

LEMMA SubmitStep ==
    ASSUME Accounting, NEW t \in Tasks, Submit(t) PROVE Accounting' /\ Shrinks
  <1> USE DEF Accounting
  <1>1. PICK r \in Requests : /\ req' = [req EXCEPT ![t] = r]
                              /\ idx' = [idx EXCEPT ![t] = r.hint]
                              /\ pc' = [pc EXCEPT ![t] = IF r.hint = NoVal THEN "scan" ELSE "reserve"]
    BY DEF Submit
  <1>2. r.hint \in Workers \cup {NoVal}
    BY PoolAssumption
  <1>3. /\ pc \in [Tasks -> PCs] /\ idx \in [Tasks -> Workers \cup {NoVal}]
        /\ req \in [Tasks -> Requests \cup {NoVal}] /\ pc[t] = "idle"
    BY DEF TypeOK, Submit
  <1>4. TypeOK'
    BY <1>1, <1>2, <1>3 DEF Submit, TypeOK, PCs, Reserving, stateVars, loopVars
  <1>5. CallsFormed'
    BY <1>1, <1>2, <1>3 DEF CallsFormed
  <1> QED  BY <1>1, <1>3, <1>4, <1>5, QuietStep DEF Submit, stateVars, loopVars

LEMMA ScanStep ==
    ASSUME Accounting, NEW t \in Tasks, Scan(t) PROVE Accounting' /\ Shrinks
  <1> USE DEF Accounting
  <1>1. PICK b \in Workers \cup {NoVal}, c \in {"queue_full", "reserve"} :
            /\ idx' = [idx EXCEPT ![t] = b]
            /\ pc' = [pc EXCEPT ![t] = c]
            /\ c = "reserve" => b \in Workers
    <2>1. idx \in [Tasks -> Workers \cup {NoVal}]
      BY DEF TypeOK
    <2> QED  BY <2>1 DEF Scan, best_available_worker
  <1>2. /\ pc \in [Tasks -> PCs] /\ idx \in [Tasks -> Workers \cup {NoVal}] /\ pc[t] = "scan"
        /\ UNCHANGED <<req, dispatch_generation, stateVars, loopVars, queue_depth, queue, closed,
                       shutdown, reordered>>
    BY DEF TypeOK, Scan
  <1>3. TypeOK'
    BY <1>1, <1>2 DEF TypeOK, PCs, Reserving, Answers, stateVars, loopVars
  <1>4. CallsFormed'
    BY <1>1, <1>2 DEF CallsFormed
  <1> QED  BY <1>1, <1>2, <1>3, <1>4, QuietStep DEF stateVars, loopVars

LEMMA TryReserveStep ==
    ASSUME Accounting, NEW t \in Tasks, TryReserve(t) PROVE Accounting' /\ Shrinks
  <1> USE DEF Accounting
  <1>1. /\ pc \in [Tasks -> PCs] /\ idx \in [Tasks -> Workers \cup {NoVal}] /\ pc[t] = "reserve"
        /\ queue_depth \in [Workers -> Nat]
        /\ UNCHANGED <<req, idx, dispatch_generation, stateVars, loopVars, queue, closed,
                       shutdown, reordered>>
    BY DEF TypeOK, TryReserve
  <1>2. idx[t] \in Workers /\ idx[t] # NoVal
    BY <1>1, PoolAssumption DEF CallsFormed
  <1>3. CASE queue_depth[idx[t]] < queue_capacity
    <2> DEFINE w == idx[t]
    <2>1. queue_depth' = [queue_depth EXCEPT ![w] = @ + 1] /\ pc' = [pc EXCEPT ![t] = "reserved"]
      BY <1>3 DEF TryReserve
    <2>2. \A v \in Workers : /\ InQueue(v)' = InQueue(v) /\ Executing(v)' = Executing(v)
                             /\ InQueue(v) \subseteq Tasks /\ Executing(v) \subseteq Tasks
                             /\ t \notin InQueue(v) /\ t \notin Executing(v)
      <3>1. \A v \in Workers : /\ InQueue(v)' = InQueue(v) /\ Executing(v)' = Executing(v)
                               /\ InQueue(v) \subseteq Tasks /\ Executing(v) \subseteq Tasks
        BY <1>1, OutstandingFinite DEF InQueue, Executing, Outstanding, loopVars
      <3>2. \A v \in Workers : t \notin InQueue(v) /\ t \notin Executing(v)
        BY <1>1 DEF CommandsPlaced
      <3> QED  BY <3>1, <3>2
    <2>3. t \notin Outstanding(w)
      BY <1>1, <1>2, <2>2 DEF Outstanding
    <2>4. \A v \in Workers : Outstanding(v)' = IF v = w THEN Outstanding(v) \cup {t} ELSE Outstanding(v)
      BY <1>1, <1>2, <2>1, <2>2 DEF Outstanding
    <2>5. DepthIsOutstanding' /\ queue_depth' \in [Workers -> Nat]
      BY <1>2, <2>1, <2>3, <2>4, DepthUp
    <2>6. HardLimit'
      BY <1>1, <1>2, <1>3, <2>1, CapacityAssumption DEF HardLimit
    <2>7. TypeOK'
      BY <1>1, <2>1, <2>5 DEF TypeOK, PCs, stateVars, loopVars
    <2>8. CallsFormed'
      BY <1>1, <1>2, <2>1 DEF CallsFormed
    <2>9. CommandsPlaced'
      BY <1>1, <2>1, <2>2 DEF CommandsPlaced, loopVars
    <2>10. RetiredOnce'
      BY <1>1 DEF RetiredOnce, Elems
    <2>11. ProfileCountsExact'
      BY <1>1, CountsSame DEF stateVars
    <2>12. Shrinks
      BY <1>1, <2>1, <2>4 DEF Shrinks, Marked
    <2> QED  BY <2>12, <2>5, <2>6, <2>7, <2>8, <2>9, <2>10, <2>11
  <1>4. CASE ~(queue_depth[idx[t]] < queue_capacity)
    <2>1. PICK c \in {"scan", "queue_full"} : pc' = [pc EXCEPT ![t] = c] /\ UNCHANGED queue_depth
      BY <1>4 DEF TryReserve
    <2>2. TypeOK'
      BY <1>1, <2>1 DEF TypeOK, PCs, Reserving, Answers, stateVars, loopVars
    <2>3. CallsFormed'
      BY <1>1, <2>1 DEF CallsFormed
    <2> QED  BY <1>1, <2>1, <2>2, <2>3, QuietStep DEF stateVars, loopVars
  <1> QED  BY <1>3, <1>4

LEMMA MarkStep ==
    ASSUME Accounting, NEW t \in Tasks, Mark(t) PROVE Accounting'
  <1> USE DEF Accounting
  <1> DEFINE w == idx[t]
  <1>1. /\ pc \in [Tasks -> PCs] /\ pc[t] = "reserved" /\ pc' = [pc EXCEPT ![t] = "marked"]
        /\ dispatch_generation' = [dispatch_generation EXCEPT ![t] = dispatch_generations[w] + 1]
        /\ mark_loaded(w, req[t].profile)
        /\ UNCHANGED <<req, idx, loopVars, queue_depth, queue, closed, shutdown, reordered>>
    BY DEF TypeOK, Mark
  <1>2. w \in Workers /\ req[t] \in Requests
    BY <1>1 DEF CallsFormed
  <1>3. req[t].profile \in Profiles /\ req[t].source \in Sources \cup {NoVal}
    BY <1>2, PoolAssumption
  <1>4. /\ ProfileCountsExact' /\ profile_counts' \in [Profiles -> Nat]
        /\ loaded' \in [Workers -> Profiles \cup {NoVal}]
        /\ dispatch_generations' \in [Workers -> Nat]
        /\ last_used' \in [Workers -> Nat] /\ now' \in Nat
    BY <1>1, <1>2, <1>3, MarkLoaded
  <1>5. addlayer_source_lru' \in [Workers -> Seq(Sources)]
    <2> DEFINE kept == IF loaded[w] = req[t].profile THEN addlayer_source_lru[w] ELSE <<>>
    <2>1. addlayer_source_lru \in [Workers -> Seq(Sources)]
      BY DEF TypeOK
    <2>2. kept \in Seq(Sources)
      BY <1>2, <2>1, EmptySeq
    <2>3. addlayer_source_lru' = [addlayer_source_lru EXCEPT ![w] =
               IF req[t].source = NoVal THEN kept ELSE mark_addlayer_source(kept, req[t].source)]
      BY DEF Mark
    <2> HIDE DEF kept
    <2>4. req[t].source # NoVal => mark_addlayer_source(kept, req[t].source) \in Seq(Sources)
      BY <1>3, <2>2, MarkSource
    <2> QED  BY <2>1, <2>2, <2>3, <2>4
  <1>6. dispatch_generation' \in [Tasks -> Nat]
    BY <1>1, <1>2 DEF TypeOK
  <1>7. TypeOK'
    BY <1>1, <1>4, <1>5, <1>6 DEF TypeOK, PCs, loopVars
  <1>8. CallsFormed'
    BY <1>1, <1>2 DEF CallsFormed
  <1>9. \A v \in Workers : /\ InQueue(v)' = InQueue(v) /\ Executing(v)' = Executing(v)
                           /\ InQueue(v) \subseteq Tasks /\ Executing(v) \subseteq Tasks
    BY <1>1, OutstandingFinite DEF InQueue, Executing, Outstanding, loopVars
  <1>10. CommandsPlaced'
    BY <1>1, <1>9 DEF CommandsPlaced, loopVars
  <1>11. RetiredOnce'
    BY <1>1 DEF RetiredOnce, Elems
  <1>12. \A v \in Workers : Outstanding(v)' = Outstanding(v)
    BY <1>1, <1>9 DEF Outstanding
  <1>13. DepthIsOutstanding' /\ HardLimit'
    BY <1>1, <1>12, DepthSame DEF HardLimit
  <1> QED  BY <1>4, <1>7, <1>8, <1>10, <1>11, <1>13

LEMMA SendStep ==
    ASSUME Accounting, NEW t \in Tasks, Send(t) PROVE Accounting' /\ Shrinks
  <1> USE DEF Accounting
  <1> DEFINE w == idx[t]
  <1>1. /\ pc \in [Tasks -> PCs] /\ pc[t] = "marked" /\ pc' = [pc EXCEPT ![t] = "sent"]
        /\ queue \in [Workers -> Seq(Tasks \cup {Retire})] /\ ~closed[w]
        /\ queue' = [queue EXCEPT ![w] = Append(@, t)]
        /\ UNCHANGED <<req, idx, dispatch_generation, stateVars, loopVars, queue_depth, closed,
                       shutdown>>
        /\ reordered' \in [Workers -> BOOLEAN]
    BY DEF TypeOK, Send
  <1>2. w \in Workers /\ t # Retire
    BY <1>1, PoolAssumption DEF CallsFormed
  <1>3. \A v \in Workers : /\ InQueue(v) \subseteq Tasks /\ Executing(v) \subseteq Tasks
                           /\ Executing(v)' = Executing(v)
                           /\ InQueue(v) = Elems(queue[v]) \ {Retire}
                           /\ InQueue(v)' = Elems(queue'[v]) \ {Retire}
    BY <1>1, OutstandingFinite DEF InQueue, Executing, Outstanding, loopVars, Elems
  <1>4. \A v \in Workers : t \notin InQueue(v) /\ t \notin Executing(v)
    BY <1>1 DEF CommandsPlaced
  <1>5. /\ queue'[w] \in Seq(Tasks \cup {Retire})
        /\ Elems(queue'[w]) = Elems(queue[w]) \cup {t}
        /\ Injective(queue'[w])
    <2>1. queue[w] \in Seq(Tasks \cup {Retire}) /\ t \in Tasks \cup {Retire}
      BY <1>1, <1>2
    <2>2. Injective(queue[w])
      BY <1>2 DEF CommandsPlaced, Injective
    <2>3. t \notin Elems(queue[w])
      BY <1>2, <1>3, <1>4
    <2>4. queue'[w] = Append(queue[w], t)
      BY <1>1, <1>2
    <2> QED  BY <2>1, <2>2, <2>3, <2>4, AppendElems
  <1>6. \A v \in Workers : v # w => queue'[v] = queue[v]
    BY <1>1
  <1>7. \A v \in Workers : InQueue(v)' = IF v = w THEN InQueue(v) \cup {t} ELSE InQueue(v)
    BY <1>2, <1>3, <1>5, <1>6
  <1>8. queue' \in [Workers -> Seq(Tasks \cup {Retire})]
    BY <1>1, <1>2, <1>5
  <1>9. TypeOK'
    BY <1>1, <1>8 DEF TypeOK, PCs, stateVars, loopVars
  <1>10. CallsFormed'
    BY <1>1, <1>2 DEF CallsFormed
  <1>11. CommandsPlaced'
    <2>1. ASSUME NEW v \in Workers
          PROVE  /\ \A u \in (InQueue(v) \cup Executing(v))' : idx'[u] = v /\ pc'[u] \in {"sent", "cancelled"}
                 /\ running'[v] # NoVal => releasing'[v] = NoVal
                 /\ InQueue(v)' \cap Executing(v)' = {}
      BY <1>1, <1>3, <1>4, <1>7 DEF CommandsPlaced, loopVars
    <2>2. ASSUME NEW v \in Workers PROVE Injective(queue'[v])
      BY <1>5, <1>6 DEF CommandsPlaced, Injective
    <2> QED  BY <2>1, <2>2 DEF CommandsPlaced, Injective
  <1>12. RetiredOnce'
    <2>1. \A v \in Workers : Retire \in Elems(queue'[v]) <=> Retire \in Elems(queue[v])
      BY <1>2, <1>5, <1>6
    <2> QED  BY <1>1, <2>1 DEF RetiredOnce
  <1>13. ASSUME NEW v \in Workers PROVE Outstanding(v)' = Outstanding(v)
    <2>1. CASE v = w
      BY <1>1, <1>2, <1>3, <1>7, <2>1 DEF Outstanding
    <2>2. CASE v # w
      BY <1>1, <1>2, <1>3, <1>7, <2>2 DEF Outstanding
    <2> QED  BY <2>1, <2>2
  <1>14. DepthIsOutstanding' /\ HardLimit'
    BY <1>1, <1>13, DepthSame DEF HardLimit
  <1>15. ProfileCountsExact'
    BY <1>1, CountsSame DEF stateVars
  <1>16. Shrinks
    BY <1>1, <1>13 DEF Shrinks, Marked, Outstanding
  <1> QED  BY <1>16, <1>9, <1>10, <1>11, <1>12, <1>14, <1>15

\* SendFails and CancelBeforeSend: the guard drops where the call holds it.
LEMMA GuardDropped ==
    ASSUME Accounting, NEW t \in Tasks, NEW c \in {"queue_full", "cancelled"},
           pc[t] = "marked", DropCompletion(t), pc' = [pc EXCEPT ![t] = c],
           UNCHANGED <<req, idx, dispatch_generation, loopVars, queue, closed, shutdown, reordered>>
    PROVE  Accounting' /\ Shrinks
  <1> USE DEF Accounting
  <1> DEFINE w == idx[t]
  <1>1. pc \in [Tasks -> PCs] /\ w \in Workers
    BY DEF TypeOK, CallsFormed
  <1>2. /\ ProfileCountsExact' /\ profile_counts' \in [Profiles -> Nat]
        /\ loaded' \in [Workers -> Profiles \cup {NoVal}]
        /\ dispatch_generations' = dispatch_generations
        /\ last_used' \in [Workers -> Nat] /\ now' = now
        /\ addlayer_source_lru' \in [Workers -> Seq(Sources)]
    BY <1>1, ClearLoaded DEF DropCompletion
  <1>3. queue_depth' = [queue_depth EXCEPT ![w] = @ - 1]
    BY DEF DropCompletion
  <1>4. \A v \in Workers : /\ InQueue(v)' = InQueue(v) /\ Executing(v)' = Executing(v)
                           /\ InQueue(v) \subseteq Tasks /\ Executing(v) \subseteq Tasks
    BY OutstandingFinite DEF InQueue, Executing, Outstanding, loopVars
  <1>5. \A v \in Workers : t \notin InQueue(v) /\ t \notin Executing(v)
    BY DEF CommandsPlaced
  <1>6. t \in Outstanding(w)
    BY <1>1 DEF Outstanding
  <1>7. \A v \in Workers : Outstanding(v)' = IF v = w THEN Outstanding(v) \ {t} ELSE Outstanding(v)
    BY <1>1, <1>4, <1>5 DEF Outstanding
  <1>8. DepthIsOutstanding' /\ queue_depth' \in [Workers -> Nat]
    BY <1>1, <1>3, <1>6, <1>7, DepthDown
  <1>9. HardLimit'
    BY <1>1, <1>3, CapacityAssumption DEF HardLimit, TypeOK
  <1>10. TypeOK'
    BY <1>1, <1>2, <1>8 DEF TypeOK, PCs, Answers, loopVars
  <1>11. CallsFormed'
    BY <1>1 DEF CallsFormed
  <1>12. CommandsPlaced'
    BY <1>1, <1>4, <1>5 DEF CommandsPlaced, loopVars
  <1>13. RetiredOnce'
    BY DEF RetiredOnce, Elems
  <1>14. Shrinks
    BY <1>1, <1>7 DEF Shrinks, Marked, Outstanding
  <1> QED  BY <1>14, <1>2, <1>8, <1>9, <1>10, <1>11, <1>12, <1>13

LEMMA CancelAfterSendStep ==
    ASSUME Accounting, NEW t \in Tasks, CancelAfterSend(t) PROVE Accounting' /\ Shrinks
  <1> USE DEF Accounting
  <1>1. /\ pc \in [Tasks -> PCs] /\ pc[t] = "sent" /\ pc' = [pc EXCEPT ![t] = "cancelled"]
        /\ UNCHANGED <<req, idx, dispatch_generation, stateVars, loopVars, queue_depth, queue, closed,
                       shutdown, reordered>>
    BY DEF TypeOK, CancelAfterSend
  <1>2. TypeOK'
    BY <1>1 DEF TypeOK, PCs, Answers, stateVars, loopVars
  <1>3. CallsFormed'
    BY <1>1 DEF CallsFormed
  <1> QED  BY <1>1, <1>2, <1>3, QuietStep DEF stateVars, loopVars

-----------------------------------------------------------------------------
(* Each step of a worker loop keeps the accounting.                        *)

\* Taking the head of a channel.
LEMMA TakeHead ==
    ASSUME TypeOK, CommandsPlaced, NEW w \in Workers, queue[w] # <<>>,
           queue' = [queue EXCEPT ![w] = Tail(@)]
    PROVE  /\ queue' \in [Workers -> Seq(Tasks \cup {Retire})]
           /\ Head(queue[w]) \in Elems(queue[w]) /\ Head(queue[w]) \in Tasks \cup {Retire}
           /\ \A v \in Workers : /\ v # w => queue'[v] = queue[v]
                                 /\ Elems(queue'[v]) = IF v = w THEN Elems(queue[v]) \ {Head(queue[w])}
                                                       ELSE Elems(queue[v])
                                 /\ Injective(queue'[v])
                                 /\ InQueue(v) = Elems(queue[v]) \ {Retire}
                                 /\ InQueue(v)' = Elems(queue'[v]) \ {Retire}
                                 /\ InQueue(v) \subseteq Tasks /\ Executing(v) \subseteq Tasks
  <1>1. queue \in [Workers -> Seq(Tasks \cup {Retire})] /\ queue'[w] = Tail(queue[w])
    BY DEF TypeOK
  <1>2. \A v \in Workers : Injective(queue[v])
    BY DEF CommandsPlaced, Injective
  <1>3. /\ Head(queue[w]) \in Elems(queue[w])
        /\ Tail(queue[w]) \in Seq(Tasks \cup {Retire})
        /\ Elems(Tail(queue[w])) = Elems(queue[w]) \ {Head(queue[w])}
        /\ Injective(Tail(queue[w]))
    BY <1>1, <1>2, TailElems
  <1>4. Head(queue[w]) \in Tasks \cup {Retire}
    BY <1>1, HeadTailProperties
  <1>5. \A v \in Workers : v # w => queue'[v] = queue[v]
    BY <1>1
  <1>6. \A v \in Workers : InQueue(v) \subseteq Tasks /\ Executing(v) \subseteq Tasks
    BY OutstandingFinite DEF Outstanding
  <1>7. \A v \in Workers : InQueue(v) = Elems(queue[v]) \ {Retire} /\ InQueue(v)' = Elems(queue'[v]) \ {Retire}
    BY DEF InQueue, Elems
  <1>8. queue' \in [Workers -> Seq(Tasks \cup {Retire})]
    BY <1>1, <1>3
  <1>9. \A v \in Workers : Injective(queue'[v])
    BY <1>1, <1>2, <1>3, <1>5
  <1>10. \A v \in Workers : Elems(queue'[v]) = IF v = w THEN Elems(queue[v]) \ {Head(queue[w])}
                                               ELSE Elems(queue[v])
    BY <1>1, <1>3, <1>5
  <1> QED  BY <1>3, <1>4, <1>5, <1>6, <1>7, <1>8, <1>9, <1>10

LEMMA RecvStep ==
    ASSUME Accounting, NEW w \in Workers, Recv(w) PROVE Accounting' /\ Shrinks
  <1> USE DEF Accounting
  <1> DEFINE t == Head(queue[w])
  <1>1. /\ queue[w] # <<>> /\ t # Retire /\ running[w] = NoVal /\ releasing[w] = NoVal
        /\ running \in [Workers -> Tasks \cup {NoVal}]
        /\ running' = [running EXCEPT ![w] = t]
        /\ queue' = [queue EXCEPT ![w] = Tail(@)]
        /\ UNCHANGED <<callVars, stateVars, releasing, current_profile, queue_depth, closed, shutdown,
                       reordered>>
    BY DEF Recv, Idle, TypeOK
  <1>2. /\ queue' \in [Workers -> Seq(Tasks \cup {Retire})]
        /\ t \in Elems(queue[w]) /\ t \in Tasks \cup {Retire}
        /\ \A v \in Workers : /\ v # w => queue'[v] = queue[v]
                              /\ Elems(queue'[v]) = IF v = w THEN Elems(queue[v]) \ {t}
                                                    ELSE Elems(queue[v])
                              /\ Injective(queue'[v])
                              /\ InQueue(v) = Elems(queue[v]) \ {Retire}
                              /\ InQueue(v)' = Elems(queue'[v]) \ {Retire}
                              /\ InQueue(v) \subseteq Tasks /\ Executing(v) \subseteq Tasks
    BY <1>1, TakeHead
  <1> HIDE DEF t
  <1>3. t \in Tasks /\ t \in InQueue(w) /\ t # NoVal
    BY <1>1, <1>2, PoolAssumption
  <1>4. \A v \in Workers : /\ InQueue(v)' = IF v = w THEN InQueue(v) \ {t} ELSE InQueue(v)
                           /\ Executing(v)' = IF v = w THEN {t} ELSE Executing(v)
                           /\ (v = w => Executing(v) = {})
    <2>1. \A v \in Workers : InQueue(v)' = IF v = w THEN InQueue(v) \ {t} ELSE InQueue(v)
      BY <1>2
    <2>2. ASSUME NEW v \in Workers
          PROVE  /\ Executing(v)' = IF v = w THEN {t} ELSE Executing(v)
                 /\ (v = w => Executing(v) = {})
      BY <1>1, <1>3 DEF Executing
    <2> QED  BY <2>1, <2>2
  <1>5. TypeOK'
    BY <1>1, <1>2, <1>3 DEF TypeOK, callVars, stateVars
  <1>6. CallsFormed'
    BY <1>1 DEF CallsFormed, callVars
  <1>7. CommandsPlaced'
    <2>1. ASSUME NEW v \in Workers
          PROVE  /\ \A u \in (InQueue(v) \cup Executing(v))' : idx'[u] = v /\ pc'[u] \in {"sent", "cancelled"}
                 /\ running'[v] # NoVal => releasing'[v] = NoVal
                 /\ InQueue(v)' \cap Executing(v)' = {}
      <3>1. CASE v = w
        BY <1>1, <1>3, <1>4, <3>1 DEF CommandsPlaced, callVars
      <3>2. CASE v # w
        BY <1>1, <1>3, <1>4, <3>2 DEF CommandsPlaced, callVars
      <3> QED  BY <3>1, <3>2
    <2> QED  BY <2>1, <1>2 DEF CommandsPlaced, Injective
  <1>8. RetiredOnce'
    <2>1. \A v \in Workers : Retire \in Elems(queue'[v]) <=> Retire \in Elems(queue[v])
      BY <1>1, <1>2
    <2> QED  BY <1>1, <2>1 DEF RetiredOnce
  <1>9. ASSUME NEW v \in Workers PROVE Outstanding(v)' = Outstanding(v)
    <2>1. CASE v = w
      BY <1>1, <1>3, <1>4, <2>1 DEF Outstanding, callVars
    <2>2. CASE v # w
      BY <1>1, <1>4, <2>2 DEF Outstanding, callVars
    <2> QED  BY <2>1, <2>2
  <1>10. DepthIsOutstanding' /\ HardLimit'
    BY <1>1, <1>9, DepthSame DEF HardLimit
  <1>11. ProfileCountsExact'
    BY <1>1, CountsSame DEF stateVars
  <1>12. Shrinks
    BY <1>1, <1>9 DEF Shrinks, Marked, callVars
  <1> QED  BY <1>12, <1>5, <1>6, <1>7, <1>8, <1>10, <1>11

LEMMA RunStagesStep ==
    ASSUME Accounting, NEW w \in Workers, RunStages(w) PROVE Accounting' /\ Shrinks
  <1> USE DEF Accounting
  <1> DEFINE t == running[w]
  <1>1. /\ t # NoVal
        /\ running \in [Workers -> Tasks \cup {NoVal}] /\ releasing \in [Workers -> Tasks \cup {NoVal}]
        /\ running' = [running EXCEPT ![w] = NoVal]
        /\ releasing' = [releasing EXCEPT ![w] = t]
        /\ UNCHANGED <<callVars, queue_depth, queue, closed, shutdown, reordered>>
    BY DEF RunStages, TypeOK
  <1>2. PICK res \in RunResults(current_profile[w], req[t]) :
            /\ current_profile' = [current_profile EXCEPT ![w] = res.current]
            /\ IF res.result = "completed" THEN UNCHANGED stateVars
               ELSE clear_loaded_if_latest(w, dispatch_generation[t])
    BY DEF RunStages
  <1>3. t \in Tasks /\ t \in Executing(w) /\ releasing[w] = NoVal /\ req[t] \in Requests
    <2>1. t \in Tasks /\ t \in Executing(w)
      BY <1>1 DEF Executing
    <2>2. releasing[w] = NoVal /\ pc[t] \in {"sent", "cancelled"}
      BY <1>1, <2>1 DEF CommandsPlaced
    <2> QED  BY <2>1, <2>2 DEF CallsFormed
  <1>4. /\ ProfileCountsExact' /\ profile_counts' \in [Profiles -> Nat]
        /\ loaded' \in [Workers -> Profiles \cup {NoVal}]
        /\ dispatch_generations' = dispatch_generations
        /\ last_used' \in [Workers -> Nat] /\ now' = now
        /\ addlayer_source_lru' \in [Workers -> Seq(Sources)]
    <2>1. CASE res.result = "completed"
      <3>1. UNCHANGED stateVars
        BY <1>2, <2>1
      <3>2. ProfileCountsExact'
        BY <3>1, CountsSame DEF stateVars
      <3> QED  BY <3>1, <3>2 DEF stateVars, TypeOK
    <2>2. CASE res.result # "completed"
      BY <1>2, <2>2, ClearLoaded
    <2> QED  BY <2>1, <2>2
  <1>5. current_profile' \in [Workers -> {StyleKey(r) : r \in Requests} \cup {NoVal}]
    <2>1. current_profile \in [Workers -> {StyleKey(r) : r \in Requests} \cup {NoVal}]
      BY DEF TypeOK
    <2>2. res.current \in {current_profile[w], StyleKey(req[t]), NoVal}
      BY <1>2 DEF RunResults
    <2>3. res.current \in {StyleKey(r) : r \in Requests} \cup {NoVal}
      BY <1>3, <2>1, <2>2
    <2> QED  BY <1>2, <2>1, <2>3
  <1>6. TypeOK'
    BY <1>1, <1>3, <1>4, <1>5 DEF TypeOK, callVars
  <1>7. CallsFormed'
    BY <1>1 DEF CallsFormed, callVars
  <1>8. \A v \in Workers : InQueue(v)' = InQueue(v) /\ Executing(v)' = Executing(v)
    BY <1>1, <1>3 DEF InQueue, Executing
  <1>9. CommandsPlaced'
    BY <1>1, <1>3, <1>8 DEF CommandsPlaced, callVars
  <1>10. RetiredOnce'
    BY <1>1 DEF RetiredOnce, Elems
  <1>11. \A v \in Workers : Outstanding(v)' = Outstanding(v)
    BY <1>1, <1>8 DEF Outstanding, callVars
  <1>12. DepthIsOutstanding' /\ HardLimit'
    BY <1>1, <1>11, DepthSame DEF HardLimit
  <1>13. Shrinks
    BY <1>1, <1>11 DEF Shrinks, Marked, callVars
  <1> QED  BY <1>13, <1>4, <1>6, <1>7, <1>9, <1>10, <1>12

\* Release and DropQueued: the command of t leaves slot w, and its caller is told.
LEMMA CommandGone ==
    ASSUME Accounting, NEW w \in Workers, NEW t \in Tasks, NEW a \in {"outcome", "disconnected"},
           t \in InQueue(w) \cup Executing(w),
           TypeOK', ProfileCountsExact', RetiredOnce', Answer(t, a),
           UNCHANGED <<req, idx>>,
           queue_depth' = [queue_depth EXCEPT ![w] = @ - 1],
           \A v \in Workers :
               /\ InQueue(v)' = IF v = w THEN InQueue(v) \ {t} ELSE InQueue(v)
               /\ Executing(v)' = IF v = w THEN Executing(v) \ {t} ELSE Executing(v)
               /\ running'[v] # NoVal => releasing'[v] = NoVal
               /\ Injective(queue'[v])
    PROVE  Accounting' /\ Shrinks
  <1> USE DEF Accounting
  <1>1. idx[t] = w /\ pc[t] \in {"sent", "cancelled"}
    BY DEF CommandsPlaced
  <1>2. pc' = [pc EXCEPT ![t] = IF pc[t] = "sent" THEN a ELSE pc[t]] /\ pc \in [Tasks -> PCs]
    BY DEF Answer, TypeOK
  <1>3. \A v \in Workers : /\ InQueue(v) \subseteq Tasks /\ Executing(v) \subseteq Tasks
                           /\ (v # w => t \notin InQueue(v) \cup Executing(v))
    BY <1>1, OutstandingFinite DEF Outstanding, CommandsPlaced
  <1>4. CallsFormed'
    BY <1>1, <1>2 DEF CallsFormed
  <1>5. CommandsPlaced'
    <2>1. ASSUME NEW v \in Workers
          PROVE  /\ \A u \in (InQueue(v) \cup Executing(v))' : idx'[u] = v /\ pc'[u] \in {"sent", "cancelled"}
                 /\ InQueue(v)' \cap Executing(v)' = {}
      BY <1>2, <1>3 DEF CommandsPlaced
    <2> QED  BY <2>1 DEF CommandsPlaced, Injective
  <1>6. t \in Outstanding(w)
    BY DEF Outstanding
  <1>7. ASSUME NEW v \in Workers
        PROVE  Outstanding(v)' = IF v = w THEN Outstanding(v) \ {t} ELSE Outstanding(v)
    <2>1. CASE v = w
      BY <1>1, <1>2, <1>3, <2>1 DEF Outstanding
    <2>2. CASE v # w
      BY <1>1, <1>2, <1>3, <2>2 DEF Outstanding
    <2> QED  BY <2>1, <2>2
  <1>8. DepthIsOutstanding'
    BY <1>6, <1>7, DepthDown
  <1>9. HardLimit'
    <2>1. queue_depth \in [Workers -> Nat] /\ queue_capacity \in Nat
      BY CapacityAssumption DEF TypeOK
    <2> QED  BY <2>1 DEF HardLimit
  <1>10. Shrinks
    BY <1>1, <1>2, <1>7 DEF Shrinks, Marked, Outstanding
  <1> QED  BY <1>10, <1>4, <1>5, <1>8, <1>9

LEMMA ReleaseStep ==
    ASSUME Accounting, NEW w \in Workers, Release(w) PROVE Accounting' /\ Shrinks
  <1> USE DEF Accounting
  <1> DEFINE t == releasing[w]
  <1>1. /\ t # NoVal
        /\ running \in [Workers -> Tasks \cup {NoVal}] /\ releasing \in [Workers -> Tasks \cup {NoVal}]
        /\ queue_depth' = [queue_depth EXCEPT ![w] = @ - 1]
        /\ releasing' = [releasing EXCEPT ![w] = NoVal]
        /\ Answer(t, "outcome")
        /\ UNCHANGED <<req, idx, dispatch_generation, stateVars, running, current_profile, queue, closed,
                       shutdown, reordered>>
    BY DEF Release, TypeOK
  <1>2. t \in Tasks /\ t \in Executing(w) /\ t \in Outstanding(w) /\ running[w] = NoVal
    BY <1>1 DEF Executing, CommandsPlaced, Outstanding
  <1>3. t \notin InQueue(w)
    BY <1>2 DEF CommandsPlaced
  <1>4. queue_depth' \in [Workers -> Nat]
    <2>1. queue_depth[w] = Cardinality(Outstanding(w)) /\ IsFiniteSet(Outstanding(w))
      BY OutstandingFinite DEF DepthIsOutstanding
    <2>2. queue_depth[w] # 0
      BY <1>2, <2>1, FS_EmptySet
    <2>3. queue_depth \in [Workers -> Nat]
      BY DEF TypeOK
    <2> QED  BY <1>1, <2>2, <2>3
  <1>5. pc' \in [Tasks -> PCs]
    BY <1>1, <1>2 DEF Answer, TypeOK, PCs, Answers
  <1>6. TypeOK'
    BY <1>1, <1>4, <1>5 DEF TypeOK, stateVars
  <1>7. \A v \in Workers :
               /\ InQueue(v)' = IF v = w THEN InQueue(v) \ {t} ELSE InQueue(v)
               /\ Executing(v)' = IF v = w THEN Executing(v) \ {t} ELSE Executing(v)
               /\ running'[v] # NoVal => releasing'[v] = NoVal
    <2>1. \A v \in Workers : InQueue(v)' = InQueue(v)
      BY <1>1 DEF InQueue
    <2>2. \A v \in Workers : Executing(v)' = IF v = w THEN Executing(v) \ {t} ELSE Executing(v)
      BY <1>1, <1>2 DEF Executing
    <2>3. \A v \in Workers : running'[v] # NoVal => releasing'[v] = NoVal
      BY <1>1, <1>2 DEF CommandsPlaced
    <2> QED  BY <1>3, <2>1, <2>2, <2>3
  <1>8. \A v \in Workers : Injective(queue'[v])
    BY <1>1 DEF CommandsPlaced, Injective
  <1>9. ProfileCountsExact' /\ RetiredOnce'
    <2>1. ProfileCountsExact'
      BY <1>1, CountsSame DEF stateVars
    <2>2. RetiredOnce'
      BY <1>1 DEF RetiredOnce, Elems
    <2> QED  BY <2>1, <2>2
  <1> HIDE DEF t
  <1> QED  BY <1>1, <1>2, <1>6, <1>7, <1>8, <1>9, CommandGone

LEMMA DropQueuedStep ==
    ASSUME Accounting, NEW w \in Workers, DropQueued(w) PROVE Accounting' /\ Shrinks
  <1> USE DEF Accounting
  <1> DEFINE t == Head(queue[w])
  <1>1. /\ closed[w] /\ queue[w] # <<>> /\ DropCompletion(t) /\ Answer(t, "disconnected")
        /\ queue' = [queue EXCEPT ![w] = Tail(@)]
        /\ UNCHANGED <<req, idx, dispatch_generation, loopVars, closed, shutdown, reordered>>
    BY DEF DropQueued
  <1>2. /\ queue' \in [Workers -> Seq(Tasks \cup {Retire})]
        /\ t \in Elems(queue[w]) /\ t \in Tasks \cup {Retire}
        /\ \A v \in Workers : /\ v # w => queue'[v] = queue[v]
                              /\ Elems(queue'[v]) = IF v = w THEN Elems(queue[v]) \ {t}
                                                    ELSE Elems(queue[v])
                              /\ Injective(queue'[v])
                              /\ InQueue(v) = Elems(queue[v]) \ {Retire}
                              /\ InQueue(v)' = Elems(queue'[v]) \ {Retire}
                              /\ InQueue(v) \subseteq Tasks /\ Executing(v) \subseteq Tasks
    BY <1>1, TakeHead
  <1> HIDE DEF t
  <1>3. t # Retire /\ t \in Tasks /\ t \in InQueue(w)
    BY <1>1, <1>2 DEF RetiredOnce
  <1>4. idx[t] = w /\ t \notin Executing(w) /\ t \in Outstanding(w)
    BY <1>3 DEF CommandsPlaced, Outstanding
  <1>5. /\ ProfileCountsExact' /\ profile_counts' \in [Profiles -> Nat]
        /\ loaded' \in [Workers -> Profiles \cup {NoVal}]
        /\ dispatch_generations' = dispatch_generations
        /\ last_used' \in [Workers -> Nat] /\ now' = now
        /\ addlayer_source_lru' \in [Workers -> Seq(Sources)]
        /\ queue_depth' = [queue_depth EXCEPT ![w] = @ - 1]
    BY <1>1, <1>4, ClearLoaded DEF DropCompletion
  <1>6. queue_depth' \in [Workers -> Nat]
    <2>1. queue_depth[w] = Cardinality(Outstanding(w)) /\ IsFiniteSet(Outstanding(w))
      BY OutstandingFinite DEF DepthIsOutstanding
    <2>2. queue_depth[w] # 0
      BY <1>4, <2>1, FS_EmptySet
    <2>3. queue_depth \in [Workers -> Nat]
      BY DEF TypeOK
    <2> QED  BY <1>5, <2>2, <2>3
  <1>7. pc' \in [Tasks -> PCs]
    BY <1>1, <1>3 DEF Answer, TypeOK, PCs, Answers
  <1>8. TypeOK'
    BY <1>1, <1>2, <1>5, <1>6, <1>7 DEF TypeOK, loopVars
  <1>9. \A v \in Workers :
               /\ InQueue(v)' = IF v = w THEN InQueue(v) \ {t} ELSE InQueue(v)
               /\ Executing(v)' = IF v = w THEN Executing(v) \ {t} ELSE Executing(v)
               /\ running'[v] # NoVal => releasing'[v] = NoVal
    <2>1. \A v \in Workers : InQueue(v)' = IF v = w THEN InQueue(v) \ {t} ELSE InQueue(v)
      BY <1>2
    <2>2. \A v \in Workers : Executing(v)' = Executing(v) /\ (running'[v] # NoVal => releasing'[v] = NoVal)
      BY <1>1 DEF Executing, CommandsPlaced, loopVars
    <2> QED  BY <1>4, <2>1, <2>2
  <1>10. RetiredOnce'
    <2>1. \A v \in Workers : Retire \in Elems(queue'[v]) <=> Retire \in Elems(queue[v])
      BY <1>2, <1>3
    <2> QED  BY <1>1, <2>1 DEF RetiredOnce
  <1> QED  BY <1>1, <1>2, <1>3, <1>5, <1>8, <1>9, <1>10, CommandGone

LEMMA ExitLoopStep ==
    ASSUME Accounting, NEW w \in Workers, ExitLoop(w) PROVE Accounting' /\ Shrinks
  <1> USE DEF Accounting
  <1> DEFINE t == Head(queue[w])
  <1>1. /\ queue[w] # <<>> /\ t = Retire /\ closed \in [Workers -> BOOLEAN]
        /\ closed' = [closed EXCEPT ![w] = TRUE]
        /\ queue' = [queue EXCEPT ![w] = Tail(@)]
        /\ UNCHANGED <<callVars, stateVars, loopVars, queue_depth, shutdown, reordered>>
    BY DEF ExitLoop, TypeOK
  <1>2. /\ queue' \in [Workers -> Seq(Tasks \cup {Retire})]
        /\ t \in Elems(queue[w])
        /\ \A v \in Workers : /\ v # w => queue'[v] = queue[v]
                              /\ Elems(queue'[v]) = IF v = w THEN Elems(queue[v]) \ {t}
                                                    ELSE Elems(queue[v])
                              /\ Injective(queue'[v])
                              /\ InQueue(v) = Elems(queue[v]) \ {Retire}
                              /\ InQueue(v)' = Elems(queue'[v]) \ {Retire}
    BY <1>1, TakeHead
  <1> HIDE DEF t
  <1>3. \A v \in Workers : InQueue(v)' = InQueue(v) /\ Executing(v)' = Executing(v)
    <2>1. \A v \in Workers : InQueue(v)' = InQueue(v)
      BY <1>1, <1>2
    <2>2. \A v \in Workers : Executing(v)' = Executing(v)
      BY <1>1 DEF Executing, loopVars
    <2> QED  BY <2>1, <2>2
  <1>4. TypeOK'
    BY <1>1, <1>2 DEF TypeOK, callVars, stateVars, loopVars
  <1>5. CallsFormed'
    BY <1>1 DEF CallsFormed, callVars
  <1>6. CommandsPlaced'
    BY <1>1, <1>2, <1>3 DEF CommandsPlaced, Injective, callVars, loopVars
  <1>7. RetiredOnce'
    BY <1>1, <1>2 DEF RetiredOnce
  <1>8. \A v \in Workers : Outstanding(v)' = Outstanding(v)
    BY <1>1, <1>3 DEF Outstanding, callVars
  <1>9. DepthIsOutstanding' /\ HardLimit'
    BY <1>1, <1>8, DepthSame DEF HardLimit
  <1>10. ProfileCountsExact'
    BY <1>1, CountsSame DEF stateVars
  <1>11. Shrinks
    BY <1>1, <1>8 DEF Shrinks, Marked, callVars
  <1> QED  BY <1>11, <1>4, <1>5, <1>6, <1>7, <1>9, <1>10

-----------------------------------------------------------------------------
(* Each step of shutdown keeps the accounting.                             *)

ShutdownType == [at : {"off", "retiring", "joining", "over"}, k : Workers,
                 expired : BOOLEAN, joined : Nat, timed_out : Nat]

\* A step that only moves the shutdown along.
LEMMA ShutdownMoves ==
    ASSUME Accounting, shutdown' \in ShutdownType,
           UNCHANGED <<callVars, stateVars, loopVars, queue_depth, queue, closed, reordered>>,
           shutdown'.at = "off" => shutdown.at = "off",
           shutdown'.at = "retiring" =>
               shutdown.at = "off" \/ (shutdown.at = "retiring" /\ shutdown'.k = shutdown.k)
    PROVE  Accounting' /\ Shrinks
  <1> USE DEF Accounting
  <1>1. TypeOK'
    BY DEF TypeOK, ShutdownType, callVars, stateVars, loopVars
  <1>2. CallsFormed'
    BY DEF CallsFormed, callVars
  <1>3. \A v \in Workers : InQueue(v)' = InQueue(v) /\ Executing(v)' = Executing(v)
    BY DEF InQueue, Executing, loopVars
  <1>4. CommandsPlaced'
    BY <1>3 DEF CommandsPlaced, callVars, loopVars
  <1>5. RetiredOnce'
    BY DEF RetiredOnce, Elems
  <1>6. \A v \in Workers : Outstanding(v)' = Outstanding(v)
    BY <1>3 DEF Outstanding, callVars
  <1>7. DepthIsOutstanding' /\ HardLimit'
    BY <1>6, DepthSame DEF HardLimit
  <1>8. ProfileCountsExact'
    BY CountsSame DEF stateVars
  <1>9. Shrinks
    BY <1>6 DEF Shrinks, Marked, callVars
  <1> QED  BY <1>9, <1>1, <1>2, <1>4, <1>5, <1>7, <1>8

LEMMA NextSlotType ==
    ASSUME shutdown \in ShutdownType, NEW a \in {"joining", "over"}
    PROVE  /\ NextSlot(a) \in ShutdownType
           /\ NextSlot(a).at \in {shutdown.at, a}
           /\ NextSlot(a).at = shutdown.at /\ shutdown.at # a => NextSlot(a).k = shutdown.k + 1
  <1>1. shutdown.k \in Workers /\ NumWorkers \in Nat /\ 1 \in Workers
    BY PoolAssumption DEF ShutdownType, Workers
  <1>2. CASE shutdown.k < NumWorkers
    <2>1. shutdown.k + 1 \in Workers
      BY <1>1, <1>2 DEF Workers
    <2> QED  BY <1>2, <2>1 DEF NextSlot, ShutdownType
  <1>3. CASE ~(shutdown.k < NumWorkers)
    BY <1>1, <1>3 DEF NextSlot, ShutdownType
  <1> QED  BY <1>2, <1>3

LEMMA SendRetireStep ==
    ASSUME Accounting, SendRetire PROVE Accounting' /\ Shrinks
  <1> USE DEF Accounting
  <1> DEFINE w == shutdown.k
  <1>1. /\ shutdown \in ShutdownType /\ shutdown.at = "retiring"
        /\ queue \in [Workers -> Seq(Tasks \cup {Retire})]
        /\ queue' = [queue EXCEPT ![w] = Append(@, Retire)]
        /\ shutdown' = NextSlot("joining")
        /\ UNCHANGED <<callVars, stateVars, loopVars, queue_depth, closed, reordered>>
    BY DEF SendRetire, TypeOK, ShutdownType
  <1>2. w \in Workers /\ w <= w
    BY <1>1 DEF ShutdownType, Workers
  <1>3. ~closed[w] /\ Retire \notin Elems(queue[w])
    BY <1>1, <1>2 DEF RetiredOnce
  <1>4. /\ queue'[w] \in Seq(Tasks \cup {Retire})
        /\ Elems(queue'[w]) = Elems(queue[w]) \cup {Retire}
        /\ Injective(queue'[w])
    <2>1. queue[w] \in Seq(Tasks \cup {Retire}) /\ Retire \in Tasks \cup {Retire}
      BY <1>1, <1>2
    <2>2. Injective(queue[w])
      BY <1>2 DEF CommandsPlaced, Injective
    <2>3. queue'[w] = Append(queue[w], Retire)
      BY <1>1, <1>2
    <2> QED  BY <1>3, <2>1, <2>2, <2>3, AppendElems
  <1>5. \A v \in Workers : v # w => queue'[v] = queue[v]
    BY <1>1
  <1>6. \A v \in Workers : InQueue(v)' = InQueue(v) /\ Executing(v)' = Executing(v)
    <2>1. \A v \in Workers : InQueue(v) = Elems(queue[v]) \ {Retire} /\ InQueue(v)' = Elems(queue'[v]) \ {Retire}
      BY DEF InQueue, Elems
    <2>2. \A v \in Workers : InQueue(v)' = InQueue(v)
      BY <1>4, <1>5, <2>1
    <2>3. \A v \in Workers : Executing(v)' = Executing(v)
      BY <1>1 DEF Executing, loopVars
    <2> QED  BY <2>2, <2>3
  <1>7. /\ shutdown' \in ShutdownType
        /\ shutdown'.at \in {"retiring", "joining"}
        /\ shutdown'.at = "retiring" => shutdown'.k = w + 1
    BY <1>1, NextSlotType
  <1>8. TypeOK'
    <2>1. queue' \in [Workers -> Seq(Tasks \cup {Retire})]
      BY <1>1, <1>4
    <2> QED  BY <1>1, <1>7, <2>1 DEF TypeOK, ShutdownType, callVars, stateVars, loopVars
  <1>9. CallsFormed'
    BY <1>1 DEF CallsFormed, callVars
  <1>10. CommandsPlaced'
    <2>1. \A v \in Workers : Injective(queue'[v])
      BY <1>4, <1>5 DEF CommandsPlaced, Injective
    <2> QED  BY <1>1, <1>6, <2>1 DEF CommandsPlaced, Injective, callVars, loopVars
  <1>11. RetiredOnce'
    <2>1. ASSUME NEW v \in Workers, closed'[v] PROVE Retire \notin Elems(queue'[v])
      BY <1>1, <1>3, <1>5, <2>1 DEF RetiredOnce
    <2>2. ASSUME NEW v \in Workers, shutdown'.at = "retiring", shutdown'.k <= v
          PROVE  ~closed'[v] /\ Retire \notin Elems(queue'[v])
      <3>1. w <= v /\ v # w
        BY <1>2, <1>7, <2>2 DEF Workers
      <3> QED  BY <1>1, <1>5, <3>1 DEF RetiredOnce
    <2> QED  BY <1>7, <2>1, <2>2 DEF RetiredOnce
  <1>12. \A v \in Workers : Outstanding(v)' = Outstanding(v)
    BY <1>1, <1>6 DEF Outstanding, callVars
  <1>13. DepthIsOutstanding' /\ HardLimit'
    BY <1>1, <1>12, DepthSame DEF HardLimit
  <1>14. ProfileCountsExact'
    BY <1>1, CountsSame DEF stateVars
  <1>15. Shrinks
    BY <1>1, <1>12 DEF Shrinks, Marked, callVars
  <1> QED  BY <1>15, <1>8, <1>9, <1>10, <1>11, <1>13, <1>14

LEMMA ShutdownStep ==
    ASSUME Accounting, Shutdown PROVE Accounting' /\ Shrinks
  <1>1. shutdown \in ShutdownType /\ 1 \in Workers
    BY PoolAssumption DEF Accounting, TypeOK, ShutdownType, Workers
  <1>2. CASE StartShutdown
    <2>1. shutdown' \in ShutdownType
      BY <1>1, <1>2 DEF StartShutdown, ShutdownType
    <2> QED  BY <1>1, <1>2, <2>1, ShutdownMoves DEF StartShutdown, ShutdownType
  <1>3. CASE ShutdownExpires
    <2>1. shutdown' \in ShutdownType
      BY <1>1, <1>3 DEF ShutdownExpires, ShutdownType
    <2> QED  BY <1>1, <1>3, <2>1, ShutdownMoves DEF ShutdownExpires, ShutdownType
  <1>4. CASE SendRetire
    BY <1>4, SendRetireStep
  <1>5. CASE GiveUpRetiring
    <2>1. shutdown' \in ShutdownType /\ shutdown'.at = "joining"
      BY <1>1, <1>5 DEF GiveUpRetiring, ShutdownType
    <2> QED  BY <1>5, <2>1, ShutdownMoves DEF GiveUpRetiring
  <1>6. CASE Join \/ Detach
    <2>1. NextSlot("over") \in ShutdownType /\ NextSlot("over").at \in {"joining", "over"}
      BY <1>1, <1>6, NextSlotType DEF Join, Detach
    <2>2. \/ shutdown' = [NextSlot("over") EXCEPT !.joined = @ + 1]
          \/ shutdown' = [NextSlot("over") EXCEPT !.timed_out = @ + 1]
      BY <1>6 DEF Join, Detach
    <2>3. shutdown' \in ShutdownType /\ shutdown'.at \in {"joining", "over"}
      BY <2>1, <2>2 DEF ShutdownType
    <2>4. UNCHANGED <<callVars, stateVars, loopVars, queue_depth, queue, closed, reordered>>
      BY <1>6 DEF Join, Detach
    <2> QED  BY <2>3, <2>4, ShutdownMoves
  <1> QED  BY <1>2, <1>3, <1>4, <1>5, <1>6 DEF Shutdown

-----------------------------------------------------------------------------
LEMMA AccountingInit == Init => Accounting
  <1> SUFFICES ASSUME Init PROVE Accounting
    OBVIOUS
  <1>1. 1 \in Workers /\ 0 <= queue_capacity
    BY PoolAssumption, CapacityAssumption DEF Workers
  <1>2. TypeOK
    BY <1>1, EmptySeq DEF Init, TypeOK, PCs
  <1>3. \A w \in Workers : queue[w] = <<>> /\ DOMAIN queue[w] = {}
    BY DEF Init
  <1>4. \A w \in Workers : InQueue(w) = {} /\ Executing(w) = {} /\ Elems(queue[w]) = {}
    BY <1>3 DEF Init, InQueue, Executing, Elems
  <1>5. \A w \in Workers : Outstanding(w) = {}
    BY <1>4 DEF Init, Outstanding
  <1>6. DepthIsOutstanding /\ HardLimit
    BY <1>1, <1>5, FS_EmptySet DEF Init, DepthIsOutstanding, HardLimit
  <1>7. ProfileCountsExact
    <2>1. \A p \in Profiles : {w \in Workers : loaded[w] = p} = {}
      BY PoolAssumption DEF Init
    <2> QED  BY <2>1, FS_EmptySet DEF Init, ProfileCountsExact
  <1>8. CallsFormed /\ CommandsPlaced /\ RetiredOnce
    BY <1>3, <1>4 DEF Init, CallsFormed, CommandsPlaced, RetiredOnce
  <1> QED  BY <1>2, <1>6, <1>7, <1>8 DEF Accounting

\* Every step but Mark.
NextButMark == \/ \E t \in Tasks : \/ Submit(t) \/ Scan(t) \/ TryReserve(t) \/ Send(t) \/ SendFails(t)
                                  \/ Cancel(t)
               \/ \E w \in Workers : Loop(w)
               \/ Shutdown
               \/ UNCHANGED vars

LEMMA AccountingNextButMark ==
    ASSUME Accounting, NextButMark PROVE Accounting' /\ Shrinks
  <1>1. ASSUME NEW t \in Tasks,
               Submit(t) \/ Scan(t) \/ TryReserve(t) \/ Send(t) \/ SendFails(t) \/ Cancel(t)
        PROVE  Accounting' /\ Shrinks
    <2>1. CASE SendFails(t)
      BY <2>1, GuardDropped DEF SendFails
    <2>2. CASE CancelBeforeSend(t)
      BY <2>2, GuardDropped DEF CancelBeforeSend
    <2> QED  BY <1>1, <2>1, <2>2, SubmitStep, ScanStep, TryReserveStep, SendStep,
                CancelAfterSendStep DEF Cancel
  <1>2. ASSUME NEW w \in Workers, Loop(w) PROVE Accounting' /\ Shrinks
    BY <1>2, RecvStep, RunStagesStep, ReleaseStep, ExitLoopStep, DropQueuedStep DEF Loop
  <1>3. CASE Shutdown
    BY <1>3, ShutdownStep
  <1>4. CASE UNCHANGED vars
    <2>1. UNCHANGED <<callVars, stateVars, loopVars, queue_depth, queue, closed, shutdown, reordered>>
      BY <1>4 DEF vars
    <2>2. TypeOK' /\ CallsFormed'
      BY <2>1 DEF Accounting, TypeOK, CallsFormed, callVars, stateVars, loopVars
    <2> QED  BY <2>1, <2>2, QuietStep DEF callVars, stateVars, loopVars
  <1> QED  BY <1>1, <1>2, <1>3, <1>4 DEF NextButMark

LEMMA NextSplit ==
    ASSUME [Next]_vars PROVE NextButMark \/ \E t \in Tasks : Mark(t)
  BY DEF Next, NextButMark, Process
LEMMA AccountingNext == Accounting /\ [Next]_vars => Accounting'
  BY NextSplit, AccountingNextButMark, MarkStep

\* The admission counters are exact, no slot is overcommitted and the style counts are
\* exact, in every reachable state of every pool.
THEOREM AccountingInvariant == Spec => []Accounting
  BY AccountingInit, AccountingNext, PTL DEF Spec

\* The type invariant.
THEOREM TypeCorrect == Spec => []TypeOK
  BY AccountingInvariant, PTL DEF Accounting

\* The admission counter of every slot is the number of outstanding reservations.
THEOREM DepthExact == Spec => []DepthIsOutstanding
  BY AccountingInvariant, PTL DEF Accounting

\* profile_counts counts the slots predicted to hold each style.
THEOREM CountsExact == Spec => []ProfileCountsExact
  BY AccountingInvariant, PTL DEF Accounting

\* No slot has more outstanding work than its hard limit.
THEOREM NoOvercommit == Spec => []WithinHardLimit
  <1>1. Accounting => WithinHardLimit
    BY DEF Accounting, DepthIsOutstanding, HardLimit, WithinHardLimit
  <1> QED  BY <1>1, AccountingInvariant, PTL

\* A channel without repetitions is no longer than the set of its entries.
LEMMA ChannelBound ==
    ASSUME Accounting, NEW w \in Workers
    PROVE  Len(queue[w]) <= queue_capacity + 1
  <1> USE DEF Accounting
  <1> DEFINE q == queue[w]
             n == Len(q)
  <1>1. q \in Seq(Tasks \cup {Retire}) /\ n \in Nat /\ DOMAIN q = 1..n
    BY LenProperties DEF TypeOK
  <1>2. Elems(q) \subseteq Outstanding(w) \cup {Retire}
    BY DEF Outstanding, InQueue, Elems
  <1>3. /\ IsFiniteSet(Outstanding(w) \cup {Retire})
        /\ Cardinality(Outstanding(w) \cup {Retire}) <= queue_capacity + 1
    <2>1. /\ IsFiniteSet(Outstanding(w)) /\ Cardinality(Outstanding(w)) \in Nat
          /\ Cardinality(Outstanding(w)) <= queue_capacity
      BY OutstandingFinite DEF DepthIsOutstanding, HardLimit
    <2>2. /\ IsFiniteSet(Outstanding(w) \cup {Retire})
          /\ Cardinality(Outstanding(w) \cup {Retire})
                = IF Retire \in Outstanding(w) THEN Cardinality(Outstanding(w))
                  ELSE Cardinality(Outstanding(w)) + 1
      BY <2>1, FS_AddElement
    <2> QED  BY <2>1, <2>2, CapacityAssumption
  <1>4. q \in [1..n -> Outstanding(w) \cup {Retire}]
    BY <1>1, <1>2 DEF Elems
  <1>5. IsInjective(q)
    BY DEF CommandsPlaced, IsInjective
  <1>6. q \in Injection(1..n, Outstanding(w) \cup {Retire})
    BY <1>4, <1>5 DEF Injection
  <1>7. IsFiniteSet(1..n) /\ Cardinality(1..n) = n
    BY <1>1, FS_Interval
  <1> HIDE DEF n
  <1>8. n <= Cardinality(Outstanding(w) \cup {Retire})
    BY <1>3, <1>6, <1>7, FS_Injection
  <1>9. Cardinality(Outstanding(w) \cup {Retire}) \in Nat
    BY <1>3, FS_CardinalityType
  <1> QED  BY <1>1, <1>3, <1>8, <1>9, CapacityAssumption

\* The sends of process() and shutdown() find room in the channel.
THEOREM ChannelNeverFull == Spec => []SendNeverBlocks
  <1>1. Accounting => SendNeverBlocks
    BY ChannelBound DEF SendNeverBlocks
  <1> QED  BY <1>1, AccountingInvariant, PTL

-----------------------------------------------------------------------------
(* The last dispatch to a slot determines its prediction.                  *)

Predictions == GenerationsDistinct /\ LatestPredictionStands

\* A step under which every remaining dispatch that is the latest of its slot, and not yet
\* over, finds its generation and the prediction as they were.
LEMMA PredictionsKept ==
    ASSUME Predictions, Shrinks,
           UNCHANGED dispatch_generations,
           \A w \in Workers : \A t \in Marked(w)' :
               dispatch_generation'[t] = dispatch_generation[t] /\ req'[t] = req[t],
           \A w \in Workers : \A t \in Marked(w)' :
               releasing'[w] # t /\ dispatch_generation[t] = dispatch_generations[w]
                   => releasing[w] # t /\ loaded'[w] = loaded[w]
    PROVE  Predictions'
  <1> USE DEF Predictions
  <1>1. GenerationsDistinct'
    BY DEF GenerationsDistinct, Shrinks
  <1>2. LatestPredictionStands'
    BY DEF LatestPredictionStands, Shrinks, Marked
  <1> QED  BY <1>1, <1>2

LEMMA MarkPredicts ==
    ASSUME Accounting, Predictions, NEW t \in Tasks, Mark(t) PROVE Predictions'
  <1> USE DEF Accounting, Predictions
  <1> DEFINE w == idx[t]
  <1>1. /\ pc \in [Tasks -> PCs] /\ pc[t] = "reserved" /\ pc' = [pc EXCEPT ![t] = "marked"]
        /\ dispatch_generation \in [Tasks -> Nat]
        /\ dispatch_generation' = [dispatch_generation EXCEPT ![t] = dispatch_generations[w] + 1]
        /\ dispatch_generations \in [Workers -> Nat]
        /\ loaded \in [Workers -> Profiles \cup {NoVal}]
        /\ dispatch_generations' = [dispatch_generations EXCEPT ![w] = @ + 1]
        /\ loaded' = [loaded EXCEPT ![w] = req[t].profile]
        /\ UNCHANGED <<req, idx, loopVars, queue_depth, queue, closed, shutdown, reordered>>
    BY DEF TypeOK, Mark, mark_loaded
  <1>2. w \in Workers
    BY <1>1 DEF CallsFormed
  <1>3. \A v \in Workers : /\ InQueue(v)' = InQueue(v) /\ Executing(v)' = Executing(v)
                           /\ t \notin InQueue(v) /\ t \notin Executing(v)
                           /\ Outstanding(v) \subseteq Tasks
    <2>1. \A v \in Workers : InQueue(v)' = InQueue(v) /\ Executing(v)' = Executing(v)
      BY <1>1 DEF InQueue, Executing, loopVars
    <2>2. \A v \in Workers : t \notin InQueue(v) /\ t \notin Executing(v)
      BY <1>1 DEF CommandsPlaced
    <2> QED  BY <2>1, <2>2, OutstandingFinite
  <1>4. \A v \in Workers : Outstanding(v)' = Outstanding(v)
    BY <1>1, <1>3 DEF Outstanding
  <1>5. \A v \in Workers : v # w => t \notin Outstanding(v)
    BY <1>3 DEF Outstanding
  <1>6. ASSUME NEW v \in Workers
        PROVE  /\ Marked(v)' \subseteq Marked(v) \cup {t}
               /\ (v # w => t \notin Marked(v)')
               /\ t \notin Marked(v)
    <2>1. \A u \in Outstanding(v) : u # t => pc'[u] = pc[u]
      BY <1>1, <1>3
    <2>2. Marked(v)' = {u \in Outstanding(v) : pc'[u] # "reserved"}
      BY <1>4 DEF Marked
    <2> QED  BY <1>1, <1>5, <2>1, <2>2 DEF Marked
  <1>7. ASSUME NEW v \in Workers, NEW u \in Marked(v)', u # t
        PROVE  /\ u \in Marked(v) /\ u \in Tasks /\ dispatch_generation'[u] = dispatch_generation[u]
               /\ dispatch_generation[u] <= dispatch_generations[v]
               /\ dispatch_generation[u] \in Nat
               /\ v = w => dispatch_generation'[u] < dispatch_generations'[v]
    <2>1. u \in Marked(v) /\ u \in Tasks
      BY <1>3, <1>6, <1>7 DEF Marked
    <2>2. dispatch_generation[u] <= dispatch_generations[v] /\ dispatch_generation[u] \in Nat
      BY <1>1, <2>1 DEF GenerationsDistinct
    <2> QED  BY <1>1, <1>2, <1>7, <2>1, <2>2
  <1>8. dispatch_generation'[t] = dispatch_generations'[w]
    BY <1>1, <1>2
  <1>9. ASSUME NEW v \in Workers
        PROVE  /\ \A u \in Marked(v)' : dispatch_generation'[u] <= dispatch_generations'[v]
               /\ \A u, x \in Marked(v)' : dispatch_generation'[u] = dispatch_generation'[x] => u = x
    <2>1. CASE v = w
      <3>1. \A u \in Marked(v)' : u # t => dispatch_generation'[u] < dispatch_generations'[v]
        BY <1>7, <2>1
      <3>2. \A u, x \in Marked(v)' : u # t /\ x # t /\ dispatch_generation'[u] = dispatch_generation'[x] => u = x
        BY <1>7 DEF GenerationsDistinct
      <3>3. dispatch_generations'[v] \in Nat /\ \A u \in Marked(v)' : dispatch_generation'[u] \in Nat
        BY <1>1, <1>2, <1>7, <1>8, <2>1
      <3> QED  BY <1>8, <2>1, <3>1, <3>2, <3>3
    <2>2. CASE v # w
      <3>1. \A u \in Marked(v)' : u # t
        BY <1>6, <2>2
      <3>2. dispatch_generations'[v] = dispatch_generations[v]
        BY <1>1, <2>2
      <3> QED  BY <1>7, <3>1, <3>2 DEF GenerationsDistinct
    <2> QED  BY <2>1, <2>2
  <1>10. GenerationsDistinct'
    BY <1>9 DEF GenerationsDistinct
  <1>11. ASSUME NEW v \in Workers, NEW u \in Marked(v)', releasing'[v] # u,
                dispatch_generation'[u] = dispatch_generations'[v]
         PROVE  loaded'[v] = req'[u].profile
    <2>1. CASE v = w
      <3>1. u = t
        BY <1>1, <1>2, <1>7, <1>11, <2>1
      <3> QED  BY <1>1, <1>2, <2>1, <3>1
    <2>2. CASE v # w
      <3>1. u # t
        BY <1>6, <2>2
      <3>2. /\ u \in Marked(v) /\ releasing[v] # u /\ req'[u] = req[u] /\ loaded'[v] = loaded[v]
            /\ dispatch_generation[u] = dispatch_generations[v]
        BY <1>1, <1>7, <1>11, <2>2, <3>1 DEF loopVars
      <3> QED  BY <3>2 DEF LatestPredictionStands, Marked
    <2> QED  BY <2>1, <2>2
  <1>12. LatestPredictionStands'
    BY <1>11 DEF LatestPredictionStands, Marked
  <1> QED  BY <1>10, <1>12

\* A guard that withdraws its prediction does so only as the latest dispatch to its slot.
LEMMA WithdrawnByLatest ==
    ASSUME Accounting, Predictions, Shrinks, NEW w \in Workers, NEW t \in Marked(w),
           clear_loaded_if_latest(w, dispatch_generation[t]) \/ UNCHANGED stateVars,
           UNCHANGED <<req, dispatch_generation>>,
           \A v \in Workers : \A u \in Marked(v)' :
               releasing'[v] # u => releasing[v] # u /\ (v = w => u # t)
    PROVE  Predictions'
  <1> USE DEF Accounting
  <1>1. /\ UNCHANGED dispatch_generations
        /\ \A v \in Workers : (v # w \/ dispatch_generations[v] # dispatch_generation[t])
                                => loaded'[v] = loaded[v]
    <2>1. CASE clear_loaded_if_latest(w, dispatch_generation[t])
      BY <2>1, ClearLoaded
    <2>2. CASE UNCHANGED stateVars
      BY <2>2 DEF stateVars
    <2> QED  BY <2>1, <2>2
  <1>2. ASSUME NEW v \in Workers, NEW u \in Marked(v)', releasing'[v] # u,
               dispatch_generation[u] = dispatch_generations[v]
        PROVE  releasing[v] # u /\ loaded'[v] = loaded[v]
    <2>1. CASE v = w
      <3>1. u \in Marked(w) /\ u # t
        BY <1>2, <2>1 DEF Shrinks
      <3>2. dispatch_generation[u] # dispatch_generation[t]
        BY <3>1 DEF Predictions, GenerationsDistinct
      <3> QED  BY <1>1, <1>2, <2>1, <3>2
    <2>2. CASE v # w
      BY <1>1, <1>2, <2>2
    <2> QED  BY <2>1, <2>2
  <1> QED  BY <1>1, <1>2, PredictionsKept

\* A step that leaves the predictions and the guards being released alone.
LEMMA PredictionsUntouched ==
    ASSUME Predictions, Shrinks, UNCHANGED <<dispatch_generations, loaded, dispatch_generation, releasing>>,
           \A w \in Workers : \A t \in Marked(w) : req'[t] = req[t]
    PROVE  Predictions'
  <1>1. \A w \in Workers : \A t \in Marked(w)' : t \in Marked(w)
    BY DEF Shrinks
  <1> QED  BY <1>1, PredictionsKept

LEMMA PredictionsNext == Accounting /\ Predictions /\ [Next]_vars => Predictions'
  <1> SUFFICES ASSUME Accounting, Predictions, [Next]_vars PROVE Predictions'
    OBVIOUS
  <1>1. CASE \E t \in Tasks : Mark(t)
    BY <1>1, MarkPredicts
  <1>2. CASE NextButMark
    <2>1. Shrinks
      BY <1>2, AccountingNextButMark
    <2>2. ASSUME NEW t \in Tasks, Submit(t) PROVE Predictions'
      <3>1. \A w \in Workers : t \notin Marked(w)
        <4>1. pc[t] = "idle"
          BY <2>2 DEF Submit
        <4>2. \A w \in Workers : t \notin Outstanding(w)
          BY <4>1 DEF Accounting, CommandsPlaced, Outstanding
        <4> QED  BY <4>2 DEF Marked
      <3>2. \A u \in Tasks : u # t => req'[u] = req[u]
        BY <2>2 DEF Submit, Accounting, TypeOK
      <3>3. \A w \in Workers : \A u \in Marked(w) : u \in Tasks
        BY OutstandingFinite DEF Accounting, Marked
      <3> QED  BY <2>1, <2>2, <3>1, <3>2, <3>3, PredictionsUntouched DEF Submit, stateVars, loopVars
    <2>3. ASSUME NEW t \in Tasks, Scan(t) \/ TryReserve(t) \/ Send(t) \/ CancelAfterSend(t)
          PROVE  Predictions'
      <3>1. UNCHANGED <<dispatch_generations, loaded, dispatch_generation, releasing, req>>
        BY <2>3 DEF Scan, TryReserve, Send, CancelAfterSend, stateVars, loopVars
      <3> QED  BY <2>1, <3>1, PredictionsUntouched
    <2>4. ASSUME NEW t \in Tasks, SendFails(t) \/ CancelBeforeSend(t) PROVE Predictions'
      <3> DEFINE w == idx[t]
      <3>1. /\ pc[t] = "marked" /\ pc'[t] \in {"queue_full", "cancelled"}
            /\ clear_loaded_if_latest(w, dispatch_generation[t])
            /\ UNCHANGED <<req, dispatch_generation, releasing, running, queue>>
        BY <2>4 DEF SendFails, CancelBeforeSend, DropCompletion, loopVars, Accounting, TypeOK
      <3>2. w \in Workers /\ t \in Marked(w)
        BY <3>1 DEF Accounting, CallsFormed, Marked, Outstanding
      <3>3. \A v \in Workers : t \notin Marked(v)'
        <4>1. \A v \in Workers : t \notin InQueue(v) \cup Executing(v)
          BY <3>1 DEF Accounting, CommandsPlaced
        <4>2. \A v \in Workers : InQueue(v)' = InQueue(v) /\ Executing(v)' = Executing(v)
          BY <3>1 DEF InQueue, Executing
        <4> QED  BY <3>1, <4>1, <4>2 DEF Marked, Outstanding
      <3> QED  BY <2>1, <3>1, <3>2, <3>3, WithdrawnByLatest
    <2>5. ASSUME NEW w \in Workers, Recv(w) \/ ExitLoop(w) PROVE Predictions'
      <3>1. UNCHANGED <<dispatch_generations, loaded, dispatch_generation, releasing, req>>
        BY <2>5 DEF Recv, ExitLoop, callVars, stateVars, loopVars
      <3> QED  BY <2>1, <3>1, PredictionsUntouched
    <2>6. ASSUME NEW w \in Workers, RunStages(w) PROVE Predictions'
      <3> DEFINE t == running[w]
      <3>1. /\ t # NoVal
            /\ clear_loaded_if_latest(w, dispatch_generation[t]) \/ UNCHANGED stateVars
            /\ UNCHANGED <<req, dispatch_generation>>
            /\ releasing' = [releasing EXCEPT ![w] = t]
            /\ releasing \in [Workers -> Tasks \cup {NoVal}] /\ running \in [Workers -> Tasks \cup {NoVal}]
        BY <2>6 DEF RunStages, callVars, Accounting, TypeOK
      <3>2. t \in Executing(w) /\ t \in Tasks
        BY <3>1 DEF Executing
      <3>3. releasing[w] = NoVal /\ pc[t] \in {"sent", "cancelled"}
        BY <3>1, <3>2 DEF Accounting, CommandsPlaced
      <3>4. t \in Marked(w)
        BY <3>2, <3>3 DEF Marked, Outstanding
      <3>5. \A v \in Workers : \A u \in Marked(v)' : u \in Tasks /\ u # NoVal
        BY <2>1, OutstandingFinite, PoolAssumption DEF Accounting, Marked, Shrinks
      <3> HIDE DEF t
      <3>6. ASSUME NEW v \in Workers, NEW u \in Marked(v)', releasing'[v] # u
            PROVE  releasing[v] # u /\ (v = w => u # t)
        BY <3>1, <3>3, <3>5, <3>6
      <3> QED  BY <2>1, <3>1, <3>4, <3>6, WithdrawnByLatest
    <2>7. ASSUME NEW w \in Workers, Release(w) PROVE Predictions'
      <3> DEFINE t == releasing[w]
      <3>1. /\ t # NoVal /\ UNCHANGED <<req, dispatch_generation, dispatch_generations, loaded, running, queue, idx>>
            /\ releasing' = [releasing EXCEPT ![w] = NoVal]
            /\ releasing \in [Workers -> Tasks \cup {NoVal}] /\ running \in [Workers -> Tasks \cup {NoVal}]
            /\ Answer(t, "outcome")
        BY <2>7 DEF Release, stateVars, Accounting, TypeOK
      <3>2. t \in Executing(w) /\ t \in Tasks /\ running[w] # t
        BY <3>1 DEF Executing, Accounting, CommandsPlaced
      <3>3. t \notin InQueue(w) /\ pc[t] \in {"sent", "cancelled"}
        BY <3>2 DEF Accounting, CommandsPlaced
      <3>4. pc'[t] \notin {"reserved", "marked"}
        BY <3>1, <3>2, <3>3 DEF Answer, Accounting, TypeOK
      <3>5. InQueue(w)' = InQueue(w) /\ t \notin Executing(w)'
        BY <3>1, <3>2 DEF InQueue, Executing
      <3>6. t \notin Marked(w)'
        BY <3>3, <3>4, <3>5 DEF Marked, Outstanding
      <3>7. ASSUME NEW v \in Workers, NEW u \in Marked(v)', releasing'[v] # u
            PROVE  releasing[v] # u /\ loaded'[v] = loaded[v]
        BY <3>1, <3>6, <3>7
      <3> QED  BY <2>1, <3>1, <3>7, PredictionsKept
    <2>8. ASSUME NEW w \in Workers, DropQueued(w) PROVE Predictions'
      <3> DEFINE t == Head(queue[w])
      <3>1. /\ closed[w] /\ queue[w] # <<>> /\ DropCompletion(t) /\ Answer(t, "disconnected")
            /\ queue' = [queue EXCEPT ![w] = Tail(@)]
            /\ UNCHANGED <<req, idx, dispatch_generation, running, releasing>>
        BY <2>8 DEF DropQueued, loopVars
      <3>2. /\ t \in Elems(queue[w]) /\ t \in Tasks \cup {Retire}
            /\ InQueue(w) = Elems(queue[w]) \ {Retire}
            /\ InQueue(w)' = Elems(queue'[w]) \ {Retire}
            /\ Elems(queue'[w]) = Elems(queue[w]) \ {t}
        BY <3>1, TakeHead DEF Accounting
      <3> HIDE DEF t
      <3>3. t \in Tasks /\ t \in InQueue(w)
        BY <3>1, <3>2 DEF RetiredOnce, Accounting
      <3>4. idx[t] = w /\ t \notin Executing(w) /\ pc[t] \in {"sent", "cancelled"}
        BY <3>3 DEF Accounting, CommandsPlaced
      <3>5. t \in Marked(w)
        BY <3>3, <3>4 DEF Marked, Outstanding
      <3>6. clear_loaded_if_latest(w, dispatch_generation[t])
        BY <3>1, <3>4 DEF DropCompletion
      <3>7. pc'[t] \notin {"reserved", "marked"}
        BY <3>1, <3>3, <3>4 DEF Answer, Accounting, TypeOK
      <3>8. t \notin Executing(w)' /\ t \notin InQueue(w)'
        BY <3>1, <3>2, <3>4 DEF Executing
      <3>9. t \notin Marked(w)'
        BY <3>7, <3>8 DEF Marked, Outstanding
      <3> QED  BY <2>1, <3>1, <3>5, <3>6, <3>9, WithdrawnByLatest
    <2>9. ASSUME Shutdown \/ UNCHANGED vars PROVE Predictions'
      <3>1. UNCHANGED <<dispatch_generations, loaded, dispatch_generation, releasing, req>>
        BY <2>9 DEF Shutdown, StartShutdown, ShutdownExpires, SendRetire, GiveUpRetiring, Join, Detach,
                    vars, callVars, stateVars, loopVars
      <3> QED  BY <2>1, <3>1, PredictionsUntouched
    <2> QED  BY <1>2, <2>2, <2>3, <2>4, <2>5, <2>6, <2>7, <2>8, <2>9 DEF NextButMark, Cancel, Loop
  <1> QED  BY <1>1, <1>2, NextSplit

LEMMA PredictionsInit == Init => Predictions
  <1> SUFFICES ASSUME Init PROVE Predictions
    OBVIOUS
  <1>1. \A w \in Workers : queue[w] = <<>> /\ DOMAIN queue[w] = {}
    BY DEF Init
  <1>2. \A w \in Workers : InQueue(w) = {} /\ Executing(w) = {}
    BY <1>1 DEF Init, InQueue, Executing
  <1>3. \A w \in Workers : Outstanding(w) = {}
    BY <1>2 DEF Init, Outstanding
  <1> QED  BY <1>3 DEF Predictions, GenerationsDistinct, LatestPredictionStands, Marked

\* No earlier command that fails, is rejected or is dropped late withdraws the prediction
\* of a later dispatch to the same slot.
THEOREM LatestStands == Spec => []LatestPredictionStands
  <1>1. Init => Accounting /\ Predictions
    BY AccountingInit, PredictionsInit
  <1>2. Accounting /\ Predictions /\ [Next]_vars => (Accounting /\ Predictions)'
    BY AccountingNext, PredictionsNext
  <1>3. Accounting /\ Predictions => LatestPredictionStands
    BY DEF Predictions
  <1> QED  BY <1>1, <1>2, <1>3, PTL DEF Spec

\* Admission is exact for any number of calls, slots and places: the counter is the work that
\* remains, within the hard limit, and no send ever waits for a place.
THEOREM AdmissionCorrect == Spec => []AdmissionExact
  BY DepthExact, NoOvercommit, ChannelNeverFull, PTL DEF AdmissionExact

\* The record of warm styles survives every interleaving of dispatches and withdrawals.
THEOREM PredictionsCorrect == Spec => []PredictionsSound
  BY LatestStands, CountsExact, PTL DEF PredictionsSound

-----------------------------------------------------------------------------
(* A completed shutdown has left no command behind.                        *)

\* A loop that has ended executes nothing, and the slots that a shutdown without a detached
\* worker has passed over have ended with an empty channel.
Joined ==
    /\ \A w \in Workers : closed[w] => Executing(w) = {}
    /\ shutdown.timed_out = 0 /\ shutdown.at = "joining" =>
           \A w \in Workers : w < shutdown.k => Exited(w)
    /\ is_complete => \A w \in Workers : Exited(w)

\* A worker whose task has ended stays that way: its slot takes no command any more.
ExitsStand ==
    /\ \A w \in Workers : Exited(w) => Exited(w)'
    /\ \A w \in Workers : closed'[w] => Executing(w)' = {}

LEMMA JoinedKept ==
    ASSUME Joined, ExitsStand, UNCHANGED shutdown PROVE Joined'
  BY DEF Joined, ExitsStand, is_complete

\* Steps that touch no channel, no loop and no command under execution.
LEMMA ExitsUntouched ==
    ASSUME Joined, UNCHANGED <<queue, closed, running, releasing>> PROVE ExitsStand
  BY DEF Joined, ExitsStand, Exited, Executing

\* Only a send puts a command into a channel, and an ended loop has closed it.
LEMMA ExitsNext ==
    ASSUME Accounting, Joined, [Next]_vars PROVE ExitsStand
  <1> USE DEF Accounting
  <1>1. ASSUME NEW t \in Tasks,
               \/ Submit(t) \/ Scan(t) \/ TryReserve(t) \/ Mark(t) \/ SendFails(t)
               \/ CancelBeforeSend(t) \/ CancelAfterSend(t)
        PROVE  ExitsStand
    <2>1. UNCHANGED <<queue, closed, running, releasing>>
      BY <1>1 DEF Submit, Scan, TryReserve, Mark, SendFails, CancelBeforeSend, CancelAfterSend, loopVars
    <2> QED  BY <2>1, ExitsUntouched
  <1>2. ASSUME NEW t \in Tasks, Send(t) PROVE ExitsStand
    <2>1. /\ ~closed[idx[t]] /\ queue' = [queue EXCEPT ![idx[t]] = Append(@, t)]
          /\ UNCHANGED <<closed, running, releasing>>
      BY <1>2 DEF Send, loopVars
    <2>2. queue \in [Workers -> Seq(Tasks \cup {Retire})]
      BY DEF TypeOK
    <2>3. \A w \in Workers : closed[w] => queue'[w] = queue[w]
      BY <2>1, <2>2
    <2> QED  BY <2>1, <2>3 DEF ExitsStand, Joined, Exited, Executing
  <1>3. ASSUME NEW w \in Workers, Recv(w) \/ ExitLoop(w) PROVE ExitsStand
    <2>1. /\ ~closed[w] /\ running[w] = NoVal /\ releasing[w] = NoVal
          /\ queue' = [queue EXCEPT ![w] = Tail(@)]
          /\ UNCHANGED releasing
          /\ \/ UNCHANGED closed /\ \E x : running' = [running EXCEPT ![w] = x]
             \/ closed' = [closed EXCEPT ![w] = TRUE] /\ UNCHANGED running
      BY <1>3 DEF Recv, ExitLoop, Idle, loopVars
    <2>2. /\ queue \in [Workers -> Seq(Tasks \cup {Retire})] /\ closed \in [Workers -> BOOLEAN]
          /\ running \in [Workers -> Tasks \cup {NoVal}]
      BY DEF TypeOK
    <2>3. \A v \in Workers : v # w => /\ queue'[v] = queue[v] /\ closed'[v] = closed[v]
                                      /\ running'[v] = running[v]
      BY <2>1, <2>2
    <2>4. closed'[w] => running'[w] = NoVal
      BY <2>1, <2>2
    <2>5. ASSUME NEW v \in Workers PROVE Exited(v) => Exited(v)'
      BY <2>1, <2>3 DEF Exited
    <2>6. ASSUME NEW v \in Workers, closed'[v] PROVE Executing(v)' = {}
      <3>1. CASE v = w
        BY <2>1, <2>4, <2>6, <3>1 DEF Executing
      <3>2. CASE v # w
        BY <2>1, <2>3, <2>6, <3>2 DEF Executing, Joined
      <3> QED  BY <3>1, <3>2
    <2> QED  BY <2>5, <2>6 DEF ExitsStand
  <1>4. ASSUME NEW w \in Workers, RunStages(w) \/ Release(w) PROVE ExitsStand
    <2>1. /\ UNCHANGED <<queue, closed>>
          /\ \A v \in Workers : v # w => running'[v] = running[v] /\ releasing'[v] = releasing[v]
      BY <1>4 DEF RunStages, Release, TypeOK
    <2>2. running[w] # NoVal \/ releasing[w] # NoVal
      BY <1>4 DEF RunStages, Release
    <2>3. ~closed[w]
      BY <2>2 DEF Joined, Executing
    <2> QED  BY <2>1, <2>3 DEF ExitsStand, Joined, Exited, Executing
  <1>5. ASSUME NEW w \in Workers, DropQueued(w) PROVE ExitsStand
    <2>1. /\ queue[w] # <<>> /\ queue' = [queue EXCEPT ![w] = Tail(@)]
          /\ UNCHANGED <<closed, running, releasing>>
      BY <1>5 DEF DropQueued, loopVars
    <2>2. \A v \in Workers : v # w => queue'[v] = queue[v]
      BY <2>1 DEF TypeOK
    <2> QED  BY <2>1, <2>2 DEF ExitsStand, Joined, Exited, Executing
  <1>6. CASE SendRetire
    <2>1. /\ shutdown.at = "retiring" /\ queue' = [queue EXCEPT ![shutdown.k] = Append(@, Retire)]
          /\ UNCHANGED <<closed, running, releasing>>
      BY <1>6 DEF SendRetire, loopVars
    <2>2. shutdown.k \in Workers /\ shutdown.k <= shutdown.k
      BY DEF TypeOK, Workers
    <2>3. ~closed[shutdown.k]
      BY <2>1, <2>2 DEF RetiredOnce
    <2>4. \A v \in Workers : v # shutdown.k => queue'[v] = queue[v]
      BY <2>1 DEF TypeOK
    <2> QED  BY <2>1, <2>3, <2>4 DEF ExitsStand, Joined, Exited, Executing
  <1>7. CASE StartShutdown \/ ShutdownExpires \/ GiveUpRetiring \/ Join \/ Detach \/ UNCHANGED vars
    <2>1. UNCHANGED <<queue, closed, running, releasing>>
      BY <1>7 DEF StartShutdown, ShutdownExpires, GiveUpRetiring, Join, Detach, vars, loopVars
    <2> QED  BY <2>1, ExitsUntouched
  <1> QED  BY <1>1, <1>2, <1>3, <1>4, <1>5, <1>6, <1>7
           DEF Next, Process, Cancel, Loop, Shutdown

\* What the joining loop makes of the slot it is at.
LEMMA NextSlotJoins ==
    ASSUME shutdown \in ShutdownType, NEW a \in {"joining", "over"}
    PROVE  /\ NextSlot(a).timed_out = shutdown.timed_out
           /\ \/ shutdown.k < NumWorkers /\ NextSlot(a).at = shutdown.at /\ NextSlot(a).k = shutdown.k + 1
              \/ shutdown.k = NumWorkers /\ NextSlot(a).at = a /\ NextSlot(a).k = 1
  <1>1. shutdown.k \in 1..NumWorkers /\ NumWorkers \in Nat
    BY PoolAssumption DEF ShutdownType, Workers
  <1>2. CASE shutdown.k < NumWorkers
    BY <1>2 DEF NextSlot, ShutdownType
  <1>3. CASE ~(shutdown.k < NumWorkers)
    <2>1. shutdown.k = NumWorkers
      BY <1>1, <1>3
    <2> QED  BY <1>3, <2>1 DEF NextSlot, ShutdownType
  <1> QED  BY <1>2, <1>3

LEMMA JoinedNext == Accounting /\ Joined /\ [Next]_vars => Joined'
  <1> SUFFICES ASSUME Accounting, Joined, [Next]_vars PROVE Joined'
    OBVIOUS
  <1>1. ExitsStand
    BY ExitsNext
  <1>2. shutdown \in ShutdownType
    BY DEF Accounting, TypeOK, ShutdownType
  <1>3. CASE UNCHANGED shutdown
    BY <1>1, <1>3, JoinedKept
  <1>4. CASE StartShutdown \/ ShutdownExpires
    <2>1. /\ shutdown'.timed_out = shutdown.timed_out /\ shutdown'.k = shutdown.k
          /\ shutdown'.at \in {shutdown.at, "retiring"}
      BY <1>2, <1>4 DEF StartShutdown, ShutdownExpires, ShutdownType
    <2> QED  BY <1>1, <2>1 DEF Joined, ExitsStand, is_complete
  <1>5. CASE SendRetire \/ GiveUpRetiring
    <2>1. shutdown.at = "retiring"
      BY <1>5 DEF SendRetire, GiveUpRetiring
    <2>2. shutdown'.at = "retiring" \/ (shutdown'.at = "joining" /\ shutdown'.k = 1)
      <3>1. CASE SendRetire
        BY <1>2, <2>1, <3>1, NextSlotJoins DEF SendRetire
      <3>2. CASE GiveUpRetiring
        BY <1>2, <3>2 DEF GiveUpRetiring, ShutdownType
      <3> QED  BY <1>5, <3>1, <3>2
    <2>3. \A w \in Workers : ~(w < 1)
      BY DEF Workers
    <2> QED  BY <1>1, <2>2, <2>3 DEF Joined, ExitsStand, is_complete
  <1>6. CASE Join
    <2>1. shutdown.at = "joining" /\ Exited(shutdown.k) /\ shutdown' = [NextSlot("over") EXCEPT !.joined = @ + 1]
      BY <1>6 DEF Join
    <2>2. NextSlot("over") \in ShutdownType
      BY <1>2, NextSlotType
    <2>3. /\ shutdown'.at = NextSlot("over").at /\ shutdown'.k = NextSlot("over").k
          /\ shutdown'.timed_out = NextSlot("over").timed_out
      BY <2>1, <2>2 DEF ShutdownType
    <2>4. /\ shutdown'.timed_out = shutdown.timed_out
          /\ \/ shutdown'.at = "joining" /\ shutdown'.k = shutdown.k + 1
             \/ shutdown'.at = "over" /\ shutdown.k = NumWorkers
      BY <1>2, <2>1, <2>3, NextSlotJoins
    <2>5. shutdown.k \in Workers
      BY <1>2 DEF ShutdownType
    <2>6. ASSUME shutdown'.timed_out = 0, NEW w \in Workers, w <= shutdown.k PROVE Exited(w)'
      <3>1. w < shutdown.k \/ w = shutdown.k
        BY <2>5, <2>6 DEF Workers
      <3> QED  BY <1>1, <2>1, <2>4, <2>6, <3>1 DEF Joined, ExitsStand
    <2>7. \A w \in Workers : (w < shutdown.k + 1 => w <= shutdown.k) /\ w <= NumWorkers
      BY <2>5, PoolAssumption DEF Workers
    <2>8. shutdown'.timed_out = 0 /\ shutdown'.at = "joining" =>
              \A w \in Workers : w < shutdown'.k => Exited(w)'
      BY <2>4, <2>6, <2>7
    <2>9. shutdown'.timed_out = 0 /\ shutdown'.at = "over" => \A w \in Workers : Exited(w)'
      BY <2>4, <2>6, <2>7
    <2> QED  BY <1>1, <2>8, <2>9 DEF Joined, ExitsStand, is_complete
  <1>7. CASE Detach
    <2>1. shutdown' = [NextSlot("over") EXCEPT !.timed_out = @ + 1]
      BY <1>7 DEF Detach
    <2>2. NextSlot("over") \in ShutdownType
      BY <1>2, NextSlotType
    <2>3. NextSlot("over").timed_out \in Nat /\ shutdown'.timed_out = NextSlot("over").timed_out + 1
      BY <2>1, <2>2 DEF ShutdownType
    <2>4. shutdown'.timed_out # 0
      BY <2>3
    <2> QED  BY <1>1, <2>4 DEF Joined, ExitsStand, is_complete
  <1>8. UNCHANGED shutdown \/ Shutdown
    BY DEF Next, Process, Cancel, Loop, Submit, Scan, TryReserve, Mark, Send, SendFails, CancelBeforeSend,
           CancelAfterSend, Recv, RunStages, Release, ExitLoop, DropQueued, vars
  <1> QED  BY <1>3, <1>4, <1>5, <1>6, <1>7, <1>8 DEF Shutdown

\* A shutdown that reports itself complete has left no command behind in any channel or in any
\* worker's hands: what is still reserved belongs to calls that have not sent yet.
THEOREM CompleteShutdown == Spec => []CompleteShutdownIsDrained
  <1>1. Init => Accounting /\ Joined
    <2>1. Init => Joined
      BY DEF Init, Joined, is_complete
    <2> QED  BY <2>1, AccountingInit
  <1>2. Accounting /\ Joined /\ [Next]_vars => (Accounting /\ Joined)'
    BY AccountingNext, JoinedNext
  <1>3. Accounting /\ Joined => CompleteShutdownIsDrained
    <2> SUFFICES ASSUME Accounting, Joined, is_complete, NEW w \in Workers, NEW t \in Outstanding(w)
                 PROVE  pc[t] \in {"reserved", "marked"}
      BY DEF CompleteShutdownIsDrained
    <2>1. closed[w] /\ queue[w] = <<>> /\ Executing(w) = {}
      BY DEF Joined, Exited
    <2>2. InQueue(w) = {}
      BY <2>1 DEF InQueue
    <2> QED  BY <2>1, <2>2 DEF Outstanding
  <1> QED  BY <1>1, <1>2, <1>3, PTL DEF Spec

-----------------------------------------------------------------------------
(* Commands sent in the order of their predictions leave a prediction that *)
(* holds.                                                                  *)

AheadIn(q, t, u) == \E i, j \in DOMAIN q : i < j /\ q[i] = t /\ q[j] = u

\* Dispatches recorded and not yet over: before their send, in the channel, in the worker's
\* hands.
Unsent(w)  == {t \in Tasks : pc[t] = "marked" /\ idx[t] = w}
Started(w) == {running[w]} \ {NoVal}
Pending(w) == Unsent(w) \cup InQueue(w) \cup Started(w)

\* The worker meets the pending dispatches in the order of their generations.
SentInOrder(w) ==
    /\ \A t, u \in InQueue(w) :
           AheadIn(queue[w], t, u) => dispatch_generation[t] < dispatch_generation[u]
    /\ \A t \in Started(w), u \in InQueue(w) : dispatch_generation[t] < dispatch_generation[u]
    /\ \A t \in InQueue(w) \cup Started(w), u \in Unsent(w) :
           dispatch_generation[t] < dispatch_generation[u]

\* A prediction is that of a pending dispatch, or what the worker has loaded.
Holds(w) == current_profile[w] # NoVal /\ current_profile[w][1] = loaded[w]
LatestAccounted(w) ==
    loaded[w] # NoVal =>
        \/ \E t \in Pending(w) : dispatch_generation[t] = dispatch_generations[w]
        \/ Pending(w) = {} /\ Holds(w)

Ordered == \A w \in Workers : ~reordered[w] => SentInOrder(w) /\ LatestAccounted(w)

\* A send comes after all that the channel holds.
LEMMA AppendAhead ==
    ASSUME NEW S, NEW q \in Seq(S), NEW x \in S, NEW t, NEW u, AheadIn(Append(q, x), t, u)
    PROVE  AheadIn(q, t, u) \/ (u = x /\ t \in Elems(q))
  <1>1. /\ Len(Append(q, x)) = Len(q) + 1 /\ Len(q) \in Nat
        /\ \A i \in 1..Len(q) : Append(q, x)[i] = q[i]
        /\ Append(q, x)[Len(q) + 1] = x
        /\ DOMAIN q = 1..Len(q) /\ DOMAIN Append(q, x) = 1..(Len(q) + 1)
    BY AppendProperties, LenProperties
  <1>2. PICK i, j \in 1..(Len(q) + 1) : i < j /\ Append(q, x)[i] = t /\ Append(q, x)[j] = u
    BY <1>1 DEF AheadIn
  <1>3. i \in 1..Len(q) /\ (j \in 1..Len(q) \/ j = Len(q) + 1)
    BY <1>1, <1>2
  <1> QED  BY <1>1, <1>2, <1>3 DEF AheadIn, Elems

\* Receiving keeps the order of what stays, and all of it was behind the head.
LEMMA TailAhead ==
    ASSUME NEW S, NEW q \in Seq(S), q # <<>>
    PROVE  /\ \A t, u : AheadIn(Tail(q), t, u) => AheadIn(q, t, u)
           /\ \A u \in Elems(Tail(q)) : AheadIn(q, Head(q), u)
  <1>1. /\ Len(Tail(q)) = Len(q) - 1 /\ Tail(q) \in Seq(S)
        /\ \A i \in 1..Len(Tail(q)) : Tail(q)[i] = q[i + 1]
    BY HeadTailProperties
  <1>2. Head(q) = q[1] /\ Len(q) \in Nat /\ Len(q) >= 1 /\ DOMAIN q = 1..Len(q)
    BY LenProperties, EmptySeq
  <1>3. DOMAIN Tail(q) = 1..(Len(q) - 1)
    BY <1>1, LenProperties
  <1>4. ASSUME NEW t, NEW u, AheadIn(Tail(q), t, u) PROVE AheadIn(q, t, u)
    <2>1. PICK i, j \in 1..(Len(q) - 1) : i < j /\ Tail(q)[i] = t /\ Tail(q)[j] = u
      BY <1>3, <1>4 DEF AheadIn
    <2>2. i + 1 \in 1..Len(q) /\ j + 1 \in 1..Len(q) /\ i + 1 < j + 1
      BY <1>2, <2>1
    <2>3. q[i + 1] = t /\ q[j + 1] = u
      BY <1>1, <1>3, <2>1
    <2> QED  BY <1>2, <2>2, <2>3 DEF AheadIn
  <1>5. ASSUME NEW u \in Elems(Tail(q)) PROVE AheadIn(q, Head(q), u)
    <2>1. PICK i \in 1..(Len(q) - 1) : Tail(q)[i] = u
      BY <1>3, <1>5 DEF Elems
    <2>2. 1 \in 1..Len(q) /\ i + 1 \in 1..Len(q) /\ 1 < i + 1 /\ q[i + 1] = u
      BY <1>1, <1>2, <2>1
    <2> QED  BY <1>2, <2>2 DEF AheadIn
  <1> QED  BY <1>4, <1>5

\* Where the pending dispatches are, and that they are marked.
LEMMA PendingMarked ==
    ASSUME Accounting, NEW w \in Workers
    PROVE  /\ Pending(w) \subseteq Marked(w) /\ Pending(w) \subseteq Tasks
           /\ \A t \in Pending(w) : dispatch_generation[t] \in Nat /\ idx[t] = w
           /\ \A t \in InQueue(w) \cup Started(w) : pc[t] \in {"sent", "cancelled"}
           /\ Unsent(w) \cap (InQueue(w) \cup Started(w)) = {}
           /\ InQueue(w) \cap Started(w) = {}
           /\ InQueue(w) = Elems(queue[w]) \ {Retire}
  <1> USE DEF Accounting
  <1>1. Started(w) \subseteq Executing(w) /\ Outstanding(w) \subseteq Tasks
    BY OutstandingFinite DEF Started, Executing
  <1>2. \A t \in InQueue(w) \cup Started(w) : idx[t] = w /\ pc[t] \in {"sent", "cancelled"}
    BY <1>1 DEF CommandsPlaced
  <1>3. Pending(w) \subseteq Outstanding(w)
    BY <1>1 DEF Pending, Outstanding, Unsent
  <1>4. \A t \in Pending(w) : pc[t] # "reserved" /\ idx[t] = w
    BY <1>2 DEF Pending, Unsent
  <1>5. Pending(w) \subseteq Marked(w) /\ Pending(w) \subseteq Tasks
    BY <1>1, <1>3, <1>4 DEF Marked
  <1>6. \A t \in Pending(w) : dispatch_generation[t] \in Nat
    BY <1>5 DEF TypeOK
  <1>7. Unsent(w) \cap (InQueue(w) \cup Started(w)) = {}
    BY <1>2 DEF Unsent
  <1>8. InQueue(w) \cap Started(w) = {}
    BY <1>1 DEF CommandsPlaced
  <1>9. InQueue(w) = Elems(queue[w]) \ {Retire}
    BY DEF InQueue, Elems
  <1> QED  BY <1>2, <1>4, <1>5, <1>6, <1>7, <1>8, <1>9

\* Fewer dispatches in the same order, with their generations.
LEMMA OrderKept ==
    ASSUME NEW w \in Workers, SentInOrder(w),
           Unsent(w)' \subseteq Unsent(w), InQueue(w)' \subseteq InQueue(w), Started(w)' \subseteq Started(w),
           \A t, u \in InQueue(w)' : AheadIn(queue'[w], t, u) => AheadIn(queue[w], t, u),
           UNCHANGED dispatch_generation
    PROVE  SentInOrder(w)'
  BY DEF SentInOrder

\* The same dispatches, and the same prediction or none.
LEMMA AccountedKept ==
    ASSUME NEW w \in Workers, LatestAccounted(w), Pending(w)' = Pending(w),
           loaded'[w] \in {loaded[w], NoVal}, current_profile'[w] = current_profile[w],
           UNCHANGED <<dispatch_generation, dispatch_generations>>
    PROVE  LatestAccounted(w)'
  BY DEF LatestAccounted, Holds

\* The guard of a pending dispatch is dropped: the latest one takes its prediction along.
LEMMA AccountedDrop ==
    ASSUME NEW w \in Workers, LatestAccounted(w), NEW t \in Pending(w), Pending(w)' = Pending(w) \ {t},
           dispatch_generation[t] = dispatch_generations[w] => loaded'[w] = NoVal,
           loaded'[w] \in {loaded[w], NoVal},
           UNCHANGED <<dispatch_generation, dispatch_generations>>
    PROVE  LatestAccounted(w)'
  <1>1. CASE loaded'[w] = NoVal
    BY <1>1 DEF LatestAccounted
  <1>2. CASE loaded'[w] # NoVal
    <2>1. loaded[w] # NoVal /\ dispatch_generation[t] # dispatch_generations[w] /\ Pending(w) # {}
      BY <1>2
    <2>2. PICK u \in Pending(w) : dispatch_generation[u] = dispatch_generations[w]
      BY <2>1 DEF LatestAccounted
    <2>3. u \in Pending(w)' /\ dispatch_generation'[u] = dispatch_generations'[w]
      BY <2>1, <2>2
    <2> QED  BY <2>3 DEF LatestAccounted
  <1> QED  BY <1>1, <1>2

\* A step of a call that leaves the channels, the workers and the predictions alone.
LEMMA OrderedUntouched ==
    ASSUME Ordered,
           UNCHANGED <<queue, running, current_profile, dispatch_generation, dispatch_generations, loaded,
                       reordered>>,
           \A w \in Workers : Unsent(w)' = Unsent(w)
    PROVE  Ordered'
  <1>1. ASSUME NEW w \in Workers, ~reordered'[w] PROVE SentInOrder(w)' /\ LatestAccounted(w)'
    <2>1. InQueue(w)' = InQueue(w) /\ Started(w)' = Started(w) /\ Unsent(w)' = Unsent(w)
      BY DEF InQueue, Started
    <2>2. Pending(w)' = Pending(w)
      BY <2>1 DEF Pending
    <2>3. SentInOrder(w) /\ LatestAccounted(w)
      BY <1>1 DEF Ordered
    <2> QED  BY <2>1, <2>2, <2>3, OrderKept, AccountedKept
  <1> QED  BY <1>1 DEF Ordered

\* A prediction has a generation above all that were recorded before it.
LEMMA MarkOrdered ==
    ASSUME Accounting, Predictions, Ordered, NEW t \in Tasks, Mark(t) PROVE Ordered'
  <1> USE DEF Accounting
  <1> DEFINE w == idx[t]
  <1>1. /\ pc \in [Tasks -> PCs] /\ pc[t] = "reserved" /\ pc' = [pc EXCEPT ![t] = "marked"]
        /\ dispatch_generation \in [Tasks -> Nat]
        /\ dispatch_generation' = [dispatch_generation EXCEPT ![t] = dispatch_generations[w] + 1]
        /\ dispatch_generations \in [Workers -> Nat]
        /\ loaded \in [Workers -> Profiles \cup {NoVal}]
        /\ dispatch_generations' = [dispatch_generations EXCEPT ![w] = @ + 1]
        /\ loaded' = [loaded EXCEPT ![w] = req[t].profile]
        /\ UNCHANGED <<idx, queue, running, current_profile, reordered>>
    BY DEF TypeOK, Mark, mark_loaded, loopVars
  <1>2. w \in Workers
    BY <1>1 DEF CallsFormed
  <1>3. ASSUME NEW v \in Workers
        PROVE  /\ InQueue(v)' = InQueue(v) /\ Started(v)' = Started(v)
               /\ Unsent(v)' = Unsent(v) \cup (IF v = w THEN {t} ELSE {})
               /\ t \notin Pending(v)
    <2>1. InQueue(v)' = InQueue(v) /\ Started(v)' = Started(v)
      BY <1>1 DEF InQueue, Started
    <2>2. Unsent(v)' = Unsent(v) \cup (IF v = w THEN {t} ELSE {})
      BY <1>1 DEF Unsent
    <2>3. t \notin Pending(v)
      BY <1>1, PendingMarked DEF Marked
    <2> QED  BY <2>1, <2>2, <2>3
  <1>4. ASSUME NEW v \in Workers, NEW u \in Pending(v)
        PROVE  /\ u # t /\ u \in Tasks /\ dispatch_generation'[u] = dispatch_generation[u]
               /\ v = w => dispatch_generation'[u] < dispatch_generation'[t]
    <2>1. u # t /\ u \in Tasks /\ u \in Marked(v) /\ dispatch_generation[u] \in Nat
      BY <1>3, <1>4, PendingMarked
    <2>2. dispatch_generation[u] <= dispatch_generations[v]
      BY <2>1 DEF Predictions, GenerationsDistinct
    <2> QED  BY <1>1, <1>2, <2>1, <2>2
  <1>5. ASSUME NEW v \in Workers, ~reordered'[v] PROVE SentInOrder(v)'
    <2>1. SentInOrder(v)
      BY <1>1, <1>5 DEF Ordered
    <2>2. InQueue(v) \subseteq Pending(v) /\ Started(v) \subseteq Pending(v) /\ Unsent(v) \subseteq Pending(v)
      BY DEF Pending
    <2>3. \A x, u \in InQueue(v)' :
              AheadIn(queue'[v], x, u) => dispatch_generation'[x] < dispatch_generation'[u]
      BY <1>1, <1>3, <1>4, <2>1, <2>2 DEF SentInOrder
    <2>4. \A x \in Started(v)', u \in InQueue(v)' : dispatch_generation'[x] < dispatch_generation'[u]
      BY <1>3, <1>4, <2>1, <2>2 DEF SentInOrder
    <2>5. ASSUME NEW x \in InQueue(v)' \cup Started(v)', NEW u \in Unsent(v)'
          PROVE  dispatch_generation'[x] < dispatch_generation'[u]
      <3>1. x \in InQueue(v) \cup Started(v) /\ x \in Pending(v)
        BY <1>3, <2>2, <2>5
      <3>2. u \in Unsent(v) \/ (v = w /\ u = t)
        BY <1>3, <2>5
      <3>3. CASE u \in Unsent(v)
        BY <1>4, <2>1, <2>2, <3>1, <3>3 DEF SentInOrder
      <3>4. CASE v = w /\ u = t
        BY <1>4, <3>1, <3>4
      <3> QED  BY <3>2, <3>3, <3>4
    <2> QED  BY <2>3, <2>4, <2>5 DEF SentInOrder
  <1>6. ASSUME NEW v \in Workers, ~reordered'[v] PROVE LatestAccounted(v)'
    <2>1. CASE v = w
      <3>1. t \in Pending(v)' /\ dispatch_generation'[t] = dispatch_generations'[v]
        BY <1>1, <1>2, <1>3, <2>1 DEF Pending
      <3> QED  BY <3>1 DEF LatestAccounted
    <2>2. CASE v # w
      <3>1. /\ Pending(v)' = Pending(v) /\ loaded'[v] = loaded[v] /\ current_profile'[v] = current_profile[v]
            /\ dispatch_generations'[v] = dispatch_generations[v] /\ LatestAccounted(v)
        BY <1>1, <1>2, <1>3, <1>6, <2>2 DEF Pending, Ordered
      <3>2. \A u \in Pending(v) : dispatch_generation'[u] = dispatch_generation[u]
        BY <1>4
      <3> QED  BY <3>1, <3>2 DEF LatestAccounted, Holds
    <2> QED  BY <2>1, <2>2
  <1> QED  BY <1>5, <1>6 DEF Ordered

\* A send that overtakes nobody goes to the end of the order.
LEMMA SendOrdered ==
    ASSUME Accounting, Predictions, Ordered, NEW t \in Tasks, Send(t) PROVE Ordered'
  <1> USE DEF Accounting
  <1> DEFINE w == idx[t]
  <1>1. /\ pc \in [Tasks -> PCs] /\ pc[t] = "marked" /\ pc' = [pc EXCEPT ![t] = "sent"]
        /\ queue \in [Workers -> Seq(Tasks \cup {Retire})]
        /\ queue' = [queue EXCEPT ![w] = Append(@, t)]
        /\ UNCHANGED <<idx, running, current_profile, dispatch_generation, dispatch_generations, loaded>>
    BY DEF TypeOK, Send, loopVars, stateVars
  <1>2. w \in Workers /\ t \in Unsent(w)
    BY <1>1 DEF CallsFormed, Unsent
  <1>3. ASSUME NEW v \in Workers, ~reordered'[v]
        PROVE  /\ ~reordered[v]
               /\ v = w => \A u \in Outstanding(w) \ {t} :
                               ~(pc[u] = "marked" /\ dispatch_generation[u] < dispatch_generation[t])
    <2>1. reordered \in [Workers -> BOOLEAN]
      BY DEF TypeOK
    <2> QED  BY <1>2, <1>3, <2>1 DEF Send
  <1>4. /\ \A x, u : AheadIn(queue'[w], x, u) => AheadIn(queue[w], x, u) \/ (u = t /\ x \in Elems(queue[w]))
        /\ Elems(queue'[w]) = Elems(queue[w]) \cup {t}
    <2>1. queue[w] \in Seq(Tasks \cup {Retire}) /\ t \in Tasks \cup {Retire} /\ queue'[w] = Append(queue[w], t)
      BY <1>1, <1>2
    <2> QED  BY <2>1, AppendElems, AppendAhead
  <1>5. ASSUME NEW v \in Workers
        PROVE  /\ InQueue(v)' = InQueue(v) \cup (IF v = w THEN {t} ELSE {})
               /\ Started(v)' = Started(v)
               /\ Unsent(v)' = Unsent(v) \ {t}
               /\ v # w => t \notin Unsent(v)
    <2>1. v # w => queue'[v] = queue[v]
      BY <1>1
    <2>2. InQueue(v) = Elems(queue[v]) \ {Retire} /\ InQueue(v)' = Elems(queue'[v]) \ {Retire}
      BY DEF InQueue, Elems
    <2>3. t # Retire
      BY PoolAssumption
    <2>4. InQueue(v)' = InQueue(v) \cup (IF v = w THEN {t} ELSE {})
      BY <1>4, <2>1, <2>2, <2>3
    <2>5. Started(v)' = Started(v)
      BY <1>1 DEF Started
    <2>6. Unsent(v)' = Unsent(v) \ {t}
      BY <1>1 DEF Unsent
    <2>7. v # w => t \notin Unsent(v)
      BY DEF Unsent
    <2> QED  BY <2>4, <2>5, <2>6, <2>7
  <1>6. ASSUME NEW v \in Workers, ~reordered'[v] PROVE LatestAccounted(v)'
    <2>1. Pending(v)' = Pending(v)
      BY <1>2, <1>5 DEF Pending
    <2>2. LatestAccounted(v)
      BY <1>3, <1>6 DEF Ordered
    <2> QED  BY <1>1, <2>1, <2>2, AccountedKept
  <1>7. ASSUME NEW v \in Workers, ~reordered'[v] PROVE SentInOrder(v)'
    <2>1. SentInOrder(v)
      BY <1>3, <1>7 DEF Ordered
    <2>2. CASE v # w
      <3>1. queue'[v] = queue[v]
        BY <1>1, <2>2
      <3> QED  BY <1>1, <1>5, <2>1, <2>2, <3>1, OrderKept
    <2>3. CASE v = w
      <3>1. \A x \in InQueue(w) \cup Started(w) : dispatch_generation[x] < dispatch_generation[t]
        BY <1>2, <2>1, <2>3 DEF SentInOrder
      <3>2. ASSUME NEW u \in Unsent(w), u # t PROVE dispatch_generation[t] < dispatch_generation[u]
        <4>1. /\ u \in Marked(w) /\ t \in Marked(w)
              /\ dispatch_generation[t] \in Nat /\ dispatch_generation[u] \in Nat
          BY <1>2, <3>2, PendingMarked DEF Pending
        <4>2. dispatch_generation[t] # dispatch_generation[u]
          BY <1>2, <3>2, <4>1 DEF Predictions, GenerationsDistinct
        <4>3. ~(dispatch_generation[u] < dispatch_generation[t])
          BY <1>3, <1>7, <2>3, <3>2, <4>1 DEF Marked, Unsent
        <4> QED  BY <4>1, <4>2, <4>3
      <3>3. Elems(queue[w]) \ {Retire} = InQueue(w) /\ t \notin InQueue(w)
        BY <1>1, <1>2, PendingMarked
      <3>4. ASSUME NEW x \in InQueue(w)', NEW u \in InQueue(w)', AheadIn(queue'[w], x, u)
            PROVE  dispatch_generation[x] < dispatch_generation[u]
        <4>1. CASE u = t /\ x \in Elems(queue[w])
          <5>1. x \in InQueue(w)
            BY <1>2, <1>5, <3>3, <3>4, <4>1, PoolAssumption DEF InQueue
          <5> QED  BY <3>1, <4>1, <5>1
        <4>2. CASE AheadIn(queue[w], x, u)
          <5>1. x \in Elems(queue[w]) /\ u \in Elems(queue[w])
            BY <4>2 DEF AheadIn, Elems
          <5>2. x \in InQueue(w) /\ u \in InQueue(w)
            BY <1>2, <1>5, <3>3, <3>4, <5>1, PoolAssumption DEF InQueue
          <5> QED  BY <2>1, <2>3, <4>2, <5>2 DEF SentInOrder
        <4> QED  BY <1>4, <3>4, <4>1, <4>2
      <3>5. \A x \in Started(w)', u \in InQueue(w)' : dispatch_generation[x] < dispatch_generation[u]
        <4>1. InQueue(w)' = InQueue(w) \cup {t} /\ Started(w)' = Started(w)
          BY <1>1, <1>2, <1>5
        <4>2. \A x \in Started(w), u \in InQueue(w) : dispatch_generation[x] < dispatch_generation[u]
          BY <2>1, <2>3 DEF SentInOrder
        <4> QED  BY <3>1, <4>1, <4>2
      <3>6. \A x \in InQueue(w)' \cup Started(w)', u \in Unsent(w)' :
                dispatch_generation[x] < dispatch_generation[u]
        <4>1. /\ InQueue(w)' = InQueue(w) \cup {t} /\ Started(w)' = Started(w)
              /\ Unsent(w)' = Unsent(w) \ {t}
          BY <1>1, <1>2, <1>5
        <4>2. \A x \in InQueue(w) \cup Started(w), u \in Unsent(w) :
                  dispatch_generation[x] < dispatch_generation[u]
          BY <2>1, <2>3 DEF SentInOrder
        <4> QED  BY <3>2, <4>1, <4>2
      <3> QED  BY <1>1, <2>3, <3>4, <3>5, <3>6 DEF SentInOrder
    <2> QED  BY <2>2, <2>3
  <1> QED  BY <1>6, <1>7 DEF Ordered

\* A worker takes the earliest of the commands sent to it; a Retire is nobody's dispatch.
LEMMA HeadTaken ==
    ASSUME Accounting, Ordered, NEW w \in Workers, Recv(w) \/ ExitLoop(w) PROVE Ordered'
  <1> USE DEF Accounting
  <1> DEFINE h == Head(queue[w])
  <1>1. /\ queue[w] # <<>> /\ running[w] = NoVal
        /\ running \in [Workers -> Tasks \cup {NoVal}]
        /\ queue \in [Workers -> Seq(Tasks \cup {Retire})]
        /\ queue' = [queue EXCEPT ![w] = Tail(@)]
        /\ UNCHANGED <<callVars, stateVars, current_profile, reordered>>
    BY DEF Recv, ExitLoop, Idle, TypeOK, loopVars
  <1>2. /\ h \in Elems(queue[w]) /\ h \in Tasks \cup {Retire}
        /\ \A v \in Workers : v # w => queue'[v] = queue[v]
        /\ InQueue(w) = Elems(queue[w]) \ {Retire}
        /\ InQueue(w)' = Elems(queue'[w]) \ {Retire}
        /\ Elems(queue'[w]) = Elems(queue[w]) \ {h}
    BY <1>1, TakeHead
  <1>3. /\ \A t, u : AheadIn(queue'[w], t, u) => AheadIn(queue[w], t, u)
        /\ \A u \in Elems(queue'[w]) : AheadIn(queue[w], h, u)
    <2>1. queue'[w] = Tail(queue[w]) /\ queue[w] \in Seq(Tasks \cup {Retire})
      BY <1>1
    <2> QED  BY <1>1, <2>1, TailAhead
  <1>4. (h = Retire /\ UNCHANGED running) \/ (h # Retire /\ running' = [running EXCEPT ![w] = h])
    <2>1. CASE Recv(w)
      BY <2>1 DEF Recv
    <2>2. CASE ExitLoop(w)
      BY <2>2 DEF ExitLoop, loopVars
    <2> QED  BY <2>1, <2>2
  <1> HIDE DEF h
  <1>5. \A v \in Workers : Unsent(v)' = Unsent(v)
    BY <1>1 DEF Unsent, callVars
  <1>6. Started(w) = {} /\ Started(w)' = {h} \ {Retire} /\ InQueue(w)' = InQueue(w) \ {h}
    <2>1. CASE h = Retire /\ UNCHANGED running
      BY <1>1, <1>2, <2>1 DEF Started
    <2>2. CASE h # Retire /\ running' = [running EXCEPT ![w] = h]
      <3>1. running'[w] = h /\ h # NoVal
        BY <1>1, <1>2, <2>2, PoolAssumption
      <3> QED  BY <1>1, <1>2, <2>2, <3>1 DEF Started
    <2> QED  BY <1>4, <2>1, <2>2
  <1>7. \A v \in Workers : v # w => Started(v)' = Started(v) /\ InQueue(v)' = InQueue(v)
    <2>1. \A v \in Workers : v # w => running'[v] = running[v]
      BY <1>1, <1>4
    <2> QED  BY <1>2, <2>1 DEF Started, InQueue
  <1>8. ASSUME NEW v \in Workers, ~reordered'[v] PROVE LatestAccounted(v)'
    <2>1. Pending(v)' = Pending(v)
      <3>1. CASE v = w
        BY <1>2, <1>5, <1>6, <3>1 DEF Pending
      <3>2. CASE v # w
        BY <1>5, <1>7, <3>2 DEF Pending
      <3> QED  BY <3>1, <3>2
    <2>2. LatestAccounted(v)
      BY <1>1, <1>8 DEF Ordered
    <2> QED  BY <1>1, <2>1, <2>2, AccountedKept DEF callVars, stateVars
  <1>9. ASSUME NEW v \in Workers, ~reordered'[v] PROVE SentInOrder(v)'
    <2>1. SentInOrder(v)
      BY <1>1, <1>9 DEF Ordered
    <2>2. CASE v # w
      BY <1>1, <1>2, <1>5, <1>7, <2>1, <2>2, OrderKept DEF callVars
    <2>3. CASE v = w
      <3>1. \A t, u \in InQueue(w)' :
                AheadIn(queue'[w], t, u) => dispatch_generation[t] < dispatch_generation[u]
        BY <1>3, <1>6, <2>1, <2>3 DEF SentInOrder
      <3>2. \A t \in Started(w)', u \in InQueue(w)' : dispatch_generation[t] < dispatch_generation[u]
        BY <1>2, <1>3, <1>6, <2>1, <2>3 DEF SentInOrder
      <3>3. InQueue(w)' \cup Started(w)' \subseteq InQueue(w) \cup Started(w)
        BY <1>2, <1>6
      <3>4. \A t \in InQueue(w)' \cup Started(w)', u \in Unsent(w)' :
                dispatch_generation[t] < dispatch_generation[u]
        BY <1>5, <2>1, <2>3, <3>3 DEF SentInOrder
      <3> QED  BY <1>1, <2>3, <3>1, <3>2, <3>4 DEF SentInOrder, callVars
    <2> QED  BY <2>2, <2>3
  <1> QED  BY <1>8, <1>9 DEF Ordered

\* A guard dropped before its command ran.
LEMMA DropOrdered ==
    ASSUME Accounting, Ordered, NEW w \in Workers, NEW t \in Pending(w),
           clear_loaded_if_latest(w, dispatch_generation[t]),
           UNCHANGED <<running, current_profile, dispatch_generation, reordered>>,
           Pending(w)' = Pending(w) \ {t},
           \A v \in Workers : /\ InQueue(v)' \subseteq InQueue(v) /\ Unsent(v)' \subseteq Unsent(v)
                              /\ \A x, u : AheadIn(queue'[v], x, u) => AheadIn(queue[v], x, u)
                              /\ v # w => Pending(v)' = Pending(v)
    PROVE  Ordered'
  <1> USE DEF Accounting
  <1>1. /\ dispatch_generations' = dispatch_generations
        /\ \A v \in Workers : v # w => loaded'[v] = loaded[v]
    BY ClearLoaded
  <1>2. /\ dispatch_generation[t] = dispatch_generations[w] => loaded'[w] = NoVal
        /\ loaded'[w] \in {loaded[w], NoVal}
    BY DEF clear_loaded_if_latest, clear_loaded, TypeOK, stateVars
  <1>3. ASSUME NEW v \in Workers, ~reordered'[v] PROVE SentInOrder(v)' /\ LatestAccounted(v)'
    <2>1. SentInOrder(v) /\ LatestAccounted(v)
      BY <1>3 DEF Ordered
    <2>2. SentInOrder(v)'
      <3>1. Started(v)' = Started(v)
        BY DEF Started
      <3> QED  BY <2>1, <3>1, OrderKept
    <2>3. LatestAccounted(v)'
      <3>1. CASE v = w
        BY <1>1, <1>2, <2>1, <3>1, AccountedDrop
      <3>2. CASE v # w
        BY <1>1, <2>1, <3>2, AccountedKept
      <3> QED  BY <3>1, <3>2
    <2> QED  BY <2>2, <2>3
  <1> QED  BY <1>3 DEF Ordered

\* A run that ends as the latest dispatch has met no other after it: it leaves its own style
\* or no prediction.
LEMMA RunOrdered ==
    ASSUME Accounting, Predictions, Ordered, NEW w \in Workers, RunStages(w) PROVE Ordered'
  <1> USE DEF Accounting
  <1> DEFINE t == running[w]
  <1>1. PICK res \in RunResults(current_profile[w], req[t]) :
            /\ current_profile' = [current_profile EXCEPT ![w] = res.current]
            /\ IF res.result = "completed" THEN UNCHANGED stateVars
               ELSE clear_loaded_if_latest(w, dispatch_generation[t])
    BY DEF RunStages
  <1>2. /\ t # NoVal /\ running' = [running EXCEPT ![w] = NoVal]
        /\ running \in [Workers -> Tasks \cup {NoVal}]
        /\ UNCHANGED <<callVars, queue, reordered>>
    BY DEF RunStages, TypeOK
  <1>3. t \in Started(w) /\ t \in Pending(w) /\ t \in Tasks /\ releasing[w] = NoVal
    BY <1>2 DEF Started, Pending, CommandsPlaced
  <1>4. ASSUME NEW v \in Workers
        PROVE  /\ InQueue(v)' = InQueue(v) /\ Unsent(v)' = Unsent(v)
               /\ Started(v)' = IF v = w THEN {} ELSE Started(v)
    BY <1>2 DEF InQueue, Unsent, Started, callVars
  <1>5. Pending(w)' = Pending(w) \ {t}
    <2>1. Started(w) = {t} /\ t \notin Unsent(w) /\ t \notin InQueue(w)
      BY <1>3, PendingMarked DEF Started
    <2> HIDE DEF t
    <2> QED  BY <1>4, <2>1 DEF Pending
  <1>6. \A v \in Workers : v # w => Pending(v)' = Pending(v) /\ current_profile'[v] = current_profile[v]
    BY <1>1, <1>4 DEF Pending, TypeOK
  <1>7. /\ dispatch_generations' = dispatch_generations
        /\ \A v \in Workers : v # w => loaded'[v] = loaded[v]
        /\ loaded'[w] \in {loaded[w], NoVal}
    <2>1. CASE UNCHANGED stateVars
      BY <2>1 DEF stateVars
    <2>2. CASE clear_loaded_if_latest(w, dispatch_generation[t])
      BY <2>2, ClearLoaded DEF clear_loaded_if_latest, clear_loaded, TypeOK, stateVars
    <2> QED  BY <1>1, <2>1, <2>2
  <1>8. ASSUME NEW v \in Workers, ~reordered'[v] PROVE SentInOrder(v)' /\ LatestAccounted(v)'
    <2>1. SentInOrder(v) /\ LatestAccounted(v)
      BY <1>2, <1>8 DEF Ordered
    <2>2. SentInOrder(v)'
      <3>1. Started(v)' \subseteq Started(v)
        BY <1>4
      <3> QED  BY <1>2, <1>4, <2>1, <3>1, OrderKept DEF callVars
    <2>3. CASE v # w
      BY <1>2, <1>6, <1>7, <2>1, <2>2, <2>3, AccountedKept DEF callVars
    <2>4. CASE v = w /\ dispatch_generation[t] # dispatch_generations[w]
      BY <1>2, <1>3, <1>5, <1>7, <2>1, <2>2, <2>4, AccountedDrop DEF callVars
    <2>5. CASE v = w /\ dispatch_generation[t] = dispatch_generations[w] /\ res.result # "completed"
      <3>1. loaded'[w] = NoVal
        BY <1>1, <2>5 DEF clear_loaded_if_latest, clear_loaded, TypeOK
      <3> QED  BY <2>2, <2>5, <3>1 DEF LatestAccounted
    <2>6. CASE v = w /\ dispatch_generation[t] = dispatch_generations[w] /\ res.result = "completed"
      <3>1. \A u \in Pending(w) : u = t
        <4>1. \A u \in InQueue(w) \cup Unsent(w) : dispatch_generation[t] < dispatch_generation[u]
          BY <1>3, <2>1, <2>6 DEF SentInOrder
        <4>2. \A u \in Pending(w) : dispatch_generation[u] \in Nat /\ u \in Marked(w)
          BY PendingMarked
        <4>3. \A u \in Pending(w) : dispatch_generation[u] <= dispatch_generation[t]
          BY <2>6, <4>2 DEF Predictions, GenerationsDistinct
        <4>4. \A u \in Pending(w) : ~(dispatch_generation[t] < dispatch_generation[u])
          BY <1>3, <4>2, <4>3
        <4> QED  BY <4>1, <4>4 DEF Pending, Started
      <3>2. Pending(w)' = {}
        BY <1>5, <3>1
      <3>3. loaded[w] = req[t].profile
        <4>1. t \in Outstanding(w) /\ pc[t] # "reserved" /\ releasing[w] # t
          BY <1>2, <1>3, PendingMarked DEF Marked
        <4> QED  BY <2>6, <4>1 DEF Predictions, LatestPredictionStands
      <3>4. res.current = StyleKey(req[t])
        BY <2>6 DEF RunResults
      <3>5. req[t] \in Requests
        <4>1. pc[t] \in {"sent", "cancelled"}
          BY <1>3, PendingMarked
        <4> QED  BY <1>3, <4>1 DEF CallsFormed
      <3>6. current_profile'[w] = StyleKey(req[t])
        BY <1>1, <3>4 DEF TypeOK
      <3>7. loaded'[w] = loaded[w]
        BY <1>1, <2>6 DEF stateVars
      <3>8. Holds(w)'
        BY <3>3, <3>5, <3>6, <3>7, PoolAssumption DEF Holds, StyleKey
      <3> QED  BY <2>2, <2>6, <3>2, <3>8 DEF LatestAccounted
    <2> QED  BY <2>3, <2>4, <2>5, <2>6
  <1> QED  BY <1>8 DEF Ordered

LEMMA OrderedNext == Accounting /\ Predictions /\ Ordered /\ [Next]_vars => Ordered'
  <1> SUFFICES ASSUME Accounting, Predictions, Ordered, [Next]_vars PROVE Ordered'
    OBVIOUS
  <1> USE DEF Accounting
  <1>1. ASSUME NEW t \in Tasks, Submit(t) \/ Scan(t) \/ TryReserve(t) \/ CancelAfterSend(t)
        PROVE  Ordered'
    <2>1. /\ UNCHANGED <<queue, running, current_profile, dispatch_generation, dispatch_generations, loaded,
                         reordered>>
          /\ pc[t] # "marked"
      BY <1>1 DEF Submit, Scan, TryReserve, CancelAfterSend, stateVars, loopVars
    <2>2. \A u \in Tasks : u # t => pc'[u] = pc[u] /\ idx'[u] = idx[u]
      BY <1>1 DEF Submit, Scan, TryReserve, CancelAfterSend, TypeOK
    <2>3. pc'[t] # "marked"
      BY <1>1 DEF Submit, Scan, TryReserve, CancelAfterSend, TypeOK
    <2>4. \A w \in Workers : Unsent(w)' = Unsent(w)
      BY <2>1, <2>2, <2>3 DEF Unsent
    <2> QED  BY <2>1, <2>4, OrderedUntouched
  <1>2. ASSUME NEW t \in Tasks, SendFails(t) \/ CancelBeforeSend(t) PROVE Ordered'
    <2>1. PICK w \in Workers : w = idx[t]
      BY <1>2 DEF SendFails, CancelBeforeSend, CallsFormed
    <2>2. /\ pc[t] = "marked" /\ pc'[t] # "marked" /\ \A u \in Tasks : u # t => pc'[u] = pc[u]
          /\ clear_loaded_if_latest(w, dispatch_generation[t])
          /\ UNCHANGED <<idx, queue, running, current_profile, dispatch_generation, reordered>>
      BY <1>2, <2>1 DEF SendFails, CancelBeforeSend, DropCompletion, loopVars, TypeOK
    <2>3. t \in Pending(w)
      BY <2>1, <2>2 DEF Pending, Unsent
    <2>4. ASSUME NEW v \in Workers
          PROVE  /\ InQueue(v)' = InQueue(v) /\ Started(v)' = Started(v)
                 /\ Unsent(v)' = Unsent(v) \ {t}
                 /\ t \notin InQueue(v) \cup Started(v)
                 /\ v # w => t \notin Unsent(v)
      <3>1. InQueue(v)' = InQueue(v) /\ Started(v)' = Started(v)
        BY <2>2 DEF InQueue, Started
      <3>2. Unsent(v)' = Unsent(v) \ {t} /\ (v # w => t \notin Unsent(v))
        BY <2>1, <2>2 DEF Unsent
      <3>3. t \notin InQueue(v) \cup Started(v)
        BY <2>2, PendingMarked
      <3> QED  BY <3>1, <3>2, <3>3
    <2>5. Pending(w)' = Pending(w) \ {t} /\ \A v \in Workers : v # w => Pending(v)' = Pending(v)
      BY <2>4 DEF Pending
    <2> QED  BY <2>2, <2>3, <2>4, <2>5, DropOrdered
  <1>3. ASSUME NEW w \in Workers, Release(w) PROVE Ordered'
    <2> DEFINE t == releasing[w]
    <2>1. /\ t # NoVal /\ Answer(t, "outcome")
          /\ UNCHANGED <<idx, queue, running, current_profile, dispatch_generation, dispatch_generations,
                         loaded, reordered>>
      BY <1>3 DEF Release, stateVars
    <2>2. t \in Tasks /\ t \in Executing(w)
      BY <2>1 DEF Executing, TypeOK
    <2>3. pc[t] \in {"sent", "cancelled"}
      BY <2>2 DEF CommandsPlaced
    <2>4. \A u \in Tasks : pc'[u] = "marked" <=> pc[u] = "marked"
      BY <2>1, <2>2, <2>3 DEF Answer, TypeOK
    <2>5. \A v \in Workers : Unsent(v)' = Unsent(v)
      BY <2>1, <2>4 DEF Unsent
    <2> QED  BY <2>1, <2>5, OrderedUntouched
  <1>4. ASSUME NEW w \in Workers, DropQueued(w) PROVE Ordered'
    <2> DEFINE t == Head(queue[w])
    <2>1. /\ closed[w] /\ queue[w] # <<>> /\ DropCompletion(t) /\ Answer(t, "disconnected")
          /\ queue \in [Workers -> Seq(Tasks \cup {Retire})]
          /\ queue' = [queue EXCEPT ![w] = Tail(@)]
          /\ UNCHANGED <<idx, running, current_profile, dispatch_generation, reordered>>
      BY <1>4 DEF DropQueued, loopVars, TypeOK
    <2>2. /\ t \in Elems(queue[w]) /\ t \in Tasks \cup {Retire}
          /\ InQueue(w) = Elems(queue[w]) \ {Retire}
          /\ InQueue(w)' = Elems(queue'[w]) \ {Retire}
          /\ Elems(queue'[w]) = Elems(queue[w]) \ {t}
          /\ \A v \in Workers : v # w => queue'[v] = queue[v]
      BY <2>1, TakeHead
    <2>3. \A x, u : AheadIn(queue'[w], x, u) => AheadIn(queue[w], x, u)
      <3>1. queue'[w] = Tail(queue[w]) /\ queue[w] \in Seq(Tasks \cup {Retire})
        BY <2>1
      <3> QED  BY <2>1, <3>1, TailAhead
    <2> HIDE DEF t
    <2>4. t \in Tasks /\ t \in InQueue(w)
      BY <2>1, <2>2 DEF RetiredOnce
    <2>5. idx[t] = w /\ pc[t] \in {"sent", "cancelled"}
      BY <2>4 DEF CommandsPlaced
    <2>6. clear_loaded_if_latest(w, dispatch_generation[t])
      BY <2>1, <2>5 DEF DropCompletion
    <2>7. \A u \in Tasks : pc'[u] = "marked" <=> pc[u] = "marked"
      BY <2>1, <2>4, <2>5 DEF Answer, TypeOK
    <2>8. ASSUME NEW v \in Workers
          PROVE  /\ Unsent(v)' = Unsent(v) /\ Started(v)' = Started(v)
                 /\ InQueue(v)' = IF v = w THEN InQueue(v) \ {t} ELSE InQueue(v)
      <3>1. Unsent(v)' = Unsent(v) /\ Started(v)' = Started(v)
        BY <2>1, <2>7 DEF Unsent, Started
      <3>2. v # w => InQueue(v)' = InQueue(v)
        BY <2>2 DEF InQueue
      <3> QED  BY <2>2, <3>1, <3>2
    <2>9. t \in Pending(w) /\ t \notin Unsent(w) /\ t \notin Started(w)
      BY <2>4, PendingMarked DEF Pending
    <2>10. Pending(w)' = Pending(w) \ {t} /\ \A v \in Workers : v # w => Pending(v)' = Pending(v)
      BY <2>8, <2>9 DEF Pending
    <2>11. \A v \in Workers : /\ InQueue(v)' \subseteq InQueue(v) /\ Unsent(v)' \subseteq Unsent(v)
                              /\ \A x, u : AheadIn(queue'[v], x, u) => AheadIn(queue[v], x, u)
      BY <2>2, <2>3, <2>8
    <2> QED  BY <2>1, <2>6, <2>9, <2>10, <2>11, DropOrdered
  <1>5. CASE SendRetire
    <2>1. /\ queue \in [Workers -> Seq(Tasks \cup {Retire})] /\ shutdown.k \in Workers
          /\ queue' = [queue EXCEPT ![shutdown.k] = Append(@, Retire)]
          /\ UNCHANGED <<pc, idx, running, current_profile, dispatch_generation, dispatch_generations,
                         loaded, reordered>>
      BY <1>5 DEF SendRetire, callVars, stateVars, loopVars, TypeOK
    <2>2. ASSUME NEW v \in Workers
          PROVE  /\ InQueue(v)' = InQueue(v)
                 /\ \A x, u \in InQueue(v) : AheadIn(queue'[v], x, u) => AheadIn(queue[v], x, u)
      <3>1. InQueue(v) = Elems(queue[v]) \ {Retire} /\ InQueue(v)' = Elems(queue'[v]) \ {Retire}
        BY DEF InQueue, Elems
      <3>2. CASE v = shutdown.k
        <4>1. queue'[v] = Append(queue[v], Retire) /\ queue[v] \in Seq(Tasks \cup {Retire})
          BY <2>1, <3>2
        <4> QED  BY <3>1, <4>1, AppendElems, AppendAhead
      <3>3. CASE v # shutdown.k
        BY <2>1, <3>1, <3>3
      <3> QED  BY <3>2, <3>3
    <2>3. \A v \in Workers : Unsent(v)' = Unsent(v) /\ Started(v)' = Started(v)
      BY <2>1 DEF Unsent, Started
    <2>4. ASSUME NEW v \in Workers, ~reordered'[v] PROVE SentInOrder(v)' /\ LatestAccounted(v)'
      <3>1. SentInOrder(v) /\ LatestAccounted(v)
        BY <2>1, <2>4 DEF Ordered
      <3>2. SentInOrder(v)'
        BY <2>1, <2>2, <2>3, <3>1, OrderKept
      <3>3. Pending(v)' = Pending(v)
        BY <2>2, <2>3 DEF Pending
      <3> QED  BY <2>1, <3>1, <3>2, <3>3, AccountedKept
    <2> QED  BY <2>4 DEF Ordered
  <1>6. CASE StartShutdown \/ ShutdownExpires \/ GiveUpRetiring \/ Join \/ Detach \/ UNCHANGED vars
    <2>1. UNCHANGED <<pc, idx, queue, running, current_profile, dispatch_generation, dispatch_generations,
                      loaded, reordered>>
      BY <1>6 DEF StartShutdown, ShutdownExpires, GiveUpRetiring, Join, Detach, vars, callVars, stateVars,
                  loopVars
    <2>2. \A v \in Workers : Unsent(v)' = Unsent(v)
      BY <2>1 DEF Unsent
    <2> QED  BY <2>1, <2>2, OrderedUntouched
  <1> QED  BY <1>1, <1>2, <1>3, <1>4, <1>5, <1>6, MarkOrdered, SendOrdered, HeadTaken, RunOrdered
           DEF Next, Process, Cancel, Loop, Shutdown

LEMMA OrderedInit == Init => Ordered
  <1> SUFFICES ASSUME Init PROVE Ordered
    OBVIOUS
  <1>1. \A w \in Workers : queue[w] = <<>> /\ DOMAIN queue[w] = {} /\ loaded[w] = NoVal
    BY DEF Init
  <1>2. \A w \in Workers : InQueue(w) = {} /\ Started(w) = {} /\ Unsent(w) = {}
    BY <1>1 DEF Init, InQueue, Started, Unsent
  <1> QED  BY <1>1, <1>2 DEF Ordered, SentInOrder, LatestAccounted

\* A drained slot to which commands were sent in the order of their predictions holds the
\* style the pool predicts for it, whatever failed, was rejected, cancelled or dropped.
THEOREM PredictionsComeTrue == Spec => []OrderedPredictionHolds
  <1> DEFINE I == Accounting /\ Predictions /\ Ordered
  <1>1. Init => I
    BY AccountingInit, PredictionsInit, OrderedInit
  <1>2. I /\ [Next]_vars => I'
    BY AccountingNext, PredictionsNext, OrderedNext
  <1>3. I => OrderedPredictionHolds
    <2> SUFFICES ASSUME I, NEW w \in Workers, ~reordered[w], Outstanding(w) = {}, loaded[w] # NoVal
                 PROVE  Holds(w)
      BY DEF OrderedPredictionHolds, PredictionHolds, Holds
    <2>1. Pending(w) = {}
      BY PendingMarked DEF Marked
    <2> QED  BY <2>1 DEF Ordered, LatestAccounted
  <1> QED  BY <1>1, <1>2, <1>3, PTL DEF Spec
=============================================================================
