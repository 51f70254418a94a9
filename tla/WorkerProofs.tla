---------------------------- MODULE WorkerProofs ----------------------------
(***************************************************************************)
(* Proofs about the stages a worker runs, for any number of workers,       *)
(* requests, permits and sources.                                          *)
(***************************************************************************)
EXTENDS Worker, FiniteSetTheorems, SequenceTheorems, TLAPS

-----------------------------------------------------------------------------
(* The inductive invariant.                                                *)

HashesOf == {r.source : r \in Requests}

Types ==
    /\ at \in [Workers -> Stages]
    /\ req \in [Workers -> Requests \cup {NoVal}]
    /\ expired \in [Workers -> BOOLEAN]
    /\ current_profile \in [Workers -> {StyleKey(r) : r \in Requests} \cup {NoVal}]
    /\ cache \in [Workers -> Seq(HashesOf)]
    /\ native \in [Workers -> Actors \cup {NoVal}]
    /\ result \in [Workers -> {"completed", "rejected", "failed", NoVal}]
    /\ error \in [Workers -> RendererError \cup {NoVal}]
    /\ before \in [Workers -> {StyleKey(r) : r \in Requests} \cup {NoVal}]
    /\ ensured \in [Workers -> SUBSET HashesOf]
    /\ warmed \in [Workers -> SUBSET {StyleKey(r) : r \in Requests}]
    /\ lost \in [Workers -> RendererError \cup {NoVal}]
    /\ drawn \in [Workers -> Renderers \cup {NoVal}]
    /\ render_permits \in Nat /\ native_render_permits \in Nat

\* A renderer is marked only with the revision that is loaded, and then holds a document of it;
\* an actor that has a revision loaded was given its document and has it in a renderer.
ActorSound(n) ==
    /\ n \in Actors
    /\ n.active # NoVal /\ n.active.rev # NoVal => n.active.rev = n.loaded /\ n.active.doc[1] = n.active.rev
    /\ n.loaded # NoVal => /\ n.active \in Renderers /\ n.active.rev = n.loaded
                           /\ n.style \in Documents /\ n.style[1] = n.loaded

\* The stages of a run before its style is set up, and after.
Before == {"admit", "permit", "setup", "loading"}
After  == {"source", "ensuring", "check_native", "native", "draw", "rendering"}

StageOK(w) ==
    /\ at[w] # "idle" => req[w] \in Requests
    /\ at[w] \in Before => current_profile[w] = before[w]
    /\ at[w] \in After => current_profile[w] = StyleKey(req[w])
    /\ result[w] = "completed" => at[w] = "finish"
    /\ at[w] = "finish" =>
           [result |-> result[w], current |-> current_profile[w]] \in RunResults(before[w], req[w])

CacheOK(w) == Len(cache[w]) <= source_cache_capacity /\ IsInjective(cache[w])

\* The document that was prepared for a profile and credentials.
DocumentOf(k) == <<k[1][1], k[2]>>

\* The worker's record c agrees with what actor n has loaded, and the sources in e are loaded
\* into its style.
Agrees(n, c) ==
    c # NoVal /\ HasLoaded(n) =>
        /\ n.loaded = c[1][1] /\ n.active.key = c[1][2] /\ n.active.rev = n.loaded
        /\ n.style = DocumentOf(c)
Holding(n, q, e) == HasLoaded(n) => ToSet(q) \subseteq e

\* What an actor has loaded it was given for the keys in s: one profile, the style last given
\* among them, and so the document in the renderer.
Provenance(n, s) ==
    HasLoaded(n) =>
        /\ \A k \in s : k[1] = <<n.loaded, n.active.key>>
        /\ \E k \in s : n.style = DocumentOf(k)
        /\ \E k \in s : n.active.doc = DocumentOf(k)

\* A record that the actor does not bear out.
Explained(n, c, l) == c # NoVal /\ ~HasLoaded(n) => l = "RenderFailed"

\* What actor n has loaded is what worker w takes it for.
Fits(n, w) ==
    /\ Agrees(n, current_profile[w])
    /\ Provenance(n, warmed[w])
    /\ current_profile[w] # NoVal /\ HasLoaded(n) => current_profile[w] \in warmed[w]
    /\ Holding(n, cache[w], ensured[w])

WarmOK(w) ==
    /\ native[w] = NoVal \/ ActorSound(native[w])
    /\ at[w] \in {"loading", "rendering"} => native[w] # NoVal
    /\ Fits(native[w], w)
    /\ Explained(native[w], current_profile[w], lost[w])

DrawnOK(w) ==
    result[w] = "completed" =>
        /\ StyleKey(req[w]) \in warmed[w]
        /\ \E k \in warmed[w] : k[1] = req[w].profile /\ drawn[w].doc = <<Revision(req[w]), k[2]>>
        /\ drawn[w].key = RenderKey(req[w]) /\ ~expired[w]

Sound(w) == StageOK(w) /\ CacheOK(w) /\ WarmOK(w) /\ DrawnOK(w)

Inv == Types /\ (\A w \in Workers : Sound(w)) /\ PermitsConserved

LEMMA UnloadedFits == ASSUME NEW n, ~HasLoaded(n), NEW w \in Workers PROVE Fits(n, w)
  BY DEF Fits, Agrees, Provenance, Holding

\* A step of one worker leaves the others alone.
Others(w) ==
    \A v \in Workers \ {w} :
        /\ at'[v] = at[v] /\ req'[v] = req[v] /\ expired'[v] = expired[v]
        /\ current_profile'[v] = current_profile[v] /\ cache'[v] = cache[v] /\ native'[v] = native[v]
        /\ result'[v] = result[v] /\ before'[v] = before[v] /\ ensured'[v] = ensured[v]
        /\ warmed'[v] = warmed[v] /\ lost'[v] = lost[v] /\ drawn'[v] = drawn[v]

LEMMA OthersSound ==
    ASSUME NEW w \in Workers, Others(w), \A v \in Workers : Sound(v), Sound(w)'
    PROVE  \A v \in Workers : Sound(v)'
  <1>1. ASSUME NEW v \in Workers \ {w} PROVE Sound(v)'
    <2>1. Sound(v)
      OBVIOUS
    <2>2. StageOK(v)'
      BY <2>1 DEF Others, Sound, StageOK
    <2>3. CacheOK(v)'
      BY <2>1 DEF Others, Sound, CacheOK
    <2>4. WarmOK(v)'
      BY <2>1 DEF Others, Sound, WarmOK, Fits
    <2>5. DrawnOK(v)'
      BY <2>1 DEF Others, Sound, DrawnOK
    <2> QED  BY <2>2, <2>3, <2>4, <2>5 DEF Sound
  <1> QED  BY <1>1

-----------------------------------------------------------------------------
(* SourceCache::touch                                                      *)

\* The first occurrence of a source is taken out of a cache that holds no source twice.
LEMMA RemoveFirstProperties ==
    ASSUME NEW S, NEW q \in Seq(S), NEW h, IsInjective(q)
    PROVE  /\ RemoveFirst(q, h) \in Seq(S)
           /\ Len(RemoveFirst(q, h)) <= Len(q)
           /\ IsInjective(RemoveFirst(q, h))
           /\ ToSet(RemoveFirst(q, h)) \subseteq ToSet(q) \ {h}
  <1> DEFINE I == {i \in 1..Len(q) : q[i] = h}
             n == Len(q)
             f == RemoveFirst(q, h)
  <1>1. n \in Nat /\ DOMAIN q = 1..n
    BY LenProperties
  <1>2. CASE I = {}
    <2>1. f = q
      BY <1>2 DEF RemoveFirst
    <2>2. h \notin ToSet(q)
      BY <1>1, <1>2 DEF ToSet
    <2>3. ToSet(f) \subseteq ToSet(q) \ {h} /\ Len(f) <= Len(q)
      BY <1>1, <2>1, <2>2
    <2> QED  BY <2>1, <2>3
  <1>3. CASE I # {}
    <2>1. PICK k \in 1..n : q[k] = h
      BY <1>3
    <2>2. I = {k}
      BY <1>1, <2>1 DEF IsInjective
    <2>3. Min(I) = k
      <3>1. Min({k}) \in {k}
        BY <2>1 DEF Min
      <3> QED  BY <2>2, <3>1
    <2> DEFINE a == SubSeq(q, 1, k - 1)
               b == SubSeq(q, k + 1, n)
    <2>4. f = a \o b
      <3>1. SelectInSeq(q, LAMBDA v : v = h) = k
        BY <1>3, <2>3 DEF SelectInSeq
      <3> QED  BY <1>3, <3>1 DEF RemoveFirst, RemoveAt
    <2>5. a \in Seq(S) /\ Len(a) = k - 1 /\ \A i \in 1..(k - 1) : a[i] = q[i]
      BY <1>1, <2>1, SubSeqProperties
    <2>6. b \in Seq(S) /\ Len(b) = n - k /\ \A i \in 1..(n - k) : b[i] = q[k + i]
      <3>1. \A i \in (k + 1)..n : q[i] \in S
        BY <1>1, <2>1, ElementOfSeq
      <3>2. k + 1 \in Int /\ n \in Int
        BY <1>1, <2>1
      <3>3. /\ b \in Seq(S) /\ Len(b) = IF k + 1 <= n THEN n - (k + 1) + 1 ELSE 0
            /\ \A i \in 1..(n - (k + 1) + 1) : b[i] = q[(k + 1) + i - 1]
        BY <3>1, <3>2, SubSeqProperties
      <3>4. n - (k + 1) + 1 = n - k /\ (k + 1 <= n \/ n - k = 0)
        <4>1. k \in Int /\ n \in Int /\ k <= n
          BY <1>1, <2>1
        <4> HIDE DEF n
        <4> QED  BY <4>1
      <3>5. \A i \in 1..(n - k) : (k + 1) + i - 1 = k + i
        <4>1. k \in Int /\ \A i \in 1..(n - k) : i \in Int
          BY <2>1
        <4>2. \A i \in Int : (k + 1) + i - 1 = k + i
          BY <4>1
        <4> QED  BY <4>1, <4>2
      <3>6. Len(b) = n - k
        BY <3>3, <3>4
      <3>7. \A i \in 1..(n - k) : b[i] = q[k + i]
        BY <3>3, <3>4, <3>5
      <3> QED  BY <3>3, <3>6, <3>7
    <2> HIDE DEF a, b, f, n
    <2>7. /\ f \in Seq(S) /\ Len(f) = n - 1
          /\ \A i \in 1..(n - 1) : f[i] = IF i < k THEN q[i] ELSE q[i + 1]
      <3>1. f \in Seq(S) /\ Len(f) = Len(a) + Len(b)
            /\ \A i \in 1..(Len(a) + Len(b)) : f[i] = IF i <= Len(a) THEN a[i] ELSE b[i - Len(a)]
        BY <2>4, <2>5, <2>6, ConcatProperties
      <3>2. Len(a) + Len(b) = n - 1
        BY <1>1, <2>1, <2>5, <2>6
      <3>3. ASSUME NEW i \in 1..(n - 1) PROVE f[i] = IF i < k THEN q[i] ELSE q[i + 1]
        <4>1. CASE i < k
          BY <1>1, <2>1, <2>5, <3>1, <3>2, <4>1
        <4>2. CASE ~(i < k)
          <5>1. i - Len(a) \in 1..(n - k) /\ k + (i - Len(a)) = i + 1 /\ ~(i <= Len(a))
            BY <1>1, <2>1, <2>5, <4>2
          <5> QED  BY <2>6, <3>1, <3>2, <4>2, <5>1
        <4> QED  BY <4>1, <4>2
      <3> QED  BY <3>1, <3>2, <3>3
    <2>8. DOMAIN f = 1..(n - 1)
      BY <1>1, <2>7, LenProperties
    <2> DEFINE g(i) == IF i < k THEN i ELSE i + 1
    <2>9. \A i \in 1..(n - 1) : g(i) \in 1..n /\ g(i) # k /\ f[i] = q[g(i)]
      BY <1>1, <2>1, <2>7
    <2>10. \A i, j \in 1..(n - 1) : g(i) = g(j) => i = j
      BY <1>1, <2>1
    <2> HIDE DEF g
    <2>11. IsInjective(f)
      BY <1>1, <2>8, <2>9, <2>10 DEF IsInjective
    <2>12. ToSet(f) \subseteq ToSet(q) \ {h}
      BY <1>1, <2>1, <2>8, <2>9 DEF ToSet, IsInjective
    <2>13. Len(f) <= n
      BY <1>1, <2>7
    <2> QED  BY <2>7, <2>11, <2>12, <2>13 DEF n, f
  <1> QED  BY <1>2, <1>3

\* A touched cache keeps to its capacity, holds no source twice, and nothing new but the
\* touched source.
LEMMA TouchedProperties ==
    ASSUME NEW S, NEW q \in Seq(S), NEW h \in S, IsInjective(q), Len(q) <= source_cache_capacity
    PROVE  /\ Touched(q, h) \in Seq(S)
           /\ Len(Touched(q, h)) <= source_cache_capacity
           /\ IsInjective(Touched(q, h))
           /\ ToSet(Touched(q, h)) \subseteq ToSet(q) \cup {h}
  <1> DEFINE p == RemoveFirst(q, h)
             m == Append(p, h)
  <1>1. /\ p \in Seq(S) /\ Len(p) <= Len(q) /\ IsInjective(p) /\ ToSet(p) \subseteq ToSet(q) \ {h}
        /\ Len(q) \in Nat /\ Len(p) \in Nat /\ DOMAIN p = 1..Len(p)
        /\ source_cache_capacity \in Nat \ {0}
    <2>1. /\ p \in Seq(S) /\ Len(p) <= Len(q) /\ IsInjective(p) /\ ToSet(p) \subseteq ToSet(q) \ {h}
      BY RemoveFirstProperties
    <2> QED  BY <2>1, LenProperties, WorkerAssumption
  <1> HIDE DEF p
  <1>2. /\ m \in Seq(S) /\ Len(m) = Len(p) + 1 /\ DOMAIN m = 1..(Len(p) + 1)
        /\ \A i \in 1..Len(p) : m[i] = p[i]
        /\ m[Len(p) + 1] = h
    <2>1. /\ m \in Seq(S) /\ Len(m) = Len(p) + 1
          /\ \A i \in 1..Len(p) : m[i] = p[i]
          /\ m[Len(p) + 1] = h
      BY <1>1, AppendProperties
    <2> QED  BY <1>1, <2>1, LenProperties
  <1>3. IsInjective(m)
    <2>1. \A i \in 1..Len(p) : p[i] # h
      BY <1>1 DEF ToSet
    <2> QED  BY <1>1, <1>2, <2>1 DEF IsInjective
  <1>4. ToSet(m) \subseteq ToSet(q) \cup {h}
    <2>1. ASSUME NEW i \in 1..(Len(p) + 1) PROVE m[i] \in ToSet(p) \cup {h}
      <3>1. i \in 1..Len(p) \/ i = Len(p) + 1
        BY <1>1
      <3> QED  BY <1>1, <1>2, <3>1 DEF ToSet
    <2>2. ToSet(m) \subseteq ToSet(p) \cup {h}
      BY <1>2, <2>1 DEF ToSet
    <2> QED  BY <1>1, <2>2
  <1> HIDE DEF m
  <1>5. CASE Len(m) > source_cache_capacity
    <2>1. m # <<>> /\ Len(m) >= 1
      BY <1>1, <1>2
    <2>2. /\ Tail(m) \in Seq(S) /\ Len(Tail(m)) = Len(m) - 1
          /\ \A i \in 1..Len(Tail(m)) : Tail(m)[i] = m[i + 1]
      BY <1>2, <2>1, HeadTailProperties
    <2>3. DOMAIN Tail(m) = 1..(Len(m) - 1)
      BY <2>2, LenProperties
    <2>4. \A i \in 1..(Len(m) - 1) : i + 1 \in DOMAIN m
      BY <1>1, <1>2
    <2>5. IsInjective(Tail(m))
      <3>1. ASSUME NEW i \in 1..(Len(m) - 1), NEW j \in 1..(Len(m) - 1), Tail(m)[i] = Tail(m)[j]
            PROVE  i = j
        <4>1. i + 1 = j + 1
          BY <1>3, <2>2, <2>4, <3>1 DEF IsInjective
        <4> QED  BY <4>1
      <3> QED  BY <2>3, <3>1 DEF IsInjective
    <2>6. ToSet(Tail(m)) \subseteq ToSet(m)
      BY <2>2, <2>3, <2>4 DEF ToSet
    <2>7. Len(Tail(m)) <= source_cache_capacity
      BY <1>1, <1>2, <2>2
    <2>8. Touched(q, h) = Tail(m)
      BY <1>5 DEF Touched, m, p
    <2> QED  BY <1>4, <2>2, <2>5, <2>6, <2>7, <2>8
  <1>6. CASE ~(Len(m) > source_cache_capacity)
    <2>1. Touched(q, h) = m /\ Len(m) <= source_cache_capacity
      <3>1. Touched(q, h) = m
        BY <1>6 DEF Touched, m, p
      <3> QED  BY <1>1, <1>2, <1>6, <3>1
    <2> QED  BY <1>2, <1>3, <1>4, <2>1
  <1> QED  BY <1>5, <1>6

-----------------------------------------------------------------------------
(* What one command does to an actor.                                      *)

Keys == {RenderKey(r) : r \in Requests}

LEMMA RequestShape ==
    ASSUME NEW r \in Requests
    PROVE  /\ Document(r) \in Documents /\ Document(r)[1] = Revision(r)
           /\ Revision(r) \in Revisions /\ Revision(r) # NoVal /\ RenderKey(r) \in Keys
           /\ StyleKey(r)[1][1] = Revision(r) /\ StyleKey(r)[1][2] = RenderKey(r)
           /\ StyleKey(r)[1] = r.profile /\ r.profile = <<Revision(r), RenderKey(r)>>
           /\ DocumentOf(StyleKey(r)) = Document(r)
  BY WorkerAssumption DEF Documents, Document, DocumentOf, Revisions, Keys, StyleKey, Revision, RenderKey

LEMMA DocumentShape ==
    ASSUME NEW d \in Documents PROVE d[1] \in Revisions /\ d[1] # NoVal
  BY RequestShape DEF Documents

\* A newly spawned actor has nothing loaded.
LEMMA FreshSound == ActorSound(Fresh) /\ Fresh.loaded = NoVal
  BY DEF ActorSound, Fresh, Actors

\* reset_loaded_state unmarks the renderer that stays.
LEMMA ResetSound ==
    ASSUME NEW n, ActorSound(n) PROVE ActorSound(Reset(n)) /\ Reset(n).loaded = NoVal
  <1>1. n \in Actors
    BY DEF ActorSound
  <1>2. CASE n.active = NoVal
    BY <1>2 DEF Reset, ActorSound, Actors
  <1>3. CASE n.active # NoVal
    <2>1. n.active \in Renderers
      BY <1>1, <1>3 DEF Actors
    <2> DEFINE a == [n.active EXCEPT !.rev = NoVal, !.doc = NoVal]
    <2>2. a \in Renderers /\ a.rev = NoVal
      BY <2>1 DEF Renderers
    <2>3. Reset(n) = [loaded |-> NoVal, style |-> NoVal, active |-> a]
      BY <1>3 DEF Reset
    <2> HIDE DEF a
    <2> QED  BY <2>2, <2>3 DEF ActorSound, Actors
  <1> QED  BY <1>2, <1>3

\* A renderer that was kept or built holds the document of the style that the backend has.
LEMMA EnsuredSound ==
    ASSUME NEW n \in Actors, NEW key \in Keys, n.style \in Documents,
           n.active # NoVal /\ n.active.rev # NoVal => n.active.doc[1] = n.active.rev
    PROVE  LET e == Ensured(n, key) IN
           /\ e \in Actors /\ e.loaded = n.loaded /\ e.style = n.style /\ e.active \in Renderers
           /\ e.active.key = key /\ e.active.rev = n.style[1] /\ e.active.doc[1] = n.style[1]
           /\ \/ e.active.doc = n.style
              \/ n.active # NoVal /\ n.active.key = key /\ n.active.rev = n.style[1] /\ e.active = n.active
  <1>1. n.style[1] \in Revisions /\ n.style[1] # NoVal
    BY DocumentShape
  <1>2. CASE NeedsLoad(n, key)
    <2> DEFINE a == [key |-> key, rev |-> n.style[1], doc |-> n.style, broken |-> FALSE]
    <2>1. a \in Renderers /\ a.key = key /\ a.rev = n.style[1] /\ a.doc = n.style
      BY <1>1 DEF Renderers, Keys
    <2>2. Ensured(n, key) = [n EXCEPT !.active = a]
      BY <1>2 DEF Ensured
    <2> HIDE DEF a
    <2> QED  BY <2>1, <2>2 DEF Actors
  <1>3. CASE ~NeedsLoad(n, key)
    <2>1. n.active # NoVal /\ n.active.key = key /\ n.active.rev = n.style[1]
      BY <1>3 DEF NeedsLoad, NeedsRebuild
    <2>2. n.active \in Renderers
      BY <2>1 DEF Actors
    <2>3. Ensured(n, key) = n
      BY <1>3 DEF Ensured
    <2> QED  BY <1>1, <2>1, <2>2, <2>3
  <1> QED  BY <1>2, <1>3

\* LoadProfile leaves the request's own revision and key loaded, or nothing.
LEMMA LoadSound ==
    ASSUME NEW n, ActorSound(n), NEW r \in Requests, NEW reply \in LoadProfile(n, r)
    PROVE  /\ ActorSound(reply.native)
           /\ reply.err = NoVal => /\ reply.native.loaded = Revision(r)
                                   /\ reply.native.active.key = RenderKey(r)
                                   /\ reply.native.active.rev = Revision(r)
                                   /\ reply.native.style = Document(r)
                                   /\ \/ reply.native.active.doc = Document(r)
                                      \/ /\ n.loaded = Revision(r) /\ n.active.key = RenderKey(r)
                                         /\ reply.native.active.doc = n.active.doc
           /\ reply.err # NoVal => /\ reply.err \in RendererError \ {"SourceFetchFailed"}
                                   /\ ~HasLoaded(reply.native)
  <1> DEFINE given == [n EXCEPT !.style = Document(r)]
             e == Ensured(given, RenderKey(r))
             loaded == [e EXCEPT !.loaded = Revision(r)]
  <1>1. n \in Actors /\ given \in Actors /\ given.style = Document(r) /\ given.active = n.active
    BY RequestShape DEF ActorSound, Actors
  <1>2. /\ e \in Actors /\ e.style = Document(r) /\ e.active \in Renderers
        /\ e.active.key = RenderKey(r) /\ e.active.rev = Revision(r) /\ e.active.doc[1] = Revision(r)
        /\ \/ e.active.doc = Document(r)
           \/ n.loaded = Revision(r) /\ n.active.key = RenderKey(r) /\ e.active.doc = n.active.doc
    <2>1. /\ given.style \in Documents /\ RenderKey(r) \in Keys
          /\ given.active # NoVal /\ given.active.rev # NoVal => given.active.doc[1] = given.active.rev
      BY <1>1, RequestShape DEF ActorSound
    <2>2. n.active # NoVal /\ n.active.rev = Revision(r) => n.loaded = Revision(r)
      BY RequestShape DEF ActorSound
    <2> HIDE DEF given
    <2> QED  BY <1>1, <2>1, <2>2, EnsuredSound, RequestShape
  <1>3. \/ reply = [err |-> NoVal, native |-> loaded]
        \/ \E x \in RendererError \ {"SourceFetchFailed"} : reply = [err |-> x, native |-> Reset(n)]
    <2>1. LoadErrors(given, RenderKey(r)) \cup {"RenderFailed"} \subseteq RendererError \ {"SourceFetchFailed"}
      BY DEF LoadErrors, RendererError
    <2> QED  BY <2>1 DEF LoadProfile
  <1> HIDE DEF e
  <1>4. /\ loaded \in Actors /\ loaded.active = e.active /\ loaded.style = e.style
        /\ loaded.loaded = Revision(r)
    BY <1>2, RequestShape DEF Actors
  <1>5. ActorSound(loaded)
    BY <1>2, <1>4, RequestShape DEF ActorSound
  <1> HIDE DEF loaded
  <1>6. CASE reply = [err |-> NoVal, native |-> loaded]
    BY <1>2, <1>4, <1>5, <1>6
  <1>7. CASE \E x \in RendererError \ {"SourceFetchFailed"} : reply = [err |-> x, native |-> Reset(n)]
    BY <1>7, ResetSound, WorkerAssumption DEF HasLoaded
  <1> QED  BY <1>3, <1>6, <1>7

\* Corrupt overlay slots change nothing else of a renderer.
LEMMA BrokenSound ==
    ASSUME NEW e, ActorSound(e), NEW key, NEW m \in MaybeBroken(e, key)
    PROVE  /\ ActorSound(m) /\ m.loaded = e.loaded
           /\ e.loaded # NoVal => /\ m.active.key = e.active.key /\ m.active.rev = e.active.rev
                                  /\ m.active.doc = e.active.doc /\ m.style = e.style
  <1>1. CASE m = e
    BY <1>1
  <1>2. CASE e.active # NoVal /\ m = [e EXCEPT !.active.broken = TRUE]
    <2> DEFINE a == [e.active EXCEPT !.broken = TRUE]
    <2>1. e \in Actors /\ e.active \in Renderers
      BY <1>2 DEF ActorSound, Actors
    <2>2. a \in Renderers /\ a.key = e.active.key /\ a.rev = e.active.rev /\ a.doc = e.active.doc
      BY <2>1 DEF Renderers
    <2>3. m = [e EXCEPT !.active = a]
      BY <1>2
    <2> HIDE DEF a
    <2>4. m \in Actors /\ m.loaded = e.loaded /\ m.style = e.style /\ m.active = a
      BY <2>1, <2>2, <2>3 DEF Actors
    <2> QED  BY <1>2, <2>2, <2>4 DEF ActorSound
  <1> QED  BY <1>1, <1>2 DEF MaybeBroken

\* Render draws in the request's own revision and key, and what an error leaves loaded was
\* loaded before.
LEMMA RenderSound ==
    ASSUME NEW n, ActorSound(n), NEW r \in Requests, NEW s,
           Agrees(n, StyleKey(r)), Provenance(n, s), NEW reply \in Render(n, r)
    PROVE  /\ ActorSound(reply.native)
           /\ Agrees(reply.native, StyleKey(r)) /\ Provenance(reply.native, s)
           /\ HasLoaded(reply.native) => HasLoaded(n)
           /\ reply.err # NoVal => reply.err \in RendererError \ {"SourceFetchFailed"}
           /\ reply.err = NoVal => /\ HasLoaded(reply.native) /\ reply.native.active \in Renderers
                                   /\ \E k \in s : /\ k[1] = r.profile
                                                   /\ reply.native.active.doc = <<Revision(r), k[2]>>
                                   /\ reply.native.active.key = RenderKey(r)
  <1> DEFINE e == Ensured(n, RenderKey(r))
             kept == {n} \cup MaybeBroken(e, RenderKey(r))
             Errors == RendererError \ {"SourceFetchFailed"}
  <1>1. CASE n.loaded # Revision(r)
    <2>1. reply = [err |-> "StyleNotReady", native |-> Reset(n)]
      BY <1>1 DEF Render
    <2>2. reply.err \in Errors /\ reply.err # NoVal
      BY <2>1, WorkerAssumption DEF RendererError
    <2>3. ActorSound(reply.native) /\ ~HasLoaded(reply.native)
      BY <2>1, ResetSound DEF HasLoaded
    <2> QED  BY <2>2, <2>3 DEF Agrees, Provenance
  <1>2. CASE n.loaded = Revision(r)
    <2>1. /\ n.loaded # NoVal /\ n \in Actors /\ n.style \in Documents /\ n.style = Document(r) /\ n # NoVal
          /\ n.active \in Renderers /\ n.active.key = RenderKey(r) /\ n.active.rev = Revision(r)
      <3>1. n.loaded # NoVal /\ n \in Actors /\ n.style \in Documents /\ n.active \in Renderers
        BY <1>2, RequestShape DEF ActorSound
      <3>2. n # NoVal /\ StyleKey(r) # NoVal
        BY <3>1, WorkerAssumption
      <3> QED  BY <1>2, <3>1, <3>2, RequestShape DEF Agrees, HasLoaded, DocumentOf
    <2>2. /\ \A k \in s : k[1] = r.profile
          /\ \E k \in s : n.style = DocumentOf(k)
          /\ \E k \in s : n.active.doc = DocumentOf(k)
      BY <1>2, <2>1, RequestShape DEF Provenance, HasLoaded
    <2>3. /\ e \in Actors /\ e.loaded = Revision(r) /\ e.style = n.style /\ e.active \in Renderers
          /\ e.active.key = RenderKey(r) /\ e.active.rev = Revision(r) /\ e.active.doc[1] = Revision(r)
          /\ e.active.doc \in {n.style, n.active.doc}
      BY <1>2, <2>1, EnsuredSound, RequestShape DEF ActorSound
    <2> HIDE DEF e
    <2>4. ActorSound(e) /\ Agrees(e, StyleKey(r)) /\ Provenance(e, s) /\ HasLoaded(e)
      <3>1. ActorSound(e)
        BY <2>1, <2>3, RequestShape DEF ActorSound
      <3>2. HasLoaded(e)
        BY <2>3, WorkerAssumption, RequestShape DEF HasLoaded
      <3>3. Agrees(e, StyleKey(r))
        BY <2>1, <2>3, RequestShape DEF Agrees, DocumentOf
      <3>4. Provenance(e, s)
        BY <2>2, <2>3, RequestShape DEF Provenance
      <3> QED  BY <3>1, <3>2, <3>3, <3>4
    <2>5. ASSUME NEW m \in kept PROVE ActorSound(m) /\ Agrees(m, StyleKey(r)) /\ Provenance(m, s)
      <3>1. CASE m = n
        BY <3>1
      <3>2. CASE m \in MaybeBroken(e, RenderKey(r))
        <4>1. /\ ActorSound(m) /\ m.loaded = Revision(r)
              /\ m.active.key = RenderKey(r) /\ m.active.rev = Revision(r)
              /\ m.active.doc = e.active.doc /\ m.style = e.style
          BY <2>3, <2>4, <3>2, BrokenSound, RequestShape
        <4> QED  BY <2>1, <2>2, <2>3, <4>1, RequestShape DEF Agrees, Provenance
      <3> QED  BY <2>5, <3>1, <3>2
    <2>6. \/ reply = [err |-> NoVal, native |-> e]
          \/ \E m \in kept : \/ reply = [err |-> "RenderFailed", native |-> m]
                             \/ reply = [err |-> "RenderFailed", native |-> Reset(m)]
          \/ \E x \in LoadErrors(n, RenderKey(r)) : reply = [err |-> x, native |-> Reset(n)]
      BY <1>2 DEF Render, e
    <2> HIDE DEF kept
    <2>7. HasLoaded(n)
      BY <2>1 DEF HasLoaded
    <2>8. CASE reply = [err |-> NoVal, native |-> e]
      <3>1. \E k \in s : k[1] = r.profile /\ e.active.doc = <<Revision(r), k[2]>>
        BY <2>2, <2>3, RequestShape DEF DocumentOf
      <3> QED  BY <2>3, <2>4, <2>7, <2>8, <3>1
    <2>9. ASSUME NEW m \in kept, reply = [err |-> "RenderFailed", native |-> m]
          PROVE  /\ ActorSound(reply.native) /\ Agrees(reply.native, StyleKey(r)) /\ Provenance(reply.native, s)
                 /\ reply.err # NoVal /\ reply.err \in Errors
      BY <2>5, <2>9, WorkerAssumption DEF RendererError
    <2>10. ASSUME NEW m, ActorSound(m), NEW x \in Errors, reply = [err |-> x, native |-> Reset(m)]
           PROVE  /\ ActorSound(reply.native) /\ Agrees(reply.native, StyleKey(r)) /\ Provenance(reply.native, s)
                  /\ reply.err # NoVal /\ reply.err \in Errors
      <3>1. ActorSound(reply.native) /\ ~HasLoaded(reply.native)
        BY <2>10, ResetSound DEF HasLoaded
      <3>2. reply.err # NoVal /\ reply.err \in Errors
        BY <2>10, WorkerAssumption
      <3> QED  BY <3>1, <3>2 DEF Agrees, Provenance
    <2>11. "RenderFailed" \in Errors /\ LoadErrors(n, RenderKey(r)) \subseteq Errors
      BY DEF RendererError, LoadErrors
    <2>12. \/ reply = [err |-> NoVal, native |-> e]
           \/ \E m \in kept : reply = [err |-> "RenderFailed", native |-> m]
           \/ \E m, x : ActorSound(m) /\ x \in Errors /\ reply = [err |-> x, native |-> Reset(m)]
      BY <2>5, <2>6, <2>11
    <2> QED  BY <2>7, <2>8, <2>9, <2>10, <2>12
  <1> QED  BY <1>1, <1>2

-----------------------------------------------------------------------------
(* The ends of a run.                                                      *)

LEMMA RunStages ==
    ASSUME Types, NEW w \in Workers, at[w] \notin {"idle", "finish"} PROVE at[w] \in Before \cup After
  BY DEF Types, Stages, Awaiting, Checked, Before, After

\* Where a run may stop before it completes, its record is the one it found or its own.
LEMMA Uncompleted ==
    ASSUME Types, NEW w \in Workers, Sound(w), at[w] \notin {"idle", "finish"}
    PROVE  /\ req[w] \in Requests /\ current_profile[w] \in {before[w], StyleKey(req[w])}
           /\ \A x \in {"rejected", "failed"} :
                  [result |-> x, current |-> current_profile[w]] \in RunResults(before[w], req[w])
           /\ [result |-> "failed", current |-> NoVal] \in RunResults(before[w], req[w])
  <1>1. req[w] \in Requests /\ current_profile[w] \in {before[w], StyleKey(req[w])}
    BY RunStages DEF Sound, StageOK
  <1> QED  BY <1>1 DEF RunResults

\* A deadline that has passed at a check or at a semaphore rejects the request and touches
\* nothing that is warm.
LEMMA RejectStep ==
    ASSUME Types, NEW w \in Workers, Sound(w), at[w] \notin {"idle", "finish"}, Reject(w)
    PROVE  Types' /\ Sound(w)' /\ Others(w)
  <1>1. /\ at' = [at EXCEPT ![w] = "finish"] /\ result' = [result EXCEPT ![w] = "rejected"]
        /\ DropPermits(w)
        /\ UNCHANGED <<req, expired, current_profile, cache, native, error, before, ensured, warmed, lost, drawn>>
    BY DEF Reject, GoTo
  <1>2. Types'
    BY <1>1 DEF Types, DropPermits, Stages
  <1>3. at'[w] = "finish" /\ result'[w] = "rejected"
    BY <1>1 DEF Types
  <1>4. StageOK(w)'
    BY <1>1, <1>3, Uncompleted DEF StageOK, Before, After
  <1>5. CacheOK(w)'
    BY <1>1 DEF Sound, CacheOK
  <1>6. WarmOK(w)'
    BY <1>1, <1>3 DEF Sound, WarmOK, Fits
  <1>7. DrawnOK(w)'
    BY <1>3 DEF DrawnOK
  <1>8. Others(w)
    BY <1>1 DEF Others, Types
  <1> QED  BY <1>2, <1>4, <1>5, <1>6, <1>7, <1>8 DEF Sound

\* A renderer error, with actor n left behind: what is invalid is forgotten.
LEMMA FailStep ==
    ASSUME Types, NEW w \in Workers, Sound(w), at[w] \notin {"idle", "finish"},
           NEW err \in RendererError, NEW n, n = NoVal \/ ActorSound(n), Fits(n, w),
           err = "SourceFetchFailed" => n = native[w], Fail(w, err, n)
    PROVE  Types' /\ Sound(w)' /\ Others(w)
  <1>1. /\ at' = [at EXCEPT ![w] = "finish"] /\ result' = [result EXCEPT ![w] = "failed"]
        /\ error' = [error EXCEPT ![w] = err] /\ DropPermits(w)
        /\ UNCHANGED <<req, expired, before, drawn>>
    BY DEF Fail, GoTo
  <1>2. PICK m \in Retired(n, err) :
            /\ native' = [native EXCEPT ![w] = m]
            /\ ensured' = [ensured EXCEPT ![w] = IF HasLoaded(m) THEN @ ELSE {}]
            /\ warmed' = [warmed EXCEPT ![w] = IF HasLoaded(m) THEN @ ELSE {}]
            /\ lost' = [lost EXCEPT ![w] = IF renderer_error_invalidates_warm_state(err) THEN NoVal
                                          ELSE IF HasLoaded(native[w]) /\ ~HasLoaded(m) THEN err ELSE @]
    BY DEF Fail
  <1>3. \/ /\ current_profile' = [current_profile EXCEPT ![w] = NoVal]
           /\ cache' = [cache EXCEPT ![w] = <<>>]
        \/ /\ ~renderer_error_invalidates_warm_state(err)
           /\ UNCHANGED <<current_profile, cache>>
    BY DEF Fail
  <1>4. (m = NoVal \/ ActorSound(m)) /\ Fits(m, w) /\ (err # "Timeout" => m = n)
    <2>1. m = n \/ (err = "Timeout" /\ (m = NoVal \/ m = Fresh))
      BY DEF Retired
    <2> QED  BY <2>1, FreshSound, UnloadedFits DEF HasLoaded
  <1>5. /\ at'[w] = "finish" /\ result'[w] = "failed" /\ native'[w] = m
        /\ current_profile'[w] \in {NoVal, current_profile[w]}
        /\ cache'[w] \in {<<>>, cache[w]}
        /\ ensured'[w] = IF HasLoaded(m) THEN ensured[w] ELSE {}
        /\ warmed'[w] = IF HasLoaded(m) THEN warmed[w] ELSE {}
        /\ lost'[w] = IF renderer_error_invalidates_warm_state(err) THEN NoVal
                      ELSE IF HasLoaded(native[w]) /\ ~HasLoaded(m) THEN err ELSE lost[w]
        /\ renderer_error_invalidates_warm_state(err) \/ current_profile'[w] = NoVal
              \/ current_profile'[w] = current_profile[w]
        /\ renderer_error_invalidates_warm_state(err) => current_profile'[w] = NoVal
    BY <1>1, <1>2, <1>3 DEF Types, Fail
  <1>6. Types'
    <2>1. /\ at' \in [Workers -> Stages] /\ req' \in [Workers -> Requests \cup {NoVal}]
          /\ expired' \in [Workers -> BOOLEAN]
          /\ result' \in [Workers -> {"completed", "rejected", "failed", NoVal}]
          /\ error' \in [Workers -> RendererError \cup {NoVal}]
      BY <1>1 DEF Types, Stages
    <2>2. /\ before' \in [Workers -> {StyleKey(r) : r \in Requests} \cup {NoVal}]
          /\ drawn' \in [Workers -> Renderers \cup {NoVal}]
          /\ current_profile' \in [Workers -> {StyleKey(r) : r \in Requests} \cup {NoVal}]
      BY <1>1, <1>3 DEF Types
    <2>3. cache' \in [Workers -> Seq(HashesOf)]
      <3>1. <<>> \in Seq(HashesOf)
        BY EmptySeq
      <3>2. cache \in [Workers -> Seq(HashesOf)]
        BY DEF Types
      <3>3. cache' = [cache EXCEPT ![w] = <<>>] \/ cache' = cache
        BY <1>3
      <3> QED  BY <3>1, <3>2, <3>3
    <2>4. native' \in [Workers -> Actors \cup {NoVal}]
      BY <1>2, <1>4 DEF Types, ActorSound
    <2>5. /\ ensured' \in [Workers -> SUBSET HashesOf]
          /\ warmed' \in [Workers -> SUBSET {StyleKey(r) : r \in Requests}]
          /\ lost' \in [Workers -> RendererError \cup {NoVal}]
      BY <1>2 DEF Types
    <2>6. render_permits' \in Nat /\ native_render_permits' \in Nat
      BY <1>1 DEF Types, DropPermits
    <2> QED  BY <2>1, <2>2, <2>3, <2>4, <2>5, <2>6 DEF Types
  <1>7. StageOK(w)'
    BY <1>1, <1>5, Uncompleted DEF StageOK, Before, After
  <1>8. CacheOK(w)'
    <2>1. CASE cache'[w] = <<>>
      BY <2>1, WorkerAssumption DEF CacheOK, IsInjective
    <2>2. CASE cache'[w] = cache[w]
      BY <2>2 DEF CacheOK, Sound
    <2> QED  BY <1>5, <2>1, <2>2
  <1>9. WarmOK(w)'
    <2>1. Agrees(m, current_profile'[w]) /\ Provenance(m, warmed'[w])
      BY <1>4, <1>5 DEF Fits, Agrees, Provenance
    <2>2. Holding(m, cache'[w], ensured'[w])
      <3>1. ToSet(<<>>) = {}
        BY DEF ToSet
      <3> QED  BY <1>4, <1>5, <3>1 DEF Fits, Holding
    <2>3. current_profile'[w] # NoVal /\ HasLoaded(m) => current_profile'[w] \in warmed'[w]
      BY <1>4, <1>5 DEF Fits
    <2>4. Explained(m, current_profile'[w], lost'[w])
      <3> SUFFICES ASSUME current_profile'[w] # NoVal, ~HasLoaded(m) PROVE lost'[w] = "RenderFailed"
        BY DEF Explained
      <3>1. /\ ~renderer_error_invalidates_warm_state(err) /\ current_profile[w] # NoVal
            /\ lost'[w] = IF HasLoaded(native[w]) THEN err ELSE lost[w]
        BY <1>5
      <3>2. err \in {"SourceFetchFailed", "RenderFailed"} /\ m = n
        BY <1>4, <3>1 DEF renderer_error_invalidates_warm_state, RendererError
      <3>3. HasLoaded(native[w]) => err = "RenderFailed"
        BY <3>2
      <3> QED  BY <3>1, <3>3 DEF Sound, WarmOK, Explained
    <2>5. Fits(m, w)'
      <3>1. native'[w] = m
        BY <1>5
      <3> QED  BY <2>1, <2>2, <2>3, <3>1 DEF Fits
    <2> QED  BY <1>4, <1>5, <2>4, <2>5 DEF WarmOK
  <1>10. DrawnOK(w)'
    BY <1>5 DEF DrawnOK
  <1>11. Others(w)
    <2>1. \A v \in Workers \ {w} :
              /\ at'[v] = at[v] /\ req'[v] = req[v] /\ expired'[v] = expired[v]
              /\ result'[v] = result[v] /\ before'[v] = before[v] /\ drawn'[v] = drawn[v]
      BY <1>1 DEF Types
    <2>2. \A v \in Workers \ {w} : native'[v] = native[v] /\ ensured'[v] = ensured[v]
                                    /\ warmed'[v] = warmed[v] /\ lost'[v] = lost[v]
      BY <1>2 DEF Types
    <2>3. \A v \in Workers \ {w} : current_profile'[v] = current_profile[v] /\ cache'[v] = cache[v]
      BY <1>3 DEF Types
    <2> QED  BY <2>1, <2>2, <2>3 DEF Others
  <1> QED  BY <1>6, <1>7, <1>8, <1>9, <1>10, <1>11 DEF Sound

\* A call finds an actor, spawns one, or fails.
LEMMA CallStep ==
    ASSUME Types, NEW w \in Workers, Sound(w),
           NEW stage \in {"loading", "rendering"},
           (stage = "loading" /\ at[w] = "setup") \/ (stage = "rendering" /\ at[w] = "draw"),
           Call(w, stage)
    PROVE  Types' /\ Sound(w)' /\ Others(w)
  <1>1. PICK n \in Actor(native[w]) :
            \/ /\ n = NoVal
               /\ \E err \in {"ActorDead", "RenderFailed"} : Fail(w, err, NoVal)
            \/ /\ n # NoVal
               /\ native' = [native EXCEPT ![w] = n]
               /\ GoTo(w, stage)
               /\ UNCHANGED <<req, expired, current_profile, cache, result, error, permitVars,
                              before, ensured, warmed, lost, drawn>>
    BY DEF Call
  <1>2. CASE \E err \in {"ActorDead", "RenderFailed"} : Fail(w, err, NoVal)
    <2>1. PICK err \in {"ActorDead", "RenderFailed"} : Fail(w, err, NoVal)
      BY <1>2
    <2>2. err \in RendererError
      BY DEF RendererError
    <2>3. Fits(NoVal, w) /\ err # "SourceFetchFailed"
      BY UnloadedFits DEF HasLoaded
    <2> QED  BY <2>1, <2>2, <2>3, FailStep
  <1>3. CASE /\ n # NoVal
             /\ native' = [native EXCEPT ![w] = n]
             /\ GoTo(w, stage)
             /\ UNCHANGED <<req, expired, current_profile, cache, result, error, permitVars,
                            before, ensured, warmed, lost, drawn>>
    <2>1. n = native[w] \/ n = Fresh
      BY <1>3 DEF Actor
    <2>2. ActorSound(n) /\ Fits(n, w) /\ (HasLoaded(n) <=> HasLoaded(native[w]))
      <3>1. CASE n = native[w]
        BY <1>3, <3>1 DEF Sound, WarmOK
      <3>2. CASE n # native[w]
        <4>1. n = Fresh /\ native[w] = NoVal
          BY <2>1, <3>2, <1>1 DEF Actor
        <4> QED  BY <4>1, FreshSound, UnloadedFits DEF HasLoaded
      <3> QED  BY <3>1, <3>2
    <2>3. n \in Actors
      BY <2>2 DEF ActorSound
    <2>4. Types'
      BY <1>3, <2>3 DEF Types, GoTo, Stages, permitVars
    <2>5. at'[w] = stage /\ native'[w] = n
      BY <1>3 DEF Types, GoTo
    <2>6. StageOK(w)'
      BY <1>3, <2>5 DEF Sound, StageOK, Before, After
    <2>7. CacheOK(w)' /\ DrawnOK(w)'
      BY <1>3 DEF Sound, CacheOK, DrawnOK
    <2>8. WarmOK(w)'
      BY <1>3, <2>2, <2>5 DEF Sound, WarmOK, Fits, Explained
    <2>9. Others(w)
      BY <1>3 DEF Others, Types, GoTo
    <2> QED  BY <2>4, <2>6, <2>7, <2>8, <2>9 DEF Sound
  <1> QED  BY <1>1, <1>2, <1>3

-----------------------------------------------------------------------------
(* The steps of a run.                                                     *)

\* A step that only takes the worker on, or lets the deadline pass.
LEMMA MoveStep ==
    ASSUME Types, NEW w \in Workers, Sound(w), NEW stage \in Stages \ {"idle", "finish", "loading", "rendering"},
           at[w] \notin {"idle", "finish"}, at' = [at EXCEPT ![w] = stage],
           stage \in Before => at[w] \in Before,
           stage \in After => current_profile[w] = StyleKey(req[w]),
           UNCHANGED <<req, expired, current_profile, cache, native, result, error, before, ensured, warmed, lost, drawn>>,
           render_permits' \in Nat, native_render_permits' \in Nat
    PROVE  Types' /\ Sound(w)' /\ Others(w)
  <1>1. Types'
    BY DEF Types
  <1>2. at'[w] = stage /\ result[w] # "completed"
    BY DEF Types, Sound, StageOK
  <1>3. StageOK(w)'
    BY <1>2 DEF Sound, StageOK
  <1>4. CacheOK(w)' /\ DrawnOK(w)'
    BY DEF Sound, CacheOK, DrawnOK
  <1>5. WarmOK(w)'
    BY <1>2 DEF Sound, WarmOK, Fits
  <1>6. Others(w)
    BY DEF Others, Types
  <1> QED  BY <1>1, <1>3, <1>4, <1>5, <1>6 DEF Sound

\* The waits, and the permits they end with.
LEMMA MovesStep ==
    ASSUME Types, NEW w \in Workers, Sound(w),
           \/ AwaitRenderPermit(w) \/ AcquireRenderPermit(w) \/ EnsureSource(w)
           \/ AwaitNativePermit(w) \/ AcquireNativePermit(w)
    PROVE  Types' /\ Sound(w)' /\ Others(w)
  <1>1. /\ UNCHANGED <<req, expired, current_profile, cache, native, result, error, before, ensured, warmed, lost, drawn>>
        /\ at[w] \notin {"idle", "finish"}
    BY DEF AwaitRenderPermit, AcquireRenderPermit, EnsureSource, AwaitNativePermit, AcquireNativePermit
  <1>2. render_permits' \in Nat /\ native_render_permits' \in Nat
    BY DEF Types, AwaitRenderPermit, AcquireRenderPermit, EnsureSource, AwaitNativePermit,
           AcquireNativePermit, permitVars
  <1>3. CASE AwaitRenderPermit(w)
    <2>1. at[w] = "admit" /\ at' = [at EXCEPT ![w] = "permit"]
      BY <1>3 DEF AwaitRenderPermit, GoTo
    <2> QED  BY <1>1, <1>2, <2>1, MoveStep DEF Stages, Awaiting, Before, After
  <1>4. CASE AcquireRenderPermit(w)
    <2>1. PICK stage \in {"setup", "source"} :
              /\ stage = "source" => current_profile[w] = StyleKey(req[w])
              /\ at' = [at EXCEPT ![w] = stage]
      BY <1>4 DEF AcquireRenderPermit, GoTo, style_swap
    <2>2. at[w] = "permit"
      BY <1>4 DEF AcquireRenderPermit
    <2> QED  BY <1>1, <1>2, <2>1, <2>2, MoveStep DEF Stages, Checked, Before, After
  <1>5. CASE EnsureSource(w) \/ AwaitNativePermit(w) \/ AcquireNativePermit(w)
    <2>1. PICK stage \in {"ensuring", "native", "draw"} : at' = [at EXCEPT ![w] = stage]
      BY <1>5 DEF EnsureSource, AwaitNativePermit, AcquireNativePermit, GoTo
    <2>2. at[w] \in {"source", "check_native", "native"}
      BY <1>5 DEF EnsureSource, AwaitNativePermit, AcquireNativePermit
    <2>3. current_profile[w] = StyleKey(req[w])
      BY <2>2 DEF Sound, StageOK, After
    <2> QED  BY <1>1, <1>2, <2>1, <2>2, <2>3, MoveStep DEF Stages, Awaiting, Checked, Before, After
  <1> QED  BY <1>3, <1>4, <1>5

\* Between two requests.
LEMMA IdleStep ==
    ASSUME Types, NEW w \in Workers, Sound(w), Recv(w) \/ Finish(w) \/ Repair(w) \/ Expire(w)
    PROVE  Types' /\ Sound(w)' /\ Others(w)
  <1>1. CASE Recv(w)
    <2>1. PICK r \in Requests, late \in BOOLEAN :
              req' = [req EXCEPT ![w] = r] /\ expired' = [expired EXCEPT ![w] = late]
      BY <1>1 DEF Recv
    <2>2. /\ at[w] = "idle" /\ at' = [at EXCEPT ![w] = "admit"]
          /\ before' = [before EXCEPT ![w] = current_profile[w]]
          /\ UNCHANGED <<current_profile, cache, native, result, error, permitVars, ensured, warmed, lost, drawn>>
      BY <1>1 DEF Recv, GoTo
    <2>3. Types'
      BY <2>1, <2>2 DEF Types, Stages, Checked, permitVars
    <2>4. /\ at'[w] = "admit" /\ req'[w] = r /\ before'[w] = current_profile[w]
          /\ result[w] # "completed"
      BY <2>1, <2>2 DEF Types, Sound, StageOK
    <2>5. StageOK(w)' /\ DrawnOK(w)'
      BY <2>2, <2>4 DEF StageOK, DrawnOK, Before, After
    <2>6. CacheOK(w)' /\ WarmOK(w)'
      BY <2>2, <2>4 DEF Sound, CacheOK, WarmOK, Fits
    <2>7. Others(w)
      BY <2>1, <2>2 DEF Others, Types
    <2> QED  BY <2>3, <2>5, <2>6, <2>7 DEF Sound
  <1>2. CASE Finish(w)
    <2>1. /\ at[w] = "finish" /\ at' = [at EXCEPT ![w] = "idle"] /\ result' = [result EXCEPT ![w] = NoVal]
          /\ error' = [error EXCEPT ![w] = NoVal] /\ drawn' = [drawn EXCEPT ![w] = NoVal]
          /\ before' = [before EXCEPT ![w] = NoVal] /\ req' = [req EXCEPT ![w] = NoVal]
          /\ expired' = [expired EXCEPT ![w] = FALSE]
          /\ UNCHANGED <<current_profile, cache, native, permitVars, ensured, warmed, lost>>
      BY <1>2 DEF Finish, GoTo
    <2>2. Types'
      BY <2>1 DEF Types, Stages, permitVars
    <2>3. at'[w] = "idle" /\ result'[w] # "completed"
      BY <2>1, WorkerAssumption DEF Types
    <2>4. StageOK(w)' /\ DrawnOK(w)'
      BY <2>3 DEF StageOK, DrawnOK, Before, After
    <2>5. CacheOK(w)' /\ WarmOK(w)'
      BY <2>1, <2>3 DEF Sound, CacheOK, WarmOK, Fits
    <2>6. Others(w)
      BY <2>1 DEF Others, Types
    <2> QED  BY <2>2, <2>4, <2>5, <2>6 DEF Sound
  <1>3. CASE Repair(w)
    <2>1. /\ at[w] = "idle" /\ native' = [native EXCEPT ![w] = Fresh]
          /\ UNCHANGED <<at, req, expired, current_profile, cache, result, error, permitVars, before,
                         ensured, warmed, lost, drawn>>
      BY <1>3 DEF Repair
    <2>2. Fresh \in Actors
      BY FreshSound DEF ActorSound
    <2>3. Types'
      BY <2>1, <2>2 DEF Types, permitVars
    <2>4. StageOK(w)' /\ DrawnOK(w)' /\ CacheOK(w)'
      BY <2>1 DEF Sound, StageOK, DrawnOK, CacheOK
    <2>5. native'[w] = Fresh
      BY <2>1 DEF Types
    <2>6. WarmOK(w)'
      <3>1. native[w] = NoVal /\ ~HasLoaded(native[w]) /\ ~HasLoaded(Fresh)
        BY <1>3, FreshSound DEF Repair, HasLoaded
      <3>2. Fits(Fresh, w)
        BY <3>1, UnloadedFits
      <3> QED  BY <2>1, <2>5, <3>1, <3>2, FreshSound DEF Sound, WarmOK, Fits, Explained
    <2>7. Others(w)
      BY <2>1 DEF Others, Types
    <2> QED  BY <2>3, <2>4, <2>6, <2>7 DEF Sound
  <1>4. CASE Expire(w)
    <2>1. /\ at[w] \notin {"idle", "finish"} /\ expired' = [expired EXCEPT ![w] = TRUE]
          /\ UNCHANGED <<at, req, current_profile, cache, native, result, error, permitVars, before,
                         ensured, warmed, lost, drawn>>
      BY <1>4 DEF Expire
    <2>2. Types'
      BY <2>1 DEF Types, permitVars
    <2>3. StageOK(w)' /\ CacheOK(w)'
      BY <2>1 DEF Sound, StageOK, CacheOK
    <2>4. DrawnOK(w)'
      BY <2>1 DEF Sound, StageOK, DrawnOK
    <2>5. WarmOK(w)'
      BY <2>1 DEF Sound, WarmOK, Fits
    <2>6. Others(w)
      BY <2>1 DEF Others, Types
    <2> QED  BY <2>2, <2>3, <2>4, <2>5, <2>6 DEF Sound
  <1> QED  BY <1>1, <1>2, <1>3, <1>4

\* What a failing call that leaves its actor alone needs.
LEMMA OwnActor ==
    ASSUME NEW w \in Workers, Sound(w)
    PROVE  /\ native[w] = NoVal \/ ActorSound(native[w])
           /\ Fits(native[w], w)
  BY DEF Sound, WarmOK

\* setup_profile and the deadline of a call.
LEMMA SetupStep ==
    ASSUME Types, NEW w \in Workers, Sound(w), SetupProfile(w) \/ ReplyTimeout(w) \/ StartRender(w)
    PROVE  Types' /\ Sound(w)' /\ Others(w)
  <1>1. "StyleLoadFailed" \in RendererError /\ "Timeout" \in RendererError
    BY DEF RendererError
  <1>2. CASE SetupProfile(w)
    <2>1. at[w] = "setup" /\ (Call(w, "loading") \/ Fail(w, "StyleLoadFailed", native[w]))
      BY <1>2 DEF SetupProfile
    <2> QED  BY <1>1, <2>1, CallStep, FailStep, OwnActor
  <1>3. CASE ReplyTimeout(w)
    <2>1. at[w] \in {"loading", "rendering"} /\ Fail(w, "Timeout", native[w])
      BY <1>3 DEF ReplyTimeout
    <2> QED  BY <1>1, <2>1, FailStep, OwnActor
  <1>4. CASE StartRender(w)
    <2>1. at[w] = "draw" /\ Call(w, "rendering")
      BY <1>4 DEF StartRender
    <2> QED  BY <2>1, CallStep
  <1> QED  BY <1>2, <1>3, <1>4

\* The reply to LoadProfile: the record follows the actor.
LEMMA ProfileLoadedStep ==
    ASSUME Types, NEW w \in Workers, Sound(w), ProfileLoaded(w)
    PROVE  Types' /\ Sound(w)' /\ Others(w)
  <1>1. at[w] = "loading" /\ req[w] \in Requests /\ ActorSound(native[w])
    BY DEF ProfileLoaded, Sound, StageOK, WarmOK, Fits
  <1>2. PICK reply \in LoadProfile(native[w], req[w]) :
            \/ /\ reply.err # NoVal
               /\ Fail(w, reply.err, reply.native)
            \/ /\ reply.err = NoVal
               /\ native' = [native EXCEPT ![w] = reply.native]
               /\ current_profile' = [current_profile EXCEPT ![w] = StyleKey(req[w])]
               /\ cache' = [cache EXCEPT ![w] = <<>>]
               /\ ensured' = [ensured EXCEPT ![w] = {}]
               /\ warmed' = [warmed EXCEPT ![w] = {k \in @ : k[1] = req[w].profile} \cup {StyleKey(req[w])}]
               /\ lost' = [lost EXCEPT ![w] = NoVal]
               /\ GoTo(w, "source")
               /\ UNCHANGED <<req, expired, result, error, permitVars, before, drawn>>
    BY DEF ProfileLoaded
  <1>3. /\ ActorSound(reply.native)
        /\ reply.err = NoVal => /\ reply.native.loaded = Revision(req[w])
                                /\ reply.native.active.key = RenderKey(req[w])
                                /\ reply.native.active.rev = Revision(req[w])
                                /\ reply.native.style = Document(req[w])
                                /\ \/ reply.native.active.doc = Document(req[w])
                                   \/ /\ native[w].loaded = Revision(req[w])
                                      /\ native[w].active.key = RenderKey(req[w])
                                      /\ reply.native.active.doc = native[w].active.doc
        /\ reply.err # NoVal => /\ reply.err \in RendererError \ {"SourceFetchFailed"}
                                /\ ~HasLoaded(reply.native)
    BY <1>1, LoadSound
  <1>4. CASE reply.err # NoVal
    <2>1. Fits(reply.native, w)
      BY <1>3, <1>4, UnloadedFits
    <2> QED  BY <1>1, <1>2, <1>3, <1>4, <2>1, FailStep
  <1>5. CASE reply.err = NoVal
    <2>1. /\ native' = [native EXCEPT ![w] = reply.native]
          /\ current_profile' = [current_profile EXCEPT ![w] = StyleKey(req[w])]
          /\ cache' = [cache EXCEPT ![w] = <<>>]
          /\ ensured' = [ensured EXCEPT ![w] = {}]
          /\ warmed' = [warmed EXCEPT ![w] = {k \in @ : k[1] = req[w].profile} \cup {StyleKey(req[w])}]
          /\ lost' = [lost EXCEPT ![w] = NoVal]
          /\ at' = [at EXCEPT ![w] = "source"]
          /\ UNCHANGED <<req, expired, result, error, permitVars, before, drawn>>
      BY <1>2, <1>5 DEF GoTo
    <2>2. reply.native \in Actors /\ <<>> \in Seq(HashesOf)
      BY <1>3, EmptySeq DEF ActorSound
    <2>3. Types'
      <3>1. cache' \in [Workers -> Seq(HashesOf)]
        BY <2>1, <2>2 DEF Types
      <3>2. /\ native' \in [Workers -> Actors \cup {NoVal}]
            /\ current_profile' \in [Workers -> {StyleKey(r) : r \in Requests} \cup {NoVal}]
            /\ ensured' \in [Workers -> SUBSET HashesOf] /\ at' \in [Workers -> Stages]
            /\ lost' \in [Workers -> RendererError \cup {NoVal}]
        BY <1>1, <2>1, <2>2 DEF Types, Stages, Checked
      <3>3. warmed' \in [Workers -> SUBSET {StyleKey(r) : r \in Requests}]
        BY <1>1, <2>1 DEF Types
      <3> QED  BY <2>1, <3>1, <3>2, <3>3 DEF Types, permitVars
    <2>4. /\ at'[w] = "source" /\ native'[w] = reply.native /\ current_profile'[w] = StyleKey(req[w])
          /\ cache'[w] = <<>> /\ ensured'[w] = {} /\ result[w] # "completed"
          /\ warmed'[w] = {k \in warmed[w] : k[1] = req[w].profile} \cup {StyleKey(req[w])}
      BY <1>1, <2>1 DEF Types, Sound, StageOK
    <2>5. StageOK(w)' /\ DrawnOK(w)'
      BY <1>1, <2>1, <2>4 DEF StageOK, DrawnOK, Before, After
    <2>6. CacheOK(w)'
      BY <2>4, WorkerAssumption DEF CacheOK, IsInjective
    <2>7. WarmOK(w)'
      <3> DEFINE n == reply.native
                 c == StyleKey(req[w])
      <3>1. HasLoaded(n)
        BY <1>1, <1>3, <1>5, <2>2, WorkerAssumption, RequestShape DEF HasLoaded
      <3>2. Agrees(n, c)
        BY <1>1, <1>3, <1>5, RequestShape DEF Agrees
      <3>3. Provenance(n, warmed'[w])
        <4>1. ASSUME NEW k \in warmed'[w] PROVE k[1] = <<n.loaded, n.active.key>>
          BY <1>1, <1>3, <1>5, <2>4, <4>1, RequestShape
        <4>2. c \in warmed'[w] /\ n.style = DocumentOf(c)
          BY <1>1, <1>3, <1>5, <2>4, RequestShape
        <4>3. \E k \in warmed'[w] : n.active.doc = DocumentOf(k)
          <5>1. CASE n.active.doc = Document(req[w])
            BY <1>1, <4>2, <5>1, RequestShape
          <5>2. CASE /\ native[w].loaded = Revision(req[w])
                     /\ native[w].active.key = RenderKey(req[w])
                     /\ n.active.doc = native[w].active.doc
            <6>1. HasLoaded(native[w])
              BY <1>1, <5>2, WorkerAssumption, RequestShape DEF HasLoaded, ActorSound
            <6>2. PICK k \in warmed[w] : k[1] = <<native[w].loaded, native[w].active.key>>
                                         /\ native[w].active.doc = DocumentOf(k)
              BY <6>1 DEF Sound, WarmOK, Fits, Provenance
            <6> QED  BY <1>1, <2>4, <5>2, <6>2, RequestShape
          <5> QED  BY <1>3, <1>5, <5>1, <5>2
        <4> QED  BY <4>1, <4>2, <4>3 DEF Provenance
      <3>4. Holding(n, cache'[w], ensured'[w])
        <4>1. ToSet(<<>>) = {}
          BY DEF ToSet
        <4> QED  BY <2>4, <4>1 DEF Holding
      <3>5. n = native'[w] /\ c = current_profile'[w] /\ c \in warmed'[w]
        BY <2>4
      <3> HIDE DEF n, c
      <3>6. Fits(native[w], w)'
        BY <3>2, <3>3, <3>4, <3>5 DEF Fits
      <3>7. Explained(native[w], current_profile[w], lost[w])'
        BY <3>1, <3>5 DEF Explained
      <3>8. ActorSound(native'[w]) /\ at'[w] = "source" /\ native'[w] # NoVal
        BY <1>3, <2>4, <3>1, <3>5 DEF HasLoaded, n
      <3> QED  BY <3>6, <3>7, <3>8 DEF WarmOK
    <2>8. Others(w)
      BY <2>1 DEF Others, Types
    <2> QED  BY <2>3, <2>5, <2>6, <2>7, <2>8 DEF Sound
  <1> QED  BY <1>4, <1>5

\* The source of the request is cached, or loaded now.
LEMMA SourceStep ==
    ASSUME Types, NEW w \in Workers, Sound(w), at[w] \in {"source", "ensuring"},
           at' = [at EXCEPT ![w] = "check_native"],
           NEW e \in SUBSET HashesOf, ensured' = [ensured EXCEPT ![w] = e], ensured[w] \subseteq e,
           \/ UNCHANGED cache
           \/ /\ cache' = [cache EXCEPT ![w] = Touched(@, req[w].source)]
              /\ HasLoaded(native[w]) => req[w].source \in e,
           UNCHANGED <<req, expired, current_profile, native, result, error, permitVars, before, warmed, lost, drawn>>
    PROVE  Types' /\ Sound(w)' /\ Others(w)
  <1>1. /\ cache[w] \in Seq(HashesOf) /\ IsInjective(cache[w]) /\ Len(cache[w]) <= source_cache_capacity
        /\ req[w] \in Requests /\ req[w].source \in HashesOf
    BY DEF Types, Sound, CacheOK, StageOK, HashesOf
  <1>2. /\ cache'[w] \in Seq(HashesOf) /\ IsInjective(cache'[w]) /\ Len(cache'[w]) <= source_cache_capacity
        /\ HasLoaded(native[w]) => ToSet(cache'[w]) \subseteq ToSet(cache[w]) \cup e
        /\ cache' \in [Workers -> Seq(HashesOf)]
        /\ \A v \in Workers \ {w} : cache'[v] = cache[v]
    <2>1. CASE UNCHANGED cache
      BY <1>1, <2>1 DEF Types
    <2>2. CASE /\ cache' = [cache EXCEPT ![w] = Touched(@, req[w].source)]
               /\ HasLoaded(native[w]) => req[w].source \in e
      <3> DEFINE t == Touched(cache[w], req[w].source)
      <3>1. /\ t \in Seq(HashesOf) /\ Len(t) <= source_cache_capacity /\ IsInjective(t)
            /\ ToSet(t) \subseteq ToSet(cache[w]) \cup {req[w].source}
        BY <1>1, TouchedProperties
      <3>2. cache' = [cache EXCEPT ![w] = t] /\ cache \in [Workers -> Seq(HashesOf)]
        BY <2>2 DEF Types
      <3> HIDE DEF t
      <3>3. cache'[w] = t /\ \A v \in Workers \ {w} : cache'[v] = cache[v]
        BY <3>2
      <3>4. cache' \in [Workers -> Seq(HashesOf)]
        BY <3>1, <3>2
      <3>5. HasLoaded(native[w]) => ToSet(t) \subseteq ToSet(cache[w]) \cup e
        BY <2>2, <3>1
      <3> QED  BY <3>1, <3>3, <3>4, <3>5
    <2> QED  BY <2>1, <2>2
  <1>3. Types'
    BY <1>2 DEF Types, Stages, Checked, permitVars
  <1>4. at'[w] = "check_native" /\ ensured'[w] = e /\ result[w] # "completed"
    BY DEF Types, Sound, StageOK
  <1>5. StageOK(w)' /\ DrawnOK(w)'
    BY <1>4 DEF Sound, StageOK, DrawnOK, Before, After
  <1>6. CacheOK(w)'
    BY <1>2 DEF CacheOK
  <1>7. WarmOK(w)'
    BY <1>2, <1>4 DEF Sound, WarmOK, Fits, Holding, Agrees, Provenance, Explained
  <1>8. Others(w)
    BY <1>2 DEF Others, Types
  <1> QED  BY <1>3, <1>5, <1>6, <1>7, <1>8 DEF Sound

LEMMA SourcesStep ==
    ASSUME Types, NEW w \in Workers, Sound(w), SourceReady(w) \/ SourceEnsured(w)
    PROVE  Types' /\ Sound(w)' /\ Others(w)
  <1>1. ensured \in [Workers -> SUBSET HashesOf] /\ cache \in [Workers -> Seq(HashesOf)]
    BY DEF Types
  <1>2. TouchSource(w) => \/ UNCHANGED cache
                          \/ cache' = [cache EXCEPT ![w] = Touched(@, req[w].source)]
    <2>1. [cache EXCEPT ![w] = cache[w]] = cache
      BY <1>1
    <2>2. CASE req[w].cacheable
      BY <2>2 DEF TouchSource
    <2>3. CASE ~req[w].cacheable
      BY <2>1, <2>3 DEF TouchSource
    <2> QED  BY <2>2, <2>3
  <1>3. CASE SourceReady(w)
    <2>1. /\ at[w] = "source" /\ at' = [at EXCEPT ![w] = "check_native"]
          /\ UNCHANGED <<req, expired, current_profile, native, result, error, permitVars, before, ensured,
                         warmed, lost, drawn>>
          /\ UNCHANGED cache \/ (req[w].source \in ToSet(cache[w]) /\ TouchSource(w))
      BY <1>3 DEF SourceReady, GoTo
    <2>2. ensured' = [ensured EXCEPT ![w] = ensured[w]] /\ ensured[w] \in SUBSET HashesOf
      BY <1>1, <2>1
    <2>3. \/ UNCHANGED cache
          \/ /\ cache' = [cache EXCEPT ![w] = Touched(@, req[w].source)]
             /\ HasLoaded(native[w]) => req[w].source \in ensured[w]
      BY <1>2, <2>1, OwnActor DEF Fits, Holding
    <2> QED  BY <2>1, <2>2, <2>3, SourceStep
  <1>4. CASE SourceEnsured(w)
    <2>1. at[w] = "ensuring"
      BY <1>4 DEF SourceEnsured
    <2>2. CASE Fail(w, "SourceFetchFailed", native[w])
      <3>1. "SourceFetchFailed" \in RendererError
        BY DEF RendererError
      <3> QED  BY <2>1, <2>2, <3>1, FailStep, OwnActor
    <2>3. CASE ~Fail(w, "SourceFetchFailed", native[w])
      <3> DEFINE e == ensured[w] \cup {req[w].source}
      <3>1. /\ ensured' = [ensured EXCEPT ![w] = e]
            /\ TouchSource(w) /\ at' = [at EXCEPT ![w] = "check_native"]
            /\ UNCHANGED <<req, expired, current_profile, native, result, error, permitVars, before, warmed, lost, drawn>>
        BY <1>4, <2>3 DEF SourceEnsured, GoTo
      <3>2. e \in SUBSET HashesOf /\ ensured[w] \subseteq e /\ req[w].source \in e
        BY <1>1, <2>1 DEF Sound, StageOK, HashesOf
      <3> HIDE DEF e
      <3> QED  BY <1>2, <2>1, <3>1, <3>2, SourceStep
    <2> QED  BY <2>2, <2>3
  <1> QED  BY <1>3, <1>4

\* The reply to Render: an image that comes in time was drawn in the request's own style.
LEMMA RenderedStep ==
    ASSUME Types, NEW w \in Workers, Sound(w), Rendered(w)
    PROVE  Types' /\ Sound(w)' /\ Others(w)
  <1>1. /\ at[w] = "rendering" /\ req[w] \in Requests /\ native[w] # NoVal /\ ActorSound(native[w])
        /\ current_profile[w] = StyleKey(req[w])
    BY DEF Rendered, Sound, StageOK, WarmOK, Fits, After
  <1>2. PICK reply \in Render(native[w], req[w]) :
            \/ /\ reply.err # NoVal
               /\ Fail(w, reply.err, reply.native)
            \/ /\ reply.err = NoVal /\ expired[w]
               /\ Fail(w, "Timeout", reply.native)
            \/ /\ reply.err = NoVal /\ ~expired[w]
               /\ native' = [native EXCEPT ![w] = reply.native]
               /\ GoTo(w, "finish")
               /\ result' = [result EXCEPT ![w] = "completed"]
               /\ drawn' = [drawn EXCEPT ![w] = reply.native.active]
               /\ DropPermits(w)
               /\ UNCHANGED <<req, expired, current_profile, cache, error, before, ensured, warmed, lost>>
    BY DEF Rendered
  <1>3. /\ ActorSound(reply.native)
        /\ Agrees(reply.native, StyleKey(req[w])) /\ Provenance(reply.native, warmed[w])
        /\ HasLoaded(reply.native) => HasLoaded(native[w])
        /\ reply.err # NoVal => reply.err \in RendererError \ {"SourceFetchFailed"}
        /\ reply.err = NoVal => /\ HasLoaded(reply.native) /\ reply.native.active \in Renderers
                                /\ \E k \in warmed[w] : /\ k[1] = req[w].profile
                                                        /\ reply.native.active.doc = <<Revision(req[w]), k[2]>>
                                /\ reply.native.active.key = RenderKey(req[w])
    <2>1. Agrees(native[w], StyleKey(req[w])) /\ Provenance(native[w], warmed[w])
      BY <1>1, OwnActor DEF Fits
    <2> QED  BY <1>1, <2>1, RenderSound
  <1>4. Fits(reply.native, w)
    BY <1>1, <1>3, OwnActor DEF Fits, Holding
  <1>5. CASE Fail(w, reply.err, reply.native) /\ reply.err # NoVal
    BY <1>1, <1>3, <1>4, <1>5, FailStep
  <1>6. CASE Fail(w, "Timeout", reply.native)
    <2>1. "Timeout" \in RendererError
      BY DEF RendererError
    <2> QED  BY <1>1, <1>3, <1>4, <1>6, <2>1, FailStep
  <1>7. CASE /\ reply.err = NoVal /\ ~expired[w]
             /\ native' = [native EXCEPT ![w] = reply.native]
             /\ GoTo(w, "finish")
             /\ result' = [result EXCEPT ![w] = "completed"]
             /\ drawn' = [drawn EXCEPT ![w] = reply.native.active]
             /\ DropPermits(w)
             /\ UNCHANGED <<req, expired, current_profile, cache, error, before, ensured, warmed, lost>>
    <2>1. reply.native \in Actors /\ reply.native.active \in Renderers
      BY <1>3, <1>7 DEF ActorSound
    <2>2. Types'
      BY <1>7, <2>1 DEF Types, GoTo, Stages, DropPermits
    <2>3. /\ at'[w] = "finish" /\ result'[w] = "completed" /\ native'[w] = reply.native
          /\ drawn'[w] = reply.native.active
      BY <1>7 DEF Types, GoTo
    <2>4. StageOK(w)'
      BY <1>1, <1>7, <2>3 DEF StageOK, RunResults, Before, After
    <2>5. DrawnOK(w)'
      <3>1. StyleKey(req[w]) \in warmed[w]
        BY <1>1, <1>3, <1>7, OwnActor, WorkerAssumption DEF Fits
      <3> QED  BY <1>3, <1>7, <2>3, <3>1 DEF DrawnOK
    <2>6. CacheOK(w)'
      BY <1>7 DEF Sound, CacheOK
    <2>7. WarmOK(w)'
      BY <1>1, <1>3, <1>4, <1>7, <2>3 DEF WarmOK, Fits, Explained
    <2>8. Others(w)
      BY <1>7 DEF Others, Types, GoTo
    <2> QED  BY <2>2, <2>4, <2>5, <2>6, <2>7, <2>8 DEF Sound
  <1> QED  BY <1>2, <1>5, <1>6, <1>7

-----------------------------------------------------------------------------
(* The permits.                                                            *)

Bit(b) == IF b THEN 1 ELSE 0

\* Two sets that differ at most in one member.
LEMMA CountOne ==
    ASSUME NEW S \in SUBSET Workers, NEW T \in SUBSET Workers, NEW w \in Workers, S \ {w} = T \ {w}
    PROVE  /\ Cardinality(T) + Bit(w \in S) = Cardinality(S) + Bit(w \in T)
           /\ Cardinality(S) \in Nat /\ Cardinality(T) \in Nat
  <1> DEFINE R == S \ {w}
  <1>1. IsFiniteSet(R) /\ IsFiniteSet(S) /\ IsFiniteSet(T)
    BY WorkerAssumption, FS_Subset
  <1>2. Cardinality(R) \in Nat /\ Cardinality(R \cup {w}) = Cardinality(R) + 1
    BY <1>1, FS_AddElement, FS_CardinalityType
  <1>3. (w \in S => S = R \cup {w}) /\ (w \notin S => S = R)
    OBVIOUS
  <1>4. (w \in T => T = R \cup {w}) /\ (w \notin T => T = R)
    OBVIOUS
  <1> HIDE DEF R
  <1>5. Cardinality(S) = Cardinality(R) + Bit(w \in S)
    <2>1. CASE w \in S
      <3>1. Bit(w \in S) = 1
        BY <2>1 DEF Bit
      <3>2. Cardinality(S) = Cardinality(R) + 1
        BY <2>1, <1>2, <1>3
      <3> QED  BY <3>1, <3>2
    <2>2. CASE w \notin S
      <3>1. Bit(w \in S) = 0
        BY <2>2 DEF Bit
      <3>2. Cardinality(S) = Cardinality(R)
        BY <2>2, <1>3
      <3> QED  BY <1>2, <3>1, <3>2
    <2> QED  BY <2>1, <2>2
  <1>6. Cardinality(T) = Cardinality(R) + Bit(w \in T)
    <2>1. CASE w \in T
      <3>1. Bit(w \in T) = 1
        BY <2>1 DEF Bit
      <3>2. Cardinality(T) = Cardinality(R) + 1
        BY <2>1, <1>2, <1>4
      <3> QED  BY <3>1, <3>2
    <2>2. CASE w \notin T
      <3>1. Bit(w \in T) = 0
        BY <2>2 DEF Bit
      <3>2. Cardinality(T) = Cardinality(R)
        BY <2>2, <1>4
      <3> QED  BY <1>2, <3>1, <3>2
    <2> QED  BY <2>1, <2>2
  <1>7. Bit(w \in S) \in Nat /\ Bit(w \in T) \in Nat
    BY DEF Bit
  <1> QED  BY <1>2, <1>5, <1>6, <1>7

\* A step takes and gives back what the worker holds less and more.
Balanced(w) ==
    /\ render_permits' + Bit(HoldsRender(w)') = render_permits + Bit(HoldsRender(w))
    /\ native_render_permits' + Bit(HoldsNative(w)') = native_render_permits + Bit(HoldsNative(w))

LEMMA PermitsKept ==
    ASSUME Types, Types', PermitsConserved, NEW w \in Workers, Balanced(w),
           \A v \in Workers \ {w} : at'[v] = at[v]
    PROVE  PermitsConserved'
  <1> DEFINE S == {v \in Workers : HoldsRender(v)}
             T == {v \in Workers : HoldsRender(v)'}
             N == {v \in Workers : HoldsNative(v)}
             M == {v \in Workers : HoldsNative(v)'}
  <1>1. \A v \in Workers \ {w} : (HoldsRender(v)' <=> HoldsRender(v)) /\ (HoldsNative(v)' <=> HoldsNative(v))
    BY DEF HoldsRender, HoldsNative
  <1>2. S \ {w} = T \ {w} /\ N \ {w} = M \ {w} /\ {S, T, N, M} \subseteq SUBSET Workers
    BY <1>1
  <1>3. /\ (w \in S <=> HoldsRender(w)) /\ (w \in T <=> HoldsRender(w)')
        /\ (w \in N <=> HoldsNative(w)) /\ (w \in M <=> HoldsNative(w)')
    OBVIOUS
  <1>4. /\ render_permits + Cardinality(S) = RenderPermits
        /\ native_render_permits + Cardinality(N) = NativePermits
    BY DEF PermitsConserved
  <1>5. PermitsConserved' <=> /\ render_permits' + Cardinality(T) = RenderPermits
                              /\ native_render_permits' + Cardinality(M) = NativePermits
    BY DEF PermitsConserved
  <1> HIDE DEF S, T, N, M
  <1>6. /\ Cardinality(T) + Bit(w \in S) = Cardinality(S) + Bit(w \in T)
        /\ Cardinality(M) + Bit(w \in N) = Cardinality(N) + Bit(w \in M)
        /\ {Cardinality(S), Cardinality(T), Cardinality(N), Cardinality(M)} \subseteq Nat
    BY <1>2, CountOne
  <1>8. /\ Bit(w \in S) = Bit(HoldsRender(w)) /\ Bit(w \in T) = Bit(HoldsRender(w)')
        /\ Bit(w \in N) = Bit(HoldsNative(w)) /\ Bit(w \in M) = Bit(HoldsNative(w)')
    BY <1>3 DEF Bit
  <1>9. {render_permits, native_render_permits, render_permits', native_render_permits'} \subseteq Nat
    BY DEF Types
  <1>10. /\ render_permits' + Bit(w \in T) = render_permits + Bit(w \in S)
         /\ native_render_permits' + Bit(w \in M) = native_render_permits + Bit(w \in N)
    BY <1>8 DEF Balanced
  <1>11. {Bit(w \in S), Bit(w \in T), Bit(w \in N), Bit(w \in M)} \subseteq Nat
    BY DEF Bit
  <1>12. render_permits' + Cardinality(T) = render_permits + Cardinality(S)
    BY <1>6, <1>9, <1>10, <1>11
  <1>13. native_render_permits' + Cardinality(M) = native_render_permits + Cardinality(N)
    BY <1>6, <1>9, <1>10, <1>11
  <1> QED  BY <1>4, <1>5, <1>12, <1>13

\* The end of a run gives back what it held.
LEMMA EndBalanced ==
    ASSUME Types, NEW w \in Workers, DropPermits(w), at'[w] = "finish" PROVE Balanced(w)
  <1>1. ~HoldsRender(w)' /\ ~HoldsNative(w)'
    BY DEF HoldsRender, HoldsNative
  <1>2. render_permits \in Nat /\ native_render_permits \in Nat
    BY DEF Types
  <1>3. render_permits' = render_permits + Bit(HoldsRender(w))
    BY <1>2 DEF DropPermits, Bit
  <1>4. native_render_permits' = native_render_permits + Bit(HoldsNative(w))
    BY <1>2 DEF DropPermits, Bit
  <1> QED  BY <1>1, <1>2, <1>3, <1>4 DEF Balanced, Bit

LEMMA StepBalanced ==
    ASSUME Types, NEW w \in Workers, Recv(w) \/ Repair(w) \/ Expire(w) \/ Local(w) \/ Reply(w)
    PROVE  Balanced(w)
  <1> USE DEF HoldsRender, HoldsNative, permitVars
  <1>1. at \in [Workers -> Stages] /\ render_permits \in Nat /\ native_render_permits \in Nat
    BY DEF Types
  <1>2. ASSUME NEW err, NEW n, Fail(w, err, n) PROVE Balanced(w)
    <2>1. DropPermits(w) /\ at'[w] = "finish"
      BY <1>1, <1>2 DEF Fail, GoTo
    <2> QED  BY <2>1, EndBalanced
  <1>3. ASSUME DeadlineCheck(w) \/ PermitTimeout(w) PROVE Balanced(w)
    <2>1. DropPermits(w) /\ at'[w] = "finish"
      BY <1>1, <1>3 DEF DeadlineCheck, PermitTimeout, Reject, GoTo
    <2> QED  BY <2>1, EndBalanced
  <1>4. ASSUME NEW stage, permitVars' = permitVars, at' = [at EXCEPT ![w] = stage],
               stage \in {"draw", "rendering"} <=> HoldsNative(w),
               stage \in {"setup", "loading", "source", "ensuring", "check_native", "native"}
                   <=> HoldsRender(w) /\ ~HoldsNative(w)
        PROVE  Balanced(w)
    <2>1. at'[w] = stage
      BY <1>1, <1>4
    <2>2. (HoldsRender(w)' <=> HoldsRender(w)) /\ (HoldsNative(w)' <=> HoldsNative(w))
      BY <1>4, <2>1
    <2>3. Bit(HoldsRender(w)') = Bit(HoldsRender(w)) /\ Bit(HoldsNative(w)') = Bit(HoldsNative(w))
      BY <2>2 DEF Bit
    <2>4. render_permits' = render_permits /\ native_render_permits' = native_render_permits
      BY <1>4
    <2> QED  BY <2>3, <2>4 DEF Balanced
  <1>5. ASSUME Recv(w) \/ Finish(w) \/ AwaitRenderPermit(w) \/ EnsureSource(w) \/ SourceReady(w)
                 \/ AwaitNativePermit(w)
        PROVE  Balanced(w)
    BY <1>4, <1>5 DEF Recv, Finish, AwaitRenderPermit, EnsureSource, SourceReady, AwaitNativePermit, GoTo
  <1>6. ASSUME Repair(w) \/ Expire(w) PROVE Balanced(w)
    BY <1>6 DEF Repair, Expire, Balanced
  <1>7. ASSUME AcquireRenderPermit(w) PROVE Balanced(w)
    <2>1. /\ at[w] = "permit" /\ at'[w] \in {"setup", "source"}
          /\ render_permits > 0 /\ render_permits' = render_permits - 1
          /\ native_render_permits' = native_render_permits
      BY <1>1, <1>7 DEF AcquireRenderPermit, GoTo
    <2> QED  BY <1>1, <2>1 DEF Balanced, Bit
  <1>8. ASSUME AcquireNativePermit(w) PROVE Balanced(w)
    <2>1. /\ at[w] = "native" /\ at'[w] = "draw"
          /\ native_render_permits > 0 /\ native_render_permits' = native_render_permits - 1
          /\ render_permits' = render_permits
      BY <1>1, <1>8 DEF AcquireNativePermit, GoTo
    <2> QED  BY <1>1, <2>1 DEF Balanced, Bit
  <1>9. ASSUME SetupProfile(w) \/ StartRender(w) PROVE Balanced(w)
    <2>1. CASE \E err, n : Fail(w, err, n)
      BY <1>2, <2>1
    <2>2. CASE ~\E err, n : Fail(w, err, n)
      <3>1. CASE SetupProfile(w)
        <4>1. at[w] = "setup" /\ Call(w, "loading")
          BY <2>2, <3>1 DEF SetupProfile
        <4>2. permitVars' = permitVars /\ at' = [at EXCEPT ![w] = "loading"]
          BY <2>2, <4>1 DEF Call, GoTo
        <4> QED  BY <1>4, <4>1, <4>2
      <3>2. CASE StartRender(w)
        <4>1. at[w] = "draw" /\ Call(w, "rendering")
          BY <3>2 DEF StartRender
        <4>2. permitVars' = permitVars /\ at' = [at EXCEPT ![w] = "rendering"]
          BY <2>2, <4>1 DEF Call, GoTo
        <4> QED  BY <1>4, <4>1, <4>2
      <3> QED  BY <1>9, <3>1, <3>2
    <2> QED  BY <2>1, <2>2
  <1>10. ASSUME ReplyTimeout(w) PROVE Balanced(w)
    BY <1>2, <1>10 DEF ReplyTimeout
  <1>11. ASSUME ProfileLoaded(w) PROVE Balanced(w)
    <2>1. CASE \E err, n : Fail(w, err, n)
      BY <1>2, <2>1
    <2>2. CASE ~\E err, n : Fail(w, err, n)
      <3>1. at[w] = "loading" /\ permitVars' = permitVars /\ at' = [at EXCEPT ![w] = "source"]
        BY <1>11, <2>2 DEF ProfileLoaded, GoTo
      <3> QED  BY <1>4, <3>1
    <2> QED  BY <2>1, <2>2
  <1>12. ASSUME SourceEnsured(w) PROVE Balanced(w)
    <2>1. CASE \E err, n : Fail(w, err, n)
      BY <1>2, <2>1
    <2>2. CASE ~\E err, n : Fail(w, err, n)
      <3>1. at[w] = "ensuring" /\ permitVars' = permitVars /\ at' = [at EXCEPT ![w] = "check_native"]
        BY <1>12, <2>2 DEF SourceEnsured, GoTo
      <3> QED  BY <1>4, <3>1
    <2> QED  BY <2>1, <2>2
  <1>13. ASSUME Rendered(w) PROVE Balanced(w)
    <2>1. CASE \E err, n : Fail(w, err, n)
      BY <1>2, <2>1
    <2>2. CASE ~\E err, n : Fail(w, err, n)
      <3>1. DropPermits(w) /\ at' = [at EXCEPT ![w] = "finish"]
        BY <1>13, <2>2 DEF Rendered, GoTo
      <3>2. at'[w] = "finish"
        BY <1>1, <3>1
      <3> QED  BY <3>1, <3>2, EndBalanced
    <2> QED  BY <2>1, <2>2
  <1> QED  BY <1>3, <1>5, <1>6, <1>7, <1>8, <1>9, <1>10, <1>11, <1>12, <1>13 DEF Local, Reply

-----------------------------------------------------------------------------
LEMMA WorkerInit == Init => Inv
  <1> SUFFICES ASSUME Init PROVE Inv
    OBVIOUS
  <1>1. Fresh \in Actors /\ <<>> \in Seq(HashesOf)
    BY FreshSound, EmptySeq DEF ActorSound
  <1>2. Types
    BY <1>1, WorkerAssumption DEF Init, Types, Stages
  <1>3. ASSUME NEW w \in Workers PROVE Sound(w)
    <2>1. /\ at[w] = "idle" /\ result[w] = NoVal /\ cache[w] = <<>> /\ native[w] = Fresh
      BY DEF Init
    <2>2. StageOK(w) /\ DrawnOK(w)
      BY <2>1, WorkerAssumption DEF StageOK, DrawnOK, Before, After
    <2>3. CacheOK(w)
      BY <2>1, WorkerAssumption DEF CacheOK, IsInjective
    <2>4. WarmOK(w)
      <3>1. ~HasLoaded(native[w]) /\ current_profile[w] = NoVal
        BY <2>1, FreshSound DEF Init, HasLoaded
      <3> QED  BY <2>1, <3>1, FreshSound, UnloadedFits DEF WarmOK, Explained
    <2> QED  BY <2>2, <2>3, <2>4 DEF Sound
  <1>4. PermitsConserved
    <2>1. {w \in Workers : HoldsRender(w)} = {} /\ {w \in Workers : HoldsNative(w)} = {}
      BY DEF Init, HoldsRender, HoldsNative
    <2>2. Cardinality({}) = 0
      BY FS_EmptySet
    <2>3. /\ render_permits = RenderPermits /\ RenderPermits \in Nat
          /\ native_render_permits = NativePermits /\ NativePermits \in Nat
      BY WorkerAssumption DEF Init
    <2>4. render_permits + 0 = RenderPermits /\ native_render_permits + 0 = NativePermits
      BY <2>3
    <2> QED  BY <2>1, <2>2, <2>4 DEF PermitsConserved
  <1> QED  BY <1>2, <1>3, <1>4 DEF Inv

LEMMA WorkerNext == Inv /\ [Next]_vars => Inv'
  <1> SUFFICES ASSUME Inv, [Next]_vars PROVE Inv'
    OBVIOUS
  <1> USE DEF Inv
  <1>1. ASSUME NEW w \in Workers, Recv(w) \/ Repair(w) \/ Expire(w) \/ Local(w) \/ Reply(w)
        PROVE  Inv'
    <2>1. Types' /\ Sound(w)' /\ Others(w)
      <3>1. CASE DeadlineCheck(w) \/ PermitTimeout(w)
        BY <3>1, RejectStep DEF DeadlineCheck, PermitTimeout, Checked, Awaiting
      <3> QED  BY <1>1, <3>1, IdleStep, MovesStep, SetupStep, ProfileLoadedStep, SourcesStep, RenderedStep
               DEF Local, Reply
    <2>2. \A v \in Workers : Sound(v)'
      BY <2>1, OthersSound
    <2>3. PermitsConserved'
      BY <1>1, <2>1, StepBalanced, PermitsKept DEF Others
    <2> QED  BY <2>1, <2>2, <2>3
  <1>2. CASE UNCHANGED vars
    <2>1. Types'
      BY <1>2 DEF vars, permitVars, Types
    <2>2. PermitsConserved'
      BY <1>2 DEF vars, permitVars, PermitsConserved, HoldsRender, HoldsNative
    <2>3. ASSUME NEW w \in Workers PROVE Sound(w)'
      <3>1. Sound(w)
        OBVIOUS
      <3>2. StageOK(w)' /\ CacheOK(w)' /\ DrawnOK(w)'
        BY <1>2, <3>1 DEF vars, Sound, StageOK, CacheOK, DrawnOK
      <3>3. WarmOK(w)'
        BY <1>2, <3>1 DEF vars, Sound, WarmOK, Fits
      <3> QED  BY <3>2, <3>3 DEF Sound
    <2> QED  BY <2>1, <2>2, <2>3
  <1> QED  BY <1>1, <1>2 DEF Next

LEMMA WorkerInvariant == Spec => []Inv
  BY WorkerInit, WorkerNext, PTL DEF Spec

\* The type invariant; a source cache holds no source twice and keeps to its capacity, through
\* every order of touches, style changes and failures.
THEOREM TypeCorrect == Spec => []TypeOK
  <1>1. Inv => TypeOK
    <2> SUFFICES ASSUME Inv PROVE TypeOK
      OBVIOUS
    <2>1. render_permits \in 0..RenderPermits /\ native_render_permits \in 0..NativePermits
      <3>1. /\ Cardinality({w \in Workers : HoldsRender(w)}) \in Nat
            /\ Cardinality({w \in Workers : HoldsNative(w)}) \in Nat
        BY WorkerAssumption, FS_Subset, FS_CardinalityType
      <3>2. render_permits \in Nat /\ native_render_permits \in Nat
        BY DEF Inv, Types
      <3> QED  BY <3>1, <3>2, WorkerAssumption DEF Inv, PermitsConserved
    <2>2. \A w \in Workers : Len(cache[w]) <= source_cache_capacity /\ IsInjective(cache[w])
      BY DEF Inv, Sound, CacheOK
    <2> QED  BY <2>1, <2>2 DEF Inv, Types, TypeOK
  <1> QED  BY <1>1, WorkerInvariant, PTL

\* Whatever stage a run ends in, and however, its permits are available again: none is lost
\* and none handed out twice, for any number of workers and permits.
THEOREM NoPermitLost == Spec => []PermitsConserved
  BY WorkerInvariant, PTL DEF Inv

\* Every run of run_stages keeps to the contract that module WorkerPool's proofs build on.
THEOREM RunsKeepContract == Spec => []KeepsRunContract
  <1>1. Inv => KeepsRunContract
    BY DEF Inv, Sound, StageOK, KeepsRunContract
  <1> QED  BY <1>1, WorkerInvariant, PTL

\* What being warm is worth. An actor that has something loaded has what its worker's record
\* says, the document last given included, and the sources the worker skips; a record without
\* such an actor was left by a RenderFailed. A completed request was drawn in its own revision,
\* mode and scale, in time, and in the document of credentials for which that same profile was
\* set up without another one, or a loss of the loaded state, in between. That the document is
\* the request's own, as the specification of the repository has it, is not claimed: the run
\* worker_credentials refutes it.
THEOREM WarmStateCorrect == Spec => []WarmStateSound
  <1>1. Inv => WarmStateSound
    <2> SUFFICES ASSUME Inv PROVE WarmStateSound
      OBVIOUS
    <2>1. RecordsAgree
      BY OwnActor DEF Inv, Sound, WarmOK, RecordsAgree, Explained, Fits, Agrees, DocumentOf
    <2>2. CachedSourcesLoaded
      BY OwnActor DEF Inv, CachedSourcesLoaded, Fits, Holding
    <2>3. DrawsOwnProfile
      BY DEF Inv, Sound, DrawnOK, DrawsOwnProfile
    <2> QED  BY <2>1, <2>2, <2>3 DEF WarmStateSound
  <1> QED  BY <1>1, WorkerInvariant, PTL
=============================================================================
