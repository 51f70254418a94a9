-------------------------- MODULE AuthRefreshProofs --------------------------
(***************************************************************************)
(* Proofs about AuthRefresh, for any callers, registries, documents and    *)
(* number of permits: a registry has one refresh at a time, its followers  *)
(* always have somebody to hear from, and what requests are judged by only *)
(* advances, whatever the store does.                                      *)
(***************************************************************************)
EXTENDS AuthRefresh, FiniteSetTheorems, WellFoundedInduction, TLAPS

-----------------------------------------------------------------------------
(* The inductive invariant.                                                *)

\* One document supersedes another: a later revision, or the same document.
Within(old, new) == old = new \/ old.revision < new.revision

\* A document that no request of the registry has got past.
Reached(r, doc) ==
    \A c \in Callers : registry[c] = r =>
        /\ floor[c] <= doc.revision
        /\ answer[c] \in Valid => Within(answer[c], doc)

NothingGiven(r) ==
    \A c \in Callers : registry[c] = r => floor[c] = -1 /\ answer[c] \notin Valid

\* What a leader has in hand, stage by stage.
Prepared ==
    \A c \in Callers :
        /\ at[c] \in {"ask", "check", "compared"} /\ previous[c] # NoVal =>
               previous[c] = installed[registry[c]]
        /\ at[c] = "check" /\ reply[c] = Unchanged => previous[c] # NoVal
        /\ at[c] = "compared" => reply[c] \in Valid /\ Acceptable(registry[c], reply[c])
        /\ at[c] = "insert" => reply[c] \in Valid /\ reply[c] = installed[registry[c]]

\* The cache is behind what is installed only while somebody is about to insert it.
CacheCurrent ==
    \A r \in Registries : cache[r] # NoVal =>
        /\ installed[r] # NoVal /\ Within(cache[r].doc, installed[r])
        /\ \/ cache[r].doc = installed[r]
           \/ \E c \in Callers : registry[c] = r /\ at[c] = "insert"

\* Nothing that can still be given out is behind what was.
Ahead ==
    \A r \in Registries :
        /\ cache[r] # NoVal => Reached(r, cache[r].doc)
        /\ installed[r] # NoVal => Reached(r, installed[r])
        /\ installed[r] = NoVal => NothingGiven(r)

Inv == TypeOK /\ FlightsLed /\ Prepared /\ CacheCurrent /\ Ahead /\ RegistriesAdvance

-----------------------------------------------------------------------------
(* Numbers.                                                                *)

\* Every set of naturals with a member has a least one.
LEMMA LeastMember ==
    ASSUME NEW S, S \subseteq Nat, S # {}
    PROVE  \E m \in S : \A n \in S : m <= n
  <1>1. \E m \in S : \A n \in S : ~ (<<n, m>> \in OpToRel(<, Nat))
    BY NatLessThanWellFounded, WFMin
  <1>2. \A m, n \in Nat : m < n => <<m, n>> \in OpToRel(<, Nat)
    BY DEF OpToRel
  <1>3. \E m \in S : \A n \in S : ~ (n < m)
    BY <1>1, <1>2
  <1> HIDE <1>1, <1>2
  <1> QED  BY <1>3

\* A bounded one has a greatest.
LEMMA GreatestMember ==
    ASSUME NEW S, S \subseteq Nat, S # {}, NEW b \in Nat, \A n \in S : n <= b
    PROVE  \E m \in S : \A n \in S : n <= m
  <1> DEFINE Above == {u \in Nat : \A n \in S : n <= u}
  <1>1. PICK m \in Above : \A u \in Above : m <= u
    <2>1. Above \subseteq Nat /\ b \in Above
      OBVIOUS
    <2> HIDE DEF Above
    <2> QED  BY <2>1, LeastMember
  <1>2. m \in S
    <2> SUFFICES ASSUME m \notin S PROVE FALSE
      OBVIOUS
    <2>1. \A n \in S : n < m
      OBVIOUS
    <2>2. m \in Nat /\ m - 1 \in Nat
      <3> PICK n \in S : n < m
        BY <2>1
      <3> QED  OBVIOUS
    <2>3. \A n \in S : n <= m - 1
      BY <2>1, <2>2
    <2>4. m - 1 \in Above
      BY <2>2, <2>3
    <2> QED  BY <1>1, <2>2, <2>4
  <1> QED  BY <1>1, <1>2

\* The highest revision given out is one, or -1, and no document that was reached is below it.
LEMMA GivenOutIsReached ==
    ASSUME TypeOK, Ahead, NEW r \in Registries
    PROVE  /\ installed[r] = NoVal => GivenOut(r) = -1
           /\ GivenOut(r) \in {-1} \cup {doc.revision : doc \in Valid}
           /\ \A doc \in Valid : Reached(r, doc) => GivenOut(r) <= doc.revision
  <1> DEFINE takers == {d \in Callers : registry[d] = r /\ answer[d] \in Valid}
             given == {answer[c].revision : c \in takers}
  <1>1. given \subseteq Nat /\ given \subseteq {doc.revision : doc \in Valid}
    BY AuthAssumption
  <1>2. \A doc \in Valid : Reached(r, doc) => \A n \in given : n <= doc.revision
    <2> SUFFICES ASSUME NEW doc \in Valid, Reached(r, doc), NEW c \in takers
                 PROVE  answer[c].revision <= doc.revision
      OBVIOUS
    <2>1. Within(answer[c], doc) /\ answer[c].revision \in Nat /\ doc.revision \in Nat
      BY AuthAssumption DEF Reached
    <2> QED  BY <2>1 DEF Within
  <1>3. GivenOut(r) = CHOOSE top \in {-1} \cup given : \A n \in given : top >= n
    BY DEF GivenOut
  <1>4. CASE given = {}
    <2>1. GivenOut(r) = -1
      BY <1>3, <1>4
    <2>2. \A doc \in Valid : -1 <= doc.revision
      BY AuthAssumption
    <2> QED  BY <2>1, <2>2
  <1>5. CASE given # {}
    <2>1. installed[r] # NoVal
      BY <1>5 DEF Ahead, NothingGiven
    <2>2. installed[r] \in Valid /\ Reached(r, installed[r]) /\ installed[r].revision \in Nat
      BY <2>1, AuthAssumption DEF Ahead, TypeOK
    <2> HIDE DEF given
    <2>3. \E m \in given : \A n \in given : n <= m
      BY <1>1, <1>2, <1>5, <2>2, GreatestMember
    <2>4. \E top \in {-1} \cup given : \A n \in given : top >= n
      BY <1>1, <2>3
    <2>5. GivenOut(r) \in {-1} \cup given /\ \A n \in given : GivenOut(r) >= n
      BY <1>3, <2>4
    <2>6. GivenOut(r) \in given
      <3> PICK n \in given : GivenOut(r) >= n
        BY <1>5, <2>5
      <3> QED  BY <1>1, <2>5
    <2> QED  BY <1>1, <1>2, <2>1, <2>6
  <1> QED  BY <1>4, <1>5

-----------------------------------------------------------------------------
(* Flights.                                                                *)

\* The callers that hold a permit.
Holders == {c \in Callers : at[c] \in Loading \ {"failed"}}

\* What FlightsLed says of leaders and followers.
LedExactly ==
    /\ \A c \in Callers : at[c] \in Leading => leader[registry[c]] = c
    /\ \A r \in Registries : leader[r] # NoVal =>
           at[leader[r]] \in Leading /\ registry[leader[r]] = r
    /\ \A c \in Callers : at[c] = "follow" /\ heard[c] = NoVal => leader[registry[c]] # NoVal

\* Two refreshes of one registry are one.
LEMMA OneRefresh ==
    ASSUME FlightsLed, NEW c \in Callers, NEW d \in Callers,
           at[c] \in Leading, at[d] \in Leading, registry[c] = registry[d]
    PROVE  c = d
  BY DEF FlightsLed

\* Permits that nobody joins stay within their number.
LEMMA PermitsKept ==
    ASSUME FlightsLed, Holders' \subseteq Holders
    PROVE  Cardinality(Holders') <= MAX_CONCURRENT_REGISTRY_LOADS
  <1>1. IsFiniteSet(Holders)
    BY AuthAssumption, FS_Subset DEF Holders
  <1>2. /\ Cardinality(Holders') <= Cardinality(Holders)
        /\ Cardinality(Holders) \in Nat /\ Cardinality(Holders') \in Nat
    BY <1>1, FS_Subset, FS_CardinalityType
  <1>3. Cardinality(Holders) <= MAX_CONCURRENT_REGISTRY_LOADS
    BY DEF FlightsLed, Holders
  <1> QED  BY <1>2, <1>3, AuthAssumption

\* A call that is neither leader nor follower before and after leaves the flights alone.
LEMMA WalkLed ==
    ASSUME TypeOK, FlightsLed, NEW c \in Callers, NEW phase,
           at[c] \notin Leading, phase \notin Leading \cup {"follow"}, Goto(c, phase),
           UNCHANGED <<leader, heard, registry>>
    PROVE  FlightsLed'
  <1>1. /\ at'[c] = phase
        /\ \A d \in Callers \ {c} : at'[d] = at[d]
    BY DEF TypeOK, Goto
  <1>2. \A d \in Callers : at'[d] \in Leading <=> at[d] \in Leading
    BY <1>1
  <1>3. \A d \in Callers : at'[d] = "follow" => at[d] = "follow"
    BY <1>1
  <1>4. \A r \in Registries : leader[r] # NoVal => leader[r] \in Callers
    BY DEF TypeOK
  <1>5. LedExactly'
    BY <1>2, <1>3, <1>4 DEF LedExactly, FlightsLed
  <1>6. Holders' \subseteq Holders
    BY <1>1 DEF Holders, Leading
  <1> QED  BY <1>5, <1>6, PermitsKept DEF LedExactly, FlightsLed, Holders

\* A leader goes on; it may take a permit while one is left.
LEMMA LeaderWalkLed ==
    ASSUME TypeOK, FlightsLed, NEW c \in Callers, NEW phase \in Leading,
           at[c] \in Leading, Goto(c, phase), UNCHANGED <<leader, heard, registry>>,
           \/ at[c] \in Loading \ {"failed"}
           \/ phase \notin Loading \ {"failed"}
           \/ Cardinality(Holders) < MAX_CONCURRENT_REGISTRY_LOADS
    PROVE  FlightsLed'
  <1>1. /\ at'[c] = phase
        /\ \A d \in Callers \ {c} : at'[d] = at[d]
    BY DEF TypeOK, Goto
  <1>2. \A d \in Callers : at'[d] \in Leading <=> at[d] \in Leading
    BY <1>1
  <1>3. \A d \in Callers : at'[d] = "follow" => at[d] = "follow"
    BY <1>1 DEF Leading, Loading
  <1>4. \A r \in Registries : leader[r] # NoVal => leader[r] \in Callers
    BY DEF TypeOK
  <1>5. LedExactly'
    BY <1>2, <1>3, <1>4 DEF LedExactly, FlightsLed
  <1>6. CASE Holders' \subseteq Holders
    BY <1>5, <1>6, PermitsKept DEF LedExactly, FlightsLed, Holders
  <1>7. CASE ~(Holders' \subseteq Holders)
    <2>1. Cardinality(Holders) < MAX_CONCURRENT_REGISTRY_LOADS
      BY <1>1, <1>7 DEF Holders
    <2>2. c \notin Holders /\ Holders' = Holders \cup {c}
      BY <1>1, <1>7 DEF Holders
    <2>3. IsFiniteSet(Holders)
      BY AuthAssumption, FS_Subset DEF Holders
    <2>4. Cardinality(Holders') = Cardinality(Holders) + 1 /\ Cardinality(Holders) \in Nat
      BY <2>2, <2>3, FS_AddElement, FS_CardinalityType
    <2>5. Cardinality(Holders') <= MAX_CONCURRENT_REGISTRY_LOADS
      BY <2>1, <2>4, AuthAssumption
    <2> QED  BY <1>5, <2>5 DEF LedExactly, FlightsLed, Holders
  <1> QED  BY <1>6, <1>7

\* A leader that ends takes its flight with it, and its followers have heard.
LEMMA LandedLed ==
    ASSUME TypeOK, FlightsLed, NEW c \in Callers, NEW phase \in {"idle", "done"},
           NEW outcome \in {"none", "error"}, at[c] \in Leading, Goto(c, phase),
           Land(registry[c], outcome), UNCHANGED registry
    PROVE  FlightsLed'
  <1>1. /\ at'[c] = phase
        /\ \A d \in Callers \ {c} : at'[d] = at[d]
    BY DEF TypeOK, Goto
  <1>2. phase \notin Leading \cup {"follow"}
    BY DEF Leading, Loading
  <1>3. /\ leader'[registry[c]] = NoVal
        /\ \A r \in Registries : r # registry[c] => leader'[r] = leader[r]
    BY DEF TypeOK, Land
  <1>4. \A d \in Callers : registry[d] \in Registries
    BY DEF TypeOK
  <1>5. \A d \in Callers : at'[d] \in Leading => leader'[registry'[d]] = d
    <2> SUFFICES ASSUME NEW d \in Callers, at'[d] \in Leading PROVE leader'[registry[d]] = d
      OBVIOUS
    <2>1. d # c /\ at[d] \in Leading
      BY <1>1, <1>2
    <2>2. registry[d] # registry[c]
      BY <2>1, OneRefresh
    <2> QED  BY <1>3, <1>4, <2>1, <2>2 DEF FlightsLed
  <1>6. \A r \in Registries : leader'[r] # NoVal =>
            at'[leader'[r]] \in Leading /\ registry'[leader'[r]] = r
    <2> SUFFICES ASSUME NEW r \in Registries, leader'[r] # NoVal
                 PROVE  at'[leader'[r]] \in Leading /\ registry[leader'[r]] = r
      OBVIOUS
    <2>1. r # registry[c] /\ leader'[r] = leader[r] /\ leader[r] \in Callers
      BY <1>3 DEF TypeOK
    <2>2. at[leader[r]] \in Leading /\ registry[leader[r]] = r
      BY <2>1 DEF FlightsLed
    <2> QED  BY <1>1, <2>1, <2>2
  <1>7. \A d \in Callers : at'[d] = "follow" /\ heard'[d] = NoVal => leader'[registry'[d]] # NoVal
    <2> SUFFICES ASSUME NEW d \in Callers, at'[d] = "follow", heard'[d] = NoVal
                 PROVE  leader'[registry[d]] # NoVal
      OBVIOUS
    <2>1. at[d] = "follow"
      BY <1>1, <1>2
    <2>2. heard[d] = NoVal /\ registry[d] # registry[c]
      BY <2>1, AuthAssumption DEF Land
    <2> QED  BY <1>3, <1>4, <2>1, <2>2 DEF FlightsLed
  <1>8. Holders' \subseteq Holders
    BY <1>1, <1>2 DEF Holders, Leading
  <1> QED  BY <1>5, <1>6, <1>7, <1>8, PermitsKept DEF FlightsLed, Holders

\* SingleFlight::begin elects a leader only where there is none.
LEMMA BeginLed ==
    ASSUME TypeOK, FlightsLed, NEW c \in Callers, Begin(c)
    PROVE  FlightsLed'
  <1>1. /\ at[c] = "begin" /\ registry' = registry
        /\ \A d \in Callers \ {c} : at'[d] = at[d]
    BY DEF TypeOK, Begin, Goto
  <1>2. \A d \in Callers : registry[d] \in Registries
    BY DEF TypeOK
  <1>3. at[c] \notin Leading /\ at'[c] \in {"refresh", "follow"}
    BY DEF Begin, Leading, Loading, TypeOK, Goto
  <1>4. Holders' \subseteq Holders
    BY <1>1, <1>3 DEF Holders, Loading
  <1>5. CASE leader[registry[c]] = NoVal
    <2>1. /\ at'[c] = "refresh" /\ heard' = heard
          /\ leader'[registry[c]] = c
          /\ \A r \in Registries : r # registry[c] => leader'[r] = leader[r]
      BY <1>5, <1>2 DEF TypeOK, Begin, Goto
    <2>2. \A d \in Callers : at[d] \in Leading => registry[d] # registry[c]
      BY <1>5, AuthAssumption DEF FlightsLed
    <2>3. \A d \in Callers : at'[d] \in Leading => leader'[registry[d]] = d
      BY <1>1, <1>2, <2>1, <2>2 DEF FlightsLed
    <2>4. \A r \in Registries : leader'[r] # NoVal =>
              at'[leader'[r]] \in Leading /\ registry[leader'[r]] = r
      <3> SUFFICES ASSUME NEW r \in Registries, leader'[r] # NoVal
                   PROVE  at'[leader'[r]] \in Leading /\ registry[leader'[r]] = r
        OBVIOUS
      <3>1. CASE r = registry[c]
        BY <2>1, <3>1 DEF Leading
      <3>2. CASE r # registry[c]
        <4>1. leader'[r] = leader[r] /\ leader[r] \in Callers
          BY <2>1, <3>2 DEF TypeOK
        <4>2. at[leader[r]] \in Leading /\ registry[leader[r]] = r
          BY <4>1 DEF FlightsLed
        <4> QED  BY <1>1, <1>3, <4>1, <4>2
      <3> QED  BY <3>1, <3>2
    <2>5. \A d \in Callers : at'[d] = "follow" /\ heard'[d] = NoVal => leader'[registry[d]] # NoVal
      <3> SUFFICES ASSUME NEW d \in Callers, at'[d] = "follow", heard'[d] = NoVal
                   PROVE  leader'[registry[d]] # NoVal
        OBVIOUS
      <3>1. at[d] = "follow" /\ heard[d] = NoVal
        BY <1>1, <2>1
      <3> QED  BY <1>2, <2>1, <3>1, AuthAssumption DEF FlightsLed
    <2> QED  BY <1>1, <1>4, <2>3, <2>4, <2>5, PermitsKept DEF FlightsLed, Holders
  <1>6. CASE leader[registry[c]] # NoVal
    <2>1. at'[c] = "follow" /\ leader' = leader /\ \A d \in Callers \ {c} : heard'[d] = heard[d]
      BY <1>6 DEF TypeOK, Begin, Goto
    <2>2. \A d \in Callers : at'[d] \in Leading <=> at[d] \in Leading
      BY <1>1, <1>3, <2>1 DEF Leading, Loading
    <2>3. \A r \in Registries : leader[r] # NoVal => leader[r] \in Callers
      BY DEF TypeOK
    <2>4. \A d \in Callers : at'[d] = "follow" /\ heard'[d] = NoVal => leader'[registry[d]] # NoVal
      BY <1>1, <1>6, <2>1 DEF FlightsLed
    <2>5. LedExactly'
      BY <1>1, <2>1, <2>2, <2>3, <2>4 DEF LedExactly, FlightsLed
    <2> QED  BY <1>4, <2>5, PermitsKept DEF FlightsLed, LedExactly, Holders
  <1> QED  BY <1>5, <1>6

\* Every step keeps one leader per registry, and somebody to hear from.
LEMMA FlightsStep ==
    ASSUME TypeOK, FlightsLed, [Next]_vars
    PROVE  FlightsLed'
  <1>1. ASSUME NEW c \in Callers, Call(c) \/ Look(c) \/ LookCold(c) \/ Followed(c)
        PROVE  FlightsLed'
    <2>1. PICK phase \in {"look", "cold", "begin", "done"} : Goto(c, phase)
      BY <1>1 DEF Call, Look, LookCold, Followed, Answer
    <2>2. at[c] \notin Leading /\ phase \notin Leading \cup {"follow"}
      BY <1>1 DEF Call, Look, LookCold, Followed, Leading, Loading
    <2>3. UNCHANGED <<leader, heard, registry>>
      BY <1>1 DEF Call, Look, LookCold, Followed, shared
    <2> QED  BY <2>1, <2>2, <2>3, WalkLed
  <1>2. ASSUME NEW c \in Callers, AskStore(c)
        PROVE  FlightsLed'
    <2>1. at[c] \in Leading /\ UNCHANGED <<leader, heard, registry>>
      BY <1>2 DEF AskStore, shared, Leading
    <2>2. CASE Cardinality(Holders) < MAX_CONCURRENT_REGISTRY_LOADS /\ Goto(c, "ask")
      BY <2>1, <2>2, LeaderWalkLed DEF Leading, Loading
    <2>3. CASE Goto(c, "failed")
      BY <2>1, <2>3, LeaderWalkLed DEF Leading, Loading
    <2>4. Loading \ {"failed"} = {"ask", "check", "compared", "insert"}
      BY DEF Loading
    <2> QED  BY <1>2, <2>2, <2>3, <2>4 DEF AskStore, Holders
  <1>3. ASSUME NEW c \in Callers, StoreAnswers(c) \/ Compare(c) \/ Install(c)
        PROVE  FlightsLed'
    <2>1. PICK phase \in {"check", "compared", "insert", "failed"} : Goto(c, phase)
      BY <1>3 DEF StoreAnswers, Compare, Install
    <2>2. at[c] \in Loading \ {"failed"} /\ phase \in Leading
      BY <1>3 DEF StoreAnswers, Compare, Install, Leading, Loading
    <2>3. UNCHANGED <<leader, heard, registry>>
      BY <1>3 DEF StoreAnswers, Compare, Install, shared
    <2> QED  BY <2>1, <2>2, <2>3, LeaderWalkLed DEF Leading
  <1>4. ASSUME NEW c \in Callers, Insert(c) \/ NotModified(c) \/ Defer(c) \/ Fail(c)
        PROVE  FlightsLed'
    <2>1. at[c] \in Leading /\ Goto(c, "done") /\ UNCHANGED registry
      BY <1>4 DEF Insert, NotModified, Defer, Fail, Cached, Answer, Leading, Loading
    <2>2. Land(registry[c], "none") \/ Land(registry[c], "error")
      BY <1>4 DEF Insert, NotModified, Defer, Fail, Cached
    <2> QED  BY <2>1, <2>2, LandedLed
  <1>5. ASSUME NEW c \in Callers, Cancel(c)
        PROVE  FlightsLed'
    <2>1. CASE at[c] = "follow" /\ UNCHANGED <<leader, heard>>
      BY <1>5, <2>1, WalkLed DEF Cancel, Leading, Loading
    <2>2. CASE at[c] = "ask" /\ Land(registry[c], "none")
      BY <1>5, <2>2, LandedLed DEF Cancel, Leading, Loading
    <2> QED  BY <1>5, <2>1, <2>2 DEF Cancel
  <1>6. ASSUME NEW r \in Registries, Publish(r) \/ ComesDue(r) \/ Evict(r) \/ CoolDown(r)
        PROVE  FlightsLed'
    BY <1>6 DEF Publish, ComesDue, Evict, CoolDown, calls, FlightsLed
  <1>7. CASE UNCHANGED vars
    BY <1>7 DEF vars, shared, calls, FlightsLed
  <1> QED  BY <1>1, <1>2, <1>3, <1>4, <1>5, <1>6, <1>7, BeginLed DEF Next, CallerStep

-----------------------------------------------------------------------------
(* Types.                                                                  *)

\* The initial states.
LEMMA TypeInit == Init => TypeOK
  <1> SUFFICES ASSUME Init PROVE TypeOK
    OBVIOUS
  <1>1. /\ store \in [Registries -> Documents] /\ registry \in [Callers -> Registries]
        /\ cache \in [Registries -> {NoVal} \cup [doc: Valid, due: BOOLEAN]]
        /\ installed \in [Registries -> {NoVal} \cup Valid]
        /\ leader \in [Registries -> {NoVal} \cup Callers]
    BY DEF Init
  <1>2. cold \in [Registries -> BOOLEAN]
    BY DEF Init
  <1>3. /\ at \in [Callers -> Leading \cup {"idle", "look", "cold", "begin", "follow", "done"}]
        /\ previous \in [Callers -> {NoVal} \cup Valid]
        /\ reply \in [Callers -> Replies]
        /\ heard \in [Callers -> {NoVal, "none", "error"}]
        /\ answer \in [Callers -> {NoVal, Unavailable} \cup Valid]
    BY DEF Init, Replies
  <1>4. /\ floor \in [Callers -> {-1} \cup {doc.revision : doc \in Valid}]
        /\ turns \in 0..MaxTurns
    BY AuthAssumption DEF Init
  <1> QED  BY <1>1, <1>2, <1>3, <1>4 DEF TypeOK

\* One step of one call.  What a leader has in hand when it caches is a valid document.
LEMMA CallerTypes ==
    ASSUME Inv, NEW c \in Callers, Call(c) \/ CallerStep(c) \/ Cancel(c)
    PROVE  TypeOK'
  <1>0. TypeOK /\ registry[c] \in Registries
    BY DEF Inv, TypeOK
  <1>a. ASSUME NEW doc \in Valid, Cached(c, doc) PROVE TypeOK'
    <2>1. cache' \in [Registries -> {NoVal} \cup [doc: Valid, due: BOOLEAN]]
      BY <1>0, <1>a DEF Cached, TypeOK
    <2>2. /\ heard' \in [Callers -> {NoVal, "none", "error"}]
          /\ leader' \in [Registries -> {NoVal} \cup Callers]
      BY <1>0, <1>a DEF Cached, Land, TypeOK
    <2>3. /\ reply' \in [Callers -> Replies] /\ previous' \in [Callers -> {NoVal} \cup Valid]
          /\ answer' \in [Callers -> {NoVal, Unavailable} \cup Valid]
          /\ at' \in [Callers -> Leading \cup {"idle", "look", "cold", "begin", "follow", "done"}]
      BY <1>0, <1>a DEF Cached, Answer, Goto, Replies, TypeOK
    <2> QED  BY <1>0, <1>a, <2>1, <2>2, <2>3 DEF Cached, TypeOK
  <1>1. CASE Call(c)
    <2>1. floor' \in [Callers -> {-1} \cup {doc.revision : doc \in Valid}]
      BY <1>0, <1>1, GivenOutIsReached DEF Inv, Call, TypeOK
    <2>2. turns' \in 0..MaxTurns
      BY <1>0, <1>1, AuthAssumption DEF Call, Turn, TypeOK
    <2> QED  BY <1>0, <1>1, <2>1, <2>2 DEF Call, Goto, shared, TypeOK
  <1>2. CASE Look(c)
    BY <1>0, <1>2 DEF Look, Answer, Goto, shared, TypeOK
  <1>3. CASE LookCold(c)
    BY <1>0, <1>3 DEF LookCold, Answer, Goto, shared, TypeOK
  <1>4. CASE Begin(c)
    BY <1>0, <1>4 DEF Begin, Goto, Leading, TypeOK
  <1>5. CASE Followed(c)
    BY <1>0, <1>5 DEF Followed, Answer, Goto, shared, TypeOK
  <1>6. CASE AskStore(c)
    BY <1>0, <1>6 DEF AskStore, Goto, Leading, Loading, shared, TypeOK
  <1>7. CASE StoreAnswers(c)
    BY <1>0, <1>7 DEF StoreAnswers, Goto, Leading, Loading, Replies, Documents, shared, TypeOK
  <1>8. CASE Compare(c)
    BY <1>0, <1>8 DEF Compare, Goto, Leading, Loading, shared, TypeOK
  <1>9. CASE Install(c)
    <2>1. reply[c] \in Valid
      BY <1>9 DEF Install, Inv, Prepared
    <2>2. cold' \in [Registries -> BOOLEAN]
      BY <1>0, <1>9 DEF Install, TypeOK
    <2> QED  BY <1>0, <1>9, <2>1, <2>2 DEF Install, Goto, Leading, Loading, TypeOK
  <1>10. CASE Insert(c)
    BY <1>a, <1>10 DEF Insert, Inv, Prepared
  <1>11. CASE NotModified(c)
    <2>1. previous[c] \in Valid
      BY <1>0, <1>11 DEF NotModified, Inv, Prepared, TypeOK
    <2> QED  BY <1>a, <1>11, <2>1 DEF NotModified
  <1>12. CASE Defer(c)
    <2>1. cache[registry[c]].doc \in Valid
      BY <1>0, <1>12 DEF Defer, TypeOK
    <2> QED  BY <1>a, <1>12, <2>1 DEF Defer
  <1>13. CASE Fail(c)
    <2>1. cold' \in [Registries -> BOOLEAN]
      BY <1>0, <1>13 DEF Fail, TypeOK
    <2>2. /\ heard' \in [Callers -> {NoVal, "none", "error"}]
          /\ leader' \in [Registries -> {NoVal} \cup Callers]
      BY <1>0, <1>13 DEF Fail, Land, TypeOK
    <2> QED  BY <1>0, <1>13, <2>1, <2>2 DEF Fail, Answer, Goto, Replies, TypeOK
  <1>14. CASE Cancel(c)
    <2>1. turns' \in 0..MaxTurns
      BY <1>0, <1>14, AuthAssumption DEF Cancel, Turn, TypeOK
    <2>2. /\ heard' \in [Callers -> {NoVal, "none", "error"}]
          /\ leader' \in [Registries -> {NoVal} \cup Callers]
      BY <1>0, <1>14 DEF Cancel, Land, TypeOK
    <2> QED  BY <1>0, <1>14, <2>1, <2>2 DEF Cancel, Goto, TypeOK
  <1> QED  BY <1>1, <1>2, <1>3, <1>4, <1>5, <1>6, <1>7, <1>8, <1>9, <1>10, <1>11, <1>12, <1>13,
              <1>14 DEF CallerStep

\* What happens around the calls.
LEMMA RegistryTypes ==
    ASSUME TypeOK, NEW r \in Registries, Publish(r) \/ ComesDue(r) \/ Evict(r) \/ CoolDown(r)
    PROVE  TypeOK'
  <1>1. turns' \in 0..MaxTurns
    BY AuthAssumption DEF Publish, ComesDue, Evict, CoolDown, Turn, TypeOK
  <1>2. cold' \in [Registries -> BOOLEAN]
    BY DEF Publish, ComesDue, Evict, CoolDown, TypeOK
  <1>3. cache' \in [Registries -> {NoVal} \cup [doc: Valid, due: BOOLEAN]]
    <2>1. CASE ComesDue(r)
      <3>1. cache[r] \in [doc: Valid, due: BOOLEAN]
        BY <2>1 DEF ComesDue, TypeOK
      <3>2. [cache[r] EXCEPT !.due = TRUE] \in [doc: Valid, due: BOOLEAN]
        BY <3>1
      <3>3. cache' = [cache EXCEPT ![r] = [cache[r] EXCEPT !.due = TRUE]]
        BY <2>1 DEF ComesDue
      <3> QED  BY <3>2, <3>3 DEF TypeOK
    <2>2. CASE Publish(r) \/ Evict(r) \/ CoolDown(r)
      BY <2>2 DEF Publish, Evict, CoolDown, TypeOK
    <2> QED  BY <2>1, <2>2
  <1>4. store' \in [Registries -> Documents]
    BY DEF Publish, ComesDue, Evict, CoolDown, TypeOK
  <1> QED  BY <1>1, <1>2, <1>3, <1>4 DEF Publish, ComesDue, Evict, CoolDown, calls, TypeOK

-----------------------------------------------------------------------------
(* Documents.                                                              *)

\* What stands for no document is none.
LEMMA NotDocuments ==
    NoVal \notin Valid /\ Unavailable \notin Valid /\ Invalid \notin Valid
    /\ Unchanged \notin Documents /\ NoVal \notin Documents /\ StoreError # Unchanged
  BY AuthAssumption DEF Unavailable, Unchanged, Invalid, StoreError, Documents, Not

\* A document superseded twice is superseded.
LEMMA WithinTransitive ==
    ASSUME NEW a \in Valid, NEW b \in Valid, NEW d \in Valid, Within(a, b), Within(b, d)
    PROVE  Within(a, d)
  <1>1. a.revision \in Nat /\ b.revision \in Nat /\ d.revision \in Nat
    BY AuthAssumption
  <1> QED  BY <1>1 DEF Within

\* What was reached stays behind every document that supersedes it.
LEMMA ReachedUp ==
    ASSUME TypeOK, NEW r \in Registries, NEW a \in Valid, NEW b \in Valid, Reached(r, a), Within(a, b)
    PROVE  Reached(r, b)
  <1> SUFFICES ASSUME NEW c \in Callers, registry[c] = r
               PROVE  /\ floor[c] <= b.revision
                      /\ answer[c] \in Valid => Within(answer[c], b)
    BY DEF Reached
  <1>1. a.revision \in Nat /\ b.revision \in Nat /\ floor[c] \in Int
    BY AuthAssumption DEF TypeOK
  <1>2. floor[c] <= a.revision /\ (answer[c] \in Valid => Within(answer[c], a))
    BY DEF Reached
  <1>3. floor[c] <= b.revision
    BY <1>1, <1>2 DEF Within
  <1> QED  BY <1>2, <1>3, WithinTransitive

\* The registry gives out a document that was reached: everybody else's answers are not past it.
LEMMA GivesReached ==
    ASSUME TypeOK, RegistriesAdvance, NEW c \in Callers, NEW what \in {NoVal, Unavailable} \cup Valid,
           answer' = [answer EXCEPT ![c] = what], UNCHANGED <<registry, floor>>,
           what \in Valid => Reached(registry[c], what)
    PROVE  /\ RegistriesAdvance'
           /\ \A r \in Registries : NothingGiven(r) /\ (r = registry[c] => what \notin Valid)
                  => NothingGiven(r)'
  <1>1. answer'[c] = what /\ \A d \in Callers \ {c} : answer'[d] = answer[d]
    BY DEF TypeOK
  <1>2. NeverGoesBack'
    <2> SUFFICES ASSUME NEW d \in Callers, answer'[d] \in Valid
                 PROVE  answer'[d].revision >= floor[d]
      BY DEF NeverGoesBack
    <2>1. CASE d # c
      BY <1>1, <2>1 DEF RegistriesAdvance, NeverGoesBack
    <2>2. CASE d = c
      <3>1. floor[c] <= what.revision /\ what.revision \in Nat /\ floor[c] \in Int
        BY <1>1, <2>2, AuthAssumption DEF Reached, TypeOK
      <3> QED  BY <1>1, <2>2, <3>1
    <2> QED  BY <2>1, <2>2
  <1>3. RevisionNamesGrants'
    <2>1. \A d \in Callers : answer[d] \in Valid /\ what \in Valid /\ registry[d] = registry[c]
                             /\ answer[d].revision = what.revision => answer[d] = what
      BY AuthAssumption DEF Reached, Within
    <2> QED  BY <1>1, <2>1 DEF RegistriesAdvance, RevisionNamesGrants
  <1>4. \A r \in Registries : NothingGiven(r) /\ (r = registry[c] => what \notin Valid)
            => NothingGiven(r)'
    BY <1>1 DEF NothingGiven
  <1> QED  BY <1>2, <1>3, <1>4 DEF RegistriesAdvance

\* What the cache or the leader gives out leaves nothing behind, if it is within what is
\* cached and installed afterwards.
LEMMA GivesAhead ==
    ASSUME Inv, NEW c \in Callers, NEW what \in {NoVal, Unavailable} \cup Valid,
           answer' = [answer EXCEPT ![c] = what], UNCHANGED <<registry, floor, installed>>,
           what \in Valid =>
               /\ Reached(registry[c], what)
               /\ installed[registry[c]] # NoVal /\ Within(what, installed[registry[c]]),
           \A r \in Registries : cache'[r] # NoVal =>
               /\ cache'[r].doc \in Valid /\ Reached(r, cache'[r].doc)
               /\ r = registry[c] /\ what \in Valid => Within(what, cache'[r].doc)
    PROVE  Ahead' /\ RegistriesAdvance'
  <1>1. TypeOK /\ RegistriesAdvance /\ Ahead
    BY DEF Inv
  <1>2. /\ RegistriesAdvance'
        /\ \A r \in Registries : NothingGiven(r) /\ (r = registry[c] => what \notin Valid)
               => NothingGiven(r)'
    BY <1>1, GivesReached
  <1>3. ASSUME NEW r \in Registries
        PROVE  /\ cache'[r] # NoVal => Reached(r, cache[r].doc)'
               /\ installed[r] # NoVal => Reached(r, installed[r])'
               /\ installed[r] = NoVal => NothingGiven(r)'
    <2>1. ASSUME cache'[r] # NoVal PROVE Reached(r, cache[r].doc)'
      <3> DEFINE doc == cache'[r].doc
      <3>1. doc \in Valid /\ Reached(r, doc) /\ (r = registry[c] /\ what \in Valid => Within(what, doc))
        BY <2>1
      <3>2. \A c_1 \in Callers : registry'[c_1] = r =>
                /\ floor'[c_1] <= cache'[r].doc.revision
                /\ answer'[c_1] \in Valid => Within(answer'[c_1], cache'[r].doc)
        <4>1. answer'[c] = what /\ \A d \in Callers \ {c} : answer'[d] = answer[d]
          BY <1>1 DEF TypeOK
        <4> QED  BY <3>1, <4>1 DEF Reached
      <3> QED  BY <3>2 DEF Reached, Within
    <2>2. ASSUME installed[r] # NoVal PROVE Reached(r, installed[r])'
      <3>1. installed[r] \in Valid /\ Reached(r, installed[r])
        BY <1>1, <2>2 DEF TypeOK, Ahead
      <3>2. answer'[c] = what /\ \A d \in Callers \ {c} : answer'[d] = answer[d]
        BY <1>1 DEF TypeOK
      <3> QED  BY <3>1, <3>2 DEF Reached, Within
    <2>3. ASSUME installed[r] = NoVal PROVE NothingGiven(r)'
      BY <1>1, <1>2, <2>3 DEF Ahead
    <2> QED  BY <2>1, <2>2, <2>3
  <1> QED  BY <1>2, <1>3 DEF Ahead

\* Nothing that the documents depend on changes, except where one call is; the call holds
\* nothing new.
LEMMA WalkDocuments ==
    ASSUME Inv, NEW c \in Callers, NEW phase, Goto(c, phase),
           phase \notin {"ask", "check", "compared", "insert"}, at[c] # "insert",
           UNCHANGED <<cache, installed, registry, reply>>,
           \A d \in Callers \ {c} : previous'[d] = previous[d]
    PROVE  Prepared' /\ CacheCurrent'
  <1>1. at'[c] = phase /\ \A d \in Callers \ {c} : at'[d] = at[d]
    BY DEF Inv, TypeOK, Goto
  <1>2. Prepared'
    BY <1>1 DEF Inv, Prepared, Acceptable
  <1>3. \A d \in Callers : at[d] = "insert" => at'[d] = "insert"
    BY <1>1
  <1> QED  BY <1>2, <1>3 DEF Inv, CacheCurrent, Within

\* A call that moves without an answer, or is answered Unavailable.
LEMMA UnansweredAhead ==
    ASSUME Inv, NEW c \in Callers,
           answer' = answer \/ answer' = [answer EXCEPT ![c] = Unavailable],
           UNCHANGED <<cache, installed, registry, floor>>
    PROVE  Ahead' /\ RegistriesAdvance'
  <1>1. CASE answer' = answer
    BY <1>1 DEF Inv, Ahead, Reached, NothingGiven, RegistriesAdvance, NeverGoesBack,
                RevisionNamesGrants
  <1>2. CASE answer' = [answer EXCEPT ![c] = Unavailable]
    <2>1. \A r \in Registries : cache[r] # NoVal => cache[r].doc \in Valid /\ Reached(r, cache[r].doc)
      BY DEF Inv, TypeOK, Ahead
    <2> QED  BY <1>2, <2>1, GivesAhead, NotDocuments
  <1> QED  BY <1>1, <1>2

\* A call begins: it must not be answered with less than anybody has been.
LEMMA CallDocuments ==
    ASSUME Inv, NEW c \in Callers, Call(c)
    PROVE  Prepared' /\ CacheCurrent' /\ Ahead' /\ RegistriesAdvance'
  <1>1. TypeOK /\ Ahead /\ registry[c] \in Registries
    BY DEF Inv, TypeOK
  <1>2. Prepared' /\ CacheCurrent'
    BY WalkDocuments DEF Call, shared
  <1>3. /\ answer'[c] = NoVal /\ \A d \in Callers \ {c} : answer'[d] = answer[d]
        /\ floor'[c] = GivenOut(registry[c]) /\ \A d \in Callers \ {c} : floor'[d] = floor[d]
        /\ UNCHANGED <<cache, installed, registry>>
    BY <1>1 DEF Call, TypeOK, shared
  <1>4. NoVal \notin Valid
    BY NotDocuments
  <1>5. \A r \in Registries, doc \in Valid : Reached(r, doc) =>
            \A d \in Callers : registry[d] = r =>
                /\ floor'[d] <= doc.revision
                /\ answer'[d] \in Valid => Within(answer'[d], doc)
    BY <1>1, <1>3, <1>4, GivenOutIsReached DEF Reached
  <1>6. \A r \in Registries : installed[r] = NoVal => NothingGiven(r)'
    BY <1>1, <1>3, <1>4, GivenOutIsReached DEF Ahead, NothingGiven
  <1>7. \A r \in Registries :
            /\ cache[r] # NoVal => cache[r].doc \in Valid /\ Reached(r, cache[r].doc)
            /\ installed[r] # NoVal => installed[r] \in Valid /\ Reached(r, installed[r])
    BY <1>1 DEF TypeOK, Ahead
  <1>8. \A r \in Registries :
            /\ cache[r] # NoVal => Reached(r, cache[r].doc)'
            /\ installed[r] # NoVal => Reached(r, installed[r])'
    BY <1>3, <1>5, <1>7 DEF Reached, Within
  <1>9. Ahead'
    BY <1>3, <1>6, <1>8 DEF Ahead
  <1>10. RegistriesAdvance'
    BY <1>3, <1>4 DEF Inv, RegistriesAdvance, NeverGoesBack, RevisionNamesGrants
  <1> QED  BY <1>2, <1>9, <1>10

\* A snapshot that is not due is given out.
LEMMA LookDocuments ==
    ASSUME Inv, NEW c \in Callers, Look(c)
    PROVE  Prepared' /\ CacheCurrent' /\ Ahead' /\ RegistriesAdvance'
  <1>1. Prepared' /\ CacheCurrent'
    BY WalkDocuments DEF Look, Answer, shared
  <1>2. CASE answer' = answer
    BY <1>1, <1>2, UnansweredAhead DEF Look, shared
  <1>3. CASE cache[registry[c]] # NoVal /\ Answer(c, cache[registry[c]].doc)
    <2> DEFINE r == registry[c]
               what == cache[r].doc
    <2>1. \A q \in Registries : cache[q] # NoVal => cache[q].doc \in Valid /\ Reached(q, cache[q].doc)
      BY DEF Inv, TypeOK, Ahead
    <2>2. r \in Registries
      BY DEF Inv, TypeOK
    <2>3. installed[r] # NoVal /\ Within(what, installed[r])
      BY <1>3, <2>2 DEF Inv, CacheCurrent
    <2>4. answer' = [answer EXCEPT ![c] = what] /\ UNCHANGED <<registry, floor, installed, cache>>
      BY <1>3 DEF Look, Answer, shared
    <2>5. Within(what, what)
      BY DEF Within
    <2>6. Ahead' /\ RegistriesAdvance'
      BY <1>3, <2>1, <2>2, <2>3, <2>4, <2>5, GivesAhead
    <2> QED  BY <1>1, <2>6
  <1> QED  BY <1>2, <1>3 DEF Look

\* A refresh begins with the cached document: nobody else can be about to insert another.
LEMMA AskDocuments ==
    ASSUME Inv, NEW c \in Callers, AskStore(c)
    PROVE  Prepared' /\ CacheCurrent'
  <1>1. /\ at[c] = "refresh" /\ registry[c] \in Registries
        /\ UNCHANGED <<cache, installed, registry, reply>>
        /\ \A d \in Callers \ {c} : previous'[d] = previous[d]
    BY DEF AskStore, Inv, TypeOK, shared
  <1>2. CASE Goto(c, "failed")
    BY <1>1, <1>2, WalkDocuments
  <1>3. CASE /\ Goto(c, "ask")
             /\ previous' = [previous EXCEPT ![c] =
                     IF cache[registry[c]] = NoVal THEN NoVal ELSE cache[registry[c]].doc]
    <2>1. at'[c] = "ask" /\ \A d \in Callers \ {c} : at'[d] = at[d]
      BY <1>3 DEF Inv, TypeOK, Goto
    <2>2. previous'[c] # NoVal => previous'[c] = installed[registry[c]]
      <3>1. previous'[c] = IF cache[registry[c]] = NoVal THEN NoVal ELSE cache[registry[c]].doc
        BY <1>3 DEF Inv, TypeOK
      <3>2. \A d \in Callers : registry[d] = registry[c] => at[d] # "insert"
        BY <1>1, OneRefresh DEF Inv, Leading, Loading
      <3> QED  BY <1>1, <3>1, <3>2 DEF Inv, CacheCurrent
    <2>3. Prepared'
      BY <1>1, <2>1, <2>2 DEF Inv, Prepared, Acceptable
    <2>4. \A d \in Callers : at[d] = "insert" => at'[d] = "insert"
      BY <1>1, <2>1
    <2> QED  BY <1>1, <2>3, <2>4 DEF Inv, CacheCurrent, Within
  <1> QED  BY <1>2, <1>3 DEF AskStore

\* The store's reply: nothing has changed only for a caller that remembers what there was.
LEMMA ReplyDocuments ==
    ASSUME Inv, NEW c \in Callers, StoreAnswers(c)
    PROVE  Prepared' /\ CacheCurrent'
  <1>1. /\ at[c] = "ask" /\ registry[c] \in Registries
        /\ UNCHANGED <<cache, installed, registry, previous>>
        /\ \A d \in Callers \ {c} : reply'[d] = reply[d]
    BY DEF StoreAnswers, Inv, TypeOK, shared
  <1>2. at'[c] = "check" /\ \A d \in Callers \ {c} : at'[d] = at[d]
    BY DEF StoreAnswers, Inv, TypeOK, Goto
  <1>3. reply'[c] = Unchanged => previous[c] # NoVal
    <2>1. store[registry[c]] \in Documents
      BY <1>1 DEF Inv, TypeOK
    <2>2. reply'[c] \in {StoreError, IF previous[c] = store[registry[c]] THEN Unchanged ELSE store[registry[c]]}
      BY DEF StoreAnswers, Inv, TypeOK
    <2> QED  BY <2>1, <2>2, NotDocuments
  <1>4. Prepared'
    BY <1>1, <1>2, <1>3 DEF Inv, Prepared, Acceptable
  <1>5. \A d \in Callers : at[d] = "insert" => at'[d] = "insert"
    BY <1>1, <1>2
  <1> QED  BY <1>1, <1>4, <1>5 DEF Inv, CacheCurrent, Within

\* The comparison lets only a valid document through that supersedes what is installed.
LEMMA CompareDocuments ==
    ASSUME Inv, NEW c \in Callers, Compare(c)
    PROVE  Prepared' /\ CacheCurrent'
  <1>1. /\ at[c] = "check" /\ UNCHANGED <<cache, installed, registry, previous, reply>>
    BY DEF Compare, shared
  <1>2. CASE Goto(c, "failed")
    BY <1>1, <1>2, WalkDocuments
  <1>3. CASE Goto(c, "compared") /\ reply[c] \in Documents /\ Acceptable(registry[c], reply[c])
    <2>1. at'[c] = "compared" /\ \A d \in Callers \ {c} : at'[d] = at[d]
      BY <1>3 DEF Inv, TypeOK, Goto
    <2>2. reply[c] \in Valid
      BY <1>3 DEF Acceptable, Documents
    <2>3. Prepared'
      BY <1>1, <1>3, <2>1, <2>2 DEF Inv, Prepared, Acceptable
    <2>4. \A d \in Callers : at[d] = "insert" => at'[d] = "insert"
      BY <1>1, <2>1
    <2> QED  BY <1>1, <2>3, <2>4 DEF Inv, CacheCurrent, Within
  <1> QED  BY <1>2, <1>3 DEF Compare

\* What is installed supersedes what was, and so everything that was given out.
LEMMA InstallDocuments ==
    ASSUME Inv, NEW c \in Callers, Install(c)
    PROVE  Prepared' /\ CacheCurrent' /\ Ahead' /\ RegistriesAdvance'
  <1> DEFINE r == registry[c]
  <1>1. /\ at[c] = "compared" /\ r \in Registries /\ TypeOK
        /\ UNCHANGED <<cache, registry, previous, reply, answer, floor>>
    BY DEF Install, Inv, TypeOK
  <1>2. at'[c] = "insert" /\ \A d \in Callers \ {c} : at'[d] = at[d]
    BY DEF Install, Inv, TypeOK, Goto
  <1>3. installed'[r] = reply[c] /\ \A q \in Registries \ {r} : installed'[q] = installed[q]
    BY <1>1 DEF Install, TypeOK
  <1>4. /\ reply[c] \in Valid /\ reply[c] # NoVal
        /\ installed[r] # NoVal => installed[r] \in Valid /\ Within(installed[r], reply[c])
    <2>1. reply[c] \in Valid /\ Acceptable(r, reply[c])
      BY <1>1 DEF Inv, Prepared
    <2>2. installed[r] # NoVal => installed[r] \in Valid
      BY <1>1 DEF TypeOK
    <2>3. reply[c].revision \in Nat /\ (installed[r] # NoVal => installed[r].revision \in Nat)
      BY <2>1, <2>2, AuthAssumption
    <2> QED  BY <2>1, <2>2, <2>3, NotDocuments DEF Acceptable, Within
  <1>5. Reached(r, reply[c])
    <2>1. CASE installed[r] # NoVal
      BY <1>1, <1>4, <2>1, ReachedUp DEF Inv, Ahead
    <2>2. CASE installed[r] = NoVal
      <3>1. NothingGiven(r) /\ reply[c].revision \in Nat
        BY <1>1, <1>4, <2>2, AuthAssumption DEF Inv, Ahead
      <3> QED  BY <3>1 DEF NothingGiven, Reached
    <2> QED  BY <2>1, <2>2
  <1>6. Prepared'
    <2>1. \A d \in Callers \ {c} : at[d] \in Leading => registry[d] \in Registries \ {r}
      BY <1>1, OneRefresh DEF Inv, TypeOK, Leading, Loading
    <2>2. \A d \in Callers \ {c} : at[d] \in Leading => installed'[registry[d]] = installed[registry[d]]
      BY <1>3, <2>1
    <2> QED  BY <1>1, <1>2, <1>3, <1>4, <2>2 DEF Inv, Prepared, Acceptable, Leading, Loading
  <1>7. CacheCurrent'
    <2> SUFFICES ASSUME NEW q \in Registries, cache[q] # NoVal
                 PROVE  /\ installed'[q] # NoVal /\ Within(cache[q].doc, installed'[q])
                        /\ \/ cache[q].doc = installed'[q]
                           \/ \E d \in Callers : registry[d] = q /\ at'[d] = "insert"
      BY <1>1 DEF CacheCurrent, Within
    <2>1. CASE q # r
      <3>1. \A d \in Callers : at[d] = "insert" => at'[d] = "insert"
        BY <1>1, <1>2
      <3> QED  BY <1>3, <2>1, <3>1 DEF Inv, CacheCurrent
    <2>2. CASE q = r
      <3>1. cache[r].doc \in Valid /\ installed[r] # NoVal /\ Within(cache[r].doc, installed[r])
        BY <1>1, <2>2 DEF Inv, CacheCurrent, TypeOK
      <3>2. Within(cache[r].doc, reply[c])
        BY <1>4, <3>1, WithinTransitive
      <3> QED  BY <1>2, <1>3, <1>4, <2>2, <3>2
    <2> QED  BY <2>1, <2>2
  <1>8. Ahead'
    <2>1. \A q \in Registries : installed'[q] # NoVal => Reached(q, installed'[q])
      BY <1>3, <1>5 DEF Inv, Ahead
    <2>2. \A q \in Registries : installed'[q] # NoVal => Reached(q, installed[q])'
      BY <1>1, <2>1 DEF Reached, Within
    <2>3. \A q \in Registries : cache'[q] # NoVal => Reached(q, cache[q].doc)'
      BY <1>1 DEF Inv, Ahead, Reached, Within
    <2>4. \A q \in Registries : installed'[q] = NoVal => NothingGiven(q)'
      BY <1>1, <1>3, <1>4 DEF Inv, Ahead, NothingGiven
    <2> QED  BY <2>2, <2>3, <2>4 DEF Ahead
  <1>9. RegistriesAdvance'
    BY <1>1 DEF Inv, RegistriesAdvance, NeverGoesBack, RevisionNamesGrants
  <1> QED  BY <1>6, <1>7, <1>8, <1>9

\* A leader that caches what is installed, or what was cached, ends its refresh with it.
LEMMA CachedDocuments ==
    ASSUME Inv, NEW c \in Callers, Insert(c) \/ NotModified(c) \/ Defer(c)
    PROVE  Prepared' /\ CacheCurrent' /\ Ahead' /\ RegistriesAdvance'
  <1> DEFINE r == registry[c]
  <1>1. TypeOK /\ r \in Registries /\ at[c] \in Leading
    BY DEF Inv, TypeOK, Insert, NotModified, Defer, Leading, Loading
  <1>2. \A d \in Callers : registry[d] = r /\ at[d] = "insert" => d = c
    BY <1>1, OneRefresh DEF Inv, Leading, Loading
  <1>3. PICK doc \in Valid : Cached(c, doc) /\ doc = installed[r]
    <2>1. CASE Insert(c)
      BY <2>1 DEF Insert, Inv, Prepared
    <2>2. CASE NotModified(c)
      <3>1. previous[c] \in Valid /\ previous[c] = installed[r]
        BY <2>2 DEF NotModified, Inv, TypeOK, Prepared
      <3> QED  BY <2>2, <3>1 DEF NotModified
    <2>3. CASE Defer(c)
      <3>1. cache[r] # NoVal /\ at[c] = "failed"
        BY <2>3 DEF Defer
      <3>2. cache[r].doc \in Valid /\ cache[r].doc = installed[r]
        BY <1>1, <1>2, <3>1 DEF Inv, TypeOK, CacheCurrent
      <3> QED  BY <2>3, <3>2 DEF Defer
    <2> QED  BY <2>1, <2>2, <2>3
  <1>4. /\ answer' = [answer EXCEPT ![c] = doc] /\ UNCHANGED <<registry, floor, installed>>
        /\ cache'[r] = [doc |-> doc, due |-> FALSE]
        /\ \A q \in Registries \ {r} : cache'[q] = cache[q]
        /\ \A d \in Callers \ {c} : previous'[d] = previous[d] /\ reply'[d] = reply[d]
    BY <1>1, <1>3 DEF Cached, Answer, TypeOK
  <1>5. at'[c] = "done" /\ \A d \in Callers \ {c} : at'[d] = at[d]
    BY <1>3 DEF Cached, Answer, Goto, Inv, TypeOK
  <1>6. installed[r] # NoVal /\ Within(doc, installed[r]) /\ Reached(r, doc) /\ cache'[r].doc = doc
    BY <1>1, <1>3, <1>4, NotDocuments DEF Within, Inv, Ahead
  <1>7. Ahead' /\ RegistriesAdvance'
    <2>1. \A q \in Registries : cache'[q] # NoVal =>
              /\ cache'[q].doc \in Valid /\ Reached(q, cache'[q].doc)
              /\ q = r => Within(doc, cache'[q].doc)
      BY <1>1, <1>4, <1>6 DEF Inv, Ahead, TypeOK, Within
    <2> QED  BY <1>4, <1>6, <2>1, GivesAhead
  <1>8. Prepared'
    BY <1>4, <1>5 DEF Inv, Prepared, Acceptable
  <1>9. CacheCurrent'
    <2> SUFFICES ASSUME NEW q \in Registries, cache'[q] # NoVal
                 PROVE  /\ installed[q] # NoVal /\ Within(cache'[q].doc, installed[q])
                        /\ \/ cache'[q].doc = installed[q]
                           \/ \E d \in Callers : registry[d] = q /\ at'[d] = "insert"
      BY <1>4 DEF CacheCurrent, Within
    <2>1. CASE q = r
      BY <1>3, <1>6, <2>1
    <2>2. CASE q # r
      <3>1. \A d \in Callers : registry[d] = q /\ at[d] = "insert" => at'[d] = "insert"
        BY <1>5, <2>2
      <3> QED  BY <1>4, <2>2, <3>1 DEF Inv, CacheCurrent
    <2> QED  BY <2>1, <2>2
  <1> QED  BY <1>7, <1>8, <1>9

\* A refresh that fails or is dropped leaves no document behind.
LEMMA FailDocuments ==
    ASSUME Inv, NEW c \in Callers, Fail(c) \/ Cancel(c)
    PROVE  Prepared' /\ CacheCurrent' /\ Ahead' /\ RegistriesAdvance'
  <1>1. PICK phase \in {"done", "idle"} : Goto(c, phase)
    BY DEF Fail, Cancel, Answer
  <1>2. at'[c] = phase /\ \A d \in Callers \ {c} : at'[d] = at[d]
    BY <1>1 DEF Inv, TypeOK, Goto
  <1>3. at[c] # "insert" /\ UNCHANGED <<cache, installed, registry, floor>>
    BY DEF Fail, Cancel
  <1>4. \A d \in Callers \ {c} : previous'[d] = previous[d] /\ reply'[d] = reply[d]
    BY DEF Fail, Cancel, Inv, TypeOK
  <1>5. Prepared'
    BY <1>2, <1>3, <1>4 DEF Inv, Prepared, Acceptable
  <1>6. CacheCurrent'
    <2>1. \A d \in Callers : at[d] = "insert" => at'[d] = "insert"
      BY <1>2, <1>3
    <2> QED  BY <1>3, <2>1 DEF Inv, CacheCurrent, Within
  <1>7. answer' = answer \/ answer' = [answer EXCEPT ![c] = Unavailable]
    BY DEF Fail, Cancel, Answer
  <1> QED  BY <1>3, <1>5, <1>6, <1>7, UnansweredAhead

\* What happens around the calls changes what is cached only by removing it.
LEMMA RegistryDocuments ==
    ASSUME Inv, NEW r \in Registries, Publish(r) \/ ComesDue(r) \/ Evict(r) \/ CoolDown(r)
    PROVE  Prepared' /\ CacheCurrent' /\ Ahead' /\ RegistriesAdvance'
  <1>1. UNCHANGED <<at, registry, previous, reply, answer, floor, installed>>
    BY DEF Publish, ComesDue, Evict, CoolDown, calls
  <1>2. \A q \in Registries : cache'[q] # NoVal => cache[q] # NoVal /\ cache'[q].doc = cache[q].doc
    <2>1. CASE ComesDue(r)
      <3>1. cache[r] \in [doc: Valid, due: BOOLEAN]
        BY <2>1 DEF ComesDue, Inv, TypeOK
      <3>2. cache' = [cache EXCEPT ![r] = [cache[r] EXCEPT !.due = TRUE]]
        BY <2>1 DEF ComesDue
      <3>3. [cache[r] EXCEPT !.due = TRUE].doc = cache[r].doc
        BY <3>1
      <3>4. cache[r] # NoVal
        BY <2>1 DEF ComesDue
      <3> QED  BY <3>2, <3>3, <3>4 DEF Inv, TypeOK
    <2>2. CASE Publish(r) \/ Evict(r) \/ CoolDown(r)
      BY <2>2 DEF Publish, Evict, CoolDown, Inv, TypeOK
    <2> QED  BY <2>1, <2>2
  <1>3. Prepared' /\ RegistriesAdvance'
    BY <1>1 DEF Inv, Prepared, Acceptable, RegistriesAdvance, NeverGoesBack, RevisionNamesGrants
  <1>4. CacheCurrent'
    BY <1>1, <1>2 DEF Inv, CacheCurrent, Within
  <1>5. Ahead'
    <2>1. \A q \in Registries : cache'[q] # NoVal => Reached(q, cache'[q].doc)
      BY <1>2 DEF Inv, Ahead
    <2>2. \A q \in Registries : cache'[q] # NoVal => Reached(q, cache[q].doc)'
      BY <1>1, <2>1 DEF Reached, Within
    <2>3. \A q \in Registries : /\ installed[q] # NoVal => Reached(q, installed[q])'
                                /\ installed[q] = NoVal => NothingGiven(q)'
      BY <1>1 DEF Inv, Ahead, Reached, Within, NothingGiven
    <2> QED  BY <1>1, <2>2, <2>3 DEF Ahead
  <1> QED  BY <1>3, <1>4, <1>5

\* The initial states.
LEMMA InvInit == Init => Inv
  <1> SUFFICES ASSUME Init PROVE Inv
    OBVIOUS
  <1>1. TypeOK
    BY TypeInit
  <1>2. \A c \in Callers : at[c] = "idle" /\ answer[c] = NoVal /\ floor[c] = -1
    BY DEF Init
  <1>3. \A r \in Registries : leader[r] = NoVal /\ cache[r] = NoVal /\ installed[r] = NoVal
    BY DEF Init
  <1>4. FlightsLed
    <2>1. {c \in Callers : at[c] \in Loading \ {"failed"}} = {}
      BY <1>2 DEF Loading
    <2>2. Cardinality({}) = 0
      BY FS_EmptySet
    <2>3. Cardinality({c \in Callers : at[c] \in Loading \ {"failed"}}) <= MAX_CONCURRENT_REGISTRY_LOADS
      BY <2>1, <2>2, AuthAssumption
    <2> QED  BY <1>2, <1>3, <2>3 DEF FlightsLed, Leading, Loading
  <1>5. Prepared
    BY <1>2 DEF Prepared
  <1>6. CacheCurrent
    BY <1>3 DEF CacheCurrent
  <1>7. Ahead
    BY <1>2, <1>3, NotDocuments DEF Ahead, NothingGiven
  <1>8. RegistriesAdvance
    BY <1>2, NotDocuments DEF RegistriesAdvance, NeverGoesBack, RevisionNamesGrants
  <1> QED  BY <1>1, <1>4, <1>5, <1>6, <1>7, <1>8 DEF Inv

\* Every step keeps the invariant.
LEMMA InvStep == Inv /\ [Next]_vars => Inv'
  <1> SUFFICES ASSUME Inv, [Next]_vars PROVE Inv'
    OBVIOUS
  <1>1. FlightsLed'
    BY FlightsStep DEF Inv
  <1>2. CASE UNCHANGED vars
    <2>1. UNCHANGED <<store, cache, installed, cold, leader, at, registry, previous, reply, heard, answer, floor, turns>>
      BY <1>2 DEF vars, shared, calls
    <2>2. TypeOK'
      BY <2>1 DEF Inv, TypeOK
    <2>3. Prepared' /\ CacheCurrent' /\ Ahead' /\ RegistriesAdvance'
      BY <2>1 DEF Inv, Prepared, Acceptable, CacheCurrent, Ahead, Reached, Within, NothingGiven,
                  RegistriesAdvance, NeverGoesBack, RevisionNamesGrants
    <2> QED  BY <1>1, <2>2, <2>3 DEF Inv
  <1>3. ASSUME NEW c \in Callers, Call(c) \/ CallerStep(c) \/ Cancel(c)
        PROVE  Inv'
    <2>1. TypeOK'
      BY <1>3, CallerTypes
    <2>2. CASE LookCold(c) \/ Begin(c) \/ Followed(c)
      <3>1. Prepared' /\ CacheCurrent'
        BY <2>2, WalkDocuments DEF LookCold, Begin, Followed, Answer, shared
      <3>2. Ahead' /\ RegistriesAdvance'
        BY <2>2, UnansweredAhead DEF LookCold, Begin, Followed, Answer, shared
      <3> QED  BY <1>1, <2>1, <3>1, <3>2 DEF Inv
    <2>3. CASE AskStore(c) \/ StoreAnswers(c) \/ Compare(c)
      <3>1. Prepared' /\ CacheCurrent'
        BY <2>3, AskDocuments, ReplyDocuments, CompareDocuments
      <3>2. Ahead' /\ RegistriesAdvance'
        BY <2>3, UnansweredAhead DEF AskStore, StoreAnswers, Compare, shared
      <3> QED  BY <1>1, <2>1, <3>1, <3>2 DEF Inv
    <2> QED  BY <1>1, <1>3, <2>1, <2>2, <2>3, CallDocuments, LookDocuments, InstallDocuments,
                CachedDocuments, FailDocuments DEF Inv, CallerStep
  <1>4. ASSUME NEW r \in Registries, Publish(r) \/ ComesDue(r) \/ Evict(r) \/ CoolDown(r)
        PROVE  Inv'
    BY <1>1, <1>4, RegistryTypes, RegistryDocuments DEF Inv
  <1> QED  BY <1>2, <1>3, <1>4 DEF Next

-----------------------------------------------------------------------------
(* Theorems.                                                               *)

\* For any callers, registries and documents, every variable of the refresh keeps its type; in
\* particular only valid documents are ever installed, cached or given out (lib.rs:367-400).
THEOREM TypeCorrect == Spec => []TypeOK
  <1>1. Inv => TypeOK
    BY DEF Inv
  <1> QED  BY <1>1, InvInit, InvStep, PTL DEF Spec

\* For any callers and permits, a registry has at most one refresh, whose leader holds the
\* flight, a follower that has heard nothing has a leader to hear from, also after a leader
\* was dropped, and the loads stay within MAX_CONCURRENT_REGISTRY_LOADS (lib.rs:413).
THEOREM FlightsStayLed == Spec => []FlightsLed
  <1>1. Inv => FlightsLed
    BY DEF Inv
  <1> QED  BY <1>1, InvInit, InvStep, PTL DEF Spec

\* Whatever the store serves, and whatever is evicted, dropped or raced in between, no request
\* is judged by an older revision than one that ended before it began and whose caller has not
\* called again (lib.rs:367), and one revision names one document (lib.rs:379).
THEOREM RegistriesOnlyAdvance == Spec => []RegistriesAdvance
  <1>1. Inv => RegistriesAdvance
    BY DEF Inv
  <1> QED  BY <1>1, InvInit, InvStep, PTL DEF Spec

\* A step never removes or lowers what is installed for a registry.
InstalledAdvances ==
    \A r \in Registries : installed[r] # NoVal =>
        installed'[r] # NoVal /\ Within(installed[r], installed'[r])

\* installed_revisions only advances: neither a failed refresh, nor an eviction, nor a cancelled
\* leader forgets the revision a rolled-back store is measured against (lib.rs:379-400).
THEOREM InstalledOnlyAdvances == Spec => [][InstalledAdvances]_vars
  <1>1. Inv /\ [Next]_vars => [InstalledAdvances]_vars
    <2> SUFFICES ASSUME Inv, [Next]_vars PROVE InstalledAdvances
      OBVIOUS
    <2>1. CASE UNCHANGED installed
      BY <2>1 DEF InstalledAdvances, Within
    <2>2. ASSUME NEW c \in Callers, Install(c)
          PROVE  InstalledAdvances
      <3> DEFINE r == registry[c]
      <3>1. reply[c] \in Valid /\ Acceptable(r, reply[c])
        BY <2>2 DEF Install, Inv, Prepared
      <3>2. \A q \in Registries : installed'[q] = IF q = r THEN reply[c] ELSE installed[q]
        BY <2>2 DEF Install, Inv, TypeOK
      <3>3. installed[r] # NoVal => Within(installed[r], reply[c])
        <4>1. ASSUME installed[r] # NoVal
              PROVE  installed[r].revision \in Nat /\ reply[c].revision \in Nat
          BY <3>1, <4>1, AuthAssumption DEF Inv, TypeOK
        <4> QED  BY <3>1, <4>1 DEF Acceptable, Within
      <3> QED  BY <3>1, <3>2, <3>3, NotDocuments DEF InstalledAdvances, Within
    <2>3. (\E c \in Callers : Install(c)) \/ UNCHANGED installed
      BY DEF Next, CallerStep, Call, Look, LookCold, Begin, Followed, AskStore, StoreAnswers, Compare,
             Insert, NotModified, Defer, Cached, Fail, Cancel, Publish, ComesDue, Evict, CoolDown,
             shared, vars
    <2> QED  BY <2>1, <2>2, <2>3
  <1> QED  BY <1>1, InvInit, InvStep, PTL DEF Spec
=============================================================================
