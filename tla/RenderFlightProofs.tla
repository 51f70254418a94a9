------------------------- MODULE RenderFlightProofs -------------------------
(***************************************************************************)
(* Proofs about RenderFlight, for any number of callers, keys and grants:  *)
(* the lock makes the two lookups and the election one decision, and the   *)
(* flight makes the leader the only one who inserts.                       *)
(***************************************************************************)
EXTENDS RenderFlight, TLAPS

-----------------------------------------------------------------------------
(* The inductive invariant.                                                *)

\* A call that has arrived has its request; one inside the flight machinery is cacheable, one
\* that bypasses it is not.
Asked ==
    \A c \in Callers :
        /\ phase[c] # "idle" => request[c] \in Requests
        /\ phase[c] \notin {"idle", "disabled", "run", "done"} => request[c].cacheable
        /\ phase[c] = "disabled" => ~request[c].cacheable

\* The lock was taken by a caller that found nothing: until it decides, an entry can only
\* have come from the flight it will find.
ElectionSafe ==
    \A c \in Callers : phase[c] = "elect" => ~Hit(c) \/ flight[Key(c)] # NoVal

\* What a leader found resident before its insertion is still what it was.
InsertionSafe ==
    \A c \in Callers : (phase[c] = "insert" /\ cache[Key(c)] # NoVal) =>
        cache[Key(c)].required = Grant(c)

\* An entry requires the grant it was made with, and a hit ends the call.
EntriesFaithful ==
    /\ \A k \in Keys : cache[k] # NoVal => cache[k].made = cache[k].required
    /\ \A c \in Callers : answer[c] = "hit" => phase[c] = "done"

Formed == TypeOK /\ Asked
Safe == FlightsLed /\ ElectionSafe /\ NoRedundantRender /\ InsertionSafe
Inv == Formed /\ Safe

-----------------------------------------------------------------------------
LEMMA FormedInit == Init => Formed
  BY CallersAssumption DEF Init, Formed, TypeOK, Asked, Phases

\* No step spoils the types, the lock's discipline or the requests.
LEMMA FormedStep == Formed /\ [Next]_vars => Formed'
  <1> SUFFICES ASSUME Formed, [Next]_vars PROVE Formed'
    OBVIOUS
  <1> USE CallersAssumption DEF Formed, TypeOK, Asked, Phases, Answers, Key, Grant, GoTo
  <1>1. ASSUME NEW c \in Callers, Arrive(c) PROVE Formed'
    <2>1. PICK r \in Requests : /\ request' = [request EXCEPT ![c] = r]
                                /\ phase' = [phase EXCEPT ![c] = IF r.cacheable THEN "get" ELSE "disabled"]
      BY <1>1 DEF Arrive
    <2>2. phase[c] = "idle" /\ UNCHANGED <<answer, cache, lock, flight, waits_on, woken, served>>
      BY <1>1 DEF Arrive
    <2>3. /\ phase' \in [Callers -> Phases] /\ request' \in [Callers -> Requests \cup {NoVal}]
          /\ phase'[c] \in {"get", "disabled"} /\ request'[c] = r
          /\ IF phase'[c] = "get" THEN r.cacheable ELSE ~r.cacheable
      BY <2>1
    <2>4. \A d \in Callers \ {c} : phase'[d] = phase[d] /\ request'[d] = request[d]
      BY <2>1
    <2>5. \A k \in Keys, d \in Callers : lock'[k] = d <=> (phase'[d] = "elect" /\ request'[d].key = k)
      BY <2>2, <2>3, <2>4
    <2>6. TypeOK'
      BY <2>2, <2>3, <2>5
    <2>7. Asked'
      BY <2>3, <2>4
    <2> QED  BY <2>6, <2>7
  <1>2. ASSUME NEW c \in Callers, FirstGet(c) PROVE Formed'
    <2>1. request[c] \in Requests /\ request[c].key \in Keys
      BY <1>2 DEF FirstGet, Requests
    <2>2. CASE Hit(c)
      <3>1. cache[Key(c)] \in Entries /\ cache[Key(c)].made \in Grants
        BY <2>1, <2>2 DEF Hit, Entries
      <3> QED  BY <1>2, <2>2, <3>1 DEF FirstGet, Serve
    <2>3. CASE ~Hit(c)
      BY <1>2, <2>3 DEF FirstGet
    <2> QED  BY <2>2, <2>3
  <1>3. ASSUME NEW c \in Callers, SecondGet(c) PROVE Formed'
    <2>1. request[c] \in Requests /\ request[c].key \in Keys
      BY <1>3 DEF SecondGet, Requests
    <2>2. CASE Hit(c)
      <3>1. cache[Key(c)] \in Entries /\ cache[Key(c)].made \in Grants
        BY <2>1, <2>2 DEF Hit, Entries
      <3> QED  BY <1>3, <2>2, <3>1 DEF SecondGet, Serve
    <2>3. CASE ~Hit(c)
      BY <1>3, <2>1, <2>3 DEF SecondGet
    <2> QED  BY <2>2, <2>3
  <1>4. ASSUME NEW c \in Callers, Elect(c) PROVE Formed'
    <2>1. request[c] \in Requests /\ request[c].key \in Keys
      BY <1>4 DEF Elect, Requests
    <2>2. phase[c] = "elect" /\ request[c].cacheable /\ flight[Key(c)] \in Callers \cup {NoVal}
      BY <1>4, <2>1 DEF Elect
    <2>3. /\ lock' = [lock EXCEPT ![Key(c)] = NoVal] /\ lock[Key(c)] = c
          /\ UNCHANGED <<request, answer, cache, served>>
      BY <1>4, <2>1 DEF Elect
    <2>4. CASE flight[Key(c)] # NoVal
      <3>1. /\ waits_on' = [waits_on EXCEPT ![c] = flight[Key(c)]]
            /\ woken' = [woken EXCEPT ![c] = FALSE]
            /\ phase' = [phase EXCEPT ![c] = "wait"] /\ UNCHANGED flight
        BY <1>4, <2>4 DEF Elect
      <3> QED  BY <2>1, <2>2, <2>3, <2>4, <3>1
    <2>5. CASE flight[Key(c)] = NoVal
      <3>1. /\ flight' = [flight EXCEPT ![Key(c)] = c]
            /\ phase' = [phase EXCEPT ![c] = "lead"] /\ UNCHANGED <<waits_on, woken>>
        BY <1>4, <2>5 DEF Elect
      <3> QED  BY <2>1, <2>2, <2>3, <2>5, <3>1
    <2> QED  BY <2>4, <2>5
  <1>5. ASSUME NEW c \in Callers, Bypass(c) PROVE Formed'
    BY <1>5 DEF Bypass
  <1>6. ASSUME NEW c \in Callers, Lead(c) PROVE Formed'
    BY <1>6 DEF Lead
  <1>7. ASSUME NEW c \in Callers, Wake(c) PROVE Formed'
    BY <1>7 DEF Wake
  <1>8. ASSUME NEW c \in Callers, StopWaiting(c) PROVE Formed'
    BY <1>8 DEF StopWaiting
  <1>9. ASSUME NEW c \in Callers, RunEnds(c) PROVE Formed'
    BY <1>9 DEF RunEnds, Requests
  <1>10. ASSUME NEW c \in Callers, CheckResident(c) PROVE Formed'
    BY <1>10 DEF CheckResident
  <1>11. ASSUME NEW c \in Callers, Insert(c) PROVE Formed'
    BY <1>11 DEF Insert, Entries, Requests
  <1>12. ASSUME NEW c \in Callers, RemoveFlight(c) PROVE Formed'
    BY <1>12 DEF RemoveFlight, Requests
  <1>13. ASSUME NEW c \in Callers, Signal(c) PROVE Formed'
    BY <1>13 DEF Signal
  <1>14. ASSUME NEW c \in Callers, Leave(c) PROVE Formed'
    BY <1>14 DEF Leave
  <1>15. ASSUME NEW k \in Keys, Expire(k) PROVE Formed'
    BY <1>15 DEF Expire
  <1>16. CASE UNCHANGED vars
    BY <1>16 DEF vars
  <1> QED
    BY <1>1, <1>2, <1>3, <1>4, <1>5, <1>6, <1>7, <1>8, <1>9, <1>10, <1>11, <1>12, <1>13, <1>14,
       <1>15, <1>16 DEF Next, Lookup, EndFlight

\* Every variable of the output cache keeps its type, and its lock its discipline.
THEOREM TypeCorrect == Spec => []TypeOK
  <1>1. Formed => TypeOK
    BY DEF Formed
  <1> QED  BY FormedInit, FormedStep, <1>1, PTL DEF Spec

-----------------------------------------------------------------------------
LEMMA InvInit == Init => Inv
  BY FormedInit, CallersAssumption DEF Init, Inv, Safe, FlightsLed, Leading, ElectionSafe,
     NoRedundantRender, InsertionSafe

\* The lock carries a caller's miss to its election, and one leader to a key carries what it
\* saw resident to its insertion.
LEMMA InvStep == Inv /\ [Next]_vars => Inv'
  <1> SUFFICES ASSUME Inv, [Next]_vars
               PROVE  Safe'
    BY FormedStep DEF Inv, Safe
  <1> Formed /\ Formed' /\ Safe
    BY FormedStep DEF Inv
  <1> USE CallersAssumption DEF Formed, TypeOK, Asked, Safe, FlightsLed, Leading, ElectionSafe,
          NoRedundantRender, InsertionSafe, Hit, Key, Grant, GoTo
  <1>1. ASSUME NEW c \in Callers, Arrive(c) PROVE Safe'
    BY <1>1 DEF Arrive
  <1>2. ASSUME NEW c \in Callers, FirstGet(c) PROVE Safe'
    BY <1>2 DEF FirstGet, Serve
  <1>3. ASSUME NEW c \in Callers, SecondGet(c) PROVE Safe'
    BY <1>3 DEF SecondGet, Serve
  <1>4. ASSUME NEW c \in Callers, Elect(c) PROVE Safe'
    <2>1. phase[c] = "elect" /\ request[c] \in Requests /\ request[c].key \in Keys
      BY <1>4 DEF Elect, Requests
    <2>2. UNCHANGED <<request, cache>> /\ lock[Key(c)] = c
      BY <1>4, <2>1 DEF Elect
    <2>3. CASE flight[Key(c)] # NoVal
      <3>1. phase' = [phase EXCEPT ![c] = "wait"] /\ UNCHANGED flight
        BY <1>4, <2>3 DEF Elect
      <3> QED  BY <2>1, <2>2, <2>3, <3>1
    <2>4. CASE flight[Key(c)] = NoVal
      <3>1. /\ flight' = [flight EXCEPT ![Key(c)] = c]
            /\ phase' = [phase EXCEPT ![c] = "lead"]
        BY <1>4, <2>4 DEF Elect
      <3>2. ~Hit(c)
        BY <2>1, <2>4
      <3>3. FlightsLed'
        BY <2>1, <2>2, <2>4, <3>1
      <3>4. ElectionSafe'
        BY <2>1, <2>2, <2>4, <3>1
      <3>5. NoRedundantRender' /\ InsertionSafe'
        BY <2>1, <2>2, <3>1, <3>2
      <3> QED  BY <3>3, <3>4, <3>5
    <2> QED  BY <2>3, <2>4
  <1>5. ASSUME NEW c \in Callers, Bypass(c) PROVE Safe'
    BY <1>5 DEF Bypass
  <1>6. ASSUME NEW c \in Callers, Lead(c) PROVE Safe'
    BY <1>6 DEF Lead
  <1>7. ASSUME NEW c \in Callers, Wake(c) PROVE Safe'
    BY <1>7 DEF Wake
  <1>8. ASSUME NEW c \in Callers, StopWaiting(c) PROVE Safe'
    BY <1>8 DEF StopWaiting
  <1>9. ASSUME NEW c \in Callers, RunEnds(c) PROVE Safe'
    BY <1>9 DEF RunEnds
  <1>10. ASSUME NEW c \in Callers, CheckResident(c) PROVE Safe'
    BY <1>10 DEF CheckResident
  <1>11. ASSUME NEW c \in Callers, Insert(c) PROVE Safe'
    BY <1>11 DEF Insert
  <1>12. ASSUME NEW c \in Callers, RemoveFlight(c) PROVE Safe'
    BY <1>12 DEF RemoveFlight
  <1>13. ASSUME NEW c \in Callers, Signal(c) PROVE Safe'
    BY <1>13 DEF Signal
  <1>14. ASSUME NEW c \in Callers, Leave(c) PROVE Safe'
    BY <1>14 DEF Leave
  <1>15. ASSUME NEW k \in Keys, Expire(k) PROVE Safe'
    BY <1>15 DEF Expire
  <1>16. CASE UNCHANGED vars
    BY <1>16 DEF vars
  <1> QED
    BY <1>1, <1>2, <1>3, <1>4, <1>5, <1>6, <1>7, <1>8, <1>9, <1>10, <1>11, <1>12, <1>13, <1>14,
       <1>15, <1>16 DEF Next, Lookup, EndFlight

\* No interleaving of lookups, insertions and drops gives a key two leaders or leaves a
\* flight in the map that nobody leads.
THEOREM OneFlightPerKey == Spec => []FlightsLed
  <1>1. Inv => FlightsLed
    BY DEF Inv, Safe
  <1> QED  BY InvInit, InvStep, <1>1, PTL DEF Spec

\* While a caller leads, the cache has nothing that could have been served to it.
THEOREM RendersOnlyMisses == Spec => []NoRedundantRender
  <1>1. Inv => NoRedundantRender
    BY DEF Inv, Safe
  <1> QED  BY InvInit, InvStep, <1>1, PTL DEF Spec

\* No insertion relaxes or replaces the requirement of a resident entry.
THEOREM RequirementStays == Spec => RequirementKept
  <1> DEFINE Kept == \A k \in Keys : (cache[k] # NoVal /\ cache'[k] # NoVal) =>
                                        cache'[k].required = cache[k].required
  <1>1. Inv /\ [Next]_vars => [Kept]_vars
    <2> SUFFICES ASSUME Inv, Next PROVE Kept
      OBVIOUS
    <2> USE DEF Inv, Formed, TypeOK, Asked, Safe, InsertionSafe, Key, Grant
    <2>1. ASSUME NEW c \in Callers, Insert(c) PROVE Kept
      BY <2>1 DEF Insert, Requests
    <2>2. ASSUME NEW k \in Keys, Expire(k) PROVE Kept
      BY <2>2 DEF Expire
    <2>3. CASE UNCHANGED cache
      BY <2>3
    <2>4. (\E c \in Callers : Insert(c)) \/ (\E k \in Keys : Expire(k)) \/ UNCHANGED cache
      BY DEF Next, Lookup, EndFlight, Arrive, FirstGet, SecondGet, Elect, Bypass, Lead, Wake,
             StopWaiting, RunEnds, CheckResident, RemoveFlight, Signal, Leave
    <2> QED  BY <2>1, <2>2, <2>3, <2>4
  <1> QED  BY InvInit, InvStep, <1>1, PTL DEF Spec, RequirementKept

-----------------------------------------------------------------------------
(* Followers.                                                              *)

LEMMA FollowersInit == Init => NobodyForgotten
  BY DEF Init, NobodyForgotten

\* A follower joins a flight in the map, which somebody leads; a leader only leaves through
\* RemoveFlight and Signal.
LEMMA FollowersStep == Inv /\ NobodyForgotten /\ [Next]_vars => NobodyForgotten'
  <1> SUFFICES ASSUME Inv, NobodyForgotten, [Next]_vars
               PROVE  NobodyForgotten'
    OBVIOUS
  <1> Formed /\ Formed' /\ FlightsLed
    BY FormedStep DEF Inv, Safe
  <1> USE CallersAssumption DEF Formed, TypeOK, Asked, FlightsLed, Leading, NobodyForgotten, Key, GoTo
  <1>1. ASSUME NEW c \in Callers, Arrive(c) PROVE NobodyForgotten'
    BY <1>1 DEF Arrive
  <1>2. ASSUME NEW c \in Callers, FirstGet(c) PROVE NobodyForgotten'
    BY <1>2 DEF FirstGet, Serve
  <1>3. ASSUME NEW c \in Callers, SecondGet(c) PROVE NobodyForgotten'
    BY <1>3 DEF SecondGet, Serve
  <1>4. ASSUME NEW c \in Callers, Elect(c) PROVE NobodyForgotten'
    BY <1>4 DEF Elect
  <1>5. ASSUME NEW c \in Callers, Bypass(c) PROVE NobodyForgotten'
    BY <1>5 DEF Bypass
  <1>6. ASSUME NEW c \in Callers, Lead(c) PROVE NobodyForgotten'
    BY <1>6 DEF Lead
  <1>7. ASSUME NEW c \in Callers, Wake(c) PROVE NobodyForgotten'
    BY <1>7 DEF Wake
  <1>8. ASSUME NEW c \in Callers, StopWaiting(c) PROVE NobodyForgotten'
    BY <1>8 DEF StopWaiting
  <1>9. ASSUME NEW c \in Callers, RunEnds(c) PROVE NobodyForgotten'
    BY <1>9 DEF RunEnds
  <1>10. ASSUME NEW c \in Callers, CheckResident(c) PROVE NobodyForgotten'
    BY <1>10 DEF CheckResident
  <1>11. ASSUME NEW c \in Callers, Insert(c) PROVE NobodyForgotten'
    BY <1>11 DEF Insert
  <1>12. ASSUME NEW c \in Callers, RemoveFlight(c) PROVE NobodyForgotten'
    BY <1>12 DEF RemoveFlight
  <1>13. ASSUME NEW c \in Callers, Signal(c) PROVE NobodyForgotten'
    <2>1. /\ \A f \in Callers : woken'[f] = (woken[f] \/ waits_on[f] = c)
          /\ phase' = [phase EXCEPT ![c] = "done"] /\ UNCHANGED <<request, waits_on>>
      BY <1>13 DEF Signal
    <2> SUFFICES ASSUME NEW f \in Callers, phase'[f] = "wait", ~woken'[f]
                 PROVE  \E l \in Callers : waits_on'[f] = l /\ (Leading(l)' \/ phase'[l] = "signal")
      OBVIOUS
    <2>2. f # c /\ phase[f] = "wait" /\ ~woken[f] /\ waits_on[f] # c
      BY <2>1
    <2>3. PICK l \in Callers : waits_on[f] = l /\ (Leading(l) \/ phase[l] = "signal")
      BY <2>2
    <2> QED  BY <2>1, <2>2, <2>3
  <1>14. ASSUME NEW c \in Callers, Leave(c) PROVE NobodyForgotten'
    BY <1>14 DEF Leave
  <1>15. ASSUME NEW k \in Keys, Expire(k) PROVE NobodyForgotten'
    BY <1>15 DEF Expire
  <1>16. CASE UNCHANGED vars
    BY <1>16 DEF vars
  <1> QED
    BY <1>1, <1>2, <1>3, <1>4, <1>5, <1>6, <1>7, <1>8, <1>9, <1>10, <1>11, <1>12, <1>13, <1>14,
       <1>15, <1>16 DEF Next, Lookup, EndFlight

\* No follower is left waiting for a flight that nobody will end.
THEOREM EveryFollowerLed == Spec => []NobodyForgotten
  BY InvInit, InvStep, FollowersInit, FollowersStep, PTL DEF Spec

-----------------------------------------------------------------------------
(* Authorization of hits.                                                  *)

Covered == EntriesFaithful /\ HitsCovered

LEMMA CoveredInit == Init => Covered
  BY AnswersAssumption DEF Init, Covered, EntriesFaithful, HitsCovered, Answers

\* An entry is served on the strength of its requirement, which is the grant it was made with.
LEMMA CoveredStep == Formed /\ Covered /\ [Next]_vars => Covered'
  <1> SUFFICES ASSUME Formed, Covered, [Next]_vars
               PROVE  Covered'
    OBVIOUS
  <1> USE AnswersAssumption DEF Formed, TypeOK, Asked, Answers, Covered, EntriesFaithful, HitsCovered,
          Hit, Key, Grant, GoTo, is_authorized_for
  <1>1. ASSUME NEW c \in Callers, Arrive(c) PROVE Covered'
    BY <1>1 DEF Arrive
  <1>2. ASSUME NEW c \in Callers, FirstGet(c) PROVE Covered'
    <2>1. request[c].key \in Keys /\ UNCHANGED <<request, cache>>
      BY <1>2 DEF FirstGet, Requests
    <2>2. CASE Hit(c)
      <3>1. /\ answer' = [answer EXCEPT ![c] = "hit"]
            /\ served' = [served EXCEPT ![c] = cache[Key(c)].required]
            /\ phase' = [phase EXCEPT ![c] = "done"]
        BY <1>2, <2>1, <2>2 DEF FirstGet, Serve
      <3>2. EntriesFaithful'
        BY <2>1, <3>1
      <3>3. IF cache[Key(c)].required = NoVal THEN Grant(c) = NoVal
            ELSE Grant(c) # NoVal /\ allows(Grant(c), cache[Key(c)].required)
        BY <2>2
      <3>4. HitsCovered'
        BY <2>1, <3>1, <3>3
      <3> QED  BY <3>2, <3>4
    <2>3. CASE ~Hit(c)
      BY <1>2, <2>3 DEF FirstGet
    <2> QED  BY <2>2, <2>3
  <1>3. ASSUME NEW c \in Callers, SecondGet(c) PROVE Covered'
    <2>1. request[c].key \in Keys /\ UNCHANGED <<request, cache>>
      BY <1>3 DEF SecondGet, Requests
    <2>2. CASE Hit(c)
      <3>1. /\ answer' = [answer EXCEPT ![c] = "hit"]
            /\ served' = [served EXCEPT ![c] = cache[Key(c)].required]
            /\ phase' = [phase EXCEPT ![c] = "done"]
        BY <1>3, <2>1, <2>2 DEF SecondGet, Serve
      <3>2. EntriesFaithful'
        BY <2>1, <3>1
      <3>3. IF cache[Key(c)].required = NoVal THEN Grant(c) = NoVal
            ELSE Grant(c) # NoVal /\ allows(Grant(c), cache[Key(c)].required)
        BY <2>2
      <3>4. HitsCovered'
        BY <2>1, <3>1, <3>3
      <3> QED  BY <3>2, <3>4
    <2>3. CASE ~Hit(c)
      BY <1>3, <2>3 DEF SecondGet
    <2> QED  BY <2>2, <2>3
  <1>4. ASSUME NEW c \in Callers, Elect(c) PROVE Covered'
    BY <1>4 DEF Elect
  <1>5. ASSUME NEW c \in Callers, Bypass(c) PROVE Covered'
    BY <1>5 DEF Bypass
  <1>6. ASSUME NEW c \in Callers, Lead(c) PROVE Covered'
    BY <1>6 DEF Lead
  <1>7. ASSUME NEW c \in Callers, Wake(c) PROVE Covered'
    BY <1>7 DEF Wake
  <1>8. ASSUME NEW c \in Callers, StopWaiting(c) PROVE Covered'
    BY <1>8 DEF StopWaiting
  <1>9. ASSUME NEW c \in Callers, RunEnds(c) PROVE Covered'
    BY <1>9 DEF RunEnds
  <1>10. ASSUME NEW c \in Callers, CheckResident(c) PROVE Covered'
    BY <1>10 DEF CheckResident
  <1>11. ASSUME NEW c \in Callers, Insert(c) PROVE Covered'
    BY <1>11 DEF Insert
  <1>12. ASSUME NEW c \in Callers, RemoveFlight(c) PROVE Covered'
    BY <1>12 DEF RemoveFlight
  <1>13. ASSUME NEW c \in Callers, Signal(c) PROVE Covered'
    BY <1>13 DEF Signal
  <1>14. ASSUME NEW c \in Callers, Leave(c) PROVE Covered'
    BY <1>14 DEF Leave
  <1>15. ASSUME NEW k \in Keys, Expire(k) PROVE Covered'
    BY <1>15 DEF Expire
  <1>16. CASE UNCHANGED vars
    BY <1>16 DEF vars
  <1> QED
    BY <1>1, <1>2, <1>3, <1>4, <1>5, <1>6, <1>7, <1>8, <1>9, <1>10, <1>11, <1>12, <1>13, <1>14,
       <1>15, <1>16 DEF Next, Lookup, EndFlight

\* Every output served from the cache was made with a grant that its reader's covers.
THEOREM HitsAuthorized == Spec => []HitsCovered
  <1>1. Covered => HitsCovered
    BY DEF Covered
  <1> QED  BY FormedInit, FormedStep, CoveredInit, CoveredStep, <1>1, PTL DEF Spec

-----------------------------------------------------------------------------
(* RenderFlight implements FlightContract.                                 *)

\* Only a follower waits for somebody or has been woken.
Waiting ==
    \A c \in Callers : /\ phase[c] = "wait" => waits_on[c] \in Callers
                       /\ phase[c] # "wait" => waits_on[c] = NoVal /\ ~woken[c]

LEMMA WaitingInit == Init => Waiting
  BY DEF Init, Waiting

LEMMA WaitingStep == Formed /\ Waiting /\ [Next]_vars => Waiting'
  <1> SUFFICES ASSUME Formed, Waiting, [Next]_vars
               PROVE  Waiting'
    OBVIOUS
  <1> USE CallersAssumption DEF Formed, TypeOK, Asked, Waiting, Key, GoTo
  <1>1. ASSUME NEW c \in Callers, Elect(c) PROVE Waiting'
    <2>1. phase[c] = "elect" /\ request[c].key \in Keys
      BY <1>1 DEF Elect, Requests
    <2> QED  BY <1>1, <2>1 DEF Elect
  <1>2. ASSUME NEW c \in Callers, Wake(c) \/ StopWaiting(c) PROVE Waiting'
    BY <1>2 DEF Wake, StopWaiting
  <1>3. ASSUME NEW c \in Callers, Signal(c) PROVE Waiting'
    <2>1. /\ \A f \in Callers : woken'[f] = (woken[f] \/ waits_on[f] = c)
          /\ phase' = [phase EXCEPT ![c] = "done"] /\ phase[c] = "signal" /\ UNCHANGED waits_on
      BY <1>3 DEF Signal
    <2> QED  BY <2>1
  <1>4. ASSUME NEW c \in Callers,
               Arrive(c) \/ FirstGet(c) \/ SecondGet(c) \/ Bypass(c) \/ Lead(c)
        PROVE  Waiting'
    BY <1>4 DEF Arrive, FirstGet, SecondGet, Bypass, Lead, Serve
  <1>5. ASSUME NEW c \in Callers,
               RunEnds(c) \/ CheckResident(c) \/ Insert(c) \/ RemoveFlight(c) \/ Leave(c)
        PROVE  Waiting'
    BY <1>5 DEF RunEnds, CheckResident, Insert, RemoveFlight, Leave
  <1>6. ASSUME NEW k \in Keys, Expire(k) PROVE Waiting'
    BY <1>6 DEF Expire
  <1>7. CASE UNCHANGED vars
    BY <1>7 DEF vars
  <1> QED
    BY <1>1, <1>2, <1>3, <1>4, <1>5, <1>6, <1>7 DEF Next, Lookup, EndFlight

\* A step from one phase to another leaves the other callers' phases alone ...
LEMMA OthersSeen ==
  ASSUME NEW c \in Callers, NEW p, TypeOK, GoTo(c, p)
  PROVE  \A d \in Callers : Seen(d)' = IF d = c THEN Seen(c)' ELSE Seen(d)
  BY DEF TypeOK, GoTo, Seen

\* ... and, if it neither waits nor signals, who is woken.
LEMMA WokenSame ==
  ASSUME NEW c \in Callers, NEW p, TypeOK, GoTo(c, p), UNCHANGED <<waits_on, woken>>,
         phase[c] \notin {"wait", "signal"}, p \notin {"wait", "signal"}
  PROVE  \A d \in Callers : SeenWoken(d)' = SeenWoken(d)
  BY DEF TypeOK, GoTo, SeenWoken

LEMMA HitSeen ==
  ASSUME NEW c \in Callers, TypeOK, Key(c) \in Keys
  PROVE  Contract!Hit(c) <=> Hit(c)
  <1>1. CASE cache[Key(c)] = NoVal
    BY <1>1 DEF Contract!Hit, Contract!Key, Hit, Key, SeenEntry
  <1>2. CASE cache[Key(c)] # NoVal
    <2>1. cache[Key(c)] \in Entries /\ SeenEntry(Key(c)) = [required |-> cache[Key(c)].required]
      BY <1>2 DEF TypeOK, SeenEntry
    <2>2. SeenEntry(Key(c)) # NoVal /\ SeenEntry(Key(c)).required = cache[Key(c)].required
      BY <2>1, EntryAssumption DEF Entries
    <2> QED
      BY <1>2, <2>2 DEF Contract!Hit, Contract!Key, Contract!is_authorized_for, Contract!allows, Hit,
                        Key, Grant, is_authorized_for, allows
  <1> QED  BY <1>1, <1>2

LEMMA ContractInit == Init => Contract!Init
  BY DEF Init, Contract!Init, Seen, SeenEntry, SeenWoken

\* Every step is one of the contract's, or one that its callers do not see.
LEMMA ContractStep == Inv /\ Waiting /\ [Next]_vars => [Contract!Next]_(Contract!flightVars)
  <1> SUFFICES ASSUME Inv, Waiting, [Next]_vars
               PROVE  Contract!Next \/ UNCHANGED Contract!flightVars
    OBVIOUS
  <1> TypeOK /\ Asked /\ Safe
    BY DEF Inv, Formed
  <1> DEFINE OnlySeen(c) == \A d \in Callers : Seen(d)' = IF d = c THEN Seen(c)' ELSE Seen(d)
             WokenKept == \A d \in Callers : SeenWoken(d)' = SeenWoken(d)
             EntriesKept == \A k \in Keys : SeenEntry(k)' = SeenEntry(k)
  <1>1. ASSUME NEW c \in Callers, Arrive(c) PROVE Contract!Next
    <2>1. PICK r \in Requests : /\ request' = [request EXCEPT ![c] = r]
                                /\ GoTo(c, IF r.cacheable THEN "get" ELSE "disabled")
      BY <1>1 DEF Arrive
    <2>2. phase[c] = "idle" /\ UNCHANGED <<answer, cache, flight, waits_on, woken>>
      BY <1>1 DEF Arrive
    <2>3. Seen(c) = "idle" /\ Seen(c)' = IF r.cacheable THEN "lookup" ELSE "run"
      BY <2>1, <2>2 DEF Seen, GoTo, TypeOK
    <2>4. OnlySeen(c) /\ WokenKept /\ EntriesKept
      BY <2>1, <2>2, OthersSeen, WokenSame DEF SeenEntry
    <2>5. Contract!Arrive(c, r)
      BY <2>1, <2>2, <2>3, <2>4 DEF Contract!Arrive, Contract!GoTo
    <2> QED  BY <2>5 DEF Contract!Next, Contract!Requests, Requests
  <1>2. ASSUME NEW c \in Callers, FirstGet(c) PROVE Contract!Next \/ UNCHANGED Contract!flightVars
    <2>1. phase[c] = "get" /\ Key(c) \in Keys
      BY <1>2 DEF FirstGet, Asked, Requests, Key
    <2>2. UNCHANGED <<request, cache, flight, waits_on, woken>> /\ EntriesKept /\ Seen(c) = "lookup"
      BY <1>2, <2>1 DEF FirstGet, SeenEntry, Seen
    <2>3. CASE Hit(c)
      <3>1. GoTo(c, "done") /\ answer' = [answer EXCEPT ![c] = "hit"]
        BY <1>2, <2>3 DEF FirstGet, Serve
      <3>2. OnlySeen(c) /\ WokenKept /\ Seen(c)' = "done"
        BY <2>1, <2>2, <3>1, OthersSeen, WokenSame DEF Seen, GoTo, TypeOK
      <3>3. Contract!Serve(c)
        BY <2>1, <2>2, <2>3, <3>1, <3>2, HitSeen DEF Contract!Serve, Contract!GoTo
      <3> QED  BY <3>3 DEF Contract!Next
    <2>4. CASE ~Hit(c)
      <3>1. GoTo(c, "lock") /\ UNCHANGED answer
        BY <1>2, <2>4 DEF FirstGet
      <3>2. OnlySeen(c) /\ WokenKept /\ Seen(c)' = "lookup"
        BY <2>1, <2>2, <3>1, OthersSeen, WokenSame DEF Seen, GoTo, TypeOK
      <3> QED  BY <2>2, <3>1, <3>2 DEF Contract!flightVars
    <2> QED  BY <2>3, <2>4
  <1>3. ASSUME NEW c \in Callers, SecondGet(c) PROVE Contract!Next \/ UNCHANGED Contract!flightVars
    <2>1. phase[c] = "lock" /\ Key(c) \in Keys
      BY <1>3 DEF SecondGet, Asked, Requests, Key
    <2>2. UNCHANGED <<request, cache, flight, waits_on, woken>> /\ EntriesKept /\ Seen(c) = "lookup"
      BY <1>3, <2>1 DEF SecondGet, SeenEntry, Seen
    <2>3. CASE Hit(c)
      <3>1. GoTo(c, "done") /\ answer' = [answer EXCEPT ![c] = "hit"]
        BY <1>3, <2>3 DEF SecondGet, Serve
      <3>2. OnlySeen(c) /\ WokenKept /\ Seen(c)' = "done"
        BY <2>1, <2>2, <3>1, OthersSeen, WokenSame DEF Seen, GoTo, TypeOK
      <3>3. Contract!Serve(c)
        BY <2>1, <2>2, <2>3, <3>1, <3>2, HitSeen DEF Contract!Serve, Contract!GoTo
      <3> QED  BY <3>3 DEF Contract!Next
    <2>4. CASE ~Hit(c)
      <3>1. GoTo(c, "elect") /\ UNCHANGED answer
        BY <1>3, <2>4 DEF SecondGet
      <3>2. OnlySeen(c) /\ WokenKept /\ Seen(c)' = "lookup"
        BY <2>1, <2>2, <3>1, OthersSeen, WokenSame DEF Seen, GoTo, TypeOK
      <3> QED  BY <2>2, <3>1, <3>2 DEF Contract!flightVars
    <2> QED  BY <2>3, <2>4
  <1>4. ASSUME NEW c \in Callers, Elect(c) PROVE Contract!Next
    <2>1. phase[c] = "elect" /\ Key(c) \in Keys /\ ~woken[c]
      BY <1>4 DEF Elect, Asked, Requests, Key, Waiting
    <2>2. UNCHANGED <<request, answer, cache>> /\ EntriesKept /\ Seen(c) = "lookup"
      BY <1>4, <2>1 DEF Elect, SeenEntry, Seen
    <2>3. CASE flight[Key(c)] # NoVal
      <3>1. /\ waits_on' = [waits_on EXCEPT ![c] = flight[Key(c)]]
            /\ woken' = [woken EXCEPT ![c] = FALSE]
            /\ GoTo(c, "wait") /\ UNCHANGED flight
        BY <1>4, <2>3 DEF Elect
      <3>2. OnlySeen(c) /\ Seen(c)' = "wait"
        BY <3>1, OthersSeen DEF Seen, GoTo, TypeOK
      <3>3. PICK l \in Callers : flight[Key(c)] = l /\ Leading(l)
        BY <2>1, <2>3 DEF TypeOK, Safe, FlightsLed
      <3>4. l # c /\ phase[l] # "signal"
        BY <2>1, <3>3 DEF Leading
      <3>5. WokenKept
        BY <2>1, <3>1, <3>3, <3>4 DEF SeenWoken, GoTo, TypeOK, Waiting
      <3>6. Contract!Join(c)
        BY <2>1, <2>2, <2>3, <3>1, <3>2, <3>5 DEF Contract!Join, Contract!GoTo, Contract!Key, Key
      <3> QED  BY <3>6 DEF Contract!Next
    <2>4. CASE flight[Key(c)] = NoVal
      <3>1. /\ flight' = [flight EXCEPT ![Key(c)] = c]
            /\ GoTo(c, "lead") /\ UNCHANGED <<waits_on, woken>>
        BY <1>4, <2>4 DEF Elect
      <3>2. OnlySeen(c) /\ WokenKept /\ Seen(c)' = "run"
        BY <2>1, <3>1, OthersSeen, WokenSame DEF Seen, GoTo, TypeOK
      <3>3. ~Contract!Hit(c)
        BY <2>1, <2>4, HitSeen DEF Safe, ElectionSafe
      <3>4. Contract!Elected(c)
        BY <2>1, <2>2, <2>4, <3>1, <3>2, <3>3 DEF Contract!Elected, Contract!GoTo, Contract!Key, Key
      <3> QED  BY <3>4 DEF Contract!Next
    <2> QED  BY <2>3, <2>4
  <1>5. ASSUME NEW c \in Callers, Bypass(c) PROVE Contract!Next \/ UNCHANGED Contract!flightVars
    <2>1. phase[c] = "disabled" /\ ~request[c].cacheable /\ Seen(c) = "run"
      BY <1>5 DEF Bypass, Asked, Seen
    <2>2. UNCHANGED <<request, cache, flight, waits_on, woken>> /\ EntriesKept
      BY <1>5 DEF Bypass, SeenEntry
    <2>3. CASE GoTo(c, "done") /\ answer' = [answer EXCEPT ![c] = "rejected"]
      <3>1. OnlySeen(c) /\ WokenKept /\ Seen(c)' = "done"
        BY <2>1, <2>2, <2>3, OthersSeen, WokenSame DEF Seen, GoTo, TypeOK
      <3>2. Contract!RunEnds(c, "rejected")
        BY <2>1, <2>2, <2>3, <3>1 DEF Contract!RunEnds, Contract!GoTo
      <3> QED  BY <3>2 DEF Contract!Next
    <2>4. CASE GoTo(c, "run") /\ UNCHANGED answer
      <3>1. OnlySeen(c) /\ WokenKept /\ Seen(c)' = "run"
        BY <2>1, <2>2, <2>4, OthersSeen, WokenSame DEF Seen, GoTo, TypeOK
      <3> QED  BY <2>1, <2>2, <2>4, <3>1 DEF Contract!flightVars
    <2> QED  BY <1>5, <2>3, <2>4 DEF Bypass
  <1>6. ASSUME NEW c \in Callers, Lead(c) PROVE Contract!Next \/ UNCHANGED Contract!flightVars
    <2>1. phase[c] = "lead" /\ request[c].cacheable /\ Seen(c) = "run"
      BY <1>6 DEF Lead, Asked, Seen
    <2>2. UNCHANGED <<request, cache, flight, waits_on, woken>> /\ EntriesKept
      BY <1>6 DEF Lead, SeenEntry
    <2>3. CASE GoTo(c, "remove") /\ answer' = [answer EXCEPT ![c] = "rejected"]
      <3>1. OnlySeen(c) /\ WokenKept /\ Seen(c)' = "release"
        BY <2>1, <2>2, <2>3, OthersSeen, WokenSame DEF Seen, GoTo, TypeOK
      <3>2. Contract!RunEnds(c, "rejected")
        BY <2>1, <2>2, <2>3, <3>1 DEF Contract!RunEnds, Contract!GoTo
      <3> QED  BY <3>2 DEF Contract!Next
    <2>4. CASE GoTo(c, "run") /\ UNCHANGED answer
      <3>1. OnlySeen(c) /\ WokenKept /\ Seen(c)' = "run"
        BY <2>1, <2>2, <2>4, OthersSeen, WokenSame DEF Seen, GoTo, TypeOK
      <3> QED  BY <2>1, <2>2, <2>4, <3>1 DEF Contract!flightVars
    <2> QED  BY <1>6, <2>3, <2>4 DEF Lead
  <1>7. ASSUME NEW c \in Callers, Wake(c) PROVE Contract!Next
    <2>1. phase[c] = "wait" /\ Seen(c) = "wait" /\ SeenWoken(c) /\ GoTo(c, "get")
      BY <1>7 DEF Wake, Seen, SeenWoken
    <2>2. /\ UNCHANGED <<request, answer, cache, flight>> /\ EntriesKept
          /\ waits_on' = [waits_on EXCEPT ![c] = NoVal] /\ woken' = [woken EXCEPT ![c] = FALSE]
      BY <1>7 DEF Wake, SeenEntry
    <2>3. OnlySeen(c) /\ Seen(c)' = "lookup"
      BY <2>1, OthersSeen DEF Seen, GoTo, TypeOK
    <2>4. \A d \in Callers : SeenWoken(d)' = IF d = c THEN FALSE ELSE SeenWoken(d)
      BY <2>1, <2>2 DEF SeenWoken, GoTo, TypeOK
    <2>5. Contract!Wake(c)
      BY <2>1, <2>2, <2>3, <2>4 DEF Contract!Wake, Contract!Forget, Contract!GoTo
    <2> QED  BY <2>5 DEF Contract!Next
  <1>8. ASSUME NEW c \in Callers, StopWaiting(c) PROVE Contract!Next
    <2>1. phase[c] = "wait" /\ Seen(c) = "wait" /\ GoTo(c, "done")
      BY <1>8 DEF StopWaiting, Seen
    <2>2. /\ UNCHANGED <<request, cache, flight>> /\ EntriesKept
          /\ waits_on' = [waits_on EXCEPT ![c] = NoVal] /\ woken' = [woken EXCEPT ![c] = FALSE]
      BY <1>8 DEF StopWaiting, SeenEntry
    <2>3. PICK a \in {"rejected", "cancelled"} : answer' = [answer EXCEPT ![c] = a]
      BY <1>8 DEF StopWaiting
    <2>4. OnlySeen(c) /\ Seen(c)' = "done"
      BY <2>1, OthersSeen DEF Seen, GoTo, TypeOK
    <2>5. \A d \in Callers : SeenWoken(d)' = IF d = c THEN FALSE ELSE SeenWoken(d)
      BY <2>1, <2>2 DEF SeenWoken, GoTo, TypeOK
    <2>6. Contract!StopWaiting(c, a)
      BY <2>1, <2>2, <2>3, <2>4, <2>5 DEF Contract!StopWaiting, Contract!Forget, Contract!GoTo
    <2> QED  BY <2>6 DEF Contract!Next
  <1>9. ASSUME NEW c \in Callers, RunEnds(c) PROVE Contract!Next
    <2>1. PICK a \in {"completed", "failed", "rejected", "cancelled"} :
             /\ answer' = [answer EXCEPT ![c] = a]
             /\ GoTo(c, CASE ~request[c].cacheable -> "done"
                          [] request[c].cacheable /\ a = "completed" -> "check"
                          [] OTHER -> "remove")
      BY <1>9 DEF RunEnds
    <2>2. /\ phase[c] = "run" /\ Seen(c) = "run" /\ request[c] \in Requests
          /\ UNCHANGED <<request, cache, flight, waits_on, woken>> /\ EntriesKept
      BY <1>9 DEF RunEnds, Seen, SeenEntry, Asked
    <2>3. CASE ~request[c].cacheable
      <3>1. GoTo(c, "done")
        BY <2>1, <2>3
      <3>2. OnlySeen(c) /\ WokenKept /\ Seen(c)' = "done"
        BY <2>2, <3>1, OthersSeen, WokenSame DEF Seen, GoTo, TypeOK
      <3> QED  BY <2>1, <2>2, <2>3, <3>2 DEF Contract!Next, Contract!RunEnds, Contract!GoTo
    <2>4. CASE request[c].cacheable /\ a = "completed"
      <3>1. GoTo(c, "check")
        BY <2>1, <2>4
      <3>2. OnlySeen(c) /\ WokenKept /\ Seen(c)' = "insert"
        BY <2>2, <3>1, OthersSeen, WokenSame DEF Seen, GoTo, TypeOK
      <3> QED  BY <2>1, <2>2, <2>4, <3>2 DEF Contract!Next, Contract!RunEnds, Contract!GoTo
    <2>5. CASE request[c].cacheable /\ a # "completed"
      <3>1. GoTo(c, "remove")
        BY <2>1, <2>5
      <3>2. OnlySeen(c) /\ WokenKept /\ Seen(c)' = "release"
        BY <2>2, <3>1, OthersSeen, WokenSame DEF Seen, GoTo, TypeOK
      <3> QED  BY <2>1, <2>2, <2>5, <3>2 DEF Contract!Next, Contract!RunEnds, Contract!GoTo
    <2> QED  BY <2>2, <2>3, <2>4, <2>5
  <1>10. ASSUME NEW c \in Callers, CheckResident(c)
        PROVE  Contract!Next \/ UNCHANGED Contract!flightVars
    <2>1. phase[c] = "check" /\ Seen(c) = "insert" /\ Key(c) \in Keys
      BY <1>10 DEF CheckResident, Seen, Asked, Requests, Key
    <2>2. UNCHANGED <<request, answer, cache, flight, waits_on, woken>> /\ EntriesKept
      BY <1>10 DEF CheckResident, SeenEntry
    <2>3. CASE cache[Key(c)] # NoVal /\ cache[Key(c)].required # Grant(c)
      <3>1. GoTo(c, "remove")
        BY <1>10, <2>3 DEF CheckResident
      <3>2. OnlySeen(c) /\ WokenKept /\ Seen(c)' = "release"
        BY <2>1, <2>2, <3>1, OthersSeen, WokenSame DEF Seen, GoTo, TypeOK
      <3>3. SeenEntry(Key(c)) = [required |-> cache[Key(c)].required] /\ cache[Key(c)] \in Entries
        BY <2>1, <2>3 DEF SeenEntry, TypeOK
      <3>4. SeenEntry(Key(c)) # NoVal /\ SeenEntry(Key(c)).required # Grant(c)
        BY <2>3, <3>3, EntryAssumption DEF Entries
      <3>5. Contract!Insert(c)
        BY <2>1, <2>2, <3>2, <3>4 DEF Contract!Insert, Contract!GoTo, Contract!Key, Key, Grant
      <3> QED  BY <3>5 DEF Contract!Next
    <2>4. CASE ~(cache[Key(c)] # NoVal /\ cache[Key(c)].required # Grant(c))
      <3>1. GoTo(c, "insert")
        BY <1>10, <2>4 DEF CheckResident
      <3>2. OnlySeen(c) /\ WokenKept /\ Seen(c)' = "insert"
        BY <2>1, <2>2, <3>1, OthersSeen, WokenSame DEF Seen, GoTo, TypeOK
      <3> QED  BY <2>1, <2>2, <3>2 DEF Contract!flightVars
    <2> QED  BY <2>3, <2>4
  <1>11. ASSUME NEW c \in Callers, Insert(c) PROVE Contract!Next
    <2>1. phase[c] = "insert" /\ Seen(c) = "insert" /\ Key(c) \in Keys /\ GoTo(c, "remove")
      BY <1>11 DEF Insert, Seen, Asked, Requests, Key
    <2>2. /\ UNCHANGED <<request, answer, flight, waits_on, woken>>
          /\ cache' = [cache EXCEPT ![Key(c)] = [required |-> Grant(c), made |-> Grant(c)]]
      BY <1>11 DEF Insert
    <2>3. OnlySeen(c) /\ WokenKept /\ Seen(c)' = "release"
      BY <2>1, <2>2, OthersSeen, WokenSame DEF Seen, GoTo, TypeOK
    <2>4. \A k \in Keys : SeenEntry(k)' = IF k = Key(c) THEN [required |-> Grant(c)] ELSE SeenEntry(k)
      <3>1. [required |-> Grant(c), made |-> Grant(c)] # NoVal
        BY <2>1, EntryAssumption DEF Asked, Requests, Grant, Entries
      <3> QED  BY <2>1, <2>2, <3>1 DEF SeenEntry, TypeOK
    <2>5. ~(SeenEntry(Key(c)) # NoVal /\ SeenEntry(Key(c)).required # Grant(c))
      BY <2>1 DEF SeenEntry, Safe, InsertionSafe
    <2>6. Contract!Insert(c)
      BY <2>1, <2>2, <2>3, <2>4, <2>5 DEF Contract!Insert, Contract!GoTo, Contract!Key, Key, Grant
    <2> QED  BY <2>6 DEF Contract!Next
  <1>12. ASSUME NEW c \in Callers, RemoveFlight(c) PROVE Contract!Next
    <2>1. phase[c] = "remove" /\ Seen(c) = "release" /\ Key(c) \in Keys /\ GoTo(c, "signal")
      BY <1>12 DEF RemoveFlight, Seen, Asked, Requests, Key
    <2>2. /\ UNCHANGED <<request, answer, cache, waits_on, woken>> /\ EntriesKept
          /\ flight' = [flight EXCEPT ![Key(c)] = NoVal]
      BY <1>12 DEF RemoveFlight, SeenEntry
    <2>3. OnlySeen(c) /\ Seen(c)' = "done"
      BY <2>1, OthersSeen DEF Seen, GoTo, TypeOK
    <2>4. \A d \in Callers : SeenWoken(d)' = (SeenWoken(d) \/ waits_on[d] = c)
      BY <2>1, <2>2, CallersAssumption DEF SeenWoken, GoTo, TypeOK, Waiting
    <2>5. Contract!Release(c)
      BY <2>1, <2>2, <2>3, <2>4 DEF Contract!Release, Contract!GoTo, Contract!Key, Key
    <2> QED  BY <2>5 DEF Contract!Next
  <1>13. ASSUME NEW c \in Callers, Signal(c) PROVE UNCHANGED Contract!flightVars
    <2>1. phase[c] = "signal" /\ Seen(c) = "done" /\ GoTo(c, "done")
      BY <1>13 DEF Signal, Seen
    <2>2. /\ UNCHANGED <<request, answer, cache, flight, waits_on>> /\ EntriesKept
          /\ \A f \in Callers : woken'[f] = (woken[f] \/ waits_on[f] = c)
      BY <1>13 DEF Signal, SeenEntry
    <2>3. OnlySeen(c) /\ Seen(c)' = "done"
      BY <2>1, OthersSeen DEF Seen, GoTo, TypeOK
    <2>4. WokenKept
      <3> SUFFICES ASSUME NEW d \in Callers PROVE SeenWoken(d)' = SeenWoken(d)
        OBVIOUS
      <3>1. CASE phase[d] # "wait"
        BY <2>1, <2>2, <3>1, CallersAssumption DEF SeenWoken, GoTo, TypeOK, Waiting
      <3>2. CASE phase[d] = "wait" /\ waits_on[d] = c
        BY <2>1, <2>2, <3>2 DEF SeenWoken
      <3>3. CASE phase[d] = "wait" /\ waits_on[d] # c
        <4>1. phase'[d] = "wait" /\ woken'[d] = woken[d] /\ waits_on[d] \in Callers
          BY <2>1, <2>2, <3>3 DEF GoTo, TypeOK, Waiting
        <4>2. phase'[waits_on[d]] = phase[waits_on[d]]
          BY <2>1, <3>3, <4>1 DEF GoTo, TypeOK
        <4> QED  BY <2>2, <3>3, <4>1, <4>2 DEF SeenWoken
      <3> QED  BY <3>1, <3>2, <3>3
    <2> QED  BY <2>1, <2>2, <2>3, <2>4 DEF Contract!flightVars
  <1>14. ASSUME NEW c \in Callers, Leave(c) PROVE Contract!Next
    <2>1. phase[c] = "done" /\ Seen(c) = "done" /\ GoTo(c, "idle")
      BY <1>14 DEF Leave, Seen
    <2>2. /\ UNCHANGED <<cache, flight, waits_on, woken>> /\ EntriesKept
          /\ request' = [request EXCEPT ![c] = NoVal] /\ answer' = [answer EXCEPT ![c] = NoVal]
      BY <1>14 DEF Leave, SeenEntry
    <2>3. OnlySeen(c) /\ WokenKept /\ Seen(c)' = "idle"
      BY <2>1, <2>2, OthersSeen, WokenSame DEF Seen, GoTo, TypeOK
    <2>4. Contract!Leave(c)
      BY <2>1, <2>2, <2>3 DEF Contract!Leave, Contract!GoTo
    <2> QED  BY <2>4 DEF Contract!Next
  <1>15. ASSUME NEW k \in Keys, Expire(k) PROVE Contract!Next
    <2>1. cache[k] # NoVal /\ cache' = [cache EXCEPT ![k] = NoVal] /\ cache[k] \in Entries
      BY <1>15 DEF Expire, TypeOK
    <2>2. UNCHANGED <<phase, request, answer, flight, waits_on, woken>>
      BY <1>15 DEF Expire
    <2>3. \A d \in Callers : Seen(d)' = Seen(d) /\ SeenWoken(d)' = SeenWoken(d)
      BY <2>2 DEF Seen, SeenWoken
    <2>4. /\ SeenEntry(k) # NoVal
          /\ \A j \in Keys : SeenEntry(j)' = IF j = k THEN NoVal ELSE SeenEntry(j)
      BY <2>1, EntryAssumption DEF SeenEntry, TypeOK, Entries
    <2>5. Contract!Expire(k)
      BY <2>2, <2>3, <2>4 DEF Contract!Expire
    <2> QED  BY <2>5 DEF Contract!Next
  <1>16. CASE UNCHANGED vars
    <2>1. UNCHANGED <<phase, request, answer, cache, flight, waits_on, woken>>
      BY <1>16 DEF vars
    <2>2. \A d \in Callers : Seen(d)' = Seen(d) /\ SeenWoken(d)' = SeenWoken(d)
      BY <2>1 DEF Seen, SeenWoken
    <2> QED  BY <2>1, <2>2 DEF Contract!flightVars, SeenEntry
  <1> QED
    BY <1>1, <1>2, <1>3, <1>4, <1>5, <1>6, <1>7, <1>8, <1>9, <1>10, <1>11, <1>12,
       <1>13, <1>14, <1>15, <1>16 DEF Next, Lookup, EndFlight

\* To its callers the output cache is the atomic one of FlightContract, for any number of
\* callers, keys and grants.
THEOREM FlightRefines == Spec => KeepsFlightContract
  BY InvInit, InvStep, WaitingInit, WaitingStep, ContractInit, ContractStep, PTL
     DEF Spec, Inv, KeepsFlightContract, Contract!Spec

\* One flight to a key, led by one caller that has to render, and nobody waiting for a leader
\* that is gone, for any number of callers and keys.
THEOREM FlightsCorrect == Spec => []FlightsSound
  BY OneFlightPerKey, RendersOnlyMisses, EveryFollowerLed, PTL DEF FlightsSound
=============================================================================
