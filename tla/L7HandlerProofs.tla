--------------------------- MODULE L7HandlerProofs ---------------------------
(***************************************************************************)
(* Theorems about L7Handler for any set of requests, pages, backends and   *)
(* statuses and any breaker threshold.                                     *)
(***************************************************************************)
EXTENDS L7Handler, BackendPoolProofs, FiniteSetTheorems, TLAPS

-----------------------------------------------------------------------------
(* Type correctness. *)

(* What Respond writes is a response if its status is one. *)
LEMMA RespondType ==
    ASSUME reply \in [Requests -> Responses], NEW r,
           NEW s \in 200..599, NEW body \in Bodies, Respond(r, s, body)
    PROVE  reply' \in [Requests -> Responses]
<1>1. [status |-> s, body |-> body] \in Responses
  BY DEF Responses
<1>. QED BY <1>1 DEF Respond

(* Every variable of the handler, its cache and its pool keeps its type. *)
THEOREM TypeCorrect == Spec => []TypeOK
<1>1. Init => TypeOK
  <2>. SUFFICES ASSUME Init PROVE TypeOK  OBVIOUS
  <2>1. PoolTypeOK
    BY NewPoolType DEF Init
  <2>. QED BY <2>1, L7Assumption
           DEF Init, TypeOK, PCs, Responses, NewRecorder, noResponse, Bodies
<1>2. TypeOK /\ [Next]_vars => TypeOK'
  <2>. SUFFICES ASSUME TypeOK, [Next]_vars PROVE TypeOK'  OBVIOUS
  <2>. USE DEF TypeOK, PoolTypeOK, Goto, poolVars, reqVars, PCs
  <2>1. ASSUME NEW r \in Requests, Arrive(r) \/ CacheMiss(r) \/ SeeNotOpen(r) PROVE TypeOK'
    BY <2>1 DEF Arrive, CacheMiss, SeeNotOpen
  <2>2. ASSUME NEW r \in Requests, CacheHit(r) PROVE TypeOK'
    <3>. DEFINE item == cache[req[r].page]
    <3>1. item.status \in 200..599 /\ item.body \in Bodies
      <4>1. item \in Responses /\ item # noResponse
        BY <2>2 DEF CacheHit
      <4>. HIDE DEF item
      <4>. QED BY <4>1 DEF Responses
    <3>2. reply' \in [Requests -> Responses]
      BY <2>2, <3>1, RespondType DEF CacheHit
    <3>. QED BY <2>2, <3>2 DEF CacheHit
  <2>3. ASSUME NEW r \in Requests, NEW b \in Backends, SeeHealthy(r, b) PROVE TypeOK'
    BY <2>3 DEF SeeHealthy
  <2>4. ASSUME NEW r \in Requests, NoBackend(r) \/ Blocked(r) PROVE TypeOK'
    <3>1. reply' \in [Requests -> Responses]
      BY <2>4, RespondType DEF NoBackend, Blocked, Bodies
    <3>. QED BY <2>4, <3>1 DEF NoBackend, Blocked
  <2>5. ASSUME NEW r \in Requests, Count(r) \/ Release(r) PROVE TypeOK'
    <3>1. connections' \in [Backends -> 0..(UintMod - 1)]
      BY <2>5, CounterType DEF Count, Release
    <3>. QED BY <2>5, <3>1 DEF Count, Release
  <2>6. ASSUME NEW r \in Requests, Execute(r) PROVE TypeOK'
    <3>1. cb' \in [Backends -> Breakers]
      BY <2>6, BeforeRequestType DEF Execute
    <3>. QED BY <2>6, <3>1 DEF Execute
  <2>7. ASSUME NEW r \in Requests, NEW s \in Statuses, Answered(r, s) PROVE TypeOK'
    <3>1. AfterProxy \in PCs
      BY DEF AfterProxy
    <3>2. [status |-> s, wroteHeader |-> TRUE, body |-> "backend"] \in
             [status : 200..599, wroteHeader : BOOLEAN, body : {"empty", "backend"}]
      BY L7Assumption
    <3>3. recorder' \in [Requests -> [status : 200..599, wroteHeader : BOOLEAN,
                                      body : {"empty", "backend"}]]
      BY <2>7, <3>2 DEF Answered, Record
    <3>4. pc' \in [Requests -> PCs]
      BY <2>7, <3>1 DEF Answered
    <3>5. answer' \in [Requests -> Statuses \cup {unasked, unreachable, aborted}]
      BY <2>7 DEF Answered
    <3>. QED BY <2>7, <3>3, <3>4, <3>5 DEF Answered
  <2>8. ASSUME NEW r \in Requests, Unreachable(r) PROVE TypeOK'
    <3>1. AfterProxy \in PCs
      BY DEF AfterProxy
    <3>2. pc' \in [Requests -> PCs]
      BY <2>8, <3>1 DEF Unreachable
    <3>3. recorder' \in [Requests -> [status : 200..599, wroteHeader : BOOLEAN,
                                      body : {"empty", "backend"}]]
      <4>1. [status |-> 502, wroteHeader |-> TRUE, body |-> "empty"] \in
               [status : 200..599, wroteHeader : BOOLEAN, body : {"empty", "backend"}]
        OBVIOUS
      <4>2. CASE cbEnabled
        BY <2>8, <4>2 DEF Unreachable
      <4>3. CASE ~cbEnabled
        <5>1. recorder' = [recorder EXCEPT ![r] = [status |-> 502, wroteHeader |-> TRUE,
                                                    body |-> "empty"]]
          BY <2>8, <4>3 DEF Unreachable, Record
        <5>. QED BY <4>1, <5>1
      <4>. QED BY <4>2, <4>3
    <3>4. answer' \in [Requests -> Statuses \cup {unasked, unreachable, aborted}]
      BY <2>8 DEF Unreachable
    <3>. QED BY <2>8, <3>2, <3>3, <3>4 DEF Unreachable
  <2>9. ASSUME NEW r \in Requests, Aborted(r) PROVE TypeOK'
    <3>1. cb' \in [Backends -> Breakers]
      BY <2>9, AfterRequestType DEF Aborted
    <3>. QED BY <2>9, <3>1 DEF Aborted
  <2>10. ASSUME NEW r \in Requests, RecordOutcome(r) PROVE TypeOK'
    <3>. DEFINE ok == ~Failure(r)
    <3>1. ok \in BOOLEAN /\ cb' = [cb EXCEPT ![target[r]] = AfterRequest(@, r, ok)]
      BY <2>10 DEF RecordOutcome
    <3>. HIDE DEF ok
    <3>2. cb' \in [Backends -> Breakers]
      BY <3>1, AfterRequestType
    <3>. QED BY <2>10, <3>2 DEF RecordOutcome
  <2>11. ASSUME NEW r \in Requests, FinishFailure(r) PROVE TypeOK'
    <3>1. reply' \in [Requests -> Responses]
      BY <2>11, RespondType DEF FinishFailure, Bodies
    <3>. QED BY <2>11, <3>1 DEF FinishFailure
  <2>12. ASSUME NEW r \in Requests, Finish(r) PROVE TypeOK'
    BY <2>12 DEF Finish
  <2>13. ASSUME NEW r \in Requests, Store(r) PROVE TypeOK'
    <3>1. [status |-> recorder[r].status, body |-> recorder[r].body] \in Responses
      BY DEF Responses, Bodies
    <3>. QED BY <2>13, <3>1 DEF Store
  <2>14. ASSUME NEW r \in Requests, WriteReply(r) PROVE TypeOK'
    <3>1. /\ (IF recorder[r].wroteHeader THEN 200 ELSE recorder[r].status) \in 200..599
          /\ recorder[r].body \in Bodies
      BY DEF Bodies
    <3>2. reply' \in [Requests -> Responses]
      BY <2>14, <3>1, RespondType DEF WriteReply
    <3>. QED BY <2>14, <3>2 DEF WriteReply
  <2>15. ASSUME NEW p \in Pages, Expire(p) PROVE TypeOK'
    BY <2>15 DEF Expire, Responses
  <2>16. ASSUME NEW b \in Backends, HealthChanges(b) PROVE TypeOK'
    BY <2>16 DEF HealthChanges, SetHealth
  <2>17. ASSUME NEW b \in Backends, TimeoutElapses(b) PROVE TypeOK'
    BY <2>17, SetStateType DEF TimeoutElapses, OpenTimeout, CBStates
  <2>18. CASE UNCHANGED vars
    BY <2>18 DEF vars
  <2>. QED BY <2>1, <2>2, <2>3, <2>4, <2>5, <2>6, <2>7, <2>8, <2>9, <2>10, <2>11,
              <2>12, <2>13, <2>14, <2>15, <2>16, <2>17, <2>18
           DEF Next, Handler
<1>. QED BY <1>1, <1>2, PTL DEF Spec

-----------------------------------------------------------------------------
(* The connection counters.  Only Count and Release change a counter, and  *)
(* only they take a handler into or out of the points that are counted.    *)

\* The requests connections[b] is about.
InFlight(b) == {r \in Requests : pc[r] \in Counted /\ target[r] = b}

\* A handler that uses its backend has one.
HasTarget ==
    \A r \in Requests : pc[r] \in {"state", "count"} \cup Counted => target[r] \in Backends

AccountInv == HasTarget /\ ConnectionsExact

\* A step that counts nothing: it moves at most one handler, within the counted
\* points or outside them.
QuietStep ==
    /\ UNCHANGED connections
    /\ \A r \in Requests :
          /\ pc'[r] \in Counted <=> pc[r] \in Counted
          /\ pc[r] \in Counted => target'[r] = target[r]
          /\ pc'[r] \in {"state", "count"} => target'[r] \in Backends

(* Every step but Count and Release is quiet. *)
LEMMA StepKinds ==
    ASSUME TypeOK, HasTarget, [Next]_vars
    PROVE  QuietStep \/ \E r \in Requests : Count(r) \/ Release(r)
<1>. USE DEF poolVars, reqVars
<1>1. ASSUME NEW r \in Requests, Arrive(r) \/ CacheHit(r) \/ CacheMiss(r) PROVE QuietStep
  BY <1>1 DEF Arrive, CacheHit, CacheMiss, Goto, QuietStep, Counted, TypeOK, HasTarget
<1>2. ASSUME NEW r \in Requests, NEW b \in Backends, SeeHealthy(r, b) PROVE QuietStep
  BY <1>2 DEF SeeHealthy, Goto, QuietStep, Counted, TypeOK, HasTarget
<1>3. ASSUME NEW r \in Requests, SeeNotOpen(r) \/ NoBackend(r) PROVE QuietStep
  BY <1>3 DEF SeeNotOpen, NoBackend, Goto, QuietStep, Counted, TypeOK, HasTarget
<1>4. ASSUME NEW r \in Requests, Blocked(r) \/ Execute(r) PROVE QuietStep
  BY <1>4 DEF Blocked, Execute, Goto, QuietStep, Counted, TypeOK, HasTarget
<1>5. ASSUME NEW r \in Requests,
             (\E s \in Statuses : Answered(r, s)) \/ Unreachable(r) \/ Aborted(r)
      PROVE  QuietStep
  <2>1. /\ UNCHANGED <<connections, target>>
        /\ pc[r] = "proxy"
        /\ pc' = [pc EXCEPT ![r] = "after"] \/ pc' = [pc EXCEPT ![r] = "finish"]
           \/ pc' = [pc EXCEPT ![r] = "release"]
    BY <1>5 DEF Answered, Unreachable, Aborted, Goto, AfterProxy
  <2>. QED BY <2>1 DEF QuietStep, Counted, TypeOK, HasTarget
<1>6. ASSUME NEW r \in Requests, RecordOutcome(r) \/ FinishFailure(r) PROVE QuietStep
  BY <1>6 DEF RecordOutcome, FinishFailure, Goto, QuietStep, Counted, TypeOK, HasTarget
<1>7. ASSUME NEW r \in Requests, Finish(r) \/ Store(r) \/ WriteReply(r) PROVE QuietStep
  BY <1>7 DEF Finish, Store, WriteReply, Goto, QuietStep, Counted, TypeOK, HasTarget
<1>8. ASSUME \/ \E p \in Pages : Expire(p)
             \/ \E b \in Backends : HealthChanges(b) \/ TimeoutElapses(b)
             \/ UNCHANGED vars
      PROVE  QuietStep
  BY <1>8 DEF Expire, HealthChanges, TimeoutElapses, OpenTimeout, vars, QuietStep, HasTarget
<1>. QED BY <1>1, <1>2, <1>3, <1>4, <1>5, <1>6, <1>7, <1>8 DEF Next, Handler

(* Sets of requests are finite and smaller than the width of a counter. *)
LEMMA InFlightSets ==
    \A b \in Backends : /\ IsFiniteSet(InFlight(b))
                        /\ Cardinality(InFlight(b)) \in Nat
                        /\ Cardinality(InFlight(b)) <= Cardinality(Requests)
<1>1. \A b \in Backends : InFlight(b) \in SUBSET Requests
  BY DEF InFlight
<1>. QED BY <1>1, FS_Subset, FS_CardinalityType, L7Assumption

(* The same, in the next state. *)
LEMMA InFlightSetsNext ==
    \A b \in Backends : /\ IsFiniteSet(InFlight(b)')
                        /\ Cardinality(InFlight(b)') \in Nat
                        /\ Cardinality(InFlight(b)') <= Cardinality(Requests)
<1>1. \A b \in Backends : InFlight(b)' \in SUBSET Requests
  BY DEF InFlight
<1>. QED BY <1>1, FS_Subset, FS_CardinalityType, L7Assumption

(* The counters stay exact over a step. *)
LEMMA AccountStep ==
    ASSUME TypeOK, AccountInv, [Next]_vars
    PROVE  AccountInv'
<1>. USE DEF AccountInv
<1>1. CASE QuietStep
  <2>1. \A b \in Backends : InFlight(b)' = InFlight(b)
    BY <1>1 DEF QuietStep, InFlight
  <2>2. HasTarget'
    BY <1>1 DEF QuietStep, HasTarget
  <2>. QED BY <1>1, <2>1, <2>2 DEF QuietStep, ConnectionsExact, InFlight
<1>2. ASSUME NEW r \in Requests, Count(r) PROVE AccountInv'
  <2>. DEFINE t == target[r]
  <2>0. t \in Backends /\ pc[r] = "count" /\ UNCHANGED target
    BY <1>2 DEF Count, Goto, HasTarget, reqVars
  <2>1. /\ pc'[r] \in Counted
        /\ \A q \in Requests \ {r} : pc'[q] = pc[q]
    BY <1>2 DEF Count, Goto, TypeOK, Counted
  <2>2. HasTarget'
    BY <2>0, <2>1 DEF HasTarget
  <2>3. CASE Counting
    <3>1. InFlight(t)' = InFlight(t) \cup {r} /\ r \notin InFlight(t)
      BY <2>0, <2>1 DEF InFlight, Counted
    <3>2. \A b \in Backends \ {t} : InFlight(b)' = InFlight(b)
      BY <2>0, <2>1 DEF InFlight, Counted
    <3>3. Cardinality(InFlight(t)') = Cardinality(InFlight(t)) + 1
      BY <2>0, <3>1, InFlightSets, FS_AddElement
    <3>4. connections[t] + 1 < UintMod
      <4>1. connections[t] = Cardinality(InFlight(t))
        BY <2>0, <2>3 DEF ConnectionsExact, InFlight
      <4>2. Cardinality(InFlight(t)') <= Cardinality(Requests)
        BY <2>0, InFlightSetsNext
      <4>3. Cardinality(Requests) \in Nat
        BY FS_CardinalityType, L7Assumption
      <4>. QED BY <2>0, <3>3, <4>1, <4>2, <4>3, InFlightSets, L7Assumption, PoolAssumption
    <3>5. /\ connections'[t] = connections[t] + 1
          /\ \A b \in Backends \ {t} : connections'[b] = connections[b]
      BY <1>2, <2>0, <2>3, <3>4, CounterInc DEF Count, TypeOK, PoolTypeOK
    <3>. QED BY <2>0, <2>2, <2>3, <3>2, <3>3, <3>5 DEF ConnectionsExact, InFlight
  <2>4. CASE ~Counting
    BY <1>2, <2>2, <2>4 DEF Count, ConnectionsExact
  <2>. QED BY <2>3, <2>4
<1>3. ASSUME NEW r \in Requests, Release(r) PROVE AccountInv'
  <2>. DEFINE t == target[r]
  <2>0. t \in Backends /\ pc[r] = "release" /\ UNCHANGED target
    BY <1>3 DEF Release, Goto, HasTarget, reqVars, Counted
  <2>1. /\ pc'[r] = "done"
        /\ \A q \in Requests \ {r} : pc'[q] = pc[q]
    BY <1>3 DEF Release, Goto, TypeOK
  <2>2. HasTarget'
    BY <2>0, <2>1 DEF HasTarget, Counted
  <2>3. CASE Counting
    <3>1. InFlight(t)' = InFlight(t) \ {r} /\ r \in InFlight(t)
      BY <2>0, <2>1 DEF InFlight, Counted
    <3>2. \A b \in Backends \ {t} : InFlight(b)' = InFlight(b)
      BY <2>0, <2>1 DEF InFlight, Counted
    <3>3. Cardinality(InFlight(t)') = Cardinality(InFlight(t)) - 1
      BY <2>0, <3>1, InFlightSets, FS_RemoveElement
    <3>4. connections[t] > 0
      <4>1. connections[t] = Cardinality(InFlight(t))
        BY <2>0, <2>3 DEF ConnectionsExact, InFlight
      <4>. QED BY <2>0, <3>3, <4>1, InFlightSets, InFlightSetsNext
    <3>5. /\ connections'[t] = connections[t] - 1
          /\ \A b \in Backends \ {t} : connections'[b] = connections[b]
      BY <1>3, <2>0, <2>3, <3>4, CounterDec DEF Release, TypeOK, PoolTypeOK
    <3>. QED BY <2>0, <2>2, <2>3, <3>2, <3>3, <3>5 DEF ConnectionsExact, InFlight
  <2>4. CASE ~Counting
    BY <1>3, <2>2, <2>4 DEF Release, ConnectionsExact
  <2>. QED BY <2>3, <2>4
<1>. QED BY StepKinds, <1>1, <1>2, <1>3

(* Nothing is counted at the start. *)
LEMMA InitAccount == Init => AccountInv
<1>. SUFFICES ASSUME Init PROVE AccountInv  OBVIOUS
<1>1. \A b \in Backends : InFlight(b) = {}
  BY DEF Init, InFlight, Counted
<1>. QED BY <1>1, FS_EmptySet
         DEF Init, NewPool, AccountInv, HasTarget, ConnectionsExact, InFlight, Counted

(* For any number of requests and backends, the connection counter of a    *)
(* backend is the number of requests under way on it: neither a refusal of *)
(* the breaker nor a panic of the reverse proxy loses a decrement.         *)
THEOREM ConnectionsCount == Spec => []ConnectionsExact
<1>1. TypeOK /\ AccountInv /\ [Next]_vars => AccountInv'
  BY AccountStep
<1>2. AccountInv => ConnectionsExact
  BY DEF AccountInv
<1>. QED BY <1>1, <1>2, InitAccount, TypeCorrect, PTL DEF Spec

-----------------------------------------------------------------------------
(* The breakers' slots. *)

\* A breaker awaits only running calls; without breakers nothing is admitted, so
\* that the paths that skip RecordOutcome leave no slot behind.
SlotInv ==
    /\ SlotsHeld
    /\ ~cbEnabled => \A b \in Backends : cb[b].admitted = {}
    /\ \A r \in Requests : pc[r] \in {"execute", "after"} => cbEnabled

\* What SlotsHeld says of one breaker, apart from its being well formed.
Awaits(b) ==
    cb[b].admitted \subseteq {r \in Requests : pc[r] \in {"proxy", "after"} /\ target[r] = b}

(* SlotsHeld by its parts. *)
LEMMA SlotParts ==
    SlotsHeld <=> \A b \in Backends : Awaits(b) /\ WellFormed(cb[b])
BY DEF SlotsHeld, Awaits, WellFormed

(* The same, in the next state. *)
LEMMA SlotPartsNext ==
    SlotsHeld' <=> \A b \in Backends : Awaits(b)' /\ WellFormed(cb'[b])
BY DEF SlotsHeld, Awaits, WellFormed

(* A step that leaves the breakers alone and takes no admitted call out of *)
(* Execute keeps the slots.                                                *)
LEMMA SlotFrame ==
    ASSUME SlotInv, UNCHANGED <<cb, cbEnabled>>,
           \A b \in Backends : \A r \in cb[b].admitted :
              pc[r] \in {"proxy", "after"} =>
                 pc'[r] \in {"proxy", "after"} /\ target'[r] = target[r],
           \A r \in Requests : pc'[r] \in {"execute", "after"} => cbEnabled
    PROVE  SlotInv'
BY DEF SlotInv, SlotsHeld

(* Recording the outcome of a call frees its slot, also when the reverse   *)
(* proxy panicked.                                                         *)
LEMMA OutcomeStep ==
    ASSUME TypeOK, HasTarget, SlotInv, cbEnabled, NEW r \in Requests,
           NEW ok \in BOOLEAN, NEW to \in {"finish", "release"},
           Goto(r, "proxy", to) \/ Goto(r, "after", to),
           cb' = [cb EXCEPT ![target[r]] = AfterRequest(@, r, ok)],
           UNCHANGED <<target, cbEnabled>>
    PROVE  SlotInv'
<1>. DEFINE t == target[r]
<1>0. t \in Backends
  BY DEF Goto, HasTarget, Counted
<1>1. /\ cb'[t] = AfterRequest(cb[t], r, ok)
      /\ \A b \in Backends \ {t} : cb'[b] = cb[b]
  BY <1>0 DEF TypeOK, PoolTypeOK
<1>2. /\ pc'[r] = to
      /\ \A q \in Requests \ {r} : pc'[q] = pc[q]
  BY DEF Goto, TypeOK
<1>3. \A b \in Backends : Awaits(b) /\ WellFormed(cb[b])
  BY SlotParts DEF SlotInv
<1>4. cb'[t].admitted \subseteq cb[t].admitted \ {r} /\ WellFormed(cb'[t])
  BY <1>0, <1>1, <1>3, OutcomeSlots DEF TypeOK, PoolTypeOK
<1>5. \A b \in Backends \ {t} : r \notin cb[b].admitted
  BY <1>3 DEF Awaits
<1>6. \A b \in Backends : Awaits(b)' /\ WellFormed(cb'[b])
  BY <1>0, <1>1, <1>2, <1>3, <1>4, <1>5 DEF Awaits
<1>7. SlotsHeld'
  BY <1>6, SlotPartsNext
<1>. QED BY <1>2, <1>7 DEF SlotInv

(* The slots are kept over a step. *)
LEMMA SlotStep ==
    ASSUME TypeOK, HasTarget, SlotInv, [Next]_vars
    PROVE  SlotInv'
<1>. USE DEF poolVars, reqVars
<1>1. ASSUME NEW b \in Backends, TimeoutElapses(b) PROVE SlotInv'
  <2>1. /\ cb'[b] = SetState("half-open")
        /\ \A a \in Backends \ {b} : cb'[a] = cb[a]
        /\ UNCHANGED <<pc, target, cbEnabled>>
    BY <1>1 DEF TimeoutElapses, OpenTimeout, TypeOK, PoolTypeOK
  <2>. QED BY <2>1 DEF SlotInv, SlotsHeld, SetState
<1>2. ASSUME NEW r \in Requests, Execute(r) PROVE SlotInv'
  <2>. DEFINE t == target[r]
  <2>0. t \in Backends /\ cbEnabled
    BY <1>2 DEF Execute, Goto, HasTarget, Counted, SlotInv
  <2>1. /\ cb'[t] = BeforeRequest(cb[t], r)
        /\ \A b \in Backends \ {t} : cb'[b] = cb[b]
        /\ UNCHANGED <<target, cbEnabled>>
    BY <1>2, <2>0 DEF Execute, TypeOK, PoolTypeOK
  <2>2. /\ pc'[r] = "proxy"
        /\ \A q \in Requests \ {r} : pc'[q] = pc[q]
    BY <1>2 DEF Execute, Goto, TypeOK
  <2>3. \A b \in Backends : Awaits(b) /\ WellFormed(cb[b])
    BY SlotParts DEF SlotInv
  <2>4. cb'[t].admitted = cb[t].admitted \cup {r} /\ WellFormed(cb'[t])
    BY <1>2, <2>0, <2>1, <2>3, AdmissionSlots DEF Execute, TypeOK, PoolTypeOK
  <2>5. \A b \in Backends : Awaits(b)' /\ WellFormed(cb'[b])
    BY <2>0, <2>1, <2>2, <2>3, <2>4 DEF Awaits
  <2>6. SlotsHeld'
    BY <2>5, SlotPartsNext
  <2>. QED BY <2>0, <2>1, <2>6 DEF SlotInv
<1>3. ASSUME NEW r \in Requests, RecordOutcome(r) PROVE SlotInv'
  <2>. DEFINE ok == ~Failure(r)
  <2>1. /\ ok \in BOOLEAN /\ cbEnabled
        /\ Goto(r, "after", "finish")
        /\ cb' = [cb EXCEPT ![target[r]] = AfterRequest(@, r, ok)]
        /\ UNCHANGED <<target, cbEnabled>>
    BY <1>3 DEF RecordOutcome, SlotInv, Goto
  <2>. HIDE DEF ok
  <2>. QED BY <2>1, OutcomeStep
<1>4. ASSUME NEW r \in Requests, Aborted(r) PROVE SlotInv'
  <2>1. CASE cbEnabled
    <3>1. /\ Goto(r, "proxy", "release")
          /\ cb' = [cb EXCEPT ![target[r]] = AfterRequest(@, r, FALSE)]
          /\ UNCHANGED <<target, cbEnabled>>
      BY <1>4, <2>1 DEF Aborted
    <3>. QED BY <2>1, <3>1, OutcomeStep
  <2>2. CASE ~cbEnabled
    BY <1>4, <2>2, SlotFrame DEF Aborted, Goto, SlotInv, TypeOK
  <2>. QED BY <2>1, <2>2
<1>5. ASSUME NEW r \in Requests, (\E s \in Statuses : Answered(r, s)) \/ Unreachable(r)
      PROVE  SlotInv'
  <2>1. /\ UNCHANGED <<cb, cbEnabled, target>>
        /\ pc[r] = "proxy" /\ pc' = [pc EXCEPT ![r] = AfterProxy]
    BY <1>5 DEF Answered, Unreachable, Goto
  <2>2. /\ cbEnabled => AfterProxy = "after"
        /\ ~cbEnabled => AfterProxy = "finish"
    BY DEF AfterProxy
  <2>. QED BY <2>1, <2>2, SlotFrame DEF SlotInv, TypeOK
<1>6. ASSUME NEW r \in Requests, Count(r) PROVE SlotInv'
  BY <1>6, SlotFrame DEF Count, Goto, SlotInv, TypeOK
<1>7. ASSUME NEW r \in Requests,
             \/ Arrive(r) \/ CacheHit(r) \/ CacheMiss(r) \/ SeeNotOpen(r) \/ NoBackend(r)
             \/ (\E b \in Backends : SeeHealthy(r, b))
             \/ Blocked(r) \/ FinishFailure(r) \/ Finish(r) \/ Store(r)
             \/ WriteReply(r) \/ Release(r)
      PROVE  SlotInv'
  <2>1. /\ UNCHANGED <<cb, cbEnabled>>
        /\ pc[r] \notin {"proxy", "after"} /\ pc'[r] \notin {"execute", "after"}
        /\ \A q \in Requests \ {r} : pc'[q] = pc[q] /\ target'[q] = target[q]
    BY <1>7 DEF Arrive, CacheHit, CacheMiss, SeeNotOpen, NoBackend, SeeHealthy, Blocked,
                FinishFailure, Finish, Store, WriteReply, Release, Goto, TypeOK
  <2>2. \A b \in Backends : \A q \in cb[b].admitted : q \in Requests
    BY DEF SlotInv, SlotsHeld
  <2>. QED BY <2>1, <2>2, SlotFrame DEF SlotInv
<1>8. ASSUME \/ \E p \in Pages : Expire(p)
             \/ \E b \in Backends : HealthChanges(b)
             \/ UNCHANGED vars
      PROVE  SlotInv'
  <2>1. UNCHANGED <<cb, cbEnabled, pc, target>>
    BY <1>8 DEF Expire, HealthChanges, vars
  <2>. QED BY <2>1, SlotFrame DEF SlotInv
<1>. QED BY <1>1, <1>2, <1>3, <1>4, <1>5, <1>6, <1>7, <1>8 DEF Next, Handler

(* For any number of requests, backends and failures, a breaker's slot is  *)
(* held only by a call that runs on its backend, and the half-open slot by *)
(* one: neither an error, a failed dial nor a panic leaks it.              *)
THEOREM SlotsAlwaysHeld == Spec => []SlotsHeld
<1>1. TypeOK /\ AccountInv /\ [Next]_vars => AccountInv'
  BY AccountStep
<1>2. Init => SlotInv
  BY DEF Init, NewPool, SlotInv, SlotsHeld, NewCircuitBreaker, SetState
<1>3. TypeOK /\ AccountInv /\ SlotInv /\ [Next]_vars => SlotInv'
  BY SlotStep DEF AccountInv
<1>4. SlotInv => SlotsHeld
  BY DEF SlotInv
<1>. QED BY <1>1, <1>2, <1>3, <1>4, InitAccount, TypeCorrect, PTL DEF Spec

-----------------------------------------------------------------------------
(* The cache. *)

\* Points before the reverse proxy has done anything.
Before == {"new", "lookup", "pick", "state", "count", "execute", "proxy"}

\* What the recorder holds is what the backend did: its answer, or after a failed
\* dial the 502 of the reverse proxy, or with a breaker nothing.
Recorded(r) ==
    \/ answer[r] \in Statuses /\ recorder[r].status = answer[r]
    \/ /\ answer[r] = unreachable
       /\ IF cbEnabled THEN recorder[r] = NewRecorder ELSE recorder[r].status = 502

RecorderInv ==
    \A r \in Requests :
       /\ pc[r] \in Before => recorder[r] = NewRecorder /\ answer[r] = unasked
       /\ pc[r] \in {"after", "finish", "store", "write"} => Recorded(r)
       /\ pc[r] = "store" => Storable(r)

\* Points between the reverse proxy and the reply.
After == {"after", "finish", "store", "write"}

(* A step that leaves the recorders and the answers alone keeps them right *)
(* if it moves handlers forward only and stores only what is storable.     *)
LEMMA RecorderFrame ==
    ASSUME RecorderInv,
           UNCHANGED <<recorder, answer, cbEnabled, cacheEnabled, req>>,
           \A r \in Requests :
              /\ pc'[r] \in Before => pc[r] \in Before
              /\ pc'[r] \in After => pc[r] \in After
              /\ pc'[r] = "store" => pc[r] = "store" \/ Storable(r)
    PROVE  RecorderInv'
<1>1. \A r \in Requests : Recorded(r)' <=> Recorded(r)
  BY DEF Recorded
<1>2. \A r \in Requests : Storable(r)' <=> Storable(r)
  BY DEF Storable, Caching
<1>. QED BY <1>1, <1>2 DEF RecorderInv, After

(* The recorder keeps what the backend did over a step. *)
LEMMA RecorderStep ==
    ASSUME TypeOK, RecorderInv, [Next]_vars
    PROVE  RecorderInv'
<1>. USE DEF poolVars, reqVars
<1>1. ASSUME NEW r \in Requests,
             \/ Arrive(r) \/ CacheHit(r) \/ CacheMiss(r) \/ SeeNotOpen(r) \/ NoBackend(r)
             \/ (\E b \in Backends : SeeHealthy(r, b)) \/ Count(r)
             \/ Blocked(r) \/ Execute(r)
      PROVE  RecorderInv'
  <2>1. /\ UNCHANGED <<recorder, answer, cbEnabled, cacheEnabled, req>>
        /\ pc[r] \in Before /\ pc'[r] \in Before \cup {"release", "done"}
        /\ \A q \in Requests \ {r} : pc'[q] = pc[q]
    BY <1>1 DEF Arrive, CacheHit, CacheMiss, SeeNotOpen, NoBackend, SeeHealthy, Count,
                Blocked, Execute, Goto, TypeOK, Before
  <2>. QED BY <2>1, RecorderFrame DEF Before, After
<1>2. ASSUME NEW r \in Requests, NEW s \in Statuses, Answered(r, s) PROVE RecorderInv'
  <2>1. /\ UNCHANGED <<cbEnabled, cacheEnabled, req>>
        /\ pc'[r] \in {"after", "finish"}
        /\ recorder'[r].status = s /\ answer'[r] = s
        /\ \A q \in Requests \ {r} :
              pc'[q] = pc[q] /\ recorder'[q] = recorder[q] /\ answer'[q] = answer[q]
    BY <1>2 DEF Answered, Record, Goto, AfterProxy, TypeOK
  <2>2. Recorded(r)'
    BY <2>1 DEF Recorded
  <2>3. \A q \in Requests \ {r} : (Recorded(q)' <=> Recorded(q)) /\ (Storable(q)' <=> Storable(q))
    BY <2>1 DEF Recorded, Storable, Caching
  <2>. QED BY <2>1, <2>2, <2>3 DEF RecorderInv, Before
<1>3. ASSUME NEW r \in Requests, Unreachable(r) PROVE RecorderInv'
  <2>1. /\ UNCHANGED <<cbEnabled, cacheEnabled, req>>
        /\ pc[r] = "proxy" /\ pc'[r] \in {"after", "finish"}
        /\ answer'[r] = unreachable
        /\ \A q \in Requests \ {r} : pc'[q] = pc[q] /\ answer'[q] = answer[q]
    BY <1>3 DEF Unreachable, Goto, AfterProxy, TypeOK
  <2>2. recorder[r] = NewRecorder
    BY <2>1 DEF RecorderInv, Before
  <2>3. /\ cbEnabled => recorder'[r] = NewRecorder
        /\ ~cbEnabled => recorder'[r].status = 502
        /\ \A q \in Requests \ {r} : recorder'[q] = recorder[q]
    BY <1>3, <2>2 DEF Unreachable, Record, TypeOK
  <2>4. Recorded(r)'
    BY <2>1, <2>3 DEF Recorded
  <2>5. \A q \in Requests \ {r} : (Recorded(q)' <=> Recorded(q)) /\ (Storable(q)' <=> Storable(q))
    BY <2>1, <2>3 DEF Recorded, Storable, Caching
  <2>. QED BY <2>1, <2>3, <2>4, <2>5 DEF RecorderInv, Before
<1>4. ASSUME NEW r \in Requests, Aborted(r) PROVE RecorderInv'
  <2>1. /\ UNCHANGED <<recorder, cbEnabled, cacheEnabled, req>>
        /\ pc'[r] = "release"
        /\ \A q \in Requests \ {r} : pc'[q] = pc[q] /\ answer'[q] = answer[q]
    BY <1>4 DEF Aborted, Goto, TypeOK
  <2>2. \A q \in Requests \ {r} : (Recorded(q)' <=> Recorded(q)) /\ (Storable(q)' <=> Storable(q))
    BY <2>1 DEF Recorded, Storable, Caching
  <2>. QED BY <2>1, <2>2 DEF RecorderInv, Before
<1>5. ASSUME NEW r \in Requests,
             \/ RecordOutcome(r) \/ FinishFailure(r) \/ Finish(r) \/ Store(r)
             \/ WriteReply(r) \/ Release(r)
      PROVE  RecorderInv'
  <2>1. /\ UNCHANGED <<recorder, answer, cbEnabled, cacheEnabled, req>>
        /\ pc'[r] \in After \cup {"release", "done"}
        /\ pc'[r] \in After => pc[r] \in After
        /\ pc'[r] = "store" => Storable(r)
        /\ \A q \in Requests \ {r} : pc'[q] = pc[q]
    BY <1>5 DEF RecordOutcome, FinishFailure, Finish, Store, WriteReply, Release, Goto,
                TypeOK, After
  <2>. QED BY <2>1, RecorderFrame DEF Before, After
<1>6. ASSUME \/ \E p \in Pages : Expire(p)
             \/ \E b \in Backends : HealthChanges(b) \/ TimeoutElapses(b)
             \/ UNCHANGED vars
      PROVE  RecorderInv'
  <2>1. UNCHANGED <<recorder, answer, cbEnabled, cacheEnabled, req, pc>>
    BY <1>6 DEF Expire, HealthChanges, TimeoutElapses, OpenTimeout, vars
  <2>. QED BY <2>1, RecorderFrame
<1>. QED BY <1>1, <1>2, <1>3, <1>4, <1>5, <1>6 DEF Next, Handler

\* What CacheFromBackend says of one request r and the item of its page.
Source(r, p) ==
    /\ req[r] = [page |-> p, get |-> TRUE]
    /\ \/ answer[r] = cache[p].status /\ cache[p].status < 500
       \/ cbEnabled /\ answer[r] = unreachable
          /\ cache[p] = [status |-> 200, body |-> "empty"]

(* A request that is the source of an item has its answer, which later     *)
(* steps leave alone.                                                      *)
LEMMA SourceKept ==
    ASSUME TypeOK, RecorderInv, NEW r \in Requests, NEW p \in Pages,
           cache[p] # noResponse, Source(r, p),
           cache'[p] = cache[p], UNCHANGED <<req, cbEnabled>>,
           pc[r] # "proxy" => answer'[r] = answer[r]
    PROVE  Source(r, p)'
<1>1. cache[p].status \in 200..599
  <2>1. cache[p] \in Responses
    BY DEF TypeOK
  <2>. QED BY <2>1 DEF Responses
<1>2. answer[r] # unasked
  BY <1>1 DEF Source, unasked, unreachable
<1>3. pc[r] # "proxy"
  BY <1>2 DEF RecorderInv, Before
<1>. QED BY <1>3 DEF Source

(* The cache keeps what backends answered over a step. *)
LEMMA CacheStep ==
    ASSUME TypeOK, RecorderInv, CacheFromBackend, [Next]_vars
    PROVE  CacheFromBackend'
<1>. USE DEF poolVars, reqVars
<1>a. \A p \in Pages : cache[p] # noResponse => \E r \in Requests : Source(r, p)
  BY DEF CacheFromBackend, Source
<1>b. SUFFICES \A p \in Pages : cache'[p] # noResponse => \E r \in Requests : Source(r, p)'
  BY DEF CacheFromBackend, Source
<1>1. ASSUME NEW r \in Requests, Store(r), NEW p \in Pages, cache'[p] # noResponse
      PROVE  \E q \in Requests : Source(q, p)'
  <2>1. UNCHANGED <<req, cbEnabled, answer>> /\ pc[r] = "store"
    BY <1>1 DEF Store, Goto
  <2>2. CASE p = req[r].page
    <3>1. cache'[p] = [status |-> recorder[r].status, body |-> recorder[r].body]
      BY <1>1, <2>2 DEF Store, TypeOK
    <3>2. Recorded(r) /\ Caching(r) /\ recorder[r].status < 500
      BY <2>1 DEF RecorderInv, Storable
    <3>3. req[r] = [page |-> p, get |-> TRUE]
      BY <2>2, <3>2 DEF Caching, TypeOK
    <3>4. CASE answer[r] \in Statuses /\ recorder[r].status = answer[r]
      BY <2>1, <3>1, <3>2, <3>3, <3>4 DEF Source
    <3>5. CASE answer[r] = unreachable /\ cbEnabled /\ recorder[r] = NewRecorder
      BY <2>1, <3>1, <3>3, <3>5 DEF Source, NewRecorder
    <3>6. CASE ~cbEnabled /\ recorder[r].status = 502
      BY <3>2, <3>6
    <3>. QED BY <3>2, <3>4, <3>5, <3>6 DEF Recorded
  <2>3. CASE p # req[r].page
    <3>1. cache'[p] = cache[p]
      BY <1>1, <2>3 DEF Store, TypeOK
    <3>2. PICK q \in Requests : Source(q, p)
      BY <1>1, <1>a, <3>1
    <3>3. Source(q, p)'
      BY <1>1, <2>1, <3>1, <3>2, SourceKept
    <3>. QED BY <3>3
  <2>. QED BY <2>2, <2>3
<1>2. ASSUME \/ \E r \in Requests :
                   \/ Arrive(r) \/ CacheHit(r) \/ CacheMiss(r) \/ SeeNotOpen(r) \/ NoBackend(r)
                   \/ (\E b \in Backends : SeeHealthy(r, b)) \/ Count(r)
                   \/ Blocked(r) \/ Execute(r) \/ RecordOutcome(r) \/ FinishFailure(r)
                   \/ Finish(r) \/ WriteReply(r) \/ Release(r)
                   \/ (\E s \in Statuses : Answered(r, s)) \/ Unreachable(r) \/ Aborted(r)
             \/ \E p \in Pages : Expire(p)
             \/ \E b \in Backends : HealthChanges(b) \/ TimeoutElapses(b)
             \/ UNCHANGED vars,
             NEW p \in Pages, cache'[p] # noResponse
      PROVE  \E q \in Requests : Source(q, p)'
  <2>1. UNCHANGED <<req, cbEnabled>>
    BY <1>2 DEF Arrive, CacheHit, CacheMiss, SeeNotOpen, NoBackend, SeeHealthy, Count,
                Blocked, Execute, RecordOutcome, FinishFailure, Finish, WriteReply, Release,
                Answered, Unreachable, Aborted, Expire, HealthChanges, TimeoutElapses,
                OpenTimeout, vars
  <2>2. cache'[p] = cache[p]
    <3>1. ASSUME NEW e \in Pages, Expire(e) PROVE cache'[p] = cache[p]
      BY <1>2, <3>1 DEF Expire, TypeOK
    <3>2. UNCHANGED cache \/ \E e \in Pages : Expire(e)
      BY <1>2 DEF Arrive, CacheHit, CacheMiss, SeeNotOpen, NoBackend, SeeHealthy, Count,
                  Blocked, Execute, RecordOutcome, FinishFailure, Finish, WriteReply,
                  Release, Answered, Unreachable, Aborted, HealthChanges, TimeoutElapses,
                  vars
    <3>. QED BY <3>1, <3>2
  <2>3. \A q \in Requests : pc[q] # "proxy" => answer'[q] = answer[q]
    <3>1. ASSUME NEW r \in Requests,
                 (\E s \in Statuses : Answered(r, s)) \/ Unreachable(r) \/ Aborted(r)
          PROVE  \A q \in Requests : pc[q] # "proxy" => answer'[q] = answer[q]
      BY <3>1 DEF Answered, Unreachable, Aborted, Goto, TypeOK
    <3>2. UNCHANGED answer \/ \E r \in Requests :
             (\E s \in Statuses : Answered(r, s)) \/ Unreachable(r) \/ Aborted(r)
      BY <1>2 DEF Arrive, CacheHit, CacheMiss, SeeNotOpen, NoBackend, SeeHealthy, Count,
                  Blocked, Execute, RecordOutcome, FinishFailure, Finish, WriteReply,
                  Release, Expire, HealthChanges, TimeoutElapses, vars
    <3>. QED BY <3>1, <3>2
  <2>4. PICK q \in Requests : Source(q, p)
    BY <1>2, <1>a, <2>2
  <2>5. Source(q, p)'
    BY <1>2, <2>1, <2>2, <2>3, <2>4, SourceKept
  <2>. QED BY <2>5
<1>. QED BY <1>1, <1>2 DEF Next, Handler

(* For any number of requests, pages and backends, the cache holds for a   *)
(* page only what a backend answered, below 500, to a GET of that page, or *)
(* behind a breaker the empty 200 of an unreachable backend.               *)
THEOREM CacheHoldsAnswers == Spec => []CacheFromBackend
<1>1. Init => RecorderInv
  BY DEF Init, RecorderInv, Before
<1>2. Init => CacheFromBackend
  BY DEF Init, CacheFromBackend
<1>3. TypeOK /\ RecorderInv /\ [Next]_vars => RecorderInv'
  BY RecorderStep
<1>4. TypeOK /\ RecorderInv /\ CacheFromBackend /\ [Next]_vars => CacheFromBackend'
  BY CacheStep
<1>. QED BY <1>1, <1>2, <1>3, <1>4, TypeCorrect, PTL DEF Spec
==============================================================================
