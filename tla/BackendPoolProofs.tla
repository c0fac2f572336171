-------------------------- MODULE BackendPoolProofs --------------------------
(***************************************************************************)
(* Facts about the circuit breaker, the connection counters and the pool,  *)
(* for any number of backends and any breaker threshold.  The proofs about *)
(* the proxies and the handlers that share a pool cite them.               *)
(***************************************************************************)
EXTENDS BackendPool, TLAPS

-----------------------------------------------------------------------------
(* Arithmetic of the uint64 counters. *)

(* A counter stays in the range of its width. *)
LEMMA ModRange ==
    ASSUME NEW m \in Nat, m > 1, NEW x \in Nat
    PROVE  x % m \in 0..(m - 1)
OBVIOUS

(* Adding one does not wrap below the maximum. *)
LEMMA ModInc ==
    ASSUME NEW m \in Nat, NEW x \in Nat, x + 1 < m
    PROVE  (x + 1) % m = x + 1
OBVIOUS

(* Adding 2^64 - 1 subtracts one from a positive counter. *)
LEMMA ModDec ==
    ASSUME NEW m \in Nat, NEW x \in Nat, 0 < x, x < m
    PROVE  (x + (m - 1)) % m = x - 1
OBVIOUS

-----------------------------------------------------------------------------
(* The breaker's operations. *)

(* A breaker that changes state is a breaker with a new generation. *)
LEMMA SetStateType ==
    ASSUME NEW s \in CBStates
    PROVE  SetState(s) \in Breakers
BY FailuresAssumption DEF SetState, Breakers

(* Admitting a request keeps the breaker well formed. *)
LEMMA BeforeRequestType ==
    ASSUME NEW k \in Breakers, NEW r \in Requests
    PROVE  BeforeRequest(k, r) \in Breakers
BY DEF BeforeRequest, Breakers

(* Recording an outcome keeps the breaker well formed: the failure counter *)
(* never passes the threshold, because the breaker opens instead.          *)
LEMMA AfterRequestType ==
    ASSUME NEW k \in Breakers, NEW r \in Requests, NEW ok \in BOOLEAN
    PROVE  AfterRequest(k, r, ok) \in Breakers
<1>1. CASE r \notin k.admitted
  BY <1>1 DEF AfterRequest
<1>2. CASE r \in k.admitted /\ k.state = "half-open"
  BY <1>2, SetStateType DEF AfterRequest, CBStates
<1>3. CASE r \in k.admitted /\ k.state # "half-open" /\ ok
  BY <1>3, FailuresAssumption DEF AfterRequest, Breakers, Forget
<1>4. CASE r \in k.admitted /\ k.state # "half-open" /\ ~ok
  <2>1. CASE ReadyToTrip(k.failures + 1)
    BY <1>4, <2>1, SetStateType DEF AfterRequest, CBStates
  <2>2. CASE ~ReadyToTrip(k.failures + 1)
    BY <1>4, <2>2, FailuresAssumption DEF AfterRequest, Breakers, ReadyToTrip, Forget
  <2>. QED BY <2>1, <2>2
<1>. QED BY <1>1, <1>2, <1>3, <1>4

(* An outcome is awaited no longer once it is recorded, and recording it   *)
(* neither admits a request nor fills an open or half-open breaker.        *)
LEMMA AfterRequestSlots ==
    ASSUME NEW k \in Breakers, NEW r, NEW ok \in BOOLEAN,
           k.state = "half-open" => \A c, d \in k.admitted : c = d
    PROVE  LET j == AfterRequest(k, r, ok) IN
           /\ j.admitted \subseteq k.admitted \ {r}
           /\ j.state = "half-open" => \A c, d \in j.admitted : c = d
           /\ j.state = "open" => j.admitted = {} \/ k.state = "open"
<1>1. CASE r \notin k.admitted
  BY <1>1 DEF AfterRequest
<1>2. CASE r \in k.admitted /\ k.state = "half-open"
  BY <1>2 DEF AfterRequest, SetState
<1>3. CASE r \in k.admitted /\ k.state # "half-open" /\ ok
  BY <1>3 DEF AfterRequest, Forget
<1>4. CASE r \in k.admitted /\ k.state # "half-open" /\ ~ok
  BY <1>4 DEF AfterRequest, Forget, SetState
<1>. QED BY <1>1, <1>2, <1>3, <1>4

\* A half-open breaker awaits at most one outcome and an open one none.
WellFormed(k) ==
    /\ k.state = "half-open" => \A c, d \in k.admitted : c = d
    /\ k.state = "open" => k.admitted = {}

(* Recording an outcome ends the wait for it and keeps the breaker well    *)
(* formed.                                                                 *)
LEMMA OutcomeSlots ==
    ASSUME NEW k \in Breakers, NEW r, NEW ok \in BOOLEAN, WellFormed(k),
           NEW j, j = AfterRequest(k, r, ok)
    PROVE  j.admitted \subseteq k.admitted \ {r} /\ WellFormed(j)
<1>1. /\ j.admitted \subseteq k.admitted \ {r}
      /\ j.state = "half-open" => \A c, d \in j.admitted : c = d
      /\ j.state = "open" => j.admitted = {} \/ k.state = "open"
  BY AfterRequestSlots DEF WellFormed
<1>. QED BY <1>1 DEF WellFormed

(* Execute admits a request only into a breaker that does not reject it,   *)
(* which stays well formed.                                                *)
LEMMA AdmissionSlots ==
    ASSUME NEW k \in Breakers, NEW r, WellFormed(k), ~Rejects(k),
           NEW j, j = BeforeRequest(k, r)
    PROVE  j.admitted = k.admitted \cup {r} /\ WellFormed(j)
BY DEF BeforeRequest, Rejects, WellFormed, Breakers

(* A breaker in a new generation awaits nothing. *)
LEMMA SetStateSlots ==
    ASSUME NEW s
    PROVE  SetState(s).admitted = {} /\ WellFormed(SetState(s))
BY DEF SetState, WellFormed

-----------------------------------------------------------------------------
(* The pool. *)

(* NewL4BackendPool and NewL7BackendPool make a well-typed pool. *)
LEMMA NewPoolType == NewPool => PoolTypeOK
BY SetStateType, PoolAssumption DEF NewPool, PoolTypeOK, NewCircuitBreaker, CBStates

(* IncrementConnections and DecrementConnections keep a uint64. *)
LEMMA CounterType ==
    ASSUME NEW b, connections \in [Backends -> 0..(UintMod - 1)],
           IncrementConnections(b) \/ DecrementConnections(b)
    PROVE  connections' \in [Backends -> 0..(UintMod - 1)]
<1>1. \A x \in 0..(UintMod - 1) : /\ (x + 1) % UintMod \in 0..(UintMod - 1)
                                  /\ (x + (UintMod - 1)) % UintMod \in 0..(UintMod - 1)
  BY ModRange, PoolAssumption
<1>. QED BY <1>1 DEF IncrementConnections, DecrementConnections

(* IncrementConnections adds one to one counter that is below its maximum. *)
LEMMA CounterInc ==
    ASSUME NEW t \in Backends, connections \in [Backends -> 0..(UintMod - 1)],
           IncrementConnections(t), connections[t] + 1 < UintMod
    PROVE  /\ connections'[t] = connections[t] + 1
           /\ \A b \in Backends \ {t} : connections'[b] = connections[b]
<1>1. connections[t] \in Nat
  BY PoolAssumption
<1>. QED BY <1>1, ModInc, PoolAssumption DEF IncrementConnections

(* DecrementConnections takes one off one counter that is positive. *)
LEMMA CounterDec ==
    ASSUME NEW t \in Backends, connections \in [Backends -> 0..(UintMod - 1)],
           DecrementConnections(t), connections[t] > 0
    PROVE  /\ connections'[t] = connections[t] - 1
           /\ \A b \in Backends \ {t} : connections'[b] = connections[b]
<1>1. connections[t] \in Nat /\ 0 < connections[t] /\ connections[t] < UintMod
  BY PoolAssumption
<1>. QED BY <1>1, ModDec, PoolAssumption DEF DecrementConnections
==============================================================================
