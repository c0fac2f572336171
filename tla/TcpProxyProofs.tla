--------------------------- MODULE TcpProxyProofs ---------------------------
(***************************************************************************)
(* Theorems about TcpProxy for any set of connections, any number of       *)
(* backends and any breaker threshold.                                     *)
(***************************************************************************)
EXTENDS TcpProxy, BackendPoolProofs, FiniteSetTheorems, TLAPS

-----------------------------------------------------------------------------
(* Type correctness. *)

(* An update of one end of one connection keeps the type of sock, eof and  *)
(* copier.                                                                 *)
LEMMA UpdateEnd ==
    ASSUME NEW S, NEW T, NEW V, NEW f \in [S -> [T -> V]],
           NEW c \in S, NEW e \in T, NEW v \in V
    PROVE  [f EXCEPT ![c][e] = v] \in [S -> [T -> V]]
OBVIOUS

(* Every variable of the proxy and its pool keeps its type; in particular  *)
(* the uint64 connection counters stay in range.                           *)
THEOREM TypeCorrect == Spec => []TypeOK
<1>1. Init => TypeOK
  <2>. SUFFICES ASSUME Init PROVE TypeOK  OBVIOUS
  <2>1. PoolTypeOK
    BY SetStateType, PoolAssumption
    DEF Init, NewPool, PoolTypeOK, NewCircuitBreaker, CBStates
  <2>. QED BY <2>1 DEF Init, TypeOK, PCs, MainStates, Handling
<1>2. TypeOK /\ [Next]_vars => TypeOK'
  <2>. SUFFICES ASSUME TypeOK, [Next]_vars PROVE TypeOK'  OBVIOUS
  <2>. USE DEF TypeOK, PoolTypeOK, Goto, poolVars, serverVars, connVars, PCs,
               Handling, PreDial, Executing, MainStates
  <2>1. ASSUME NEW c \in Conns, Accept(c) PROVE TypeOK'
    BY <2>1 DEF Accept, Ends
  <2>2. ASSUME NEW c \in Conns, Spawn(c) PROVE TypeOK'
    BY <2>2 DEF Spawn
  <2>3. CASE RunReturns
    BY <2>3 DEF RunReturns
  <2>4. CASE Main
    BY <2>4 DEF Main, Shutdown, Wait, WaitReturns
  <2>5. ASSUME NEW c \in Conns, NEW b \in Backends, SeeHealthy(c, b) PROVE TypeOK'
    BY <2>5 DEF SeeHealthy
  <2>6. ASSUME NEW c \in Conns, SeeNotOpen(c) \/ NoBackend(c) PROVE TypeOK'
    BY <2>6 DEF SeeNotOpen, NoBackend
  <2>7. ASSUME NEW c \in Conns, Blocked(c) PROVE TypeOK'
    BY <2>7 DEF Blocked
  <2>8. ASSUME NEW c \in Conns, Execute(c) PROVE TypeOK'
    <3>1. cb' \in [Backends -> Breakers]
      BY <2>8, BeforeRequestType, ConnsAssumption DEF Execute
    <3>. QED BY <2>8, <3>1 DEF Execute
  <2>9. ASSUME NEW c \in Conns, RecordOutcome(c) PROVE TypeOK'
    <3>1. cb' \in [Backends -> Breakers]
      BY <2>9, AfterRequestType, ConnsAssumption DEF RecordOutcome
    <3>. QED BY <2>9, <3>1 DEF RecordOutcome
  <2>a. AfterProxy \in PCs
    BY DEF AfterProxy
  <2>10. ASSUME NEW c \in Conns, CloseClient(c) \/ CloseBackend(c) PROVE TypeOK'
    <3>1. CASE CloseClient(c)
      BY <3>1 DEF CloseClient, Ends
    <3>2. CASE CloseBackend(c)
      BY <2>a, <3>2 DEF CloseBackend, Ends
    <3>. QED BY <2>10, <3>1, <3>2
  <2>11. ASSUME NEW c \in Conns, Done(c) PROVE TypeOK'
    BY <2>11 DEF Done
  <2>12. ASSUME NEW c \in Conns, DialFails(c) \/ DialSucceeds(c) PROVE TypeOK'
    <3>1. CASE DialFails(c)
      BY <2>a, <3>1 DEF DialFails
    <3>2. CASE DialSucceeds(c)
      BY <3>2 DEF DialSucceeds, Ends
    <3>. QED BY <2>12, <3>1, <3>2
  <2>13. ASSUME NEW c \in Conns, StartCopying(c) PROVE TypeOK'
    <3>1. connections' \in [Backends -> 0..(UintMod - 1)]
      <4>1. \A x \in 0..(UintMod - 1) : (x + 1) % UintMod \in 0..(UintMod - 1)
        BY ModRange, PoolAssumption
      <4>. QED BY <2>13, <4>1 DEF StartCopying, IncrementConnections
    <3>. QED BY <2>13, <3>1 DEF StartCopying, Ends
  <2>14. ASSUME NEW c \in Conns, StopCopying(c) PROVE TypeOK'
    <3>1. connections' \in [Backends -> 0..(UintMod - 1)]
      <4>1. \A x \in 0..(UintMod - 1) :
               (x + (UintMod - 1)) % UintMod \in 0..(UintMod - 1)
        BY ModRange, PoolAssumption
      <4>. QED BY <2>14, <4>1 DEF StopCopying, DecrementConnections
    <3>. QED BY <2>14, <3>1 DEF StopCopying
  <2>15. ASSUME NEW c \in Conns, NEW e \in Ends,
                Copier(c, e) \/ CopyRead(c, e) \/ PeerCloses(c, e)
         PROVE  TypeOK'
    <3>a. ASSUME NEW from, NEW to \in {"idle", "read", "write", "close", "done"},
                 CopierStep(c, e, from, to)
          PROVE  /\ copier' \in [Conns -> [Ends ->
                                {"idle", "read", "write", "close", "done"}]]
                 /\ UNCHANGED <<poolVars, serverVars, pc, target, failed, eof>>
      BY <3>a, UpdateEnd DEF CopierStep
    <3>1. CASE CopyRead(c, e) \/ CopyWrite(c, e)
      BY <3>1, <3>a DEF CopyRead, CopyWrite
    <3>2. CASE CopyReturns(c, e)
      BY <3>2, <3>a DEF CopyReturns
    <3>3. CASE CopierExits(c, e)
      <4>1. sock' \in [Conns -> [Ends -> {"none", "open", "closed"}]]
        BY <3>3, UpdateEnd DEF CopierExits, Ends, Other
      <4>. QED BY <3>3, <3>a, <4>1 DEF CopierExits
    <3>4. CASE PeerCloses(c, e)
      BY <3>4 DEF PeerCloses
    <3>. QED BY <2>15, <3>1, <3>2, <3>3, <3>4 DEF Copier
  <2>16. ASSUME NEW b \in Backends, HealthChanges(b) PROVE TypeOK'
    BY <2>16 DEF HealthChanges, SetHealth
  <2>17. ASSUME NEW b \in Backends, TimeoutElapses(b) PROVE TypeOK'
    BY <2>17, SetStateType DEF TimeoutElapses, OpenTimeout, CBStates
  <2>18. CASE UNCHANGED vars
    BY <2>18 DEF vars
  <2>. QED BY <2>1, <2>2, <2>3, <2>4, <2>5, <2>6, <2>7, <2>8, <2>9, <2>10, <2>11,
              <2>12, <2>13, <2>14, <2>15, <2>16, <2>17, <2>18
           DEF Next, Handler, Terminated
<1>. QED BY <1>1, <1>2, PTL DEF Spec

-----------------------------------------------------------------------------
(* The counters.  Most steps move at most one handler between points that  *)
(* both, or neither, count; four actions change a counter.                 *)

QuietStep ==
    /\ UNCHANGED <<pc, target, connections, wg>>
    /\ UNCHANGED main \/ Main

LocalStep(c) ==
    /\ pc[c] # "copying"
    /\ \E q \in PCs \ {"copying"} :
          /\ pc' = [pc EXCEPT ![c] = q]
          /\ q \in Handling <=> pc[c] \in Handling
          /\ q = "done" <=> pc[c] = "done"
          /\ q \in {"state", "execute"} \cup Executing => target'[c] \in Backends
    /\ \A d \in Conns \ {c} : target'[d] = target[d]
    /\ UNCHANGED <<connections, wg, main>>

\* A handler that uses its backend has one.
HasTarget ==
    \A c \in Conns :
       pc[c] \in {"state", "execute"} \cup Executing => target[c] \in Backends

AccountInv == HasTarget /\ ConnectionsExact /\ WaitGroupExact

(* Every step is of one of the kinds above. *)
LEMMA StepKinds ==
    ASSUME TypeOK, HasTarget, [Next]_vars
    PROVE  \/ QuietStep
           \/ \E c \in Conns : \/ LocalStep(c) \/ Spawn(c) \/ Done(c)
                               \/ StartCopying(c) \/ StopCopying(c)
<1>. USE DEF poolVars, serverVars, connVars
<1>1. CASE Main \/ RunReturns
  BY <1>1 DEF Main, Shutdown, Wait, WaitReturns, RunReturns, QuietStep
<1>2. ASSUME NEW c \in Conns, NEW e \in Ends,
             Copier(c, e) \/ CopyRead(c, e) \/ PeerCloses(c, e)
      PROVE  QuietStep
  BY <1>2 DEF Copier, CopyRead, CopyWrite, CopyReturns, CopierExits, CopierStep,
              PeerCloses, QuietStep
<1>3. ASSUME NEW b \in Backends, HealthChanges(b) \/ TimeoutElapses(b)
      PROVE  QuietStep
  BY <1>3 DEF HealthChanges, TimeoutElapses, OpenTimeout, QuietStep
<1>4. CASE Terminated \/ UNCHANGED vars
  BY <1>4 DEF Terminated, vars, QuietStep
<1>5. ASSUME NEW c \in Conns,
             \/ Accept(c) \/ (\E b \in Backends : SeeHealthy(c, b))
             \/ SeeNotOpen(c) \/ NoBackend(c) \/ Blocked(c) \/ Execute(c)
             \/ RecordOutcome(c) \/ CloseClient(c)
             \/ DialFails(c) \/ DialSucceeds(c) \/ CloseBackend(c)
      PROVE  LocalStep(c)
  <2>. USE DEF Goto, LocalStep, PCs, Handling, PreDial, Executing, TypeOK
  <2>1. CASE Accept(c)
    <3>1. /\ pc[c] = "none" /\ pc' = [pc EXCEPT ![c] = "accepted"]
          /\ UNCHANGED <<target, connections, wg, main>>
      BY <2>1 DEF Accept
    <3>2. "accepted" \in PCs \ {"copying"} /\ "accepted" \notin Handling
      OBVIOUS
    <3>3. pc[c] \notin Handling
      BY <3>1
    <3>. QED BY <3>1, <3>2, <3>3
  <2>2. ASSUME NEW b \in Backends, SeeHealthy(c, b) PROVE LocalStep(c)
    BY <2>2 DEF SeeHealthy
  <2>3. CASE SeeNotOpen(c)
    BY <2>3 DEF SeeNotOpen, HasTarget
  <2>4. CASE NoBackend(c)
    BY <2>4 DEF NoBackend
  <2>5. CASE Blocked(c) \/ Execute(c)
    BY <2>5 DEF Blocked, Execute, HasTarget
  <2>6. CASE RecordOutcome(c) \/ CloseClient(c)
    BY <2>6 DEF RecordOutcome, CloseClient
  <2>7. CASE DialFails(c) \/ CloseBackend(c)
    <3>1. AfterProxy \in {"after", "closeClient"}
      BY DEF AfterProxy
    <3>2. Goto(c, "dial", AfterProxy) \/ Goto(c, "closeBackend", AfterProxy)
      BY <2>7 DEF DialFails, CloseBackend
    <3>. QED BY <2>7, <3>1, <3>2 DEF DialFails, CloseBackend, HasTarget
  <2>8. CASE DialSucceeds(c)
    BY <2>8 DEF DialSucceeds, HasTarget
  <2>. QED BY <1>5, <2>1, <2>2, <2>3, <2>4, <2>5, <2>6, <2>7, <2>8
<1>. QED BY <1>1, <1>2, <1>3, <1>4, <1>5 DEF Next, Handler

(* Sets of handlers are finite and smaller than the width of a counter. *)
LEMMA HandlerSets ==
    /\ IsFiniteSet(Tracked)
    /\ Cardinality(Tracked) \in Nat
    /\ \A b \in Backends : /\ IsFiniteSet(Counted(b))
                           /\ Cardinality(Counted(b)) \in Nat
                           /\ Cardinality(Counted(b)) <= Cardinality(Conns)
<1>1. Tracked \in SUBSET Conns /\ \A b \in Backends : Counted(b) \in SUBSET Conns
  BY DEF Tracked, Counted
<1>. QED BY <1>1, FS_Subset, FS_CardinalityType, ConnsAssumption

(* The same, in the next state. *)
LEMMA HandlerSetsNext ==
    /\ IsFiniteSet(Tracked')
    /\ Cardinality(Tracked') \in Nat
    /\ \A b \in Backends : /\ IsFiniteSet(Counted(b)')
                           /\ Cardinality(Counted(b)') \in Nat
                           /\ Cardinality(Counted(b)') <= Cardinality(Conns)
<1>1. Tracked' \in SUBSET Conns /\ \A b \in Backends : Counted(b)' \in SUBSET Conns
  BY DEF Tracked, Counted
<1>. QED BY <1>1, FS_Subset, FS_CardinalityType, ConnsAssumption

(* Both counters stay exact over a step. *)
LEMMA AccountStep ==
    ASSUME TypeOK, TypeOK', AccountInv, [Next]_vars
    PROVE  AccountInv'
<1>. USE DEF AccountInv
<1>1. CASE QuietStep
  BY <1>1 DEF QuietStep, HasTarget, ConnectionsExact, WaitGroupExact, Counted, Tracked
<1>2. ASSUME NEW c \in Conns, LocalStep(c) PROVE AccountInv'
  <2>1. HasTarget'
    BY <1>2 DEF LocalStep, HasTarget, TypeOK
  <2>2. Tracked' = Tracked
    BY <1>2 DEF LocalStep, Tracked, TypeOK
  <2>3. \A b \in Backends : Counted(b)' = Counted(b)
    BY <1>2 DEF LocalStep, Counted, TypeOK
  <2>. QED BY <1>2, <2>1, <2>2, <2>3
           DEF LocalStep, ConnectionsExact, WaitGroupExact
<1>3. ASSUME NEW c \in Conns, Spawn(c) PROVE AccountInv'
  <2>. USE <1>3 DEF Spawn, Goto, connVars, poolVars
  <2>1. HasTarget'
    BY DEF HasTarget, TypeOK, Executing
  <2>2. Tracked' = Tracked \cup {c} /\ c \notin Tracked
    BY DEF Tracked, TypeOK, Handling, PreDial, Executing
  <2>3. \A b \in Backends : Counted(b)' = Counted(b)
    BY DEF Counted, TypeOK
  <2>4. WaitGroupExact'
    BY <2>2, HandlerSets, FS_AddElement DEF WaitGroupExact
  <2>. QED BY <2>1, <2>3, <2>4 DEF ConnectionsExact
<1>4. ASSUME NEW c \in Conns, Done(c) PROVE AccountInv'
  <2>. USE <1>4 DEF Done, Goto, connVars, poolVars
  <2>1. HasTarget'
    BY DEF HasTarget, TypeOK, Executing
  <2>2. Tracked' = Tracked \ {c} /\ c \in Tracked
    BY DEF Tracked, TypeOK, Handling, PreDial, Executing
  <2>3. \A b \in Backends : Counted(b)' = Counted(b)
    BY DEF Counted, TypeOK
  <2>4. WaitGroupExact'
    BY <2>2, HandlerSets, FS_RemoveElement DEF WaitGroupExact
  <2>. QED BY <2>1, <2>3, <2>4 DEF ConnectionsExact
<1>5. ASSUME NEW c \in Conns, StartCopying(c) PROVE AccountInv'
  <2>. USE <1>5 DEF StartCopying, Goto, serverVars
  <2>. DEFINE t == target[c]
  <2>0. t \in Backends
    BY DEF HasTarget, Executing
  <2>1. HasTarget'
    BY <2>0 DEF HasTarget, TypeOK
  <2>2. Tracked' = Tracked
    BY DEF Tracked, TypeOK, Handling, Executing
  <2>3. Counted(t)' = Counted(t) \cup {c} /\ c \notin Counted(t)
    BY DEF Counted, TypeOK
  <2>4. \A b \in Backends \ {t} : Counted(b)' = Counted(b)
    BY DEF Counted, TypeOK
  <2>5. Cardinality(Counted(t)') = Cardinality(Counted(t)) + 1
    BY <2>0, <2>3, HandlerSets, FS_AddElement
  <2>6. connections'[t] = connections[t] + 1
    <3>1. connections[t] \in Nat /\ connections[t] + 1 < UintMod
      <4>1. Cardinality(Counted(t)') <= Cardinality(Conns)
        BY <2>0, HandlerSetsNext
      <4>2. Cardinality(Conns) \in Nat
        BY FS_CardinalityType, ConnsAssumption
      <4>. QED BY <2>0, <2>5, <4>1, <4>2, HandlerSets, ConnsAssumption, PoolAssumption
               DEF ConnectionsExact
    <3>. QED BY <2>0, <3>1, ModInc, PoolAssumption
             DEF IncrementConnections, TypeOK, PoolTypeOK
  <2>7. \A b \in Backends \ {t} : connections'[b] = connections[b]
    BY DEF IncrementConnections, TypeOK, PoolTypeOK
  <2>. QED BY <2>0, <2>1, <2>2, <2>4, <2>5, <2>6, <2>7
           DEF ConnectionsExact, WaitGroupExact
<1>6. ASSUME NEW c \in Conns, StopCopying(c) PROVE AccountInv'
  <2>. USE <1>6 DEF StopCopying, Goto, serverVars, connVars
  <2>. DEFINE t == target[c]
  <2>0. t \in Backends
    BY DEF HasTarget, Executing
  <2>1. HasTarget'
    BY <2>0 DEF HasTarget, TypeOK
  <2>2. Tracked' = Tracked
    BY DEF Tracked, TypeOK, Handling, Executing
  <2>3. Counted(t)' = Counted(t) \ {c} /\ c \in Counted(t)
    BY DEF Counted, TypeOK
  <2>4. \A b \in Backends \ {t} : Counted(b)' = Counted(b)
    BY DEF Counted, TypeOK
  <2>5. Cardinality(Counted(t)') = Cardinality(Counted(t)) - 1
    BY <2>0, <2>3, HandlerSets, FS_RemoveElement
  <2>6. connections'[t] = connections[t] - 1
    <3>1. connections[t] \in Nat /\ 0 < connections[t] /\ connections[t] < UintMod
      <4>1. Cardinality(Counted(t)') \in Nat
        BY <2>0, HandlerSetsNext
      <4>. QED BY <2>0, <2>5, <4>1, HandlerSets, PoolAssumption
               DEF ConnectionsExact, TypeOK, PoolTypeOK
    <3>. QED BY <2>0, <3>1, ModDec, PoolAssumption
             DEF DecrementConnections, TypeOK, PoolTypeOK
  <2>7. \A b \in Backends \ {t} : connections'[b] = connections[b]
    BY DEF DecrementConnections, TypeOK, PoolTypeOK
  <2>. QED BY <2>0, <2>1, <2>2, <2>4, <2>5, <2>6, <2>7
           DEF ConnectionsExact, WaitGroupExact
<1>. QED BY StepKinds, <1>1, <1>2, <1>3, <1>4, <1>5, <1>6

(* Nothing is counted at the start. *)
LEMMA InitAccount == Init => AccountInv
<1>. SUFFICES ASSUME Init PROVE AccountInv  OBVIOUS
<1>1. Tracked = {} /\ \A b \in Backends : Counted(b) = {}
  BY DEF Init, Tracked, Counted, Handling, PreDial, Executing
<1>. QED BY <1>1, FS_EmptySet
         DEF Init, NewPool, AccountInv, HasTarget, ConnectionsExact,
             WaitGroupExact, Executing

(* For any number of clients and backends, the connection counter of a     *)
(* backend and the proxy's WaitGroup are exact: no path through            *)
(* handleTcpConnection and proxyTcp loses or repeats a decrement.          *)
THEOREM CountersExact == Spec => [](ConnectionsExact /\ WaitGroupExact)
<1>1. TypeOK /\ TypeOK' /\ AccountInv /\ [Next]_vars => AccountInv'
  BY AccountStep
<1>2. AccountInv => ConnectionsExact /\ WaitGroupExact
  BY DEF AccountInv
<1>. QED BY <1>1, <1>2, InitAccount, TypeCorrect, PTL DEF Spec

(* wg of the TCP proxy equals the number of handlers that have been spawned *)
(* and have not ended, so Wait neither returns early nor hangs on a lost    *)
(* Done.                                                                    *)
THEOREM WaitGroupCounts == Spec => []WaitGroupExact
BY CountersExact, PTL

-----------------------------------------------------------------------------
(* The breakers' slots. *)

\* Without breakers nothing is ever admitted, so the paths that skip
\* RecordOutcome leave no slot behind.
SlotInv ==
    /\ SlotsHeld
    /\ ~cbEnabled => \A b \in Backends : cb[b].admitted = {}
    /\ \A c \in Conns : pc[c] = "execute" => cbEnabled

\* What SlotsHeld says of one breaker.
SlotsOf(b) ==
    /\ cb[b].admitted \subseteq
          {c \in Conns : pc[c] \in Executing /\ target[c] = b}
    /\ cb[b].state = "half-open" => \A c, d \in cb[b].admitted : c = d
    /\ cb[b].state = "open" => cb[b].admitted = {}

(* A step that leaves the breakers alone and takes no admitted call out of *)
(* Execute keeps the slots.                                                *)
LEMMA SlotFrame ==
    ASSUME SlotInv, UNCHANGED <<cb, cbEnabled>>,
           \A b \in Backends : \A c \in cb[b].admitted :
              pc[c] \in Executing => pc'[c] \in Executing /\ target'[c] = target[c],
           \A c \in Conns : pc'[c] = "execute" => cbEnabled
    PROVE  SlotInv'
BY DEF SlotInv, SlotsHeld

(* The slots are kept over a step. *)
LEMMA SlotStep ==
    ASSUME TypeOK, HasTarget, SlotInv, [Next]_vars
    PROVE  SlotInv'
<1>. USE DEF poolVars, serverVars, connVars
<1>1. CASE QuietStep /\ UNCHANGED <<cb, cbEnabled>>
  BY <1>1, SlotFrame DEF QuietStep, SlotInv
<1>2. ASSUME NEW b \in Backends, TimeoutElapses(b) PROVE SlotInv'
  <2>1. cb'[b] = SetState("half-open") /\ \A a \in Backends \ {b} : cb'[a] = cb[a]
    BY <1>2 DEF TimeoutElapses, OpenTimeout, TypeOK, PoolTypeOK
  <2>2. UNCHANGED <<pc, target, cbEnabled>>
    BY <1>2 DEF TimeoutElapses, OpenTimeout
  <2>. QED BY <2>1, <2>2 DEF SlotInv, SlotsHeld, SetState
<1>3. ASSUME NEW c \in Conns, Execute(c) PROVE SlotInv'
  <2>. DEFINE t == target[c]
  <2>0. t \in Backends /\ cbEnabled
    BY <1>3 DEF Execute, Goto, HasTarget, SlotInv
  <2>1. /\ cb'[t] = BeforeRequest(cb[t], c)
        /\ \A a \in Backends \ {t} : cb'[a] = cb[a]
        /\ UNCHANGED <<target, cbEnabled>>
    BY <1>3, <2>0 DEF Execute, TypeOK, PoolTypeOK
  <2>2. /\ pc'[c] = "dial"
        /\ \A d \in Conns \ {c} : pc'[d] = pc[d]
    BY <1>3 DEF Execute, Goto, TypeOK
  <2>3. /\ cb'[t].admitted = cb[t].admitted \cup {c}
        /\ cb'[t].state = cb[t].state
        /\ cb[t].state # "open"
        /\ cb[t].state = "half-open" => cb[t].admitted = {}
    BY <1>3, <2>0, <2>1 DEF BeforeRequest, Execute, Rejects, TypeOK, PoolTypeOK, Breakers
  <2>4. \A b \in Backends : \A d \in cb[b].admitted :
           d \in Conns /\ pc'[d] \in Executing /\ target'[d] = b
    BY <2>1, <2>2 DEF SlotInv, SlotsHeld, Executing
  <2>5. SlotsOf(t)'
    BY <2>1, <2>2, <2>3, <2>4, <2>0 DEF SlotsOf, Executing
  <2>6. \A b \in Backends \ {t} : SlotsOf(b)'
    BY <2>1, <2>4 DEF SlotsOf, SlotInv, SlotsHeld
  <2>. QED BY <2>0, <2>1, <2>2, <2>5, <2>6 DEF SlotInv, SlotsHeld, SlotsOf
<1>4. ASSUME NEW c \in Conns, RecordOutcome(c) PROVE SlotInv'
  <2>. DEFINE t == target[c]
  <2>0. t \in Backends
    BY <1>4 DEF RecordOutcome, Goto, HasTarget, Executing
  <2>1. /\ cb'[t] = AfterRequest(cb[t], c, ~failed[c])
        /\ \A a \in Backends \ {t} : cb'[a] = cb[a]
        /\ UNCHANGED <<target, cbEnabled>>
    BY <1>4, <2>0 DEF RecordOutcome, TypeOK, PoolTypeOK
  <2>2. /\ pc'[c] = "closeClient"
        /\ \A d \in Conns \ {c} : pc'[d] = pc[d]
    BY <1>4 DEF RecordOutcome, Goto, TypeOK
  <2>3. /\ cb'[t].admitted \subseteq cb[t].admitted \ {c}
        /\ cb'[t].state = "half-open" => \A d, e \in cb'[t].admitted : d = e
        /\ cb'[t].state = "open" => cb'[t].admitted = {}
    <3>1. cb[t] \in Breakers /\ (~failed[c]) \in BOOLEAN
      BY <2>0 DEF TypeOK, PoolTypeOK
    <3>2. /\ cb[t].state = "half-open" => \A d, e \in cb[t].admitted : d = e
          /\ cb[t].state = "open" => cb[t].admitted = {}
      BY <2>0 DEF SlotInv, SlotsHeld
    <3>. DEFINE ok == ~failed[c]
                j == AfterRequest(cb[t], c, ok)
    <3>3. ok \in BOOLEAN  BY <3>1
    <3>4. cb'[t] = j  BY <2>1
    <3>. HIDE DEF ok
    <3>5. /\ j.admitted \subseteq cb[t].admitted \ {c}
          /\ j.state = "half-open" => \A d, e \in j.admitted : d = e
          /\ j.state = "open" => j.admitted = {} \/ cb[t].state = "open"
      BY <3>1, <3>2, <3>3, AfterRequestSlots
    <3>. HIDE DEF j
    <3>. QED BY <3>2, <3>4, <3>5
  <2>4. \A b \in Backends : \A d \in cb[b].admitted \ {c} :
           d \in Conns /\ pc'[d] \in Executing /\ target'[d] = b
    BY <2>1, <2>2 DEF SlotInv, SlotsHeld
  <2>5. \A b \in Backends \ {t} : c \notin cb[b].admitted
    BY DEF SlotInv, SlotsHeld
  <2>6. SlotsOf(t)'
    BY <2>0, <2>1, <2>3, <2>4 DEF SlotsOf
  <2>7. \A b \in Backends \ {t} : SlotsOf(b)'
    BY <2>1, <2>4, <2>5 DEF SlotsOf, SlotInv, SlotsHeld
  <2>8. ~cbEnabled' => \A b \in Backends : cb'[b].admitted = {}
    BY <2>1, <2>3, <2>0 DEF SlotInv
  <2>. QED BY <2>1, <2>2, <2>6, <2>7, <2>8 DEF SlotInv, SlotsHeld, SlotsOf
<1>5. ASSUME NEW c \in Conns,
             \/ Accept(c) \/ Spawn(c) \/ (\E b \in Backends : SeeHealthy(c, b))
             \/ NoBackend(c) \/ Blocked(c) \/ CloseClient(c) \/ Done(c)
             \/ DialSucceeds(c) \/ StartCopying(c) \/ StopCopying(c)
      PROVE  SlotInv'
  BY <1>5, SlotFrame
  DEF SlotInv, SlotsHeld, Accept, Spawn, SeeHealthy, NoBackend, Blocked, CloseClient,
      Done, DialSucceeds, StartCopying, StopCopying, Goto, TypeOK, Executing
<1>6. ASSUME NEW c \in Conns, SeeNotOpen(c) PROVE SlotInv'
  BY <1>6, SlotFrame DEF SlotInv, SeeNotOpen, Goto, TypeOK, Executing
<1>7. ASSUME NEW c \in Conns, DialFails(c) \/ CloseBackend(c) PROVE SlotInv'
  <2>1. \A b \in Backends : \A d \in cb[b].admitted : cbEnabled
    BY DEF SlotInv
  <2>2. UNCHANGED <<cb, cbEnabled, target>>
    BY <1>7 DEF DialFails, CloseBackend
  <2>3. /\ pc[c] # "execute" /\ AfterProxy \in {"after", "closeClient"}
        /\ pc' = [pc EXCEPT ![c] = AfterProxy]
        /\ cbEnabled => AfterProxy = "after"
    BY <1>7 DEF DialFails, CloseBackend, Goto, AfterProxy
  <2>. QED BY <2>1, <2>2, <2>3, SlotFrame DEF SlotInv, TypeOK, Executing
<1>8. ASSUME \/ Main \/ RunReturns \/ Terminated \/ UNCHANGED vars
             \/ \E b \in Backends : HealthChanges(b)
             \/ \E c \in Conns, e \in Ends :
                   Copier(c, e) \/ CopyRead(c, e) \/ PeerCloses(c, e)
      PROVE  QuietStep /\ UNCHANGED <<cb, cbEnabled>>
  BY <1>8 DEF Main, Shutdown, Wait, WaitReturns, RunReturns, Terminated, vars,
              HealthChanges, Copier, CopyRead, CopyWrite, CopyReturns, CopierExits,
              CopierStep, PeerCloses, QuietStep
<1>. QED BY <1>1, <1>2, <1>3, <1>4, <1>5, <1>6, <1>7, <1>8 DEF Next, Handler

(* For any number of clients, backends and failures, a breaker's half-open *)
(* slot is held only by a call that is running on that backend, and by at  *)
(* most one: no path of handleTcpConnection leaks it.                      *)
THEOREM SlotsAlwaysHeld == Spec => []SlotsHeld
<1>2. TypeOK /\ TypeOK' /\ AccountInv /\ [Next]_vars => AccountInv'
  BY AccountStep
<1>3. Init => SlotInv
  BY DEF Init, NewPool, SlotInv, SlotsHeld, NewCircuitBreaker, SetState
<1>4. TypeOK /\ AccountInv /\ SlotInv /\ [Next]_vars => SlotInv'
  BY SlotStep DEF AccountInv
<1>5. SlotInv => SlotsHeld
  BY DEF SlotInv
<1>. QED BY <1>2, <1>3, <1>4, <1>5, InitAccount, TypeCorrect, PTL DEF Spec

-----------------------------------------------------------------------------
(* The sockets, and the refinement of Drain. *)

\* The backend socket is open only while proxyTcp runs, the client socket is
\* closed before the handler leaves the WaitGroup.
SocketInv ==
    \A c \in Conns :
       /\ sock[c]["backend"] = "open" =>
             pc[c] \in {"connected", "copying", "closeBackend"}
       /\ pc[c] \in {"wgDone", "done"} => sock[c]["client"] # "open"

(* A socket is open after a step only if it was, or if the step opened it. *)
LEMMA SocketStep ==
    ASSUME TypeOK, SocketInv, [Next]_vars
    PROVE  SocketInv'
<1>. USE DEF poolVars, serverVars, connVars, SocketInv
<1>1. ASSUME UNCHANGED <<pc, sock>> PROVE SocketInv'
  BY <1>1
<1>2. ASSUME NEW c \in Conns, NEW e \in Ends, CopierExits(c, e) PROVE SocketInv'
  <2>1. UNCHANGED pc
    BY <1>2 DEF CopierExits, CopierStep
  <2>2. \A d \in Conns, f \in Ends :
           sock'[d][f] = sock[d][f] \/ sock'[d][f] = "closed"
    BY <1>2 DEF CopierExits, TypeOK
  <2>. QED BY <2>1, <2>2 DEF Ends
<1>3. ASSUME NEW c \in Conns, Accept(c) PROVE SocketInv'
  BY <1>3 DEF Accept, Goto, TypeOK, Ends
<1>4. ASSUME NEW c \in Conns, CloseClient(c) PROVE SocketInv'
  BY <1>4 DEF CloseClient, Goto, TypeOK, Ends
<1>5. ASSUME NEW c \in Conns, CloseBackend(c) PROVE SocketInv'
  BY <1>5 DEF CloseBackend, Goto, TypeOK, Ends, AfterProxy
<1>6. ASSUME NEW c \in Conns, DialSucceeds(c) PROVE SocketInv'
  BY <1>6 DEF DialSucceeds, Goto, TypeOK, Ends
<1>7. ASSUME NEW c \in Conns,
             \/ Spawn(c) \/ (\E b \in Backends : SeeHealthy(c, b))
             \/ SeeNotOpen(c) \/ NoBackend(c) \/ Blocked(c) \/ Execute(c)
             \/ RecordOutcome(c) \/ Done(c) \/ DialFails(c)
             \/ StartCopying(c) \/ StopCopying(c)
      PROVE  SocketInv'
  <2>1. UNCHANGED sock
    BY <1>7 DEF Spawn, SeeHealthy, SeeNotOpen, NoBackend, Blocked, Execute,
                RecordOutcome, Done, DialFails, StartCopying, StopCopying
  <2>2. \A d \in Conns \ {c} : pc'[d] = pc[d]
    BY <1>7 DEF Spawn, SeeHealthy, SeeNotOpen, NoBackend, Blocked, Execute,
                RecordOutcome, Done, DialFails, StartCopying, StopCopying, Goto, TypeOK
  <2>3. /\ pc[c] \in {"connected", "copying", "closeBackend"} =>
              pc'[c] \in {"connected", "copying", "closeBackend"}
        /\ pc'[c] \in {"wgDone", "done"} => pc[c] \in {"wgDone", "done"}
    BY <1>7 DEF Spawn, SeeHealthy, SeeNotOpen, NoBackend, Blocked, Execute,
                RecordOutcome, Done, DialFails, StartCopying, StopCopying, Goto, TypeOK,
                AfterProxy
  <2>. QED BY <2>1, <2>2, <2>3
<1>8. ASSUME \/ Main \/ RunReturns \/ Terminated \/ UNCHANGED vars
             \/ \E b \in Backends : HealthChanges(b) \/ TimeoutElapses(b)
             \/ \E c \in Conns, e \in Ends :
                   \/ CopyWrite(c, e) \/ CopyReturns(c, e) \/ CopyRead(c, e)
                   \/ PeerCloses(c, e)
      PROVE  UNCHANGED <<pc, sock>>
  BY <1>8 DEF Main, Shutdown, Wait, WaitReturns, RunReturns, Terminated, vars,
              HealthChanges, TimeoutElapses, CopyRead, CopyWrite, CopyReturns,
              CopierStep, PeerCloses
<1>. QED BY <1>1, <1>2, <1>3, <1>4, <1>5, <1>6, <1>7, <1>8 DEF Next, Handler, Copier

(* A handler that has ended has closed both sockets, on every path. *)
THEOREM SocketsClosed == Spec => []NoSocketLeak
<1>1. Init => SocketInv
  BY DEF Init, SocketInv, Ends
<1>2. TypeOK /\ SocketInv /\ [Next]_vars => SocketInv'
  BY SocketStep
<1>3. SocketInv => NoSocketLeak
  BY DEF SocketInv, NoSocketLeak, Ends
<1>. QED BY <1>1, <1>2, <1>3, TypeCorrect, PTL DEF Spec

(* A connection is open for Drain exactly while the WaitGroup counts it. *)
LEMMA PhaseByPC ==
    ASSUME NoSocketLeak, NEW c \in Conns
    PROVE  Phase(c) = IF pc[c] \in {"none", "accepted"} THEN "new"
                      ELSE IF pc[c] = "done" THEN "closed" ELSE "open"
BY DEF Phase, NoSocketLeak

(* The same, in the next state. *)
LEMMA PhaseByPCNext ==
    ASSUME NoSocketLeak', NEW c \in Conns
    PROVE  Phase(c)' = IF pc'[c] \in {"none", "accepted"} THEN "new"
                       ELSE IF pc'[c] = "done" THEN "closed" ELSE "open"
BY DEF Phase, NoSocketLeak

(* A step that moves no connection into or out of the tracked points is    *)
(* invisible to Drain.                                                     *)
LEMMA PhaseStutter ==
    ASSUME NoSocketLeak, NoSocketLeak', NEW d \in Conns,
           pc'[d] \in {"none", "accepted"} <=> pc[d] \in {"none", "accepted"},
           pc'[d] = "done" <=> pc[d] = "done"
    PROVE  Phase(d)' = Phase(d)
<1>1. Phase(d) = IF pc[d] \in {"none", "accepted"} THEN "new"
                 ELSE IF pc[d] = "done" THEN "closed" ELSE "open"
  BY PhaseByPC
<1>2. Phase(d)' = IF pc'[d] \in {"none", "accepted"} THEN "new"
                  ELSE IF pc'[d] = "done" THEN "closed" ELSE "open"
  BY PhaseByPCNext
<1>3. (pc[d] \in {"none", "accepted"}) = (pc'[d] \in {"none", "accepted"})
  OBVIOUS
<1>. QED BY <1>1, <1>2, <1>3

(* Wait returns only when no connection is open. *)
LEMMA WaitDrains ==
    ASSUME TypeOK, AccountInv, NoSocketLeak, NoSocketLeak', Main, UNCHANGED pc
    PROVE  D!Drained \/ UNCHANGED D!vars
<1>. DEFINE ph == [c \in Conns |-> Phase(c)]
<1>1. ph' = ph
  BY PhaseByPC, PhaseByPCNext
<1>2. CASE main' = "waited" /\ main # "waited"
  <2>1. wg = 0
    BY <1>2 DEF Main, Shutdown, Wait, WaitReturns
  <2>2. Tracked = {}
    BY <2>1, HandlerSets, FS_EmptySet DEF AccountInv, WaitGroupExact
  <2>3. \A c \in Conns : ph[c] # "open"
    BY <2>2, PhaseByPC DEF Tracked, TypeOK, PCs
  <2>. QED BY <1>1, <1>2, <2>3 DEF D!Drained
<1>3. CASE main' = "waited" <=> main = "waited"
  BY <1>1, <1>3 DEF D!vars
<1>4. main = "waited" => main' = "waited"
  BY DEF Main, Shutdown, Wait, WaitReturns
<1>. QED BY <1>2, <1>3, <1>4

(* The proxy implements Drain: whatever the interleaving, Wait returns     *)
(* only when every connection added to the WaitGroup has ended and its     *)
(* sockets are closed, and a connection is opened and closed once.         *)
THEOREM TcpImplementsDrain == Spec => ImplementsDrain
<1>1. Init => D!Init
  BY DEF Init, D!Init, Phase
<1>2. ASSUME TypeOK, AccountInv, NoSocketLeak, NoSocketLeak', [Next]_vars
      PROVE  [D!Next]_(D!vars)
  <2>. DEFINE ph == [c \in Conns |-> Phase(c)]
  <2>1. CASE QuietStep /\ Main
    BY <1>2, <2>1, WaitDrains DEF QuietStep, D!Next
  <2>2. CASE QuietStep /\ UNCHANGED main
    <3>1. ph' = ph
      BY <1>2, <2>2, PhaseByPC, PhaseByPCNext DEF QuietStep
    <3>. QED BY <2>2, <3>1 DEF D!vars
  <2>3. ASSUME NEW c \in Conns, LocalStep(c) PROVE UNCHANGED D!vars
    <3>1. \A d \in Conns :
             /\ pc'[d] \in {"none", "accepted"} <=> pc[d] \in {"none", "accepted"}
             /\ pc'[d] = "done" <=> pc[d] = "done"
      <4>1. PICK q \in PCs : /\ pc' = [pc EXCEPT ![c] = q]
                             /\ q \in Handling <=> pc[c] \in Handling
                             /\ q = "done" <=> pc[c] = "done"
        BY <2>3 DEF LocalStep
      <4>2. \A p \in PCs : p \in {"none", "accepted"} <=> p \notin Handling /\ p # "done"
        BY DEF PCs, Handling, PreDial, Executing
      <4>. QED BY <1>2, <4>1, <4>2 DEF TypeOK
    <3>2. \A d \in Conns : Phase(d)' = Phase(d)
      BY <1>2, <3>1, PhaseStutter
    <3>3. ph' = ph
      BY <3>2
    <3>. QED BY <2>3, <3>3 DEF D!vars, LocalStep
  <2>4. ASSUME NEW c \in Conns, StartCopying(c) \/ StopCopying(c)
        PROVE  UNCHANGED D!vars
    <3>1. \A d \in Conns :
             /\ pc'[d] \in {"none", "accepted"} <=> pc[d] \in {"none", "accepted"}
             /\ pc'[d] = "done" <=> pc[d] = "done"
      BY <1>2, <2>4 DEF StartCopying, StopCopying, Goto, TypeOK
    <3>2. \A d \in Conns : Phase(d)' = Phase(d)
      BY <1>2, <3>1, PhaseStutter
    <3>3. ph' = ph
      BY <3>2
    <3>. QED BY <2>4, <3>3 DEF D!vars, StartCopying, StopCopying, serverVars
  <2>5. ASSUME NEW c \in Conns, Spawn(c) PROVE D!Open(c)
    <3>1. /\ ph[c] = "new" /\ ph'[c] = "open"
          /\ \A d \in Conns \ {c} : ph'[d] = ph[d]
      BY <1>2, <2>5, PhaseByPC, PhaseByPCNext DEF Spawn, Goto, TypeOK
    <3>2. ph' = [ph EXCEPT ![c] = "open"]
      BY <3>1
    <3>. QED BY <2>5, <3>1, <3>2 DEF D!Open, Spawn
  <2>6. ASSUME NEW c \in Conns, Done(c) PROVE D!Close(c)
    <3>1. /\ ph[c] = "open" /\ ph'[c] = "closed"
          /\ \A d \in Conns \ {c} : ph'[d] = ph[d]
      BY <1>2, <2>6, PhaseByPC, PhaseByPCNext DEF Done, Goto, TypeOK
    <3>2. ph' = [ph EXCEPT ![c] = "closed"]
      BY <3>1
    <3>3. main' = "waited" <=> main = "waited"
      BY <2>6 DEF Done
    <3>. QED BY <3>1, <3>2, <3>3 DEF D!Close
  <2>. QED BY <1>2, <2>1, <2>2, <2>3, <2>4, <2>5, <2>6, StepKinds
           DEF AccountInv, QuietStep, D!Next
<1>3. TypeOK /\ TypeOK' /\ AccountInv /\ [Next]_vars => AccountInv'
  BY AccountStep
<1>. QED BY <1>1, <1>2, <1>3, InitAccount, TypeCorrect, SocketsClosed, PTL
         DEF Spec, ImplementsDrain, D!Spec
=============================================================================
