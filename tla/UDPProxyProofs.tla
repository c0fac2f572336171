--------------------------- MODULE UDPProxyProofs ---------------------------
(***************************************************************************)
(* Theorems about UDPProxy for any set of packets, clients and backends    *)
(* and any breaker threshold.                                              *)
(***************************************************************************)
EXTENDS UDPProxy, BackendPoolProofs, FiniteSetTheorems, TLAPS

-----------------------------------------------------------------------------
(* Type correctness. *)

\* The steps of a reader between starting to read and leaving the loop.
Reads(f) == DeadlinePasses(f) \/ CheckSession(f) \/ ReadClosed(f) \/ ReadRefused(f)

ReadStep(f) ==
    \E from \in {"read", "check"}, to \in {"read", "check", "decrement"} :
       ReaderStep(f, from, to)

(* Such a step moves the reader within its loop or out of it, and touches  *)
(* neither a counter nor a connection.                                     *)
LEMMA ReadsEffect ==
    ASSUME NEW f \in Packets, Reads(f)
    PROVE  ReadStep(f) /\ UNCHANGED <<connections, wg, main, conn>>
<1>1. UNCHANGED <<connections, wg, main, conn>>
  BY DEF Reads, DeadlinePasses, CheckSession, ReadClosed, ReadRefused
<1>2. CASE CheckSession(f)
  <2>1. CASE Found(ClientOf[f])
    BY <1>2, <2>1 DEF CheckSession, ReadStep
  <2>2. CASE ~Found(ClientOf[f])
    BY <1>2, <2>2 DEF CheckSession, ReadStep
  <2>. QED BY <2>1, <2>2, <1>1
<1>3. CASE DeadlinePasses(f) \/ ReadClosed(f) \/ ReadRefused(f)
  BY <1>3, <1>1 DEF DeadlinePasses, ReadClosed, ReadRefused, ReadStep
<1>. QED BY <1>2, <1>3 DEF Reads

\* Only an entry expires.
SessionOK == \A c \in Clients : session[c].expired => session[c].flow # none

(* What the handlers of a step that writes are doing afterwards. *)
LEMMA WriteEffect ==
    ASSUME TypeOK, NEW k \in Packets, NEW f, NEW from, NEW to,
           WriteAndGoto(k, f, from, to)
    PROVE  /\ pc[k] = from
           /\ pc'[k] = to
           /\ \A j \in Packets \ {k} : pc'[j] = pc[j] \/ (pc[j] = "unsent" /\ pc'[j] = "get")
           /\ DOMAIN pc' = Packets /\ pc' = [j \in Packets |-> pc'[j]]
BY DEF WriteAndGoto, TypeOK

(* The step keeps the type of what it writes. *)
LEMMA WriteType ==
    ASSUME TypeOK, NEW k \in Packets, NEW f, NEW from, NEW to \in HandlerPCs,
           WriteAndGoto(k, f, from, to)
    PROVE  /\ pc' \in [Packets -> HandlerPCs]
           /\ buffer' \in Packets \cup {none}
           /\ wrote' \in [Packets -> Packets \cup {none, "torn", "error"}]
<1>1. pc' \in [Packets -> HandlerPCs]
  BY DEF WriteAndGoto, TypeOK, HandlerPCs
<1>2. CASE /\ wrote' = [wrote EXCEPT ![k] = IF conn[f] = "open" THEN buffer ELSE "error"]
           /\ UNCHANGED buffer
  BY <1>1, <1>2 DEF TypeOK
<1>3. ASSUME NEW j \in Packets,
             wrote' = [wrote EXCEPT ![k] = "torn"], buffer' = j
      PROVE  /\ buffer' \in Packets \cup {none}
             /\ wrote' \in [Packets -> Packets \cup {none, "torn", "error"}]
  BY <1>3 DEF TypeOK
<1>. QED BY <1>1, <1>2, <1>3 DEF WriteAndGoto, Write

(* Every variable keeps its type; the janitor hands only flows to          *)
(* OnEvicted.                                                              *)
THEOREM TypeCorrect == Spec => []TypeOK
<1>1. Init => TypeOK /\ SessionOK
  <2>. SUFFICES ASSUME Init PROVE TypeOK /\ SessionOK  OBVIOUS
  <2>1. PoolTypeOK
    BY SetStateType, PoolAssumption DEF Init, PoolTypeOK, NewCircuitBreaker, CBStates
  <2>2. NoSession \in [flow : Packets \cup {none}, expired : BOOLEAN]
    BY DEF NoSession
  <2>3. SessionOK
    BY DEF Init, SessionOK, NoSession
  <2>4. session \in [Clients -> [flow : Packets \cup {none}, expired : BOOLEAN]]
    BY <2>2 DEF Init
  <2>5. /\ pc \in [Packets -> HandlerPCs] /\ reader \in [Packets -> ReaderPCs]
        /\ main \in MainStates
    BY DEF Init, HandlerPCs, ReaderPCs, MainStates
  <2>6. /\ flow \in [Packets -> Packets \cup {none}]
        /\ target \in [Packets -> Backends \cup {nil}]
        /\ wrote \in [Packets -> Packets \cup {none, "torn", "error"}]
    BY DEF Init
  <2>7. /\ run \in {"starting", "reading", "returned"} /\ stopped \in BOOLEAN
        /\ buffer \in Packets \cup {none} /\ evicted \subseteq Packets
    BY Zenon DEF Init
  <2>9. wg \in Int
    BY DEF Init
  <2>8. failed \in [Packets -> BOOLEAN] /\ conn \in [Packets -> {"none", "open", "closed"}]
    BY DEF Init
  <2>. QED BY <2>1, <2>3, <2>4, <2>5, <2>6, <2>7, <2>8, <2>9 DEF TypeOK
<1>2. TypeOK /\ SessionOK /\ [Next]_vars => TypeOK' /\ SessionOK'
  <2>. SUFFICES ASSUME TypeOK, SessionOK, [Next]_vars PROVE TypeOK' /\ SessionOK'  OBVIOUS
  <2>. USE DEF TypeOK, PoolTypeOK, Goto, poolVars, runVars, handlerVars, HandlerPCs, ReaderPCs,
               MainStates
  <2>p. AfterProxy \in HandlerPCs
    BY DEF AfterProxy
  <2>0. CASE Flush
    <3>1. NoSession \in [flow : Packets \cup {none}, expired : BOOLEAN] /\ ~NoSession.expired
      BY DEF NoSession
    <3>. QED BY <2>0, <3>1 DEF Flush, SessionOK
  <2>1. CASE Shutdown \/ Wait \/ WaitReturns
    BY <2>1 DEF Shutdown, Wait, WaitReturns, SessionOK
  <2>2. CASE RunStarts \/ RunReturns \/ ReadError
    BY <2>2 DEF RunStarts, RunReturns, ReadError, WGDone, SessionOK
  <2>3. ASSUME NEW k \in Packets, Receive(k) PROVE TypeOK' /\ SessionOK'
    BY <2>3 DEF Receive, SessionOK
  <2>4. ASSUME NEW k \in Packets, Get(k) PROVE TypeOK' /\ SessionOK'
    <3>1. ClientOf[k] \in Clients
      BY UDPAssumption
    <3>2. flow' \in [Packets -> Packets \cup {none}]
      BY <2>4, <3>1 DEF Get
    <3>. QED BY <2>4, <3>2 DEF Get, SessionOK
  <2>5. ASSUME NEW k \in Packets, ForwardHit(k) PROVE TypeOK' /\ SessionOK'
    <3>1. /\ pc' \in [Packets -> HandlerPCs]
          /\ buffer' \in Packets \cup {none}
          /\ wrote' \in [Packets -> Packets \cup {none, "torn", "error"}]
      BY <2>5, WriteType DEF ForwardHit
    <3>. QED BY <2>5, <3>1 DEF ForwardHit, SessionOK
  <2>6. ASSUME NEW k \in Packets, NEW f \in Packets \cup {none}, SetSession(ClientOf[k], f)
        PROVE  /\ session' \in [Clients -> [flow : Packets \cup {none}, expired : BOOLEAN]]
               /\ SessionOK'
    BY <2>6 DEF SetSession, SessionOK
  <2>7. ASSUME NEW k \in Packets, Refresh(k) PROVE TypeOK' /\ SessionOK'
    BY <2>6, <2>7 DEF Refresh
  <2>8. ASSUME NEW k \in Packets, AddSession(k) PROVE TypeOK' /\ SessionOK'
    BY <2>6, <2>8 DEF AddSession
  <2>9. ASSUME NEW k \in Packets, NEW b \in Backends, Pick(k, b) PROVE TypeOK' /\ SessionOK'
    BY <2>9 DEF Pick, SessionOK
  <2>10. ASSUME NEW k \in Packets, NoBackend(k) \/ Blocked(k) PROVE TypeOK' /\ SessionOK'
    BY <2>10 DEF NoBackend, Blocked, SessionOK
  <2>11. ASSUME NEW k \in Packets, Execute(k) PROVE TypeOK' /\ SessionOK'
    <3>1. cb' \in [Backends -> Breakers]
      BY <2>11, BeforeRequestType, UDPAssumption DEF Execute
    <3>. QED BY <2>11, <3>1 DEF Execute, SessionOK
  <2>12. ASSUME NEW k \in Packets, RecordOutcome(k) PROVE TypeOK' /\ SessionOK'
    <3>1. cb' \in [Backends -> Breakers]
      BY <2>12, AfterRequestType, UDPAssumption DEF RecordOutcome
    <3>. QED BY <2>12, <3>1 DEF RecordOutcome, SessionOK
  <2>13. ASSUME NEW k \in Packets, DialFails(k) PROVE TypeOK' /\ SessionOK'
    BY <2>13, <2>p DEF DialFails, SessionOK
  <2>14. ASSUME NEW k \in Packets, DialSucceeds(k) \/ StartReader(k) PROVE TypeOK' /\ SessionOK'
    BY <2>14 DEF DialSucceeds, StartReader, SessionOK
  <2>15. ASSUME NEW k \in Packets, CountFlow(k) PROVE TypeOK' /\ SessionOK'
    <3>1. connections' \in [Backends -> 0..(UintMod - 1)]
      BY <2>15, CounterType DEF CountFlow
    <3>. QED BY <2>15, <3>1 DEF CountFlow, SessionOK
  <2>16. ASSUME NEW k \in Packets, WriteFirst(k) PROVE TypeOK' /\ SessionOK'
    <3>1. /\ pc' \in [Packets -> HandlerPCs]
          /\ buffer' \in Packets \cup {none}
          /\ wrote' \in [Packets -> Packets \cup {none, "torn", "error"}]
      BY <2>16, <2>p, WriteType DEF WriteFirst
    <3>2. failed' \in [Packets -> BOOLEAN]
      BY <2>16 DEF WriteFirst
    <3>. QED BY <2>16, <3>1, <3>2 DEF WriteFirst, SessionOK
  <2>17. ASSUME NEW f \in Packets, FindBackend(f) \/ Reads(f)
         PROVE  TypeOK' /\ SessionOK'
    BY <2>17, ReadsEffect DEF FindBackend, ReadStep, ReaderStep, SessionOK
  <2>18. ASSUME NEW f \in Packets, UncountFlow(f) PROVE TypeOK' /\ SessionOK'
    <3>1. connections' \in [Backends -> 0..(UintMod - 1)]
      BY <2>18, CounterType DEF UncountFlow
    <3>. QED BY <2>18, <3>1 DEF UncountFlow, ReaderStep, SessionOK
  <2>19. ASSUME NEW f \in Packets, CloseConn(f) \/ ReaderDone(f) PROVE TypeOK' /\ SessionOK'
    BY <2>19 DEF CloseConn, ReaderDone, ReaderStep, WGDone, SessionOK
  <2>20. ASSUME NEW f \in Packets, OnEvicted(f) PROVE TypeOK' /\ SessionOK'
    BY <2>20 DEF OnEvicted, SessionOK
  <2>21. ASSUME NEW c \in Clients, Expire(c) \/ JanitorDeletes(c) PROVE TypeOK' /\ SessionOK'
    <3>1. CASE Expire(c)
      <4>1. session' = [session EXCEPT ![c].expired = TRUE] /\ session[c].flow # none
        BY <3>1 DEF Expire, Found
      <4>2. session' \in [Clients -> [flow : Packets \cup {none}, expired : BOOLEAN]]
        BY <4>1
      <4>3. /\ session'[c].flow = session[c].flow
            /\ \A d \in Clients \ {c} : session'[d] = session[d]
        BY <4>1
      <4>4. SessionOK'
        BY <4>1, <4>3 DEF SessionOK
      <4>. QED BY <3>1, <4>2, <4>4 DEF Expire
    <3>2. CASE JanitorDeletes(c)
      <4>1. session[c].flow \in Packets
        BY <3>2 DEF JanitorDeletes, SessionOK
      <4>2. NoSession \in [flow : Packets \cup {none}, expired : BOOLEAN] /\ ~NoSession.expired
        BY DEF NoSession
      <4>3. /\ session' \in [Clients -> [flow : Packets \cup {none}, expired : BOOLEAN]]
            /\ SessionOK'
        BY <3>2, <4>2 DEF JanitorDeletes, SessionOK
      <4>. QED BY <3>2, <4>1, <4>3 DEF JanitorDeletes
    <3>. QED BY <2>21, <3>1, <3>2
  <2>22. ASSUME NEW b \in Backends, TimeoutElapses(b) PROVE TypeOK' /\ SessionOK'
    BY <2>22, SetStateType DEF TimeoutElapses, OpenTimeout, CBStates, SessionOK
  <2>23. CASE Terminated \/ UNCHANGED vars
    BY <2>23 DEF Terminated, vars, SessionOK
  <2>. QED BY <2>0, <2>1, <2>2, <2>3, <2>4, <2>5, <2>7, <2>8, <2>9, <2>10, <2>11, <2>12, <2>13,
              <2>14, <2>15, <2>16, <2>17, <2>18, <2>19, <2>20, <2>21, <2>22, <2>23
           DEF Next, Main, Handler, Reader, Reads
<1>. QED BY <1>1, <1>2, PTL DEF Spec

-----------------------------------------------------------------------------
(* The life of a flow: dialled by its handler, then read by its reader,    *)
(* put into the cache, counted.                                            *)

\* Points of a handler after it has started a reader, and after it has set the
\* session.  A handler that found a session, or failed, is at the end too.
Past  == {"set", "increment", "first", "after", "done"}
Begun == {"increment", "first", "after", "done"}

\* What handler, reader and connection of one flow know of each other.
FlowOf(k) ==
    /\ reader[k] # "none" => flow[k] = k /\ pc[k] \in Past
    /\ flow[k] = k => /\ pc[k] \in {"listen"} \cup Past
                      /\ pc[k] # "listen" => reader[k] # "none"
                      /\ target[k] \in Backends
    /\ pc[k] \in {"listen", "set", "increment", "first"} => flow[k] = k
    /\ pc[k] \in {"execute", "dial", "after"} => target[k] \in Backends

\* A connection is open only between the dial and the end of its reader.
ConnOf(k) ==
    /\ reader[k] \in {"wgDone", "done"} => conn[k] = "closed"
    /\ conn[k] = "open" /\ reader[k] = "none" => pc[k] = "listen"

\* A session, or a handler that found one, names a flow whose handler is past Set.
SessionsBegun ==
    /\ \A c \in Clients : session[c].flow # none => pc[session[c].flow] \in Begun
    /\ \A k \in Packets : pc[k] \in {"hit", "refresh"} /\ flow[k] # none =>
                            pc[flow[k]] \in Begun

FlowInv == SessionsBegun /\ \A k \in Packets : FlowOf(k) /\ ConnOf(k)

\* A step changes the state of no flow but k, except that the janitor may close a
\* connection and Run may start the handler of a packet.
OnlyFlow(k) ==
    \A j \in Packets \ {k} :
       /\ flow'[j] = flow[j] /\ target'[j] = target[j] /\ reader'[j] = reader[j]
       /\ conn'[j] \in {conn[j], "closed"}
       /\ pc'[j] = pc[j] \/ (pc[j] = "unsent" /\ pc'[j] = "get")

\* No step takes a handler back.
Forward == \A j \in Packets : pc[j] \in Begun => pc'[j] \in Begun

(* A step about one flow leaves the others right. *)
LEMMA OtherFlows ==
    ASSUME FlowInv, NEW k \in Packets, OnlyFlow(k), FlowOf(k)', ConnOf(k)'
    PROVE  \A j \in Packets : FlowOf(j)' /\ ConnOf(j)'
<1>1. ASSUME NEW j \in Packets, j # k PROVE FlowOf(j)' /\ ConnOf(j)'
  <2>1. FlowOf(j) /\ ConnOf(j)
    BY DEF FlowInv
  <2>2. CASE pc'[j] = pc[j]
    BY <1>1, <2>1, <2>2 DEF OnlyFlow, FlowOf, ConnOf
  <2>3. CASE pc[j] = "unsent" /\ pc'[j] = "get"
    BY <1>1, <2>1, <2>3 DEF OnlyFlow, FlowOf, ConnOf, Past
  <2>. QED BY <1>1, <2>2, <2>3 DEF OnlyFlow
<1>. QED BY <1>1

(* A step that sets no session and finds none keeps the sessions right. *)
LEMMA SessionsKept ==
    ASSUME TypeOK, SessionsBegun, Forward,
           \A c \in Clients : session'[c].flow \in {session[c].flow, none},
           \A k \in Packets : pc'[k] \in {"hit", "refresh"} =>
                               pc[k] \in {"hit", "refresh"} /\ flow'[k] = flow[k]
    PROVE  SessionsBegun'
BY DEF SessionsBegun, Forward, TypeOK

(* The same for a step that leaves the cache alone. *)
LEMMA SessionsUntouched ==
    ASSUME TypeOK, SessionsBegun, Forward, UNCHANGED session,
           \A k \in Packets : pc'[k] \in {"hit", "refresh"} =>
                               pc[k] \in {"hit", "refresh"} /\ flow'[k] = flow[k]
    PROVE  SessionsBegun'
BY SessionsKept

(* A handler's step from a point to the next, for a handler that is not    *)
(* setting or finding a session.                                           *)
LEMMA HandlerMoves ==
    ASSUME TypeOK, FlowInv, NEW k \in Packets, NEW from, NEW to,
           from \notin {"hit", "refresh"}, to \notin {"hit", "refresh"},
           from \in Begun => to \in Begun,
           Goto(k, from, to), UNCHANGED session,
           \A j \in Packets \ {k} :
              /\ flow'[j] = flow[j] /\ target'[j] = target[j]
              /\ reader'[j] = reader[j] /\ conn'[j] = conn[j],
           FlowOf(k)', ConnOf(k)'
    PROVE  FlowInv'
<1>1. pc[k] = from /\ pc'[k] = to /\ \A j \in Packets \ {k} : pc'[j] = pc[j]
  BY DEF Goto, TypeOK
<1>2. \A j \in Packets : FlowOf(j)' /\ ConnOf(j)'
  BY <1>1, OtherFlows DEF OnlyFlow
<1>3. Forward
  BY <1>1 DEF Forward
<1>4. SessionsBegun'
  BY <1>1, <1>3, SessionsUntouched DEF FlowInv
<1>. QED BY <1>2, <1>4 DEF FlowInv

(* A step of a reader, other than the one that starts it. *)
LEMMA ReaderMoves ==
    ASSUME TypeOK, FlowInv, NEW f \in Packets, NEW from, NEW to \in ReaderPCs \ {"none"},
           from # "none", ReaderStep(f, from, to),
           \A j \in Packets \ {f} : conn'[j] = conn[j], ConnOf(f)'
    PROVE  FlowInv'
<1>1. /\ UNCHANGED <<pc, flow, target, session>>
      /\ reader[f] = from /\ reader'[f] = to
      /\ \A j \in Packets \ {f} : reader'[j] = reader[j]
  BY DEF ReaderStep, handlerVars, TypeOK
<1>2. FlowOf(f)'
  BY <1>1 DEF FlowInv, FlowOf
<1>3. \A j \in Packets : FlowOf(j)' /\ ConnOf(j)'
  BY <1>1, <1>2, OtherFlows DEF OnlyFlow
<1>4. SessionsBegun'
  BY <1>1, SessionsUntouched DEF FlowInv, Forward
<1>. QED BY <1>3, <1>4 DEF FlowInv

(* The flows stay right over a step. *)
LEMMA FlowStep ==
    ASSUME TypeOK, FlowInv, [Next]_vars
    PROVE  FlowInv'
<1>. USE DEF poolVars, runVars, handlerVars
<1>0. AfterProxy \in {"after", "done"} /\ AfterProxy \in Begun
  BY DEF AfterProxy, Begun
<1>a. ASSUME UNCHANGED <<pc, flow, target, reader>>,
             \A j \in Packets : conn'[j] \in {conn[j], "closed"},
             \A c \in Clients : session'[c].flow \in {session[c].flow, none}
      PROVE  FlowInv'
  <2>1. \A j \in Packets : FlowOf(j)' /\ ConnOf(j)'
    BY <1>a DEF FlowInv, FlowOf, ConnOf
  <2>2. SessionsBegun'
    BY <1>a, SessionsKept DEF FlowInv, Forward
  <2>. QED BY <2>1, <2>2 DEF FlowInv
<1>1. CASE Shutdown \/ Wait \/ WaitReturns \/ RunStarts \/ RunReturns \/ ReadError
  BY <1>1, <1>a DEF Shutdown, Wait, WaitReturns, RunStarts, RunReturns, ReadError
<1>2. CASE Flush
  BY <1>2, <1>a DEF Flush, NoSession
<1>3. ASSUME NEW k \in Packets, Receive(k) PROVE FlowInv'
  <2>1. /\ UNCHANGED <<session, flow, target, reader, conn>>
        /\ Goto(k, "unsent", "get")
    BY <1>3 DEF Receive
  <2>2. FlowOf(k)' /\ ConnOf(k)'
    BY <2>1 DEF FlowInv, FlowOf, ConnOf, Goto, TypeOK, Past
  <2>. QED BY <2>1, <2>2, HandlerMoves DEF Begun
<1>4. ASSUME NEW k \in Packets, Get(k) PROVE FlowInv'
  <2>. DEFINE c == ClientOf[k]
  <2>0. c \in Clients
    BY UDPAssumption
  <2>1. /\ UNCHANGED <<session, target, reader, conn>>
        /\ pc[k] = "get" /\ pc'[k] \in {"hit", "pick"}
        /\ flow'[k] \in {session[c].flow, none}
        /\ \A j \in Packets \ {k} : pc'[j] = pc[j] /\ flow'[j] = flow[j]
    BY <1>4 DEF Get, Goto, TypeOK
  <2>2. session[c].flow # none => pc[session[c].flow] \in Begun
    BY <2>0 DEF FlowInv, SessionsBegun
  <2>3. flow'[k] # k
    BY <2>1, <2>2, UDPAssumption DEF Begun
  <2>4. FlowOf(k)' /\ ConnOf(k)'
    BY <2>1, <2>3 DEF FlowInv, FlowOf, ConnOf, Past
  <2>5. \A j \in Packets : FlowOf(j)' /\ ConnOf(j)'
    BY <2>1, <2>4, OtherFlows DEF OnlyFlow
  <2>6. \A j \in Packets : pc[j] \in Begun => pc'[j] \in Begun
    BY <2>1 DEF Begun
  <2>7. SessionsBegun'
    BY <2>0, <2>1, <2>2, <2>6 DEF FlowInv, SessionsBegun, TypeOK
  <2>. QED BY <2>5, <2>7 DEF FlowInv
<1>5. ASSUME NEW k \in Packets, ForwardHit(k) PROVE FlowInv'
  <2>1. /\ pc[k] = "hit" /\ pc'[k] = "refresh"
        /\ \A j \in Packets \ {k} : pc'[j] = pc[j] \/ (pc[j] = "unsent" /\ pc'[j] = "get")
    BY <1>5, WriteEffect DEF ForwardHit
  <2>2. UNCHANGED <<session, flow, target, reader, conn>>
    BY <1>5 DEF ForwardHit
  <2>3. FlowOf(k)' /\ ConnOf(k)'
    BY <2>1, <2>2 DEF FlowInv, FlowOf, ConnOf, Past
  <2>4. \A j \in Packets : FlowOf(j)' /\ ConnOf(j)'
    BY <2>1, <2>2, <2>3, OtherFlows DEF OnlyFlow
  <2>5. Forward
    BY <2>1 DEF Forward, Begun
  <2>6. SessionsBegun'
    BY <2>1, <2>2, <2>5, SessionsUntouched DEF FlowInv
  <2>. QED BY <2>4, <2>6 DEF FlowInv
<1>6. ASSUME NEW k \in Packets, Refresh(k) PROVE FlowInv'
  <2>1. /\ pc[k] = "refresh" /\ pc'[k] = "done"
        /\ \A j \in Packets \ {k} : pc'[j] = pc[j]
        /\ UNCHANGED <<flow, target, reader, conn>>
    BY <1>6 DEF Refresh, Goto, TypeOK
  <2>2. FlowOf(k)' /\ ConnOf(k)'
    BY <2>1 DEF FlowInv, FlowOf, ConnOf, Past
  <2>3. \A j \in Packets : FlowOf(j)' /\ ConnOf(j)'
    BY <2>1, <2>2, OtherFlows DEF OnlyFlow
  <2>4. \A j \in Packets : pc[j] \in Begun => pc'[j] \in Begun
    BY <2>1 DEF Begun
  <2>5. \A c \in Clients : session'[c].flow \in {session[c].flow, flow[k]}
    BY <1>6 DEF Refresh, SetSession, TypeOK
  <2>6. flow[k] # none => pc[flow[k]] \in Begun
    BY <2>1 DEF FlowInv, SessionsBegun
  <2>7. SessionsBegun'
    BY <2>1, <2>4, <2>5, <2>6 DEF FlowInv, SessionsBegun, TypeOK
  <2>. QED BY <2>3, <2>7 DEF FlowInv
<1>7. ASSUME NEW k \in Packets, NEW b \in Backends, Pick(k, b) PROVE FlowInv'
  <2>. DEFINE to == IF cbEnabled THEN "execute" ELSE "dial"
  <2>1. /\ UNCHANGED <<session, flow, reader, conn>>
        /\ Goto(k, "pick", to) /\ to \in {"execute", "dial"}
        /\ target'[k] = b /\ \A j \in Packets \ {k} : target'[j] = target[j]
    BY <1>7 DEF Pick, TypeOK
  <2>. HIDE DEF to
  <2>2. FlowOf(k)' /\ ConnOf(k)'
    BY <2>1 DEF FlowInv, FlowOf, ConnOf, Goto, TypeOK, Past
  <2>. QED BY <2>1, <2>2, HandlerMoves DEF Begun
<1>8. ASSUME NEW k \in Packets, NoBackend(k) \/ Blocked(k) PROVE FlowInv'
  <2>1. /\ UNCHANGED <<session, flow, target, reader, conn>>
        /\ Goto(k, "pick", "done") \/ Goto(k, "execute", "done")
    BY <1>8 DEF NoBackend, Blocked
  <2>2. FlowOf(k)' /\ ConnOf(k)'
    BY <2>1 DEF FlowInv, FlowOf, ConnOf, Goto, TypeOK, Past
  <2>. QED BY <2>1, <2>2, HandlerMoves DEF Begun
<1>9. ASSUME NEW k \in Packets, Execute(k) PROVE FlowInv'
  <2>1. /\ UNCHANGED <<session, flow, target, reader, conn>>
        /\ Goto(k, "execute", "dial")
    BY <1>9 DEF Execute
  <2>2. FlowOf(k)' /\ ConnOf(k)'
    BY <2>1 DEF FlowInv, FlowOf, ConnOf, Goto, TypeOK, Past
  <2>. QED BY <2>1, <2>2, HandlerMoves DEF Begun
<1>10. ASSUME NEW k \in Packets, RecordOutcome(k) PROVE FlowInv'
  <2>1. /\ UNCHANGED <<session, flow, target, reader, conn>>
        /\ Goto(k, "after", "done")
    BY <1>10 DEF RecordOutcome
  <2>2. FlowOf(k)' /\ ConnOf(k)'
    BY <2>1 DEF FlowInv, FlowOf, ConnOf, Goto, TypeOK, Past
  <2>. QED BY <2>1, <2>2, HandlerMoves DEF Begun
<1>11. ASSUME NEW k \in Packets, DialFails(k) PROVE FlowInv'
  <2>1. /\ UNCHANGED <<session, flow, target, reader, conn>>
        /\ Goto(k, "dial", AfterProxy)
    BY <1>11 DEF DialFails
  <2>2. FlowOf(k)' /\ ConnOf(k)'
    BY <1>0, <2>1 DEF FlowInv, FlowOf, ConnOf, Goto, TypeOK, Past
  <2>. QED BY <1>0, <2>1, <2>2, HandlerMoves
<1>12. ASSUME NEW k \in Packets, DialSucceeds(k) PROVE FlowInv'
  <2>1. /\ UNCHANGED <<session, target, reader>>
        /\ Goto(k, "dial", "listen")
        /\ flow'[k] = k /\ conn'[k] = "open"
        /\ \A j \in Packets \ {k} : flow'[j] = flow[j] /\ conn'[j] = conn[j]
    BY <1>12 DEF DialSucceeds, TypeOK
  <2>2. FlowOf(k)' /\ ConnOf(k)'
    BY <2>1 DEF FlowInv, FlowOf, ConnOf, Goto, TypeOK, Past
  <2>. QED BY <2>1, <2>2, HandlerMoves DEF Begun
<1>13. ASSUME NEW k \in Packets, StartReader(k) PROVE FlowInv'
  <2>1. /\ UNCHANGED <<session, flow, target, conn>>
        /\ Goto(k, "listen", "set")
        /\ reader'[k] = "find"
        /\ \A j \in Packets \ {k} : reader'[j] = reader[j]
    BY <1>13 DEF StartReader, TypeOK
  <2>2. FlowOf(k)' /\ ConnOf(k)'
    BY <2>1 DEF FlowInv, FlowOf, ConnOf, Goto, TypeOK, Past
  <2>. QED BY <2>1, <2>2, HandlerMoves DEF Begun
<1>14. ASSUME NEW k \in Packets, AddSession(k) PROVE FlowInv'
  <2>1. /\ pc[k] = "set" /\ pc'[k] = "increment"
        /\ \A j \in Packets \ {k} : pc'[j] = pc[j]
        /\ UNCHANGED <<flow, target, reader, conn>>
    BY <1>14 DEF AddSession, Goto, TypeOK
  <2>2. FlowOf(k)' /\ ConnOf(k)'
    BY <2>1 DEF FlowInv, FlowOf, ConnOf, Past
  <2>3. \A j \in Packets : FlowOf(j)' /\ ConnOf(j)'
    BY <2>1, <2>2, OtherFlows DEF OnlyFlow
  <2>4. \A j \in Packets : pc[j] \in Begun => pc'[j] \in Begun
    BY <2>1 DEF Begun
  <2>5. \A c \in Clients : session'[c].flow \in {session[c].flow, k}
    BY <1>14 DEF AddSession, SetSession, TypeOK
  <2>6. pc'[k] \in Begun
    BY <2>1 DEF Begun
  <2>7. SessionsBegun'
    BY <2>1, <2>4, <2>5, <2>6 DEF FlowInv, SessionsBegun, TypeOK
  <2>. QED BY <2>3, <2>7 DEF FlowInv
<1>15. ASSUME NEW k \in Packets, CountFlow(k) PROVE FlowInv'
  <2>1. /\ UNCHANGED <<session, flow, target, reader, conn>>
        /\ Goto(k, "increment", "first")
    BY <1>15 DEF CountFlow
  <2>2. FlowOf(k)' /\ ConnOf(k)'
    BY <2>1 DEF FlowInv, FlowOf, ConnOf, Goto, TypeOK, Past
  <2>. QED BY <2>1, <2>2, HandlerMoves DEF Begun
<1>16. ASSUME NEW k \in Packets, WriteFirst(k) PROVE FlowInv'
  <2>1. /\ pc[k] = "first" /\ pc'[k] = AfterProxy
        /\ \A j \in Packets \ {k} : pc'[j] = pc[j] \/ (pc[j] = "unsent" /\ pc'[j] = "get")
    BY <1>16, WriteEffect DEF WriteFirst
  <2>2. UNCHANGED <<session, flow, target, reader, conn>>
    BY <1>16 DEF WriteFirst
  <2>3. FlowOf(k)' /\ ConnOf(k)'
    BY <1>0, <2>1, <2>2 DEF FlowInv, FlowOf, ConnOf, Past
  <2>4. \A j \in Packets : FlowOf(j)' /\ ConnOf(j)'
    BY <2>1, <2>2, <2>3, OtherFlows DEF OnlyFlow
  <2>5. Forward
    BY <1>0, <2>1 DEF Forward, Begun
  <2>6. SessionsBegun'
    BY <1>0, <2>1, <2>2, <2>5, SessionsUntouched DEF FlowInv
  <2>. QED BY <2>4, <2>6 DEF FlowInv
<1>17. ASSUME NEW f \in Packets,
              \/ FindBackend(f) \/ Reads(f) \/ UncountFlow(f)
       PROVE  FlowInv'
  <2>1. /\ \/ ReaderStep(f, "find", "read") \/ ReadStep(f)
           \/ ReaderStep(f, "decrement", "close")
        /\ UNCHANGED conn
    BY <1>17, ReadsEffect DEF FindBackend, UncountFlow
  <2>2. ConnOf(f)'
    BY <2>1 DEF FlowInv, ConnOf, ReadStep, ReaderStep, TypeOK
  <2>. QED BY <2>1, <2>2, ReaderMoves DEF ReaderPCs, ReadStep
<1>18. ASSUME NEW f \in Packets, CloseConn(f) PROVE FlowInv'
  <2>1. /\ ReaderStep(f, "close", "wgDone")
        /\ conn'[f] = "closed" /\ \A j \in Packets \ {f} : conn'[j] = conn[j]
    BY <1>18 DEF CloseConn, TypeOK
  <2>2. ConnOf(f)'
    BY <2>1 DEF ConnOf, ReaderStep
  <2>. QED BY <2>1, <2>2, ReaderMoves DEF ReaderPCs
<1>19. ASSUME NEW f \in Packets, ReaderDone(f) PROVE FlowInv'
  <2>1. ReaderStep(f, "wgDone", "done") /\ UNCHANGED conn
    BY <1>19 DEF ReaderDone
  <2>2. ConnOf(f)'
    BY <2>1 DEF FlowInv, ConnOf, ReaderStep, TypeOK
  <2>. QED BY <2>1, <2>2, ReaderMoves DEF ReaderPCs
<1>20. ASSUME NEW f \in Packets, OnEvicted(f) PROVE FlowInv'
  BY <1>20, <1>a DEF OnEvicted, TypeOK
<1>21. ASSUME NEW c \in Clients, Expire(c) \/ JanitorDeletes(c) PROVE FlowInv'
  <2>1. \A d \in Clients : session'[d].flow \in {session[d].flow, none}
    BY <1>21 DEF Expire, JanitorDeletes, NoSession, TypeOK
  <2>. QED BY <1>21, <2>1, <1>a DEF Expire, JanitorDeletes
<1>22. ASSUME NEW b \in Backends, TimeoutElapses(b) PROVE FlowInv'
  BY <1>22, <1>a DEF TimeoutElapses
<1>23. CASE Terminated \/ UNCHANGED vars
  BY <1>23, <1>a DEF Terminated, vars
<1>. QED BY <1>1, <1>2, <1>3, <1>4, <1>5, <1>6, <1>7, <1>8, <1>9, <1>10, <1>11, <1>12, <1>13,
            <1>14, <1>15, <1>16, <1>17, <1>18, <1>19, <1>20, <1>21, <1>22, <1>23
         DEF Next, Main, Handler, Reader, Reads

(* No flow exists at the start. *)
LEMMA InitFlows == Init => FlowInv
BY UDPAssumption DEF Init, FlowInv, FlowOf, ConnOf, SessionsBegun, NoSession, Past

(* For any number of packets, a connection is closed by the time its       *)
(* reader has ended, whoever closes it first, and none is left without a   *)
(* reader when its handler has ended.                                      *)
THEOREM ConnsClosed == Spec => []NoConnLeak
<1>1. TypeOK /\ FlowInv /\ [Next]_vars => FlowInv'
  BY FlowStep
<1>2. FlowInv => NoConnLeak
  BY DEF FlowInv, FlowOf, ConnOf, NoConnLeak, Reading
<1>. QED BY <1>1, <1>2, InitFlows, TypeCorrect, PTL DEF Spec

-----------------------------------------------------------------------------
(* The WaitGroup and the connection counters. *)

\* A step after which the same readers run.
SameReaders == \A k \in Packets : reader'[k] \in {"none", "done"} <=> reader[k] \in {"none", "done"}

(* The WaitGroup stays exact over a step. *)
LEMMA WaitGroupStep ==
    ASSUME TypeOK, FlowInv, WaitGroupExact, [Next]_vars
    PROVE  WaitGroupExact'
<1>. USE DEF poolVars, runVars, handlerVars
<1>0. IsFiniteSet(Reading) /\ Cardinality(Reading) \in Nat
  BY FS_Subset, FS_CardinalityType, UDPAssumption DEF Reading
<1>a. ASSUME SameReaders,
             \/ UNCHANGED <<wg, run>>
             \/ run # "reading" /\ run' = "reading" /\ wg' = wg + 1
             \/ run = "reading" /\ run' # "reading" /\ wg' = wg - 1
      PROVE  WaitGroupExact'
  <2>1. Reading' = Reading
    BY <1>a DEF SameReaders, Reading
  <2>. QED BY <1>0, <1>a, <2>1 DEF WaitGroupExact
<1>1. ASSUME NEW k \in Packets, StartReader(k) PROVE WaitGroupExact'
  <2>1. reader[k] = "none"
    BY <1>1 DEF StartReader, Goto, FlowInv, FlowOf, Past
  <2>2. Reading' = Reading \cup {k} /\ k \notin Reading
    BY <1>1, <2>1 DEF StartReader, Reading, TypeOK
  <2>3. Cardinality(Reading') = Cardinality(Reading) + 1
    BY <1>0, <2>2, FS_AddElement
  <2>. QED BY <1>0, <1>1, <2>3 DEF StartReader, WaitGroupExact
<1>2. ASSUME NEW f \in Packets, ReaderDone(f) PROVE WaitGroupExact'
  <2>1. Reading' = Reading \ {f} /\ f \in Reading
    BY <1>2 DEF ReaderDone, ReaderStep, Reading, TypeOK
  <2>2. Cardinality(Reading') = Cardinality(Reading) - 1
    BY <1>0, <2>1, FS_RemoveElement
  <2>. QED BY <1>0, <1>2, <2>2 DEF ReaderDone, ReaderStep, WGDone, WaitGroupExact
<1>3. CASE RunStarts \/ RunReturns \/ ReadError
  BY <1>3, <1>a DEF RunStarts, RunReturns, ReadError, WGDone, SameReaders
<1>4. ASSUME NEW f \in Packets,
             \/ FindBackend(f) \/ Reads(f) \/ UncountFlow(f)
             \/ CloseConn(f)
      PROVE  WaitGroupExact'
  <2>1. /\ \/ ReaderStep(f, "find", "read") \/ ReadStep(f)
           \/ ReaderStep(f, "decrement", "close") \/ ReaderStep(f, "close", "wgDone")
        /\ UNCHANGED <<wg, run>>
    BY <1>4, ReadsEffect DEF FindBackend, UncountFlow, CloseConn, ReaderStep, ReadStep, runVars
  <2>2. SameReaders
    BY <2>1 DEF ReaderStep, ReadStep, SameReaders, TypeOK
  <2>. QED BY <1>a, <2>1, <2>2
<1>5. ASSUME \/ Shutdown \/ Main \/ Terminated \/ UNCHANGED vars
             \/ \E k \in Packets :
                   \/ Receive(k) \/ Get(k) \/ ForwardHit(k) \/ Refresh(k)
                   \/ (\E b \in Backends : Pick(k, b)) \/ NoBackend(k)
                   \/ Blocked(k) \/ Execute(k) \/ RecordOutcome(k)
                   \/ DialFails(k) \/ DialSucceeds(k) \/ AddSession(k)
                   \/ CountFlow(k) \/ WriteFirst(k) \/ OnEvicted(k)
             \/ \E c \in Clients : Expire(c) \/ JanitorDeletes(c)
             \/ \E b \in Backends : TimeoutElapses(b)
      PROVE  WaitGroupExact'
  <2>1. UNCHANGED <<wg, run, reader>>
    BY <1>5 DEF Shutdown, Main, Flush, Wait, WaitReturns, Terminated, vars, Receive, Get,
                ForwardHit, Refresh, Pick, NoBackend, Blocked, Execute, RecordOutcome,
                DialFails, DialSucceeds, AddSession, CountFlow, WriteFirst, OnEvicted,
                Expire, JanitorDeletes, TimeoutElapses
  <2>. QED BY <1>a, <2>1 DEF SameReaders
<1>. QED BY <1>1, <1>2, <1>3, <1>4, <1>5 DEF Next, Handler, Reader, Reads

(* For any number of packets, the WaitGroup counts Run and the readers     *)
(* that have not ended, so that no wg.Done is lost or repeated.            *)
THEOREM WaitGroupCounts == Spec => []WaitGroupExact
<1>1. Init => WaitGroupExact
  <2>. SUFFICES ASSUME Init PROVE WaitGroupExact  OBVIOUS
  <2>1. Reading = {}
    BY DEF Init, Reading
  <2>. QED BY <2>1, FS_EmptySet DEF Init, WaitGroupExact
<1>2. TypeOK /\ FlowInv /\ [Next]_vars => FlowInv'
  BY FlowStep
<1>3. TypeOK /\ FlowInv /\ WaitGroupExact /\ [Next]_vars => WaitGroupExact'
  BY WaitGroupStep
<1>. QED BY <1>1, <1>2, <1>3, InitFlows, TypeCorrect, PTL DEF Spec

\* Flows of b that have been counted, and uncounted.
Incremented(b) ==
    {k \in Packets : flow[k] = k /\ target[k] = b /\ pc[k] \in {"first", "after", "done"}}
Decremented(b) ==
    {k \in Packets : flow[k] = k /\ target[k] = b /\ CanFind(b)
                     /\ reader[k] \in {"close", "wgDone", "done"}}

\* The value of a counter to which i was added and from which d was taken.
Wrapped(i, d) == IF i - d >= 0 THEN i - d ELSE i - d + UintMod

\* A counter is the difference, which is negative, and wraps, while readers end
\* before the handlers of their flows have counted them.
CounterInv ==
    \A b \in Backends :
       connections[b] = Wrapped(Cardinality(Incremented(b)), Cardinality(Decremented(b)))

\* A step that counts and uncounts no flow.
SameCounts ==
    /\ UNCHANGED connections
    /\ \A k \in Packets :
          /\ flow[k] = k => flow'[k] = k /\ target'[k] = target[k]
          /\ flow'[k] = k /\ flow[k] # k => pc'[k] = "listen" /\ reader'[k] = "none"
          /\ flow[k] = k => (pc'[k] \in {"first", "after", "done"} <=>
                              pc[k] \in {"first", "after", "done"})
          /\ reader'[k] \in {"close", "wgDone", "done"} <=>
                reader[k] \in {"close", "wgDone", "done"}

(* Every step but CountFlow and UncountFlow leaves the counts alone. *)
LEMMA CountKinds ==
    ASSUME TypeOK, FlowInv, [Next]_vars
    PROVE  SameCounts \/ \E k \in Packets : CountFlow(k) \/ UncountFlow(k)
<1>. USE DEF poolVars, runVars, handlerVars
<1>a. ASSUME UNCHANGED <<connections, flow, target, pc, reader>> PROVE SameCounts
  BY <1>a DEF SameCounts
<1>1. ASSUME \/ Shutdown \/ Main \/ RunStarts \/ RunReturns \/ ReadError \/ Terminated
             \/ UNCHANGED vars
             \/ \E k \in Packets : OnEvicted(k)
             \/ \E c \in Clients : Expire(c) \/ JanitorDeletes(c)
             \/ \E b \in Backends : TimeoutElapses(b)
      PROVE  SameCounts
  BY <1>1, <1>a DEF Shutdown, Main, Flush, Wait, WaitReturns, RunStarts, RunReturns, ReadError,
                    Terminated, vars, OnEvicted, Expire, JanitorDeletes, TimeoutElapses,
                    OpenTimeout
<1>2. ASSUME NEW k \in Packets,
             \/ FindBackend(k) \/ Reads(k) \/ CloseConn(k) \/ ReaderDone(k)
      PROVE  SameCounts
  <2>1. /\ \/ ReaderStep(k, "find", "read") \/ ReadStep(k)
           \/ ReaderStep(k, "close", "wgDone") \/ ReaderStep(k, "wgDone", "done")
        /\ UNCHANGED connections
    BY <1>2, ReadsEffect DEF FindBackend, CloseConn, ReaderDone
  <2>. QED BY <2>1 DEF ReaderStep, ReadStep, SameCounts, TypeOK
<1>3. ASSUME NEW k \in Packets, Receive(k) \/ NoBackend(k) \/ Blocked(k) \/ Execute(k)
             \/ RecordOutcome(k) \/ Refresh(k) \/ AddSession(k)
      PROVE  SameCounts
  <2>1. FlowOf(k)
    BY DEF FlowInv
  <2>2. UNCHANGED <<connections, flow, target, reader>>
    BY <1>3 DEF Receive, NoBackend, Blocked, Execute, RecordOutcome, Refresh, AddSession
  <2>3. /\ \A j \in Packets \ {k} : pc'[j] = pc[j]
        /\ pc[k] \in {"first", "after", "done"} => pc'[k] \in {"first", "after", "done"}
        /\ pc'[k] \in {"first", "after", "done"} => pc[k] \notin {"listen", "set", "increment"}
    BY <1>3 DEF Receive, NoBackend, Blocked, Execute, RecordOutcome, Refresh, AddSession,
                Goto, TypeOK
  <2>. QED BY <2>1, <2>2, <2>3 DEF SameCounts, FlowOf, Past
<1>4. ASSUME NEW k \in Packets, DialFails(k) PROVE SameCounts
  <2>1. FlowOf(k)
    BY DEF FlowInv
  <2>2. /\ UNCHANGED <<connections, flow, target, reader>>
        /\ pc[k] = "dial" /\ \A j \in Packets \ {k} : pc'[j] = pc[j]
    BY <1>4 DEF DialFails, Goto, TypeOK
  <2>. QED BY <2>1, <2>2 DEF SameCounts, FlowOf, Past
<1>5. ASSUME NEW k \in Packets, NEW b \in Backends, Pick(k, b) PROVE SameCounts
  <2>1. FlowOf(k)
    BY DEF FlowInv
  <2>2. /\ UNCHANGED <<connections, flow, reader>>
        /\ pc[k] = "pick"
        /\ \A j \in Packets \ {k} : pc'[j] = pc[j] /\ target'[j] = target[j]
    BY <1>5 DEF Pick, Goto, TypeOK
  <2>. QED BY <2>1, <2>2 DEF SameCounts, FlowOf, Past
<1>6. ASSUME NEW k \in Packets, Get(k) PROVE SameCounts
  <2>1. FlowOf(k)
    BY DEF FlowInv
  <2>2. /\ UNCHANGED <<connections, target, reader>>
        /\ pc[k] = "get"
        /\ flow'[k] \in {session[ClientOf[k]].flow, none}
        /\ \A j \in Packets \ {k} : pc'[j] = pc[j] /\ flow'[j] = flow[j]
    BY <1>6 DEF Get, Goto, TypeOK
  <2>3. ClientOf[k] \in Clients
    BY UDPAssumption
  <2>4. flow'[k] # k
    BY <2>2, <2>3, UDPAssumption DEF FlowInv, SessionsBegun, Begun
  <2>. QED BY <2>1, <2>2, <2>4 DEF SameCounts, FlowOf, Past
<1>7. ASSUME NEW k \in Packets, DialSucceeds(k) PROVE SameCounts
  <2>1. FlowOf(k)
    BY DEF FlowInv
  <2>2. /\ UNCHANGED <<connections, target, reader>>
        /\ pc[k] = "dial" /\ pc'[k] = "listen"
        /\ \A j \in Packets \ {k} : pc'[j] = pc[j] /\ flow'[j] = flow[j]
    BY <1>7 DEF DialSucceeds, Goto, TypeOK
  <2>. QED BY <2>1, <2>2 DEF SameCounts, FlowOf, Past
<1>8. ASSUME NEW k \in Packets, StartReader(k) PROVE SameCounts
  <2>1. FlowOf(k)
    BY DEF FlowInv
  <2>2. /\ UNCHANGED <<connections, flow, target>>
        /\ pc[k] = "listen" /\ pc'[k] = "set" /\ reader'[k] = "find"
        /\ \A j \in Packets \ {k} : pc'[j] = pc[j] /\ reader'[j] = reader[j]
    BY <1>8 DEF StartReader, Goto, TypeOK
  <2>. QED BY <2>1, <2>2 DEF SameCounts, FlowOf, Past
<1>9. ASSUME NEW k \in Packets, ForwardHit(k) \/ WriteFirst(k) PROVE SameCounts
  <2>1. \A j \in Packets : FlowOf(j)
    BY DEF FlowInv
  <2>2. UNCHANGED <<connections, flow, target, reader>>
    BY <1>9 DEF ForwardHit, WriteFirst
  <2>3. /\ \/ pc[k] = "hit" /\ pc'[k] = "refresh"
           \/ pc[k] = "first" /\ pc'[k] = AfterProxy
        /\ \A j \in Packets \ {k} : pc'[j] = pc[j] \/ (pc[j] = "unsent" /\ pc'[j] = "get")
    BY <1>9, WriteEffect DEF ForwardHit, WriteFirst
  <2>4. AfterProxy \in {"after", "done"}
    BY DEF AfterProxy
  <2>. QED BY <2>1, <2>2, <2>3, <2>4 DEF SameCounts, FlowOf, Past
<1>. QED BY <1>1, <1>2, <1>3, <1>4, <1>5, <1>6, <1>7, <1>8, <1>9
         DEF Next, Handler, Reader, Reads

(* There are fewer flows than a counter can count. *)
LEMMA CountSets ==
    ASSUME NEW b
    PROVE  /\ IsFiniteSet(Incremented(b)) /\ Cardinality(Incremented(b)) \in 0..(UintMod - 1)
           /\ IsFiniteSet(Decremented(b)) /\ Cardinality(Decremented(b)) \in 0..(UintMod - 1)
<1>1. Incremented(b) \in SUBSET Packets /\ Decremented(b) \in SUBSET Packets
  BY DEF Incremented, Decremented
<1>. QED BY <1>1, FS_Subset, FS_CardinalityType, UDPAssumption, PoolAssumption

(* The same, in the next state. *)
LEMMA CountSetsNext ==
    ASSUME NEW b
    PROVE  /\ Cardinality(Incremented(b)') \in 0..(UintMod - 1)
           /\ Cardinality(Decremented(b)') \in 0..(UintMod - 1)
<1>1. Incremented(b)' \in SUBSET Packets /\ Decremented(b)' \in SUBSET Packets
  BY DEF Incremented, Decremented
<1>. QED BY <1>1, FS_Subset, FS_CardinalityType, UDPAssumption, PoolAssumption

(* Adding one to a counter that may have wrapped. *)
LEMMA WrappedInc ==
    ASSUME NEW i \in 0..(UintMod - 1), NEW d \in 0..(UintMod - 1), i + 1 < UintMod
    PROVE  (Wrapped(i, d) + 1) % UintMod = Wrapped(i + 1, d)
<1>. DEFINE w == Wrapped(i, d)
<1>1. UintMod \in Nat /\ UintMod > 1
  BY PoolAssumption
<1>2. CASE i - d = -1
  <2>1. w + 1 = UintMod /\ Wrapped(i + 1, d) = 0
    BY <1>1, <1>2 DEF Wrapped
  <2>2. UintMod % UintMod = 0
    BY <1>1
  <2>. QED BY <2>1, <2>2
<1>3. CASE i - d # -1
  <2>1. w \in Nat /\ w + 1 < UintMod /\ Wrapped(i + 1, d) = w + 1
    BY <1>1, <1>3 DEF Wrapped
  <2>. HIDE DEF w
  <2>2. (w + 1) % UintMod = w + 1
    BY <1>1, <2>1, ModInc
  <2>. QED BY <2>1, <2>2 DEF w
<1>. QED BY <1>2, <1>3

(* Taking one off a counter that may be zero. *)
LEMMA WrappedDec ==
    ASSUME NEW i \in 0..(UintMod - 1), NEW d \in 0..(UintMod - 1), d + 1 < UintMod
    PROVE  (Wrapped(i, d) + (UintMod - 1)) % UintMod = Wrapped(i, d + 1)
<1>. DEFINE w == Wrapped(i, d)
<1>1. UintMod \in Nat /\ UintMod > 1
  BY PoolAssumption
<1>2. CASE i - d = 0
  <2>1. w = 0 /\ Wrapped(i, d + 1) = UintMod - 1
    BY <1>1, <1>2 DEF Wrapped
  <2>2. (UintMod - 1) % UintMod = UintMod - 1
    BY <1>1
  <2>. QED BY <1>1, <2>1, <2>2
<1>3. CASE i - d # 0
  <2>1. w \in Nat /\ 0 < w /\ w < UintMod /\ Wrapped(i, d + 1) = w - 1
    BY <1>1, <1>3 DEF Wrapped
  <2>. HIDE DEF w
  <2>2. (w + (UintMod - 1)) % UintMod = w - 1
    BY <1>1, <2>1, ModDec
  <2>. QED BY <2>1, <2>2 DEF w
<1>. QED BY <1>2, <1>3

(* The counters stay the difference over a step. *)
LEMMA CounterStep ==
    ASSUME TypeOK, FlowInv, CounterInv, [Next]_vars
    PROVE  CounterInv'
<1>c. /\ connections \in [Backends -> 0..(UintMod - 1)]
      /\ flow \in [Packets -> Packets \cup {none}]
      /\ target \in [Packets -> Backends \cup {nil}]
      /\ pc \in [Packets -> HandlerPCs] /\ reader \in [Packets -> ReaderPCs]
  BY DEF TypeOK, PoolTypeOK
<1>1. CASE SameCounts
  <2>. SUFFICES ASSUME NEW b \in Backends
                PROVE  Incremented(b)' = Incremented(b) /\ Decremented(b)' = Decremented(b)
    BY <1>1 DEF CounterInv, SameCounts, Wrapped
  <2>1. \A k \in Packets : FlowOf(k)
    BY DEF FlowInv
  <2>2. Incremented(b)' = Incremented(b)
    BY <1>1 DEF SameCounts, Incremented
  <2>3. Decremented(b)' = Decremented(b)
    BY <1>1 DEF SameCounts, Decremented, CanFind
  <2>. QED BY <2>2, <2>3
<1>2. ASSUME NEW k \in Packets, CountFlow(k) PROVE CounterInv'
  <2>0. PICK t \in Backends : t = target[k]
    BY <1>2 DEF CountFlow, Goto, FlowInv, FlowOf
  <2>1. /\ flow[k] = k /\ t = target[k] /\ pc[k] = "increment" /\ pc'[k] = "first"
        /\ \A j \in Packets \ {k} : pc'[j] = pc[j]
        /\ UNCHANGED <<flow, target, reader>>
    BY <1>c, <1>2, <2>0 DEF CountFlow, Goto, FlowInv, FlowOf, handlerVars
  <2>2. /\ connections'[t] = (connections[t] + 1) % UintMod
        /\ \A b \in Backends \ {t} : connections'[b] = connections[b]
    BY <1>c, <1>2, <2>1 DEF CountFlow, IncrementConnections
  <2>3. \A b \in Backends : Decremented(b)' = Decremented(b)
    BY <2>1 DEF Decremented, CanFind
  <2>4. \A b \in Backends \ {t} : Incremented(b)' = Incremented(b)
    BY <2>1 DEF Incremented
  <2>5. Incremented(t)' = Incremented(t) \cup {k} /\ k \notin Incremented(t)
    BY <2>1 DEF Incremented
  <2>6. Cardinality(Incremented(t)') = Cardinality(Incremented(t)) + 1
    BY <2>5, CountSets, FS_AddElement
  <2>7. connections'[t] = Wrapped(Cardinality(Incremented(t)'), Cardinality(Decremented(t)'))
    <3>. DEFINE i == Cardinality(Incremented(t))
                d == Cardinality(Decremented(t))
    <3>1. i \in 0..(UintMod - 1) /\ d \in 0..(UintMod - 1) /\ i + 1 < UintMod
      BY <2>6, CountSets, CountSetsNext, PoolAssumption
    <3>2. connections[t] = Wrapped(Cardinality(Incremented(t)), Cardinality(Decremented(t)))
      BY DEF CounterInv
    <3>3. Cardinality(Incremented(t)') = i + 1 /\ Cardinality(Decremented(t)') = d
      BY <2>3, <2>6
    <3>4. connections'[t] = (Wrapped(i, d) + 1) % UintMod
      BY <2>2, <3>2
    <3>. HIDE DEF i, d
    <3>. QED BY <3>1, <3>3, <3>4, WrappedInc
  <2>8. ASSUME NEW b \in Backends, b # t
        PROVE  connections'[b] = Wrapped(Cardinality(Incremented(b)'), Cardinality(Decremented(b)'))
    BY <2>2, <2>3, <2>4, <2>8 DEF CounterInv
  <2>9. \A b \in Backends :
           connections'[b] = Wrapped(Cardinality(Incremented(b)'), Cardinality(Decremented(b)'))
    <3>. SUFFICES ASSUME NEW b \in Backends
                  PROVE  connections'[b] =
                            Wrapped(Cardinality(Incremented(b)'), Cardinality(Decremented(b)'))
      OBVIOUS
    <3>1. CASE b = t  BY <2>7, <3>1
    <3>. QED BY <2>8, <3>1
  <2>. QED BY <2>9 DEF CounterInv, Wrapped
<1>3. ASSUME NEW f \in Packets, UncountFlow(f) PROVE CounterInv'
  <2>0. PICK t \in Backends : t = target[f]
    BY <1>3 DEF UncountFlow, ReaderStep, FlowInv, FlowOf
  <2>1. /\ flow[f] = f /\ t = target[f] /\ reader[f] = "decrement" /\ reader'[f] = "close"
        /\ \A j \in Packets \ {f} : reader'[j] = reader[j]
        /\ UNCHANGED <<flow, target, pc>>
    BY <1>c, <1>3, <2>0 DEF UncountFlow, ReaderStep, FlowInv, FlowOf, handlerVars
  <2>3. \A b \in Backends : Incremented(b)' = Incremented(b)
    BY <2>1 DEF Incremented
  <2>4. \A b \in Backends \ {t} : Decremented(b)' = Decremented(b)
    BY <2>1 DEF Decremented, CanFind
  <2>5. CASE ~CanFind(t)
    <3>1. Decremented(t)' = Decremented(t)
      BY <2>1, <2>5 DEF Decremented, CanFind
    <3>2. UNCHANGED connections
      BY <1>3, <2>0, <2>5 DEF UncountFlow
    <3>3. ASSUME NEW b \in Backends
          PROVE  Incremented(b)' = Incremented(b) /\ Decremented(b)' = Decremented(b)
      BY <2>3, <2>4, <3>1
    <3>. QED BY <3>2, <3>3 DEF CounterInv, Wrapped
  <2>6. CASE CanFind(t)
    <3>1. /\ connections'[t] = (connections[t] + (UintMod - 1)) % UintMod
          /\ \A b \in Backends \ {t} : connections'[b] = connections[b]
      BY <1>c, <1>3, <2>1, <2>6 DEF UncountFlow, DecrementConnections
    <3>2. Decremented(t)' = Decremented(t) \cup {f} /\ f \notin Decremented(t)
      BY <2>1, <2>6 DEF Decremented, CanFind
    <3>3. Cardinality(Decremented(t)') = Cardinality(Decremented(t)) + 1
      BY <3>2, CountSets, FS_AddElement
    <3>4. connections'[t] = Wrapped(Cardinality(Incremented(t)'), Cardinality(Decremented(t)'))
      <4>. DEFINE i == Cardinality(Incremented(t))
                  d == Cardinality(Decremented(t))
      <4>1. i \in 0..(UintMod - 1) /\ d \in 0..(UintMod - 1) /\ d + 1 < UintMod
        BY <3>3, CountSets, CountSetsNext, PoolAssumption
      <4>2. connections[t] = Wrapped(Cardinality(Incremented(t)), Cardinality(Decremented(t)))
        BY DEF CounterInv
      <4>3. Cardinality(Incremented(t)') = i /\ Cardinality(Decremented(t)') = d + 1
        BY <2>3, <3>3
      <4>4. connections'[t] = (Wrapped(i, d) + (UintMod - 1)) % UintMod
        BY <3>1, <4>2
      <4>. HIDE DEF i, d
      <4>. QED BY <4>1, <4>3, <4>4, WrappedDec
    <3>5. ASSUME NEW b \in Backends, b # t
          PROVE  connections'[b] = Wrapped(Cardinality(Incremented(b)'), Cardinality(Decremented(b)'))
      BY <2>3, <2>4, <3>1, <3>5 DEF CounterInv
    <3>6. \A b \in Backends :
             connections'[b] = Wrapped(Cardinality(Incremented(b)'), Cardinality(Decremented(b)'))
      <4>. SUFFICES ASSUME NEW b \in Backends
                    PROVE  connections'[b] =
                              Wrapped(Cardinality(Incremented(b)'), Cardinality(Decremented(b)'))
        OBVIOUS
      <4>1. CASE b = t  BY <3>4, <4>1
      <4>. QED BY <3>5, <4>1
    <3>. QED BY <3>6 DEF CounterInv, Wrapped
  <2>. QED BY <2>5, <2>6
<1>. QED BY <1>1, <1>2, <1>3, CountKinds

(* For any number of packets, every flow counted on a backend is uncounted *)
(* by its reader, in whatever order the two goroutines of the flow ran;    *)
(* only backends configured by host name keep the counts.                  *)
THEOREM FlowsSettle == Spec => []ConnectionsSettle
<1>1. Init => CounterInv
  <2>. SUFFICES ASSUME Init, NEW b \in Backends
                PROVE  connections[b] =
                          Wrapped(Cardinality(Incremented(b)), Cardinality(Decremented(b)))
    BY DEF CounterInv
  <2>1. Incremented(b) = {} /\ Decremented(b) = {}
    BY DEF Init, Incremented, Decremented
  <2>. QED BY <2>1, FS_EmptySet DEF Init, Wrapped
<1>2. TypeOK /\ FlowInv /\ [Next]_vars => FlowInv'
  BY FlowStep
<1>3. TypeOK /\ FlowInv /\ CounterInv /\ [Next]_vars => CounterInv'
  BY CounterStep
<1>4. TypeOK /\ FlowInv /\ CounterInv => ConnectionsSettle
  <2>. SUFFICES ASSUME TypeOK, FlowInv, CounterInv,
                       Reading = {}, \A k \in Packets : pc[k] \in {"unsent", "done"},
                       NEW b \in Backends
                PROVE  connections[b] =
                          IF CanFind(b) THEN 0
                          ELSE Cardinality({k \in Packets : flow[k] = k /\ target[k] = b})
    BY DEF ConnectionsSettle
  <2>1. ASSUME NEW k \in Packets, flow[k] = k
        PROVE  pc[k] = "done" /\ reader[k] = "done"
    <3>1. FlowOf(k)
      BY DEF FlowInv
    <3>. QED BY <2>1, <3>1 DEF FlowOf, Past, Reading
  <2>2. Incremented(b) = {k \in Packets : flow[k] = k /\ target[k] = b}
    BY <2>1 DEF Incremented
  <2>3. Cardinality(Incremented(b)) \in Nat
    BY CountSets, PoolAssumption
  <2>4. CASE CanFind(b)
    <3>1. Decremented(b) = Incremented(b)
      BY <2>1, <2>2, <2>4 DEF Decremented
    <3>. QED BY <2>3, <2>4, <3>1 DEF CounterInv, Wrapped
  <2>5. CASE ~CanFind(b)
    <3>1. Decremented(b) = {}
      BY <2>5 DEF Decremented
    <3>2. Cardinality(Decremented(b)) = 0
      BY <3>1, FS_EmptySet
    <3>3. connections[b] = Wrapped(Cardinality(Incremented(b)), 0)
      BY <3>2 DEF CounterInv
    <3>4. connections[b] = Cardinality(Incremented(b))
      BY <2>3, <3>3 DEF Wrapped
    <3>. QED BY <2>2, <2>5, <3>4
  <2>. QED BY <2>4, <2>5
<1>. QED BY <1>1, <1>2, <1>3, <1>4, InitFlows, TypeCorrect, PTL DEF Spec
=============================================================================
