------------------------------ MODULE UDPProxy ------------------------------
(***************************************************************************)
(* One UDP listener: the read loop Run, a handleUDPPacket goroutine per    *)
(* packet, a listenForBackend goroutine per flow, the session cache with   *)
(* its janitor, and the main goroutine that calls Shutdown and Wait.       *)
(*                                                                         *)
(* A handler creates at most one flow, so a flow carries the name of the   *)
(* packet that created it.  All handlers hold slices of Run's one buffer,  *)
(* so what a handler writes is what the buffer holds when it writes.       *)
(* go-cache and sync.WaitGroup are external and modelled from their use.   *)
(***************************************************************************)
EXTENDS BackendPool, FiniteSets

CONSTANTS
    Packets,     \* the packets that may arrive
    Clients,     \* client addresses
    ClientOf,    \* the client that sends a packet
    Hostnames    \* backends whose Addr is a host name, not a literal IP

none == "none"   \* no flow, nothing written

ASSUME UDPAssumption ==
    /\ IsFiniteSet(Packets) /\ Cardinality(Packets) < UintMod
    /\ Packets \subseteq Requests /\ none \notin Packets
    /\ ClientOf \in [Packets -> Clients]
    /\ Hostnames \subseteq Backends

VARIABLES
    run,        \* Run: "starting", "reading", "returned"
    stopped,    \* stopChan and the listening socket are closed
    buffer,     \* the packet whose bytes Run's buffer holds
    wg,         \* counter of p.wg
    main,       \* the goroutine that shuts the proxy down
    session,    \* sessionCache: the flow of a client, and whether it expired
    evicted,    \* flows deleted by the janitor, OnEvicted still to be called
    pc,         \* where the handler of a packet is
    flow,       \* the flow a handler found or created
    target,     \* the backend GetNextBackend returned
    failed,     \* proxyUdp returned an error
    wrote,      \* what was written to the backend on behalf of a packet
    conn,       \* a flow's backendConn
    reader      \* a flow's listenForBackend goroutine

runVars == <<run, stopped, buffer>>
handlerVars == <<flow, target, failed, wrote>>
vars == <<poolVars, runVars, wg, main, session, evicted, pc, handlerVars, conn, reader>>

\* Points of handleUDPPacket and proxyUdp; the last is the end.
HandlerPCs == {"unsent", "get", "hit", "refresh", "pick", "execute", "dial", "listen",
               "set", "increment", "first", "after", "done"}

ReaderPCs == {"none", "find", "read", "check", "decrement", "close", "wgDone", "done"}

MainStates == {"running", "stopping", "flushed", "waiting", "woken", "waited", "panicked"}

TypeOK ==
    /\ PoolTypeOK
    /\ run \in {"starting", "reading", "returned"}
    /\ stopped \in BOOLEAN
    /\ buffer \in Packets \cup {none}
    /\ wg \in Int
    /\ main \in MainStates
    /\ session \in [Clients -> [flow : Packets \cup {none}, expired : BOOLEAN]]
    /\ evicted \subseteq Packets
    /\ pc \in [Packets -> HandlerPCs]
    /\ flow \in [Packets -> Packets \cup {none}]
    /\ target \in [Packets -> Backends \cup {nil}]
    /\ failed \in [Packets -> BOOLEAN]
    /\ wrote \in [Packets -> Packets \cup {none, "torn", "error"}]
    /\ conn \in [Packets -> {"none", "open", "closed"}]
    /\ reader \in [Packets -> ReaderPCs]

NoSession == [flow |-> none, expired |-> FALSE]

\* NewL4BackendPool marks the backends of a UDP listener healthy at once.
Init ==
    /\ cbEnabled \in CBConfigs
    /\ healthy = [b \in Backends |-> TRUE]
    /\ cb = [b \in Backends |-> NewCircuitBreaker]
    /\ connections = [b \in Backends |-> 0]
    /\ run = "starting" /\ stopped = FALSE /\ buffer = none
    /\ wg = 0
    /\ main = "running"
    /\ session = [c \in Clients |-> NoSession]
    /\ evicted = {}
    /\ pc = [k \in Packets |-> "unsent"]
    /\ flow = [k \in Packets |-> none]
    /\ target = [k \in Packets |-> nil]
    /\ failed = [k \in Packets |-> FALSE]
    /\ wrote = [k \in Packets |-> none]
    /\ conn = [k \in Packets |-> "none"]
    /\ reader = [k \in Packets |-> "none"]

Alive == main # "panicked"

Goto(k, from, to) ==
    /\ Alive
    /\ pc[k] = from
    /\ pc' = [pc EXCEPT ![k] = to]

\* wg.Done wakes the waiter when the counter reaches 0.
WGDone ==
    /\ wg' = wg - 1
    /\ main' = IF main = "waiting" /\ wg = 1 THEN "woken" ELSE main

-----------------------------------------------------------------------------
(* The session cache. *)

Found(c) == session[c].flow # none /\ ~session[c].expired

\* Set replaces an entry; the callback is not called for the replaced one.
SetSession(c, f) == session' = [session EXCEPT ![c] = [flow |-> f, expired |-> FALSE]]

\* udpSessionTimeout passes since the last Set.
Expire(c) ==
    /\ Alive
    /\ Found(c)
    /\ session' = [session EXCEPT ![c].expired = TRUE]
    /\ UNCHANGED <<poolVars, runVars, wg, main, evicted, pc, handlerVars, conn, reader>>

\* DeleteExpired removes the entry under the cache's lock ...
JanitorDeletes(c) ==
    /\ Alive
    /\ session[c].expired
    /\ session' = [session EXCEPT ![c] = NoSession]
    /\ evicted' = evicted \cup {session[c].flow}
    /\ UNCHANGED <<poolVars, runVars, wg, main, pc, handlerVars, conn, reader>>

\* ... and calls OnEvicted, which closes the connection, after releasing it.
OnEvicted(f) ==
    /\ Alive
    /\ f \in evicted
    /\ evicted' = evicted \ {f}
    /\ conn' = [conn EXCEPT ![f] = "closed"]
    /\ UNCHANGED <<poolVars, runVars, wg, main, session, pc, handlerVars, reader>>

-----------------------------------------------------------------------------
(* Run *)

RunStarts ==
    /\ Alive
    /\ run = "starting"
    /\ run' = "reading"
    /\ wg' = wg + 1
    /\ UNCHANGED <<poolVars, stopped, buffer, main, session, evicted, pc, handlerVars, conn, reader>>

\* ReadFromUDP fills the buffer and the packet's handler is started.
Receives(k) == run = "reading" /\ ~stopped /\ pc[k] = "unsent"

Receive(k) ==
    /\ Receives(k)
    /\ Goto(k, "unsent", "get")
    /\ buffer' = k
    /\ UNCHANGED <<poolVars, run, stopped, wg, main, session, evicted, handlerVars, conn, reader>>

\* Mutant: returns without wg.Done.
RunReturnsUndone ==
    /\ Alive
    /\ run = "reading"
    /\ stopped
    /\ run' = "returned"
    /\ UNCHANGED <<poolVars, stopped, buffer, wg, main, session, evicted, pc, handlerVars,
                   conn, reader>>

\* The loop sees stopChan closed, or the read fails on the closed socket.
RunReturns ==
    /\ Alive
    /\ run = "reading"
    /\ stopped
    /\ run' = "returned"
    /\ WGDone
    /\ UNCHANGED <<poolVars, stopped, buffer, session, evicted, pc, handlerVars, conn, reader>>

\* Any other read error stops the loop too, and nothing restarts it.
ReadError ==
    /\ Alive
    /\ run = "reading"
    /\ ~stopped
    /\ run' = "returned"
    /\ WGDone
    /\ UNCHANGED <<poolVars, stopped, buffer, session, evicted, pc, handlerVars, conn, reader>>

-----------------------------------------------------------------------------
(* Shutdown and Wait *)

\* close(p.stopChan) and p.listener.Close()
Shutdown ==
    /\ main = "running"
    /\ main' = "stopping"
    /\ stopped' = TRUE
    /\ UNCHANGED <<poolVars, run, buffer, wg, session, evicted, pc, handlerVars, conn, reader>>

\* p.sessionCache.Flush() empties the cache.
Flush ==
    /\ main = "stopping"
    /\ main' = "flushed"
    /\ session' = [c \in Clients |-> NoSession]
    /\ UNCHANGED <<poolVars, runVars, wg, evicted, pc, handlerVars, conn, reader>>

Wait ==
    /\ main = "flushed"
    /\ main' = IF wg = 0 THEN "waited" ELSE "waiting"
    /\ UNCHANGED <<poolVars, runVars, wg, session, evicted, pc, handlerVars, conn, reader>>

\* sync.WaitGroup panics when it was reused before the waiter resumed.
WaitReturns ==
    /\ main = "woken"
    /\ main' = IF wg = 0 THEN "waited" ELSE "panicked"
    /\ UNCHANGED <<poolVars, runVars, wg, session, evicted, pc, handlerVars, conn, reader>>

-----------------------------------------------------------------------------
(* handleUDPPacket *)

Get(k) ==
    LET c == ClientOf[k]
    IN /\ Goto(k, "get", IF Found(c) THEN "hit" ELSE "pick")
       /\ flow' = [flow EXCEPT ![k] = IF Found(c) THEN session[c].flow ELSE none]
       /\ UNCHANGED <<poolVars, runVars, wg, main, session, evicted, target, failed,
                      wrote, conn, reader>>

\* Write the handler's slice to a flow's connection.  The write overlaps the
\* read of a packet j that arrives meanwhile into the same bytes (a data
\* race), or it does not.
Write(k, f) ==
    \/ /\ wrote' = [wrote EXCEPT ![k] = IF conn[f] = "open" THEN buffer ELSE "error"]
       /\ UNCHANGED buffer
    \/ \E j \in Packets :
          /\ Receives(j) /\ conn[f] = "open"
          /\ wrote' = [wrote EXCEPT ![k] = "torn"]
          /\ buffer' = j

\* The handler of packet k writes and goes on; a packet read meanwhile gets
\* its own handler.
WriteAndGoto(k, f, from, to) ==
    /\ Alive
    /\ pc[k] = from
    /\ Write(k, f)
    /\ pc' = [j \in Packets |-> IF j = k THEN to
                               ELSE IF buffer' = j /\ pc[j] = "unsent" THEN "get"
                               ELSE pc[j]]

\* A session was found: forward, log an error.
ForwardHit(k) ==
    /\ WriteAndGoto(k, flow[k], "hit", "refresh")
    /\ UNCHANGED <<poolVars, run, stopped, wg, main, session, evicted, flow, target,
                   failed, conn, reader>>

Refresh(k) ==
    /\ Goto(k, "refresh", "done")
    /\ SetSession(ClientOf[k], flow[k])
    /\ UNCHANGED <<poolVars, runVars, wg, main, evicted, handlerVars, conn, reader>>

\* GetNextBackend; every backend of a UDP pool is always healthy.
Pick(k, b) ==
    /\ Goto(k, "pick", IF cbEnabled THEN "execute" ELSE "dial")
    /\ healthy[b] /\ ~Open(b)
    /\ target' = [target EXCEPT ![k] = b]
    /\ UNCHANGED <<poolVars, runVars, wg, main, session, evicted, flow, failed, wrote,
                   conn, reader>>

NoBackend(k) ==
    /\ Goto(k, "pick", "done")
    /\ UNCHANGED <<poolVars, runVars, wg, main, session, evicted, handlerVars, conn, reader>>

Blocked(k) ==
    /\ Goto(k, "execute", "done")
    /\ Rejects(cb[target[k]])
    /\ UNCHANGED <<poolVars, runVars, wg, main, session, evicted, handlerVars, conn, reader>>

Execute(k) ==
    /\ Goto(k, "execute", "dial")
    /\ ~Rejects(cb[target[k]])
    /\ cb' = [cb EXCEPT ![target[k]] = BeforeRequest(@, k)]
    /\ UNCHANGED <<cbEnabled, healthy, connections, runVars, wg, main, session, evicted,
                   handlerVars, conn, reader>>

RecordOutcome(k) ==
    /\ Goto(k, "after", "done")
    /\ cb' = [cb EXCEPT ![target[k]] = AfterRequest(@, k, ~failed[k])]
    /\ UNCHANGED <<cbEnabled, healthy, connections, runVars, wg, main, session, evicted,
                   handlerVars, conn, reader>>

-----------------------------------------------------------------------------
(* proxyUdp *)

AfterProxy == IF cbEnabled THEN "after" ELSE "done"

DialFails(k) ==
    /\ Goto(k, "dial", AfterProxy)
    /\ failed' = [failed EXCEPT ![k] = TRUE]
    /\ UNCHANGED <<poolVars, runVars, wg, main, session, evicted, flow, target, wrote,
                   conn, reader>>

DialSucceeds(k) ==
    /\ Goto(k, "dial", "listen")
    /\ flow' = [flow EXCEPT ![k] = k]
    /\ conn' = [conn EXCEPT ![k] = "open"]
    /\ UNCHANGED <<poolVars, runVars, wg, main, session, evicted, target, failed, wrote,
                   reader>>

\* Mutant: no wg.Add.
StartReaderWithoutAdd(k) ==
    /\ Goto(k, "listen", "set")
    /\ reader' = [reader EXCEPT ![k] = "find"]
    /\ UNCHANGED <<poolVars, runVars, wg, main, session, evicted, handlerVars, conn>>

\* p.wg.Add(1); go p.listenForBackend(flow, logger)
StartReader(k) ==
    /\ Goto(k, "listen", "set")
    /\ wg' = wg + 1
    /\ reader' = [reader EXCEPT ![k] = "find"]
    /\ UNCHANGED <<poolVars, runVars, main, session, evicted, handlerVars, conn>>

AddSession(k) ==
    /\ Goto(k, "set", "increment")
    /\ SetSession(ClientOf[k], k)
    /\ UNCHANGED <<poolVars, runVars, wg, main, evicted, handlerVars, conn, reader>>

CountFlow(k) ==
    /\ Goto(k, "increment", "first")
    /\ IncrementConnections(target[k])
    /\ UNCHANGED <<cbEnabled, healthy, cb, runVars, wg, main, session, evicted,
                   handlerVars, conn, reader>>

WriteFirst(k) ==
    /\ WriteAndGoto(k, k, "first", AfterProxy)
    /\ failed' = [failed EXCEPT ![k] = (conn[k] # "open")]
    /\ UNCHANGED <<poolVars, run, stopped, wg, main, session, evicted, flow, target,
                   conn, reader>>

-----------------------------------------------------------------------------
(* listenForBackend.  A reply that is passed on to the client changes no   *)
(* state of the proxy: it only puts the deadline off, which is set anew    *)
(* before every read.  So a deadline passes when the backend has been      *)
(* silent for a second, and never if it never is.                          *)

ReaderStep(f, from, to) ==
    /\ Alive
    /\ reader[f] = from
    /\ reader' = [reader EXCEPT ![f] = to]
    /\ UNCHANGED <<cbEnabled, healthy, cb, runVars, session, evicted, pc, handlerVars>>

\* The search by RemoteAddr, which is a literal address, finds no backend
\* that is configured by name.
CanFind(b) == b \notin Hostnames

FindBackend(f) ==
    /\ ReaderStep(f, "find", "read")
    /\ UNCHANGED <<connections, wg, main, conn>>

\* The 1s deadline passes before the backend sends anything.
DeadlinePasses(f) ==
    /\ ReaderStep(f, "read", "check")
    /\ conn[f] = "open"
    /\ UNCHANGED <<connections, wg, main, conn>>

\* Mutant: a timeout never ends the reader.
CheckSessionIgnored(f) ==
    /\ ReaderStep(f, "check", "read")
    /\ UNCHANGED <<connections, wg, main, conn>>

\* After a timeout the reader goes on if the client has a session, be it another
\* flow's, and ends if it has none.
CheckSession(f) ==
    /\ ReaderStep(f, "check", IF Found(ClientOf[f]) THEN "read" ELSE "decrement")
    /\ UNCHANGED <<connections, wg, main, conn>>

\* The connection was closed under the reader.
ReadClosed(f) ==
    /\ ReaderStep(f, "read", "decrement")
    /\ conn[f] = "closed"
    /\ UNCHANGED <<connections, wg, main, conn>>

Refusable(f) == \E k \in Packets : flow[k] = f /\ wrote[k] \notin {none, "error"}

\* Mutant: a read error returns past the decrement.
ReadRefusedCounted(f) ==
    /\ ReaderStep(f, "read", "close")
    /\ Refusable(f)
    /\ UNCHANGED <<connections, wg, main, conn>>

\* The backend refused something that was written to it.
ReadRefused(f) ==
    /\ ReaderStep(f, "read", "decrement")
    /\ Refusable(f)
    /\ UNCHANGED <<connections, wg, main, conn>>

UncountFlow(f) ==
    /\ ReaderStep(f, "decrement", "close")
    /\ IF CanFind(target[f]) THEN DecrementConnections(target[f])
                             ELSE UNCHANGED connections
    /\ UNCHANGED <<wg, main, conn>>

\* Mutant: leaves the connection to the janitor.
CloseConnForgotten(f) ==
    /\ ReaderStep(f, "close", "wgDone")
    /\ UNCHANGED <<connections, wg, main, conn>>

CloseConn(f) ==
    /\ ReaderStep(f, "close", "wgDone")
    /\ conn' = [conn EXCEPT ![f] = "closed"]
    /\ UNCHANGED <<connections, wg, main>>

ReaderDone(f) ==
    /\ ReaderStep(f, "wgDone", "done")
    /\ WGDone
    /\ UNCHANGED <<connections, conn>>

-----------------------------------------------------------------------------
TimeoutElapses(b) ==
    /\ Alive
    /\ OpenTimeout(b)
    /\ UNCHANGED <<runVars, wg, main, session, evicted, pc, handlerVars, conn, reader>>

Terminated ==
    /\ \/ main = "panicked"
       \/ /\ main = "waited" /\ run = "returned"
          /\ \A k \in Packets : /\ pc[k] \in {"unsent", "done"}
                                /\ reader[k] \in {"none", "done"}
          /\ evicted = {} /\ \A c \in Clients : session[c] = NoSession
    /\ UNCHANGED vars

Handler(k) ==
    \/ Get(k) \/ ForwardHit(k) \/ Refresh(k)
    \/ (\E b \in Backends : Pick(k, b)) \/ NoBackend(k)
    \/ Blocked(k) \/ Execute(k) \/ RecordOutcome(k)
    \/ DialFails(k) \/ DialSucceeds(k) \/ StartReader(k) \/ AddSession(k)
    \/ CountFlow(k) \/ WriteFirst(k)

Reader(f) ==
    \/ FindBackend(f) \/ CheckSession(f) \/ ReadClosed(f)
    \/ UncountFlow(f) \/ CloseConn(f) \/ ReaderDone(f)

Main == Flush \/ Wait \/ WaitReturns

Next ==
    \/ Shutdown \/ Main \/ RunStarts \/ RunReturns \/ ReadError
    \/ \E k \in Packets :
          \/ Receive(k) \/ Handler(k) \/ OnEvicted(k)
          \/ Reader(k) \/ DeadlinePasses(k) \/ ReadRefused(k)
    \/ \E c \in Clients : Expire(c) \/ JanitorDeletes(c)
    \/ \E b \in Backends : TimeoutElapses(b)
    \/ Terminated

(* Goroutines that can step eventually do, an idle session expires and the *)
(* janitor runs every minute.  Nothing makes packets arrive, a backend     *)
(* refuse them or be silent for a second, or the operator shut down.       *)
Fairness ==
    /\ WF_vars(Main) /\ WF_vars(RunStarts \/ RunReturns)
    /\ \A k \in Packets :
          WF_vars(Handler(k)) /\ WF_vars(Reader(k)) /\ WF_vars(OnEvicted(k))
    /\ \A c \in Clients : WF_vars(Expire(c) \/ JanitorDeletes(c))

Spec == Init /\ [][Next]_vars

FairSpec == Spec /\ Fairness

-----------------------------------------------------------------------------
(* Properties *)

Reading == {f \in Packets : reader[f] \notin {"none", "done"}}

(* The WaitGroup counts Run and the readers that have not ended.           *)
WaitGroupExact ==
    wg = Cardinality(Reading) + (IF run = "reading" THEN 1 ELSE 0)

(* When no handler and no reader is under way, no flow is counted on a     *)
(* backend any more: every IncrementConnections is undone, in whatever     *)
(* order the goroutines of a flow ran.  A backend that is configured by    *)
(* host name is not found by the reader (line 216) and keeps the count of  *)
(* every flow it ever had.                                                 *)
ConnectionsSettle ==
    (Reading = {} /\ \A k \in Packets : pc[k] \in {"unsent", "done"})
       => \A b \in Backends :
             connections[b] =
                IF CanFind(b) THEN 0
                ELSE Cardinality({k \in Packets : flow[k] = k /\ target[k] = b})

(* A connection dialled to a backend is closed by the time its reader has  *)
(* ended, whichever of the reader and the janitor closes it first, and no  *)
(* connection is left without a reader once its handler has ended.         *)
NoConnLeak ==
    \A f \in Packets :
       /\ reader[f] = "done" => conn[f] = "closed"
       /\ pc[f] = "done" /\ conn[f] = "open" => f \in Reading

\* No reader is kept reading for ever: again and again the backend of a flow is
\* silent for a second (or refuses, or the connection is closed).  The code does
\* not see to it.  Of a flow without a session, which the reader only finds out
\* when a deadline passes, a backend that sends a packet every second keeps the
\* reader and its connection, and Shutdown waiting, for as long as it likes.
BackendsPause == \A f \in Packets : []<>(reader[f] # "read")

(* Every flow ends once the clients fall silent (the packets are finitely  *)
(* many), if its backend pauses: also one whose session was replaced by a  *)
(* concurrent handler's, or put back by a late refresh.  (The process may  *)
(* end before, in the panic of WaitReturns.)                               *)
FlowsEnd == BackendsPause /\ []Alive => []<>(Reading = {})

\* A handler that may still start a reader.
Opening == {k \in Packets : pc[k] \in {"get", "pick", "execute", "dial", "listen"}}

(* If the backends pause and no handler opens a flow any more once the     *)
(* sessions are flushed, Wait returns, even if a handler that was under    *)
(* way puts a session back.  A handler that does open one calls wg.Add     *)
(* after Wait has begun: Wait may return before that flow has ended, or,   *)
(* when the last flow ends just then, panic.                               *)
WaitTerminates ==
    BackendsPause /\ [](main \in {"flushed", "waiting", "woken"} => Opening = {})
       => (main = "flushed" ~> main = "waited")

(* "Session found, forward packet to the known backend" (line 128): when a *)
(* handler finds the session of a flow that carried its first packet, that *)
(* flow's connection is open.                                              *)
SessionIsUsable ==
    [][\A k \in Packets :
          /\ pc[k] = "get" /\ pc'[k] = "hit"
          /\ wrote[flow'[k]] \notin {none, "error"}
          => conn[flow'[k]] = "open"]_vars

(* "Write the first packet" (line 199): what is written to the backend of  *)
(* a new flow is the packet that created it.                               *)
PayloadIntact ==
    \A k \in Packets : wrote[k] \in {none, "error", k}
=============================================================================
