------------------------------ MODULE TcpProxy ------------------------------
(***************************************************************************)
(* One TCP listener: the accept loop Run, one handleTcpConnection goroutine*)
(* per client with the two copy goroutines of proxyTcp, and the main       *)
(* goroutine that calls Shutdown and then Wait.  They share the backend    *)
(* pool and the proxy's WaitGroup.                                         *)
(*                                                                         *)
(* A step is one access to shared state; goroutine-local work is merged    *)
(* into it.  The deferred calls run in the order the code unwinds them:    *)
(* DecrementConnections, backendConn.Close, the breaker's AfterRequest,    *)
(* clientConn.Close, wg.Done.                                              *)
(***************************************************************************)
EXTENDS BackendPool, FiniteSets

CONSTANT Conns   \* the client connections that may arrive

ASSUME ConnsAssumption ==
    /\ IsFiniteSet(Conns)
    /\ Cardinality(Conns) < UintMod
    /\ Conns \subseteq Requests

VARIABLES
    listener,   \* the listening socket: "open" or "closed"
    running,    \* the accept loop has not returned
    wg,         \* counter of p.wg
    main,       \* the goroutine that shuts the proxy down
    pc,         \* where the handler of a connection is
    target,     \* the backend GetNextBackend returned
    failed,     \* proxyTcp returned an error
    sock,       \* the proxy's two sockets of a connection
    eof,        \* the peer at that end has closed
    copier      \* the two io.Copy goroutines of proxyTcp

connVars == <<target, failed, sock, eof, copier>>
serverVars == <<listener, running, wg, main>>
vars == <<poolVars, serverVars, pc, connVars>>

Ends == {"client", "backend"}

\* The two copy directions, named by the end they read from.
Other(e) == IF e = "client" THEN "backend" ELSE "client"

\* Program points of handleTcpConnection and proxyTcp, in order.
PreDial   == {"pick", "state", "execute"}
Executing == {"dial", "connected", "copying", "closeBackend", "after"}
Handling  == PreDial \cup Executing \cup {"closeClient", "wgDone"}
PCs       == {"none", "accepted", "done"} \cup Handling

MainStates == {"running", "shutdown", "waiting", "woken", "waited", "panicked"}

TypeOK ==
    /\ PoolTypeOK
    /\ listener \in {"open", "closed"}
    /\ running \in BOOLEAN
    /\ wg \in Int
    /\ main \in MainStates
    /\ pc \in [Conns -> PCs]
    /\ target \in [Conns -> Backends \cup {nil}]
    /\ failed \in [Conns -> BOOLEAN]
    /\ sock \in [Conns -> [Ends -> {"none", "open", "closed"}]]
    /\ eof \in [Conns -> [Ends -> BOOLEAN]]
    /\ copier \in [Conns -> [Ends -> {"idle", "read", "write", "close", "done"}]]

Init ==
    /\ NewPool
    /\ listener = "open"
    /\ running = TRUE
    /\ wg = 0
    /\ main = "running"
    /\ pc = [c \in Conns |-> "none"]
    /\ target = [c \in Conns |-> nil]
    /\ failed = [c \in Conns |-> FALSE]
    /\ sock = [c \in Conns |-> [e \in Ends |-> "none"]]
    /\ eof = [c \in Conns |-> [e \in Ends |-> FALSE]]
    /\ copier = [c \in Conns |-> [e \in Ends |-> "idle"]]

\* A panic in any goroutine ends the process.
Alive == main # "panicked"

Goto(c, from, to) ==
    /\ Alive
    /\ pc[c] = from
    /\ pc' = [pc EXCEPT ![c] = to]

-----------------------------------------------------------------------------
(* Run *)

\* Accept returns a connection.  The loop holds it until the next step, where
\* it is added to the WaitGroup.  (An Accept error other than ErrClosed is
\* logged and retried.)
Accept(c) ==
    /\ running
    /\ listener = "open"
    /\ \A d \in Conns : pc[d] # "accepted"
    /\ Goto(c, "none", "accepted")
    /\ sock' = [sock EXCEPT ![c]["client"] = "open"]
    /\ UNCHANGED <<poolVars, serverVars, target, failed, eof, copier>>

\* Mutant: no wg.Add.
SpawnWithoutAdd(c) ==
    /\ Goto(c, "accepted", "pick")
    /\ UNCHANGED <<poolVars, serverVars, connVars>>

\* p.wg.Add(1); go p.handleTcpConnection(clientConn)
Spawn(c) ==
    /\ Goto(c, "accepted", "pick")
    /\ wg' = wg + 1
    /\ UNCHANGED <<poolVars, listener, running, main, connVars>>

\* Accept returns net.ErrClosed.
RunReturns ==
    /\ Alive
    /\ running
    /\ listener = "closed"
    /\ \A d \in Conns : pc[d] # "accepted"
    /\ running' = FALSE
    /\ UNCHANGED <<poolVars, listener, wg, main, pc, connVars>>

-----------------------------------------------------------------------------
(* Shutdown and Wait *)

Shutdown ==
    /\ main = "running"
    /\ main' = "shutdown"
    /\ listener' = "closed"
    /\ UNCHANGED <<poolVars, running, wg, pc, connVars>>

\* Mutant: does not wait.
WaitAtOnce ==
    /\ main = "shutdown"
    /\ main' = "waited"
    /\ UNCHANGED <<poolVars, listener, running, wg, pc, connVars>>

\* wg.Wait returns at once when the counter is 0, else it registers a waiter.
Wait ==
    /\ main = "shutdown"
    /\ main' = IF wg = 0 THEN "waited" ELSE "waiting"
    /\ UNCHANGED <<poolVars, listener, running, wg, pc, connVars>>

\* The waiter resumes.  sync.WaitGroup panics ("WaitGroup is reused before
\* previous Wait has returned") when the counter is no longer 0.
WaitReturns ==
    /\ main = "woken"
    /\ main' = IF wg = 0 THEN "waited" ELSE "panicked"
    /\ UNCHANGED <<poolVars, listener, running, wg, pc, connVars>>

-----------------------------------------------------------------------------
(* handleTcpConnection *)

\* GetNextBackend, as far as the handler can tell: it returns a backend that it
\* saw healthy and, afterwards, saw with a breaker that is not open, or it
\* returns no backend.  Module Selection checks this of every strategy.
SeeHealthy(c, b) ==
    /\ Goto(c, "pick", "state")
    /\ healthy[b]
    /\ target' = [target EXCEPT ![c] = b]
    /\ UNCHANGED <<poolVars, serverVars, failed, sock, eof, copier>>

SeeNotOpen(c) ==
    /\ Goto(c, "state", IF cbEnabled THEN "execute" ELSE "dial")
    /\ ~Open(target[c])
    /\ UNCHANGED <<poolVars, serverVars, connVars>>

\* Mutant: returns without the deferred calls.
NoBackendWithoutDefers(c) ==
    /\ Goto(c, "pick", "done")
    /\ UNCHANGED <<poolVars, serverVars, connVars>>

NoBackend(c) ==
    /\ \/ Goto(c, "pick", "closeClient")
       \/ Goto(c, "state", "closeClient") /\ Open(target[c])
    /\ target' = [target EXCEPT ![c] = nil]
    /\ UNCHANGED <<poolVars, serverVars, failed, sock, eof, copier>>

\* cb.Execute refuses the call.
Blocked(c) ==
    /\ Goto(c, "execute", "closeClient")
    /\ Rejects(cb[target[c]])
    /\ failed' = [failed EXCEPT ![c] = TRUE]
    /\ UNCHANGED <<poolVars, serverVars, target, sock, eof, copier>>

Execute(c) ==
    /\ Goto(c, "execute", "dial")
    /\ ~Rejects(cb[target[c]])
    /\ cb' = [cb EXCEPT ![target[c]] = BeforeRequest(@, c)]
    /\ UNCHANGED <<cbEnabled, healthy, connections, serverVars, connVars>>

\* cb.Execute records the outcome of proxyTcp.
RecordOutcome(c) ==
    /\ Goto(c, "after", "closeClient")
    /\ cb' = [cb EXCEPT ![target[c]] = AfterRequest(@, c, ~failed[c])]
    /\ UNCHANGED <<cbEnabled, healthy, connections, serverVars, connVars>>

\* Mutant: leaves the client's socket open.
CloseClientForgotten(c) ==
    /\ Goto(c, "closeClient", "wgDone")
    /\ UNCHANGED <<poolVars, serverVars, connVars>>

CloseClient(c) ==
    /\ Goto(c, "closeClient", "wgDone")
    /\ sock' = [sock EXCEPT ![c]["client"] = "closed"]
    /\ UNCHANGED <<poolVars, serverVars, target, failed, eof, copier>>

\* wg.Done wakes the waiter when the counter reaches 0.
Done(c) ==
    /\ Goto(c, "wgDone", "done")
    /\ wg' = wg - 1
    /\ main' = IF main = "waiting" /\ wg = 1 THEN "woken" ELSE main
    /\ UNCHANGED <<poolVars, listener, running, connVars>>

-----------------------------------------------------------------------------
(* proxyTcp *)

\* Mutant: the breaker never learns the outcome.
AfterProxyUnrecorded == "closeClient"

AfterProxy == IF cbEnabled THEN "after" ELSE "closeClient"

\* Mutant: counts the connection before the dial and returns without undoing it.
DialFailsCounted(c) ==
    /\ Goto(c, "dial", AfterProxy)
    /\ IncrementConnections(target[c])
    /\ failed' = [failed EXCEPT ![c] = TRUE]
    /\ UNCHANGED <<cbEnabled, healthy, cb, serverVars, target, sock, eof, copier>>

DialFails(c) ==
    /\ Goto(c, "dial", AfterProxy)
    /\ failed' = [failed EXCEPT ![c] = TRUE]
    /\ UNCHANGED <<poolVars, serverVars, target, sock, eof, copier>>

DialSucceeds(c) ==
    /\ Goto(c, "dial", "connected")
    /\ sock' = [sock EXCEPT ![c]["backend"] = "open"]
    /\ UNCHANGED <<poolVars, serverVars, target, failed, eof, copier>>

StartCopying(c) ==
    /\ Goto(c, "connected", "copying")
    /\ IncrementConnections(target[c])
    /\ copier' = [copier EXCEPT ![c] = [e \in Ends |-> "read"]]
    /\ UNCHANGED <<cbEnabled, healthy, cb, serverVars, target, failed, sock, eof>>

\* wg.Wait() of proxyTcp returns, then the deferred DecrementConnections.
StopCopying(c) ==
    /\ Goto(c, "copying", "closeBackend")
    /\ \A e \in Ends : copier[c][e] = "done"
    /\ DecrementConnections(target[c])
    /\ UNCHANGED <<cbEnabled, healthy, cb, serverVars, connVars>>

CloseBackend(c) ==
    /\ Goto(c, "closeBackend", AfterProxy)
    /\ sock' = [sock EXCEPT ![c]["backend"] = "closed"]
    /\ UNCHANGED <<poolVars, serverVars, target, failed, eof, copier>>

-----------------------------------------------------------------------------
(* The copy goroutine that reads from end e and writes to the other end. *)

CopierStep(c, e, from, to) ==
    /\ Alive
    /\ copier[c][e] = from
    /\ copier' = [copier EXCEPT ![c][e] = to]
    /\ UNCHANGED <<poolVars, serverVars, pc, target, failed, eof>>

\* Data arrives from end e.
CopyRead(c, e) ==
    /\ CopierStep(c, e, "read", "write")
    /\ sock[c][e] = "open" /\ ~eof[c][e]
    /\ UNCHANGED sock

\* The other end takes the data.
CopyWrite(c, e) ==
    /\ CopierStep(c, e, "write", "read")
    /\ sock[c][Other(e)] = "open"
    /\ UNCHANGED sock

\* io.Copy returns: the end it reads from is closed, by the peer or by the
\* proxy, or the end it writes to is.
CopyReturns(c, e) ==
    /\ \/ /\ CopierStep(c, e, "read", "close")
          /\ sock[c][e] = "closed" \/ eof[c][e]
       \/ /\ CopierStep(c, e, "write", "close")
          /\ sock[c][Other(e)] = "closed" \/ eof[c][Other(e)]
    /\ UNCHANGED sock

\* Mutant: does not close the end it writes to.
CopierExitsOpen(c, e) ==
    /\ CopierStep(c, e, "close", "done")
    /\ UNCHANGED sock

\* The deferred Close of the end it writes to, and wg.Done of proxyTcp.
CopierExits(c, e) ==
    /\ CopierStep(c, e, "close", "done")
    /\ sock' = [sock EXCEPT ![c][Other(e)] = "closed"]

-----------------------------------------------------------------------------
(* Environment *)

\* The peer at end e closes its side of the connection.
PeerCloses(c, e) ==
    /\ Alive
    /\ sock[c][e] = "open"
    /\ ~eof[c][e]
    /\ eof' = [eof EXCEPT ![c][e] = TRUE]
    /\ UNCHANGED <<poolVars, serverVars, pc, target, failed, sock, copier>>

\* A health check changes a backend's flag; module HealthCheck models when.
HealthChanges(b) ==
    /\ Alive
    /\ SetHealth(b, ~healthy[b])
    /\ UNCHANGED <<cbEnabled, cb, connections, serverVars, pc, connVars>>

TimeoutElapses(b) ==
    /\ Alive
    /\ OpenTimeout(b)
    /\ UNCHANGED <<serverVars, pc, connVars>>

\* The process is over, or only this proxy is.
Terminated ==
    /\ \/ main = "panicked"
       \/ /\ main = "waited" /\ ~running
          /\ \A c \in Conns : pc[c] \in {"none", "done"}
    /\ UNCHANGED vars

-----------------------------------------------------------------------------
Handler(c) ==
    \/ Spawn(c)
    \/ \E b \in Backends : SeeHealthy(c, b)
    \/ SeeNotOpen(c) \/ NoBackend(c)
    \/ Blocked(c) \/ Execute(c) \/ RecordOutcome(c)
    \/ CloseClient(c) \/ Done(c)
    \/ DialFails(c) \/ DialSucceeds(c)
    \/ StartCopying(c) \/ StopCopying(c) \/ CloseBackend(c)

Copier(c, e) ==
    CopyWrite(c, e) \/ CopyReturns(c, e) \/ CopierExits(c, e)

Main == Shutdown \/ Wait \/ WaitReturns

Next ==
    \/ Main \/ RunReturns
    \/ \E c \in Conns :
          \/ Accept(c)
          \/ Handler(c)
          \/ \E e \in Ends : Copier(c, e) \/ CopyRead(c, e) \/ PeerCloses(c, e)
    \/ \E b \in Backends : HealthChanges(b) \/ TimeoutElapses(b)
    \/ Terminated

(* Every goroutine that can take a step eventually does: the Go scheduler  *)
(* is preemptive.  For CopyWrite this also says that a peer that stays     *)
(* connected keeps draining its receive window.  Nothing makes a client    *)
(* arrive, send data or close, and nothing makes the operator shut down.   *)
Fairness ==
    /\ WF_vars(Wait \/ WaitReturns) /\ WF_vars(RunReturns)
    /\ \A c \in Conns : WF_vars(Handler(c))
    /\ \A c \in Conns, e \in Ends : WF_vars(Copier(c, e))

Spec == Init /\ [][Next]_vars

FairSpec == Spec /\ Fairness

-----------------------------------------------------------------------------
(* Properties *)

\* Handlers whose connection is counted in Backend.connections.
Counted(b) == {c \in Conns : pc[c] = "copying" /\ target[c] = b}

\* Handlers the WaitGroup counts.
Tracked == {c \in Conns : pc[c] \in Handling}

(* connections is exactly the number of connections being proxied to that  *)
(* backend: every IncrementConnections of proxyTcp is matched by one       *)
(* DecrementConnections on every path, and the counter never wraps.        *)
ConnectionsExact ==
    \A b \in Backends : connections[b] = Cardinality(Counted(b))

(* The WaitGroup counts exactly the handlers between wg.Add and wg.Done.   *)
WaitGroupExact == wg = Cardinality(Tracked)

(* A breaker awaits only the outcome of calls that are really running on   *)
(* its backend, at most one of them when it is half-open and none when it  *)
(* is open: an early return of the handler never leaks the half-open slot, *)
(* which would block the backend forever.                                  *)
SlotsHeld ==
    \A b \in Backends :
       /\ cb[b].admitted \subseteq
             {c \in Conns : pc[c] \in Executing /\ target[c] = b}
       /\ cb[b].state = "half-open" =>
             \A c, d \in cb[b].admitted : c = d
       /\ cb[b].state = "open" => cb[b].admitted = {}

(* A handler that has ended has closed both its sockets, whatever path it  *)
(* took, so no descriptor outlives its connection.                         *)
NoSocketLeak ==
    \A c \in Conns : pc[c] \in {"wgDone", "done"} =>
       \A e \in Ends : sock[c][e] # "open"

\* What of a connection the operator of the proxy cares about: a tracked
\* connection is open until its handler has ended and its sockets are closed.
\* One that Run has accepted and not yet added to the WaitGroup is still new,
\* and Wait does return while there is one.
Phase(c) ==
    IF pc[c] \in {"none", "accepted"} THEN "new"
    ELSE IF pc[c] = "done" /\ \A e \in Ends : sock[c][e] # "open" THEN "closed"
    ELSE "open"

D == INSTANCE Drain WITH phase   <- [c \in Conns |-> Phase(c)],
                         drained <- (main = "waited")

(* The proxy implements Drain: a connection whose handler was added to the *)
(* WaitGroup is opened and closed once, and Wait never returns before all  *)
(* of them have ended with both sockets closed.                            *)
ImplementsDrain == D!Spec

\* A proxied connection that one of its peers has closed.
Ending(c) ==
    /\ pc[c] \in {"copying", "closeBackend", "after", "closeClient", "wgDone"}
    /\ \E e \in Ends : eof[c][e]

(* Once either peer of a proxied connection closes, the handler ends: the  *)
(* copy goroutines never keep each other waiting.  (A connection passes    *)
(* through these points once and there are finitely many.)                 *)
CloseEndsHandler == []<>(~Alive \/ \A c \in Conns : ~Ending(c))

(* If the peers of every proxied connection eventually close, a started    *)
(* Wait returns, provided Run does not hold a connection that it accepted  *)
(* before Shutdown and has not added to the WaitGroup.  If it does, Wait   *)
(* may return without that connection, or panic: see WaitDoesNotPanic.     *)
WaitTerminates ==
    /\ []<>(\A c \in Conns : pc[c] = "copying" => \E e \in Ends : eof[c][e])
    /\ [](listener = "closed" => \A c \in Conns : pc[c] # "accepted")
    => (main = "shutdown" ~> main = "waited")

(* "Wait blocks until all active TCP connections are closed" (line 70): it *)
(* does not end the process while there are some.  It does when Run adds a *)
(* connection it accepted before Shutdown just after the last handler has  *)
(* woken the waiter, and before this has resumed.                          *)
WaitDoesNotPanic == main # "panicked"
=============================================================================
