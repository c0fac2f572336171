------------------------------ MODULE Process ------------------------------
(***************************************************************************)
(* The life of the process: main starts a server for every listener, waits *)
(* for signals, and on SIGINT or SIGTERM shuts everything down.            *)
(*                                                                         *)
(* A server is named by the number of its listener and its kind.  Servers  *)
(* of kind "http", "acme" and "admin" are http.Servers; those of kind      *)
(* "tcp" and "udp" are this program's proxies, which appear here as in     *)
(* Drain: connections they take charge of open and close, and Wait returns *)
(* only while none is open.  What a reload does to the routes is in        *)
(* AdminAPI.  The metrics server is never shut down and is left out.       *)
(***************************************************************************)
EXTENDS Integers, SequencesExt

CONSTANTS
    Configs,   \* configurations: a sequence of listeners and whether there is
               \* an adminAddr
    Conns      \* connections of one server

ASSUME ConfigsAssumption ==
    \A cf \in Configs :
       /\ cf.admin \in BOOLEAN
       /\ \A i \in DOMAIN cf.listeners :
             cf.listeners[i] \in {"http", "autocert", "tcp", "udp", "unknown"}

VARIABLES
    config,     \* the configuration that was loaded at the start
    main,       \* where main is, or how the process has ended
    next,       \* the listener main starts next
    started,    \* udpProxies, tcpProxies, httpServers and adminServer
    server,     \* the goroutine of each: "starting", "serving", "closing", "closed", "failed"
    open,       \* pairs of a server and a connection it is serving
    queue,      \* sigChan
    todo,       \* what main has still to do to shut down
    began,      \* servers whose Shutdown was called
    left,       \* for a goroutine of the shutdown the servers it still waits for
    wg,         \* the WaitGroup of main
    deadline,   \* the context of the shutdown has expired
    term,       \* history: a SIGTERM arrived while no signal was waiting
    owed        \* history: pairs in open when Shutdown was called

startVars == <<config, next, started>>
stopVars  == <<todo, began, left, wg, deadline>>
history   == <<term, owed>>
vars == <<startVars, main, server, open, queue, stopVars, history>>

Kind(u)  == u[2]
IsL4(u)  == Kind(u) \in {"tcp", "udp"}
Ended    == {"returned", "fatal", "killed"}
Slices   == {"udp", "tcp", "http", "admin"}

Init ==
    /\ config \in Configs
    /\ main = "load" /\ next = 1
    /\ started = [k \in Slices |-> <<>>] /\ server = <<>> /\ open = {}
    /\ queue = <<>>
    /\ todo = <<>> /\ began = {} /\ left = <<>> /\ wg = 0 /\ deadline = FALSE
    /\ term = FALSE /\ owed = {}

-----------------------------------------------------------------------------
(* Start *)

\* The servers of us are started, in the state s, and appended to slice k.
Start(k, us, s) ==
    /\ started' = [started EXCEPT ![k] = @ \o us]
    /\ server' = [u \in ToSet(us) \cup DOMAIN server |->
                   IF u \in ToSet(us) THEN s ELSE server[u]]

\* LoadConfig, NewLoadBalancer and StartAdminServer, or log.Fatalf.
Load ==
    /\ main = "load"
    /\ \/ /\ main' = "listeners"
          /\ Start("admin", IF config.admin THEN <<<<0, "admin">>>> ELSE <<>>, "starting")
       \/ main' = "fatal" /\ UNCHANGED <<started, server>>
    /\ UNCHANGED <<config, next, open, queue, stopVars, history>>

\* One turn of the listener loop.  NewTcpProxy and NewUDPProxy bind the socket and
\* may fail, in which case the listener is skipped, as one of unknown protocol is.
StartListener ==
    LET protocol == config.listeners[next]
    IN /\ main = "listeners" /\ next <= Len(config.listeners)
       /\ \/ protocol = "http" /\ Start("http", <<<<next, "http">>>>, "starting")
          \/ /\ protocol = "autocert"
             /\ Start("http", <<<<next, "http">>, <<next, "acme">>>>, "starting")
          \/ protocol \in {"tcp", "udp"} /\ Start(protocol, <<<<next, protocol>>>>, "serving")
          \/ protocol \in {"tcp", "udp", "unknown"} /\ UNCHANGED <<started, server>>
       /\ next' = next + 1
       /\ UNCHANGED <<config, main, open, queue, stopVars, history>>

Notify ==
    /\ main = "listeners" /\ next > Len(config.listeners)
    /\ main' = "loop"
    /\ UNCHANGED <<startVars, server, open, queue, stopVars, history>>

-----------------------------------------------------------------------------
(* Signals *)

\* Mutant: signal.Notify with an unbuffered channel.
Unbuffered == 0

\* make(chan os.Signal, 1)
sigChanSize == 1

\* A signal arrives.  Before signal.Notify it ends the process; afterwards it is
\* dropped if the channel is full.
Signal(s) ==
    IF main \in {"load", "listeners"}
    THEN main' = "killed" /\ UNCHANGED <<startVars, server, open, queue, stopVars, history>>
    ELSE /\ queue' = IF Len(queue) < sigChanSize THEN Append(queue, s) ELSE queue
         /\ term' = (term \/ (s = "TERM" /\ queue = <<>>))
         /\ UNCHANGED <<startVars, main, server, open, stopVars, owed>>

Todo(op, us) == [i \in DOMAIN us |-> [op |-> op, unit |-> us[i]]]

\* The branch for SIGINT and SIGTERM, statement by statement.
Shutdown ==
    Todo("shutdown", started["udp"]) \o Todo("goWait", <<<<0, "udp">>>>) \o
    Todo("shutdown", started["tcp"]) \o Todo("goWait", <<<<0, "tcp">>>>) \o
    Todo("goShutdown", started["http"]) \o Todo("goShutdown", started["admin"])

Receive ==
    /\ main = "loop" /\ queue # <<>>
    /\ queue' = Tail(queue)
    /\ \/ Head(queue) = "TERM" /\ main' = "stop" /\ todo' = Shutdown
       \/ Head(queue) = "HUP" /\ main' = "reload" /\ UNCHANGED todo
    /\ UNCHANGED <<startVars, server, open, began, left, wg, deadline, history>>

\* LoadConfig and, unless it fails, ReloadConfig.
Reload ==
    /\ main = "reload"
    /\ main' = "loop"
    /\ UNCHANGED <<startVars, server, open, queue, stopVars, history>>

-----------------------------------------------------------------------------
(* Shutdown *)

\* Shutdown of u is called: it accepts nothing new.
Begin(u) ==
    /\ began' = began \cup {u}
    /\ server' = IF server[u] # "serving" THEN server
                 ELSE [server EXCEPT ![u] = IF IsL4(u) THEN "closing" ELSE "closed"]
    /\ owed' = owed \cup {p \in open : p[1] = u}

WithGoroutine(u, us) ==
    [t \in DOMAIN left \cup {u} |-> IF t = u THEN us ELSE left[t]]

\* Mutant: wg.Add is left to the goroutine.
GoUncounted(u, us) ==
    /\ left' = WithGoroutine(u, us)
    /\ wg' = wg

\* wg.Add(1) and a goroutine that waits for us.
Go(u, us) ==
    /\ left' = WithGoroutine(u, us)
    /\ wg' = wg + 1

Stop ==
    LET step == Head(todo)
        u    == step.unit
    IN /\ main = "stop" /\ todo # <<>>
       /\ todo' = Tail(todo)
       /\ \/ step.op = "shutdown" /\ Begin(u) /\ UNCHANGED <<left, wg>>
          \/ step.op = "goWait" /\ Go(u, started[Kind(u)]) /\ UNCHANGED <<began, server, owed>>
          \/ step.op = "goShutdown" /\ Go(u, <<u>>) /\ UNCHANGED <<began, server, owed>>
       /\ UNCHANGED <<startVars, main, open, queue, deadline, term>>

\* wg.Wait returns, and main.
Return ==
    /\ main = "stop" /\ todo = <<>> /\ wg = 0
    /\ main' = "returned"
    /\ UNCHANGED <<startVars, server, open, queue, stopVars, history>>

\* A goroutine calls Shutdown of an http.Server.
ServerShutdown(t) ==
    /\ left[t] # <<>> /\ ~IsL4(Head(left[t])) /\ Head(left[t]) \notin began
    /\ Begin(Head(left[t]))
    /\ UNCHANGED <<startVars, main, open, queue, todo, left, wg, deadline, term>>

\* Mutant: Shutdown with a context that does not expire.
IdleForEver(u) == ~\E p \in open : p[1] = u

\* Wait of a proxy, or Shutdown of an http.Server, returns.
Idle(u) == (deadline /\ ~IsL4(u)) \/ ~\E p \in open : p[1] = u

WaitReturns(t) ==
    /\ left[t] # <<>> /\ Head(left[t]) \in began /\ Idle(Head(left[t]))
    /\ left' = [left EXCEPT ![t] = Tail(@)]
    /\ UNCHANGED <<startVars, main, server, open, queue, todo, began, wg, deadline, history>>

Done(t) ==
    /\ left[t] = <<>>
    /\ left' = [s \in DOMAIN left \ {t} |-> left[s]]
    /\ wg' = wg - 1
    /\ UNCHANGED <<startVars, main, server, open, queue, todo, began, deadline, history>>

\* 30 s after the signal.
Expire ==
    /\ main = "stop" /\ ~deadline
    /\ deadline' = TRUE
    /\ UNCHANGED <<startVars, main, server, open, queue, todo, began, left, wg, history>>

-----------------------------------------------------------------------------
(* Servers *)

\* ListenAndServe listens, unless Shutdown was called before.
Listen(u) ==
    /\ server[u] = "starting"
    /\ server' = [server EXCEPT ![u] = IF u \in began THEN "closed" ELSE "serving"]
    /\ UNCHANGED <<startVars, main, open, queue, stopVars, history>>

\* ListenAndServe fails: os.Exit(1) for a listener, a log line for the others.
ListenFails(u) ==
    /\ server[u] \in {"starting", "serving"} /\ ~IsL4(u)
    /\ \/ Kind(u) = "http" /\ main' = "fatal" /\ UNCHANGED server
       \/ Kind(u) # "http" /\ server' = [server EXCEPT ![u] = "failed"] /\ UNCHANGED main
    /\ UNCHANGED <<startVars, open, queue, stopVars, history>>

\* Run has returned, and the handlers of what it had accepted have counted it.
RunReturns(u) ==
    /\ server[u] = "closing"
    /\ server' = [server EXCEPT ![u] = "closed"]
    /\ UNCHANGED <<startVars, main, open, queue, stopVars, history>>

Open(u, c) ==
    /\ server[u] \in {"serving", "closing"}
    /\ <<u, c>> \notin open
    /\ open' = open \cup {<<u, c>>}
    /\ UNCHANGED <<startVars, main, server, queue, stopVars, history>>

Close(u, c) ==
    /\ <<u, c>> \in open
    /\ open' = open \ {<<u, c>>}
    /\ owed' = owed \ {<<u, c>>}
    /\ UNCHANGED <<startVars, main, server, queue, stopVars, term>>

-----------------------------------------------------------------------------
Running == main \notin Ended

Main == Running /\ (Load \/ StartListener \/ Notify \/ Receive \/ Reload \/ Stop \/ Return)

Goroutines == Running /\ \E t \in DOMAIN left : ServerShutdown(t) \/ WaitReturns(t) \/ Done(t)

Servers == Running /\ \E u \in DOMAIN server : Listen(u) \/ RunReturns(u)

\* Connections of the proxies end.
L4Closes == Running /\ \E u \in DOMAIN server, c \in Conns : IsL4(u) /\ Close(u, c)

Timeout == Running /\ Expire

Environment ==
    /\ Running
    /\ \/ \E s \in {"TERM", "HUP"} : Signal(s)
       \/ \E u \in DOMAIN server :
             \/ ListenFails(u)
             \/ \E c \in Conns : Open(u, c) \/ (~IsL4(u) /\ Close(u, c))

\* The process is gone.
Gone == main \in Ended /\ UNCHANGED vars

Next == Main \/ Goroutines \/ Servers \/ L4Closes \/ Timeout \/ Environment \/ Gone

\* Goroutines run, the clock runs, and the connections of the proxies end, which is
\* what WaitTerminates of TcpProxy and UDPProxy promises if the peers close and the
\* UDP backends pause; requests of HTTP clients may last for ever.
Fairness ==
    /\ WF_vars(Main) /\ WF_vars(Goroutines) /\ WF_vars(Servers)
    /\ WF_vars(L4Closes) /\ WF_vars(Timeout)

Spec == Init /\ [][Next]_vars /\ Fairness

-----------------------------------------------------------------------------
(* Properties *)

\* When main returns after "Graceful shutdown complete.", every TCP connection and
\* UDP flow that was open when its proxy was shut down has ended, and so has every
\* HTTP request unless the 30 s were over.
ExitOnlyDrained ==
    main = "returned" =>
       /\ ~\E p \in owed : IsL4(p[1])
       /\ deadline \/ open \subseteq {p \in open : IsL4(p[1])}

\* A SIGTERM that arrives while no signal is waiting in sigChan is heeded, even if
\* main is busy with a reload.  (One that arrives while a SIGHUP waits is dropped.)
TermHeeded == term ~> main \in {"stop"} \cup Ended

\* A shutdown ends if the connections of the proxies end, even if HTTP requests hang.
\* A TCP connection that stays open, or a UDP backend that never falls silent for a
\* second, keeps the process for as long as it likes.
ShutdownTerminates == main = "stop" ~> main \in Ended
=============================================================================
