# A verification project for go-load-balancer

TLA+ models of the load balancer in `src/internal/lb`, the TLC runs that check
them on small instances and the TLAPS proofs that hold for every instance.
Line numbers below are lines of the file named, in `src/internal/lb` unless a
path is given.

## The system

| part | state | operations | meets |
| --- | --- | --- | --- |
| circuit breaker (gobreaker, `backend.go` 71-84, 179-192) | state, consecutive failures, calls admitted in this generation | `Execute`, `State` | every handler, the health ticker |
| backend pool (`backend.go`) | per backend: health flag, breaker, `connections` (uint64), `CurrentWeight`; per pool: round-robin counter, lock | `SetHealth`, `Increment/DecrementConnections`, `GetNextBackend` | handlers of all connections at once |
| strategies (`strategy.go`) | none of their own | five scans of the pool | pool, health checks, breakers |
| health checks (`backend.go` 251-296) | one ticker per pool, one goroutine per check | `healthCheck` | pool, breakers |
| TCP proxy (`tcp_proxy.go`) | listener, WaitGroup, per connection two sockets and two copy goroutines | `Run`, `handleTcpConnection`, `proxyTcp`, `Shutdown`, `Wait` | pool, `main` |
| UDP proxy (`udp_proxy.go`) | listener, read buffer, session cache, WaitGroup, per flow a connection and a reader goroutine | `Run`, `handleUDPPacket`, `proxyUdp`, `listenForBackend`, `OnEvicted`, `Shutdown`, `Wait` | pool, go-cache's janitor, `main` |
| rate limiter (`ratelimit.go`) | a Redis key per client address | `Allow` | Redis, other processes |
| L7 handler and response cache (`loadbalancer.go` 145-246, `metrics.go` 14-27) | response cache | the handler of a route | pool, breaker, reverse proxy |
| router (`loadbalancer.go` 33-46, 256-272, 286-321) | sorted routes | `Matches`, `ServeHTTP` | rate limiter, handlers |
| configuration and admin API (`loadbalancer.go` 66-112, 324-417, `admin.go`, `config.go`) | `cfg`, `routes`, `l4Pools` under one lock | reload, add/delete/update route and backend | SIGHUP and HTTP requests at once |
| process (`cmd/lb/main.go`) | the proxies and servers | start, SIGHUP, SIGTERM | all |
| metrics, TLS set-up, test backends | - | - | - |

Where it is hard: every connection and packet is a goroutine, and all of them
read a pool that checks, breakers and other handlers change between two reads;
resources taken in one place (a WaitGroup unit, a connection count, the single
slot of a half-open breaker, sockets, sessions) are given back by deferred calls
on many paths; `Wait` races with the loops that add to its WaitGroup; UDP
sessions are looked up, written and refreshed without a lock while the janitor,
readers and `Flush` remove them; the rate limiter's two Redis commands are not a
transaction; a reload replaces routes and pools under handlers, requests and
proxies that hold the old ones; a shutdown has to wait for all kinds of servers
and for no hung request. `PROJECT.json` lists these hazards line by line.

What makes the parts correct:

- strategies return only a backend seen available, return none only if none is,
  respect load, affinity and weights, and starve nobody;
- health checks bring a backend back, and take it out;
- the TCP proxy balances all it takes and reports itself drained only when the
  connections it has taken charge of are closed;
- the UDP proxy leaks no connection and no count, ends every flow and can be
  waited for;
- the rate limiter allows at most `limit` requests in a second, and denies only
  clients that keep sending;
- the L7 handler gives back what it takes, tells the breaker the outcome, caches
  only what a backend answered;
- the router takes the most specific route of the table in effect, and the
  shared cache keeps pages apart that have different keys;
- routes and configuration agree after every admin operation and reload, and an
  acknowledged change is in effect and changes one entry;
- the process exits only when drained, heeds SIGTERM, and does exit.

## Modules

    CircuitBreaker <- BackendPool <- TcpProxy  <- TcpProxyProofs
                                  <- UDPProxy  <- MCUDPProxy, UDPProxyProofs
                                  <- L7Handler <- L7HandlerProofs
                                  <- HealthCheck
                                  <- BackendPoolProofs (lemmas of the three above)
    Drain (abstract)     implemented by TcpProxy
    Selection <- MCSelection, SelectionProofs
    RateLimiter <- RateLimiterProofs
    Router <- AdminAPI <- MCAdminAPI, AdminAPIProofs
    RouteTable (abstract)  implemented by AdminAPI
    Process <- MCProcess, ProcessProofs

The modules named `...Proofs` hold the theorems, which TLAPS checks.

**CircuitBreaker.** gobreaker v1.0.0 with `MaxRequests` 1 and `Interval` 0, as
operators on a record. The generation number is replaced by the set of calls
admitted in the current generation: an outcome counts exactly if its call is in
the set, and a half-open breaker is full exactly if the set is not empty.
`Execute(f)` is `BeforeRequest`, the steps of `f`, `AfterRequest`. gobreaker,
go-cache, sync.WaitGroup and Redis are outside the repository and modelled from
their use.

**BackendPool.** Variables `healthy`, `cb`, `connections` and the choice
`cbEnabled`; the counters keep their modulus (`UintMod` stands for 2^64). In
`CircuitBreaker` and `BackendPool` the elapse of `OpenStateTimeout` is a step of
its own: gobreaker makes the transition lazily, when next asked, which no caller
can tell apart.

**TcpProxy.** One action per access to shared state. `pc[c]` is the point of
the handler of connection `c`: `pick` and `state` (the two reads of
`GetNextBackend`), `execute`, `dial`, `connected`, `copying`, then the deferred
calls in the order in which they unwind: decrement (into `closeBackend`),
close the backend socket, the breaker's `after`, `closeClient`, `wgDone`.
`copier[c][e]` is the goroutine that reads from end `e`. `Accept` and `Spawn`
are two steps, because `Shutdown` and `Wait` can come between `Accept` and
`wg.Add` (45, 57). `sync.WaitGroup`'s panic on reuse is a state, in which the
process is gone. The choice of
the backend is any backend seen healthy and then seen not open, or none;
`Selection` checks that every strategy keeps to that.

**Drain.** What the operator is promised: a connection is opened once and closed
once, and the proxy is drained only while none is open.

**Selection.** `GetNextBackend` read by read. `Visit` reads the health flag (and
advances the shared counter for round-robin), `ReadState` the breaker,
`LoopBody` is the strategy's loop body with its read of the connection counter,
`Finish` what follows the loop. Weighted round-robin holds the pool lock from
`Call` to `Finish`. Counters wrap: they take the values up to `MaxConns` and, since
the UDP proxy may count a flow down before it counts it up, those up to `MaxConns`
below 2^64 (`Counts`). The float64 comparison of weighted-least-connections is
modelled by cross-multiplication, which agrees with it for counts and weights
far below 2^53, and `Read` rounds the counts just below 2^64 to 2^64, as the
conversion to float64 does. The variable `pool` picks one of `Pools` and stays, so that one
run covers all strategies. `straight` is history: during this call no other call
has advanced the round-robin counter, and the counter has not passed a wrap that
makes it skip, which happens only if the number of backends does not divide the
modulus.

**HealthCheck.** `CheckStarts` is the ticker's visit of a backend, which skips
an open breaker; `DialReturns` and `CheckEnds` are the check. A check takes at
most 2 s and the ticker's period is 5 s, so a backend has one check at a time.
`layer` says whose pool it is. Requests trip breakers: `Send` executes one,
`Settle` fixes what it will return, and `RequestEnds` records that, perhaps much
later. A TCP call fails exactly if its dial does (`tcp_proxy.go` 124-128), however
its connection ends; an L7 call fails on a status of 500 or more and when its
answer breaks off, and succeeds if the backend cannot be reached, since the error
handler only logs (`loadbalancer.go` 205-213). `Reload` gives a route a new pool:
health flags, breakers and checks start anew.

**UDPProxy.** `Run`, one handler per packet, one reader per flow (named by the
packet that created it), the cache with expiry, the janitor's delete and the
later `OnEvicted`, `Shutdown` as close then `Flush`. `buffer` is the packet whose
bytes Run's single buffer holds; a write that overlaps the read of a later packet
is a data race and writes torn bytes. A reader looks its session up only when a
read deadline has passed (`DeadlinePasses`, `CheckSession`), and the deadline is
set anew before every read, so a backend that keeps sending puts the look off.
It also ends when its connection was closed under it (`ReadClosed`) or when the
backend refused a packet (`ReadRefused`).

**RateLimiter.** A key is a count and a time to live in ticks. `Incr` and
`Expire` are two steps; the pipeline can break off after either. `granted` is
history: the calls allowed in the last second, numbered, each with what its INCR
returned and its age. A Redis that loses its data is not modelled. Without a limiter (`lb.rl == nil`) requests
bypass it and nothing changes.

**L7Handler.** One goroutine per request. `lookup`, `pick`, `state`, `count`,
`execute`, `proxy`, `after`, `finish`, `store`, `write` and `release` are the
points of the handler between accesses to shared state. `recorder` is the
`CachingRecorder`: its `WriteHeader` sets `status` and `wroteHeader`, its `Write`
fills the buffer, and neither reaches the client. A response is a status and
where its body comes from (the backend, the handler's own error text, nowhere);
headers are left out, and requests with the same cache key are one page. The
reverse proxy answers, fails to reach the backend (its own error handler writes
502, the one the handler installs with a breaker only logs), or panics within
the body with `http.ErrAbortHandler`, which the deferred calls and gobreaker's
recovery see. `lb.cache` is set once and never replaced, so `cacheEnabled` is
constant in a behaviour. `answer` is history.

**Router.** `Matches`, the less function of `sort.Slice` (`Less`), all tables
`sort.Slice` may produce (`Sorted`), the first match of `ServeHTTP`. `sort.Slice`
promises no stability, but up to 12 elements, `MaxInsertion`, it is an insertion
sort and leaves equal elements in order (`InOrder`). Hosts and paths are sequences
of characters, because prefixes, lengths and the concatenation in the cache key
matter. There are two references. `Best`, stated without the order: no other
matching route names the host where this one does not, or has a longer prefix of
the path. `FirstListed`: of the matching routes with this host and path, none
comes before this one in the configuration. That is what `config.yaml` asks for
with "THIS MUST BE THE LAST ROUTE" and what `TestL7Routing` relies on: a route with
headers, listed first, goes before the one that catches the rest.

**AdminAPI.** `configs` is the heap of `Config` objects, `cfg` the pointer
`lb.cfg`. What runs under `lb.lock` is one step. An admin request is three:
`Authenticate` reads the token, `Accept` (with the check of the payload in the
handler it belongs to) takes the pointer to the listener of the configuration in
use then, and `AddRoute`, `DeleteRoute`, `AddBackendToRoute`,
`DeleteBackendFromRoute` or `UpdateBackendWeightInRoute` changes what the pointer
points to, in a configuration that may have been replaced, and rebuilds the
routes of the one in use. `Pool` is what `NewL7BackendPool` makes of a list of
backends: the last of two with one address, none whose address does not parse,
weight 1 for a weight that is not positive. A compiled route is its rule (host,
path, headers) and its pool; the pools of one reload are named by its number.
`Sighup` is `LoadConfig` and `ReloadConfig`. `ServeHTTP` takes a route, `Answered`
caches what came through it, perhaps reloads later. The L4 pools are left out:
the running proxies keep those they took when they were started.

**RouteTable.** What the administrator is promised: the table of rules and
weights is one that was loaded, and each change concerns one route, or one
backend of one route.

**Process.** `main` and the goroutines it starts. `started` holds the slices
`udpProxies`, `tcpProxies` and `httpServers`, and `adminServer`. `todo` is the SIGTERM branch
statement by statement; `left` holds its goroutines: the two that call `Wait` of
the UDP and of the TCP proxies in turn, and one `Shutdown(ctx)` per HTTP server.
`server` is the state of each server's own goroutine, whose failure ends the
process for a listener and only itself for the admin and the challenge server.
The proxies are reduced to what `Drain` promises: connections open and close,
`Wait` returns while none is open, and a connection accepted before `Shutdown`
may be counted after it (`closing`); that `Wait` can then panic is `TcpProxy`'s
subject. `term` and `owed` are history.

A definition commented "Mutant" is a plausible mistake in the definition that
follows it; putting it in that definition's place violates the property
`PROJECT.json` names, which shows that the property can fail.

## Runs

All bounds are in the `.cfg` files. Deadlock is checked in every run; where a
program really ends, `Terminated` or `Gone` says so.

| run | instance | distinct states | result |
| --- | --- | --- | --- |
| `tcp` | 2 connections, 1 backend, breaker off and on, trips at the first failure, fair | 219,378 | pass |
| `tcp_wait_panic` | as `tcp`, safety only | - | violated |
| `select` | 1 caller, 3 backends (weights 1, 2, 1) for every strategy but round-robin (unknown strategies take it) and ip-hash; ip-hash without an address; 2 callers, 2 backends for ip-hash with 3 client addresses, round-robin, weighted-round-robin; connection counters from -1 to 1, all counters modulo 8 | 1,940,407 | pass |
| `health` | a backend of a TCP listener or of a route, 2 requests, breaker off and on, up to 2 reloads, fair | 13,328 | pass |
| `udp` | 2 packets of one client (symmetric), 2 backends, one of them configured by host name, breakers off and on | 2,565,594 | pass |
| `udp_live` | 2 packets of one client, 1 backend, no breaker, fair | 393,626 | pass |
| `udp_stale_session` | 2 packets of one client, 1 backend, fair | - | violated |
| `udp_buffer` | 3 packets of 2 clients, 1 backend | - | violated |
| `rate` | 2 callers, 3 ticks per second, rates 0, 0.5, 1, 2.5, counts up to 5 | 28,585 | pass |
| `l7` | 2 requests for one page, GET or not, 2 backends, cache and breakers off and on, answers 200, 404, 500 | 242,952 | pass |
| `admin` | 2 admin requests (symmetric), 1 request, 3 files, up to 4 routes, 3 pages, 2 reloads, tables up to 2 routes sorted by insertion | 239,868 | pass |
| `process` | 3 configurations: autocert, admin and unknown; 2 TCP; UDP, HTTP and TCP; 1 connection each, fair | 235,125 | pass |

Why the bounds are enough. Two connections are what it takes for one handler to
end, trip or fill a breaker while another is anywhere; one backend makes them
meet, and the proofs cover every number of both. Three backends let a scan pass one backend before and one after the
chosen one, and the weights 1, 2, 1 (configured as 0, 2, -1) make weighted choices differ from unweighted
ones. Two packets of one client give both handlers missing the cache, a hit on a
flow that is ending, and a late refresh. Two
requests for one page give a hit, two concurrent misses, a store after the other
request's store or after the expiry, and a breaker that one trips or half-opens
while the other is inside it. Three ticks make a second in which
requests fall at the start, the middle and the end; a count of 5 is beyond twice
the largest limit. `UintMod` is small so that a counter that wrongly passes zero
wraps within the instance. Two admin requests and two reloads give a change
applied after another change or after a SIGHUP, and a request that outlives both;
the first file has a route for all hosts, a tie with it that asks for a header
and a route of one host with a backend twice, so all orders of the table and all
ambiguous matches occur. `MaxInsertion` is 2 in the run, so that this file is
longer and may be sorted in either order, and the second file, with the header
route first, is not. Two of the three pages have one key, because one of the hosts
has a slash. Rules in a file are distinct, since the table of
`RouteTable` is a function of them. In `process` one connection per server is
enough for a server not to be idle, and two TCP proxies make the waiting
goroutine wait in turn.

For `health` one backend is enough: backends have nothing in common but
requests, two of which let an old outcome meet a new generation of the breaker.

The round-robin counter wraps at 8 in the run: with two backends, which divides
it, nothing may be missed at the wrap; with three, the one scan at the wrap may
visit a backend twice and another not at all, and `NilOnlyIfNoneAvailable`
exempts exactly that scan.

### What the passing runs show

- `ConnectionsExact`, `WaitGroupExact`, `SlotsHeld`, `NoSocketLeak`: on no path
  through the TCP handler is anything taken and not given back.
- `ImplementsDrain`: `Wait` returns only when every connection added to the
  WaitGroup has ended with its sockets closed.
- `CloseEndsHandler`, `WaitTerminates`: the copy goroutines do not block each
  other, and `Wait` returns, without a panic, if the peers of every connection
  eventually close and `Run` holds no connection that it has not added.
- `PickedWasAvailable`, `NilOnlyIfNoneAvailable`, `LeastLoaded`, `IPAffinity`,
  `WeightsBalanced`, `NoStarvation`: see `Selection`. The bound of
  `NoStarvation`, (N - 1) * (the weight of the heaviest two) / weight calls in a
  row, holds although the set of available backends changes at will. That freedom
  costs something: the tempting bound 2 * total / weight, which small pools
  satisfy, is false in general (weights 1, 1, 1, 20 break it), because backends
  that come and go can gather credit at each other's expense.
- `NilOnlyIfNoneAvailable` has three exceptions: round-robin calls that overlap,
  the wrap of the round-robin counter, and least-connections with a counter that
  it reads as 2^64-1. `LeastLoaded` takes such a counter as the largest load, as
  the code does.
- `Recovers`, `LeavesRotation`: neither the outcomes of calls that began before
  the backend changed, nor an L7 breaker that counts an unreachable backend as a
  success, nor a reload change the outcome in the end. A backend on L7 has also to
  stop failing requests to come back for good. The second says only "again and again" for
  backends with breakers. If the breaker is open at every tick the flag is never
  cleared, and each half-open period lets one request through to a dead backend.
- `ConnectionsSettle`, `NoConnLeak`, `FlowsEnd`, `WaitTerminates` (UDP). The
  counter may pass through 2^64-1 when a flow's reader ends before its handler
  has counted it; it settles. The last two hold if the backends pause
  (`BackendsPause`), and `WaitTerminates` if no handler opens a flow after the
  `Flush`: one that does adds to the WaitGroup while `Wait` is waiting.
- `AtMostLimitPerSecond`, `DeniedOnlyWhenBusy`: renewing the expiry on every
  request makes the limit strict over every second, and a second of silence
  resets it.
- `ConnectionsExact`, `SlotsHeld`, `CacheFromBackend` (L7): a refused call, a
  failed backend and a panic of the reverse proxy all give back the count and the
  slot, and the cache holds what some backend answered below 500, with the one
  exception named below.
- `RoutesMatchConfig`, `AckedInEffect`, `ImplementsRouteTable`: however admin
  requests and SIGHUPs interleave, the routes in effect are those of the
  configuration in use, an acknowledged change shows in them (with the exceptions
  below), and no step touches more than one entry without loading a file.
- `BestRoute`: the order of `sort.Slice` puts the most specific matching route
  first, and in tables that are sorted by insertion the first listed of the
  matching routes with one host and path.
- `CacheByPage`: an item was produced by a route that serves its host and path,
  or a page with the same key, and while the routes have not changed no more
  specific route without headers is bypassed by it.
- `ExitOnlyDrained`, `TermHeeded`, `ShutdownTerminates`: a graceful exit leaves
  no connection a proxy was responsible for, a SIGTERM during a reload is not
  lost, and hung HTTP requests delay the exit by 30 s at most. TCP connections
  delay it as long as they last.

### Findings

Each violated run checks what a comment of the code says.

| run | the code says | what happens |
| --- | --- | --- |
| `tcp_wait_panic` | `tcp_proxy.go:70` "Wait blocks until all active TCP connections are closed" | a connection accepted before `Shutdown` and added (57) just after the last handler woke the waiter makes `sync.WaitGroup` panic, and the process ends in the middle of its shutdown |
| `udp_stale_session` | `udp_proxy.go:128` "forward packet to the known backend" | after a read error the closed connection stays in the cache and is renewed |
| `udp_buffer` | `udp_proxy.go:199` "Write the first packet" | handlers share Run's buffer |

Other behaviour met while modelling, which the properties state as it is:

- `CachingRecorder.WriteHeader` sets `wroteHeader` without writing a header
  (`metrics.go` 21, "Did we write the header yet?", 18), and the handler then skips
  the real `WriteHeader` (`loadbalancer.go` 240): every answer that comes through
  the reverse proxy reaches the client as 200, a 404 or a 502 included. `L7Handler`
  has it in `Record`, `WriteReply` and `FinishFailure`; it is one operation's result
  and needs no run to be seen.
- A UDP counter at 2^64-1 (`udp_proxy.go` 197, `backend.go` 43) makes least-
  connections pass over the backend, because its minimum starts there and is
  compared with `<` (`strategy.go` 62, 68); if no other is available the packet
  finds none. Weighted-least-connections starts with infinity and takes it.
- A UDP backend that sends at least once a second keeps the reader of a session
  that has expired, or was flushed by `Shutdown`, alive for ever, because the read
  deadline is put off before every read and the session is looked up only when it
  passes (`udp_proxy.go` 228, 236). With it the process stays, too.
- `Wait` of the TCP proxy can return before a connection accepted before
  `Shutdown` is added to the WaitGroup (`tcp_proxy.go` 57, against the comment in
  70); `Drain` therefore opens a connection at `wg.Add`, not at `Accept`. The same
  holds of the UDP proxy, whose `Run` adds itself (`udp_proxy.go` 75, 116) and whose
  handlers add readers (188); it can panic as the TCP proxy's can.
- go-cache's `Flush` calls no `OnEvicted`, contrary to the comment in
  `udp_proxy.go` 113: after `Shutdown` readers end only at their next look into
  the cache (`FlowsEnd`).
- A UDP backend configured by host name is never found again by
  `RemoteAddr().String()` (`udp_proxy.go` 216): its count only grows.
  `ConnectionsSettle` exempts exactly these backends.
- Two packets of a new client can both miss the session cache and make two flows
  (`udp_proxy.go` 126). Both end and are given back.
- The limiter renews the one-second expiry on every request (`ratelimit.go` 54),
  so a steady client below "Requests per second" (line 14) is denied in the end:
  `DeniedOnlyWhenBusy` counts from the last silent second.
- Behind a breaker an unreachable backend leaves the recorder's initial 200: the
  breaker counts a success, the client gets an empty 200 and, for a GET, the
  cache keeps it (`loadbalancer.go` 205, 231). It is the exception in
  `CacheFromBackend`. A backend that answers 500 behind a breaker is answered
  with an empty 200 as well.
- Two concurrent round-robin calls share the counter, so one of them can visit
  the same unhealthy backend every time and return nil while another backend is
  healthy throughout (`strategy.go` 83; the caller then logs "No healthy backend
  found"). It is the exception in `NilOnlyIfNoneAvailable`.
- A SIGHUP between an admin handler's look at the listener and its change makes
  the change go to the replaced configuration; the client is told that it
  succeeded (`admin.go` 101). An update of a backend that is listed twice changes
  the first entry while the pool takes the last (`loadbalancer.go` 405). A backend
  whose address does not parse is acknowledged and left out of the pool
  (`backend.go` 157). These are the exceptions in `AckedInEffect`.
- A route index means whatever is there when the lock is taken, so a client that
  looked before another client's delete changes the wrong route.
- Running TCP and UDP proxies never see a reload: they keep the pools they were
  created with, while the metrics show the new ones (`loadbalancer.go` 73). The
  checks of replaced pools go on for ever, one ticker per pool and reload.
- Every reload, for one weight too, replaces all pools: breakers, counters and
  health start anew, and a backend counts as unhealthy until its first check.
- Routes that differ by headers only share cached pages, and a cached page
  outlives the route it came through (`loadbalancer.go` 161). The key has nothing
  between host and path, so two pages share it if a host has a slash, which an
  HTTP/2 `:authority` may, or a path does not begin with one (`GET *`). `CacheByPage`
  allows all this, and no property finds it.
- Headers are no part of the order of routes. A route with headers goes before the
  one that catches the rest because it is listed first, and with more than 12
  routes it need not. The admin API cannot add one beside a route of the same host
  and path: `AddRoute` refuses it whatever the headers are.
- A rate below one is a limit of 0, and every request is denied (`ratelimit.go` 43).
- A signal before `signal.Notify` kills the process although proxies are already
  serving (`cmd/lb/main.go` 188), a SIGHUP included. `sigChan` holds one signal: a
  SIGTERM that comes while a SIGHUP waits there is dropped, and so is a second
  SIGTERM during a shutdown. An HTTP listener that cannot listen ends the process
  at any time, other connections notwithstanding (`cmd/lb/main.go` 114).

### Fairness

Weak fairness per goroutine: the Go scheduler is preemptive, so a goroutine that
can go on eventually does. `TcpProxy` assumes it of handlers, copy goroutines,
`Run` and a `Wait` that main has reached; for `CopyWrite` this includes that a
peer that stays
connected keeps reading (a stalled peer blocks its copy for ever, which the code
does not guard against). Nothing makes clients connect, send or close: that the
peers close is a premise of `WaitTerminates`. `UDPProxy` adds that an idle
session expires and that the janitor runs; both are timers. That a backend is
silent for a second is nothing the code sees to: readers have no fairness for
`DeadlinePasses`, and `BackendsPause` is a premise of `FlowsEnd` and
`WaitTerminates`. `HealthCheck` assumes that the ticker fires, dials time out and
the breaker's timer runs; it assumes no traffic, and not that a request ends. `Process`
assumes that goroutines run, that the 30 s pass, and that the connections of the
proxies end, as `WaitTerminates` of both proxies has it under its premises (a TCP
connection that stays open, or a UDP backend that never pauses, is outside
`ShutdownTerminates`); it assumes nothing of
signals, of new connections or of HTTP requests, which may hang for ever.

## Proofs

The theorems hold for every value of the constants that satisfies the named
assumptions: any number of connections, requests, packets, backends, callers,
listeners, files and reloads.

| module | theorem | states |
| --- | --- | --- |
| `TcpProxyProofs` | `TypeCorrect` | `Spec => []TypeOK` |
| | `CountersExact` | `Spec => [](ConnectionsExact /\ WaitGroupExact)` |
| | `WaitGroupCounts` | `Spec => []WaitGroupExact` |
| | `SlotsAlwaysHeld` | `Spec => []SlotsHeld` |
| | `SocketsClosed` | `Spec => []NoSocketLeak` |
| | `TcpImplementsDrain` | `Spec => ImplementsDrain` |
| `L7HandlerProofs` | `TypeCorrect` | `Spec => []TypeOK` |
| | `ConnectionsCount` | `Spec => []ConnectionsExact` |
| | `SlotsAlwaysHeld` | `Spec => []SlotsHeld` |
| | `CacheHoldsAnswers` | `Spec => []CacheFromBackend` |
| `UDPProxyProofs` | `TypeCorrect` | `Spec => []TypeOK` |
| | `ConnsClosed` | `Spec => []NoConnLeak` |
| | `WaitGroupCounts` | `Spec => []WaitGroupExact` |
| | `FlowsSettle` | `Spec => []ConnectionsSettle` |
| `SelectionProofs` | `TypeCorrect` | `Spec => []TypeOK` |
| | `PickedAvailable` | `Spec => []PickedWasAvailable` |
| | `HashKeepsAffinity` | `Spec => []IPAffinity` |
| | `PicksLeastLoaded` | `Spec => []LeastLoaded` |
| | `NilOnlyIfNone` | `Spec => []NilOnlyIfNoneAvailable` |
| | `WeightsStayBalanced` | `Spec => []WeightsBalanced` |
| | `NoneStarves` | `Spec => []NoStarvation` |
| `RateLimiterProofs` | `TypeCorrect` | `Spec => []TypeOK` |
| | `DeniedWhenBusy` | `Spec => []DeniedOnlyWhenBusy` |
| | `AtMostLimit` | `Spec => []AtMostLimitPerSecond` |
| `AdminAPIProofs` | `FirstMatchIsBest` | the first match of a sorted table is a best route |
| | `FirstMatchKeepsOrder` | in a table sorted by insertion, the first match is the first listed of the matching routes with its host and path |
| | `RoutesFollowConfig` | `Spec => []RoutesMatchConfig` |
| | `RoutedByBest` | `Spec => []BestRoute` |
| | `CacheKeepsPages` | `Spec => []CacheByPage` |
| | `CacheKeepsPlainPages` | if no host has a slash and every path begins with one, the cache has for a page what fits that very page |
| | `RoutesImplementTable` | `Spec => ImplementsRouteTable`, if `FilesDistinct` |
| | `AcksTakeEffect` | `Spec => AckedInEffect`, if `FilesDistinct` |
| `ProcessProofs` | `ShutdownDrains` | `Spec => []ExitOnlyDrained` |

### Assumptions

They are named in the modules that declare the constants, and TLC evaluates them
in every run. Beyond the types of the constants they say:

- `ConnsAssumption`, `L7Assumption`, `UDPAssumption`: there are finitely many
  connections, requests and packets, fewer than the modulus of the counters
  (2^64). Without that a `connections` counter could wrap, and its equation would
  be false. Their names are names of calls of `Execute`.
- `SelectionAssumption`: the counters stay within `MaxConns` of zero, on either
  side of it, and the two sides do not meet: `2 * MaxConns` is below the modulus,
  which is more than 1. No goroutine is called nil, the value of `lock` when nobody
  holds it.
- `RouterAssumption`: the length up to which `sort.Slice` sorts by insertion is a
  natural number.
- `AdminAssumption`: files are lists of routes; routes come with a host and a path
  that are strings of characters and a list of backends with an address and a
  weight. Of the pages it says only that host and path are strings of characters;
  what `CacheKeepsPlainPages` needs beyond that is a hypothesis of that theorem.
- `FilesDistinct` is the hypothesis of two theorems and no assumption of the
  module: no file lists two routes with the same host, path and headers. The code
  does not check this, and without it the two properties fail: `RouteTable` is a
  function from rules, and of two routes of one rule only the one that the sort puts
  first serves. `AddRoute` refuses a host and path that are there, so
  the admin API never makes such routes. TLC evaluates it on the files of the run.
- `RateAssumption`, `ConfigsAssumption`, `FailuresAssumption`, `PoolAssumption`:
  types only.

### The arguments

Hardly any of the invariants is inductive alone.

**TcpProxy.**

- `AccountInv` adds to the two counter equations `HasTarget`: a handler past the
  choice of a backend has one. Without it a decrement could hit no counter. A step
  changes the set of tracked or counted handlers by at most one member
  (`AccountStep`), and the cardinality lemmas of the library do the rest;
  `ModInc` and `ModDec` show that the modular arithmetic is exact here.
- `SlotInv` adds that an admitted call is executing on that very backend, and
  that a half-open breaker has admitted at most one. `AfterRequestSlots` is the
  lemma on the breaker: an outcome removes its call, or starts a generation with
  none.
- `SocketInv` follows the sockets along the program points: the backend socket
  is untouched before the dial and closed after `closeBackend`, the copy
  goroutines close only sockets that are theirs, the client socket is closed at
  `wgDone`.
- `TcpImplementsDrain` uses both: `PhaseByPC` reads the abstract phase off the
  program point, every action is shown to open, close or leave a phase
  (`StepKinds`), and `WaitDrains` uses `WaitGroupExact` to show that a counter of 0
  means that no connection is open.

**L7Handler.** Counters and slots go as for TCP, with the lemmas on breakers and
counters that both share in `BackendPoolProofs`. For the cache, `RecorderInv`
follows one request from the answer of its backend through the recorder to the
store: what it has recorded is what its backend answered, or for an unreachable
one the 502 of the reverse proxy or, behind a breaker, nothing. The cache alone says nothing about requests that will store later, so the
property is not inductive without it.

**UDPProxy.** The types need that only a session that exists expires
(`SessionOK`). `FlowInv` relates a flow's connection to its handler and its
reader, which is what `NoConnLeak` needs because janitor, reader and handler all
may close it; its part `SessionsBegun` says that the cache names only flows whose
handlers are past `Set`, so that no hit writes to a connection that is not there. `ConnectionsSettle` speaks of the end only;
`CounterInv` says what the counter is at every moment: the flows counted, less
those uncounted, modulo 2^64, so that a reader that decrements first is covered.

**Selection.** `TypeInv` gives the shape of a call under way.

- `HashingInv`: the list of `GetNextBackendByIP` is increasing and has exactly the
  backends found available. Two increasing sequences with the same members are
  equal (`SameMembersSame`), hence the affinity.
- `LoadsInv`: the best backend so far beats every one considered, and the minimum
  is still 2^64 - 1 if there is none: then every count that was read is 2^64 - 1
  (`Uncountable`), the third exception of `NilOnlyIfNoneAvailable`. For the weighted strategy this needs that
  comparison by cross-multiplication is transitive (`CrossProducts`).
- `AvailableInv`: a backend available throughout a call has been found, or is
  still ahead of the scan. For round-robin, "ahead" means that the shared counter
  reaches its number in the visits the scan has left (`RemainderReached`), and
  this is where an interfering call and a skipping wrap come in as
  exceptions of the property.
- `RobinInv` is about weighted-round-robin. Only the holder of the lock changes
  weights (`Locked`). During its scan, the weights less what the scan has granted
  so far are those at its start, `Base`, and `total` is the sum of the grants
  (`GrantInv`). `Base` sums to zero: the one returned pays the total
  (`WeightsBalanced`). With `D` the weight of the heaviest pair, every set `S` of
  backends has `2 * Sum(Base, S) <= D * |S| * (N - |S|)` (`Bounded`); for one
  backend that is a bound on its credit, but the bound on one backend alone is not
  inductive. It survives a scan because the one that pays had the most, at least
  the average of those granted, and averaging over `S` gives back what the grants
  to `S` added (`Averaging`, `ScanKeeps`). With the zero sum it also bounds the
  credit of one backend from below, by `-D * (N - 1) / 2` (`OneBounded`). From there
  each call that passes over an available backend raises its credit by its weight,
  which `Fair` records as `2 * passed[b] * Weight(b) <= 2 * Base[b] + D * (N - 1)`;
  with the bound from above this is `NoStarvation`.

**RateLimiter.** `BusyInv` bounds the count of an unbroken key by the requests
since the last silent second, and the life of the key by what is left of that
second. For the limit, `GrantInv` says that the calls granted in the last second
have different numbers, at most the limit and at most the count, and that the key
outlives each of them by the rest of its second (`Covered`); the numbers of calls
whose EXPIRE is still to come are different from these and from each other
(`Fresh`). Different numbers between 1 and `limit` are at most `limit` many.

**AdminAPI.** `ConfigInv` types the heap of configurations and the pointers that
admin requests hold into it. `RoutesFollowConfig` rests on `SortedTable`: a table
sorted in any of the ways `sort.Slice` may choose is a permutation, in order.
`FirstMatchIsBest` rests on `MoreSpecificLess`: of two rules the more specific one
is less, because a strict prefix is shorter. `FirstMatchKeepsOrder` takes the place
of the route in question in the sorted table: it is not before the first match, and
if it is after it, insertion has kept the two in order. `ServedInv` and `CacheInv` carry what
`ServeHTTP` established along with the request and into the cache, while the
table they refer to is in effect.

For `RouteTable`, `TableInv` adds that the rules in every configuration of the heap
are distinct (`HeapDistinct`), those of replaced ones too, because handlers still
change them. Then the table does not depend on the order the sort makes (`ViewOf`):
it is a function `View` of the list of routes. `ViewAdd`, `ViewDelete` and
`ViewChange` say what a change of the list does to it, `PoolAdd`, `PoolDelete` and
`PoolUpdate` what a change of the backends does to a pool, in which the last of
several backends with one address counts. For the deletion this is an induction over
the rounds of the loop (`WithoutKeeps`). `Edit` collects what both theorems need: the
new list changes one entry, and the change is in effect. A change to a replaced
configuration rebuilds the same table.

**Process.** `DrainInv` has four parts. `StopInv`: what main has still to do is in
order, every `Shutdown` of a proxy before the goroutine that waits for its kind
(`InOrder`), and the WaitGroup is at least the number of goroutines, so that 0
means none. `ServerInv`: an `http.Server` whose `Shutdown` was called takes no new
request. `OwedInv`: for a connection owed, a goroutine that waits for its proxy is
running, with the proxy still on its list, or has still to be started. `HttpInv`:
every `http.Server` has its statement ahead, its goroutine running, or a `Shutdown`
that has returned with no request open or the deadline passed. When main returns
only the last is left.

### Only model-checked

- Liveness (`CloseEndsHandler`, `WaitTerminates`, `Recovers`, `LeavesRotation`,
  `FlowsEnd`, `TermHeeded`, `ShutdownTerminates`): fairness and ENABLED are outside
  the prover.
- `HealthCheck.TypeOK`, which says little beside `Recovers` and `LeavesRotation`;
  what it says of breakers and counters rests on the lemmas of
  `BackendPoolProofs`.

Every other property of the passing runs is a theorem.

The library's induction theorems take an operator as a parameter and cannot be
used. Where a proof needs induction over data (the sums of `SelectionProofs`, the
loop of `DeleteBackendFromRoute`) it takes the least counterexample instead: the set
of counterexamples is a set, and a well-founded relation gives it a minimal member
(`SubsetInduction`, `MinIsLeast`). That the recursive functions in `MapThenSumSet` and
`Without` exist and satisfy their equations is proved the same way (`AdderExists`,
`RoundsExist`).

## Not modelled, and the plan

Every part of the load balancer that changes state is modelled. Left out:

- the metrics server and the GET handlers of the admin API: they read and
  render. `GET /routes` reads the list of routes without the lock while
  `DeleteRoute` shifts it in place (`admin.go` 132), a data race whose only effect
  is a garbled answer;
- TLS and autocert set-up: configuration of library code. The challenge server
  is a server of `Process`;
- listeners beyond the first L7 listener in `AdminAPI`: the admin API manages
  only that one, and the routes of all are one table;
- the test backends in `cmd/backend` and `internal/backend`;
- formats: logs, JSON, YAML, headers of responses, the rendering of metrics.

What is left to prove is liveness, which needs another prover, and the types of
`HealthCheck`.
