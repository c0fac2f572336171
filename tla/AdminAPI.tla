------------------------------ MODULE AdminAPI ------------------------------
(***************************************************************************)
(* The configuration of the running load balancer: the admin API and       *)
(* SIGHUP change it, and requests are routed by it.                        *)
(*                                                                         *)
(* Everything under lb.lock is one step.  An admin handler reads the token *)
(* under the lock, then takes a pointer to the listener's configuration    *)
(* under the lock, then changes what the pointer points to under the lock; *)
(* between these a SIGHUP can replace the configuration.  A Config is its  *)
(* token and the routes of its http listener, if it has one; configs is    *)
(* the heap of those that were loaded.                                     *)
(*                                                                         *)
(* Each reload builds all pools and routes anew; those of a reload are     *)
(* named by its number, version.  The GET handlers, which read the         *)
(* configuration without the lock, change nothing and are left out.        *)
(***************************************************************************)
EXTENDS Integers, FiniteSets, Router

CONSTANTS
    Files,        \* what the configuration file may contain when it is read
    NewRoutes,    \* routes clients post
    Addrs,        \* addresses of backends
    BadAddrs,     \* those that are no host of a URL
    Weights,      \* weights clients post
    Indexes,      \* route indexes in URLs
    Headers,      \* Authorization headers: "", "malformed" or a token
    Admins,       \* admin requests under way at one time
    Pages,        \* host and path of requests
    HeaderSets,   \* the headers of requests
    Callers,      \* requests served at one time
    MaxVersion    \* bound on the number of times pools are built

\* A list of BackendConfig, RouteConfig and a list of them.
IsBackendList(list) ==
    /\ list \in Seq(ToSet(list))
    /\ \A i \in DOMAIN list : DOMAIN list[i] = {"addr", "weight"}

IsRouteConfig(rc) ==
    /\ DOMAIN rc = {"host", "path", "headers", "backends"}
    /\ rc.host \in Seq(STRING) /\ rc.path \in Seq(STRING)
    /\ IsBackendList(rc.backends)

IsRouteList(list) ==
    /\ list \in Seq(ToSet(list))
    /\ \A i \in DOMAIN list : IsRouteConfig(list[i])

ASSUME AdminAssumption ==
    /\ \A f \in Files : /\ DOMAIN f = {"token", "http", "routes"}
                        /\ f.token # "malformed"
                        /\ IsRouteList(f.routes)
                        /\ ~f.http => f.routes = <<>>
    /\ \A rc \in NewRoutes : IsRouteConfig(rc)
    /\ Pages \subseteq [host : Seq(STRING), path : Seq(STRING)]
    /\ MaxVersion \in Nat

VARIABLES
    configs,     \* the Config objects
    cfg,         \* lb.cfg, an index of configs
    routes,      \* lb.routes
    version,     \* the reload lb.routes is from
    admin,       \* the admin handlers
    serving,     \* the requests being served
    cache        \* lb.cache: for a key the rule and the reload its item is from

lbVars == <<configs, cfg, routes, version>>
vars == <<lbVars, admin, serving, cache>>

noOp      == [kind |-> "none", index |-> 0, addr |-> "", weight |-> 0]
idleAdmin == [pc |-> "idle", op |-> noOp, route |-> <<>>, listener |-> 0]
noItem    == <<>>
idleCall  == [pc |-> "idle", request |-> <<>>, rule |-> <<>>, version |-> 0]

-----------------------------------------------------------------------------
(* Building the pools *)

Weight(w) == IF w > 0 THEN w ELSE 1

\* NewL7BackendPool goes through a map from addresses to configurations, in which
\* the last of two with the same address remains; newL7Backend returns nil for an
\* address it cannot parse, and the backend is left out.
Pool(backends) ==
    [a \in {backends[i].addr : i \in DOMAIN backends} \ BadAddrs |->
        Weight(backends[SelectLastInSeq(backends, LAMBDA b : b.addr = a)].weight)]

Compiled(rc) ==
    [host |-> rc.host, path |-> rc.path, headers |-> rc.headers, pool |-> Pool(rc.backends)]

\* What a route matches on.  With the number of the reload it names the route.
Rule(rt) == [host |-> rt.host, path |-> rt.path, headers |-> rt.headers]

buildL7Routes(config) ==
    Sorted([i \in DOMAIN config.routes |-> Compiled(config.routes[i])])

\* Mutant: rebuilds from the configuration that was in use before.
reloadStale(heap, config) ==
    /\ configs' = heap
    /\ cfg' = config
    /\ routes' \in buildL7Routes(heap[cfg])
    /\ version' = version + 1

reloadConfig_unsafe(heap, config) ==
    /\ configs' = heap
    /\ cfg' = config
    /\ routes' \in buildL7Routes(heap[config])
    /\ version' = version + 1

\* Mutant: leaves the host out of the key.
KeyPath(r) == r.path

\* cacheKey = r.Host + r.URL.Path
Key(r) == r.host \o r.path

\* NewLoadBalancer
Init ==
    /\ \E f \in Files : configs = <<f>> /\ routes \in buildL7Routes(f)
    /\ cfg = 1
    /\ version = 1
    /\ admin = [a \in Admins |-> idleAdmin]
    /\ serving = [c \in Callers |-> idleCall]
    /\ cache = [k \in {Key(p) : p \in Pages} |-> noItem]

\* Bound: the reloads that were made and those handlers are about to make.
Room == version + Cardinality({a \in Admins : admin[a].pc = "apply"}) < MaxVersion

-----------------------------------------------------------------------------
(* main *)

\* A new Config object with what the file contains.
LoadConfig(f) == Append(configs, f)

\* SIGHUP: LoadConfig and ReloadConfig.  A file that cannot be loaded changes
\* nothing.
Sighup(f) ==
    /\ Room
    /\ reloadConfig_unsafe(LoadConfig(f), Len(configs) + 1)
    /\ UNCHANGED <<admin, serving, cache>>

-----------------------------------------------------------------------------
(* The admin API *)

\* adminAuthMiddleware lets the request through.
Authorized(header) == configs[cfg].token \in {"", header}

Authenticate(a, header) ==
    /\ admin[a].pc = "idle"
    /\ Authorized(header)
    /\ admin' = [admin EXCEPT ![a].pc = "handler"]
    /\ UNCHANGED <<lbVars, serving, cache>>

\* The handler has decoded the URL and the body and found them valid, and
\* getFirstL7Listener returns the listener of the current configuration.
Accept(a, op, route) ==
    /\ admin[a].pc = "handler"
    /\ configs[cfg].http
    /\ Room
    /\ admin' = [admin EXCEPT ![a] =
                    [pc |-> "apply", op |-> op, route |-> route, listener |-> cfg]]
    /\ UNCHANGED <<lbVars, serving, cache>>

Op(kind, index, addr, weight) ==
    [kind |-> kind, index |-> index, addr |-> addr, weight |-> weight]

\* addRouteHandler requires a path.
addRouteHandler(a) ==
    \E rt \in NewRoutes : rt.path # <<>> /\ Accept(a, Op("addRoute", 0, "", 0), rt)

deleteRouteHandler(a) ==
    \E i \in Indexes : Accept(a, Op("deleteRoute", i, "", 0), <<>>)

\* addBackendHandler requires an address.
addBackendHandler(a) ==
    \E i \in Indexes, addr \in Addrs, w \in Weights :
       addr # "" /\ Accept(a, Op("addBackend", i, addr, w), <<>>)

deleteBackendHandler(a) ==
    \E i \in Indexes, addr \in Addrs : Accept(a, Op("deleteBackend", i, addr, 0), <<>>)

updateBackendHandler(a) ==
    \E i \in Indexes, addr \in Addrs, w \in Weights :
       Accept(a, Op("updateBackend", i, addr, w), <<>>)

\* The request is refused: 400 for a bad payload, 404 without an http listener.
Refuse(a) ==
    /\ admin[a].pc = "handler"
    /\ admin' = [admin EXCEPT ![a] = idleAdmin]
    /\ UNCHANGED <<lbVars, serving, cache>>

\* The routes of the listener the handler holds, the route its index names and
\* whether there is one.
Listed(a)   == configs[admin[a].listener].routes
Exists(a)   == admin[a].op.index + 1 \in DOMAIN Listed(a)
Indexed(a)  == Listed(a)[admin[a].op.index + 1]
Positions(a) == {i \in DOMAIN Indexed(a).backends :
                    Indexed(a).backends[i].addr = admin[a].op.addr}

Applying(a, kind) ==
    /\ admin[a].pc = "apply" /\ admin[a].op.kind = kind
    /\ admin' = [admin EXCEPT ![a] = idleAdmin]
    /\ UNCHANGED <<serving, cache>>

\* The listener's routes become list, and the configuration in use is reloaded.
Commit(a, list) ==
    reloadConfig_unsafe([configs EXCEPT ![admin[a].listener].routes = list], cfg)

\* The same for the backends of the indexed route.
CommitBackends(a, backends) ==
    Commit(a, [Listed(a) EXCEPT ![admin[a].op.index + 1].backends = backends])

\* Success, or an error under which nothing changes.
CommitIf(possible, commit) == IF possible THEN commit ELSE UNCHANGED lbVars

AddRoute(a) ==
    LET new == admin[a].route
    IN /\ Applying(a, "addRoute")
       /\ CommitIf(~\E i \in DOMAIN Listed(a) :
                       Listed(a)[i].path = new.path /\ Listed(a)[i].host = new.host,
                   Commit(a, Append(Listed(a), new)))

\* Mutant: deletes the routes from the index on.
DeleteRouteTail(a) ==
    /\ Applying(a, "deleteRoute")
    /\ CommitIf(Exists(a), Commit(a, SubSeq(Listed(a), 1, admin[a].op.index)))

DeleteRoute(a) ==
    /\ Applying(a, "deleteRoute")
    /\ CommitIf(Exists(a), Commit(a, RemoveAt(Listed(a), admin[a].op.index + 1)))

AddBackendToRoute(a) ==
    LET op == admin[a].op
        new == [addr |-> op.addr, weight |-> IF op.weight = 0 THEN 1 ELSE op.weight]
    IN /\ Applying(a, "addBackend")
       /\ CommitIf(Exists(a) /\ Positions(a) = {},
                   CommitBackends(a, Append(Indexed(a).backends, new)))

\* newBackends after the loop of DeleteBackendFromRoute: the backends of other
\* addresses, in order.
Without(backends, addr) ==
    LET newBackends[n \in 0..Len(backends)] ==
            IF n = 0 THEN <<>>
            ELSE IF backends[n].addr = addr THEN newBackends[n - 1]
            ELSE Append(newBackends[n - 1], backends[n])
    IN newBackends[Len(backends)]

DeleteBackendFromRoute(a) ==
    /\ Applying(a, "deleteBackend")
    /\ CommitIf(Exists(a) /\ Positions(a) # {},
                CommitBackends(a, Without(Indexed(a).backends, admin[a].op.addr)))

\* Mutant: sets the weight of the first backend.
UpdateFirstWeight(a) ==
    LET op == admin[a].op
    IN /\ Applying(a, "updateBackend")
       /\ CommitIf(Exists(a) /\ op.weight > 0 /\ Positions(a) # {},
                   CommitBackends(a, [Indexed(a).backends EXCEPT ![1].weight = op.weight]))

\* The loop ends at the first backend with the address.
UpdateBackendWeightInRoute(a) ==
    LET op == admin[a].op
    IN /\ Applying(a, "updateBackend")
       /\ CommitIf(Exists(a) /\ op.weight > 0 /\ Positions(a) # {},
                   CommitBackends(a, [Indexed(a).backends EXCEPT
                                         ![Min(Positions(a))].weight = op.weight]))

-----------------------------------------------------------------------------
(* Requests *)

\* ServeHTTP: getRoutes returns a table that is never changed afterwards.  A request
\* the limiter refuses, one without a match and one the cache has the answer to end
\* here and change nothing.  The lookup only reads and is part of the step: an item
\* that expires between getRoutes and the lookup might as well expire before.  The
\* requests are GETs; others take the same way past the cache.
ServeHTTP(c, page, headers) ==
    LET r == [host |-> page.host, path |-> page.path, headers |-> headers]
        i == FirstMatch(routes, r)
    IN /\ serving[c].pc = "idle"
       /\ i # 0
       /\ cache[Key(r)] = noItem
       /\ serving' = [serving EXCEPT ![c] = [pc |-> "proxy", request |-> r,
                                              rule |-> Rule(routes[i]), version |-> version]]
       /\ UNCHANGED <<lbVars, admin, cache>>

\* A backend of the route's pool answers; the answer is cached or not.
Answered(c) ==
    /\ serving[c].pc = "proxy"
    /\ \/ UNCHANGED cache
       \/ cache' = [cache EXCEPT ![Key(serving[c].request)] =
                       <<serving[c].rule, serving[c].version>>]
    /\ serving' = [serving EXCEPT ![c] = idleCall]
    /\ UNCHANGED <<lbVars, admin>>

\* The item of a page expires.
Expire(p) ==
    /\ cache[Key(p)] # noItem
    /\ cache' = [cache EXCEPT ![Key(p)] = noItem]
    /\ UNCHANGED <<lbVars, admin, serving>>

-----------------------------------------------------------------------------
Handler(a) ==
    \/ \E h \in Headers : Authenticate(a, h)
    \/ addRouteHandler(a) \/ deleteRouteHandler(a) \/ addBackendHandler(a)
    \/ deleteBackendHandler(a) \/ updateBackendHandler(a) \/ Refuse(a)
    \/ AddRoute(a) \/ DeleteRoute(a) \/ AddBackendToRoute(a)
    \/ DeleteBackendFromRoute(a) \/ UpdateBackendWeightInRoute(a)

Serve(c) ==
    \/ \E p \in Pages, h \in HeaderSets : ServeHTTP(c, p, h)
    \/ Answered(c)

Next ==
    \/ \E f \in Files : Sighup(f)
    \/ \E a \in Admins : Handler(a)
    \/ \E c \in Callers : Serve(c)
    \/ \E p \in Pages : Expire(p)

Spec == Init /\ [][Next]_vars

-----------------------------------------------------------------------------
(* Properties *)

Active == {c \in Callers : serving[c].pc # "idle"}

\* The routes in effect are those of the configuration in use, in the order of
\* Less: whatever handlers and SIGHUPs interleave, lb.routes and lb.cfg never come
\* from different configurations.
RoutesMatchConfig ==
    LET list == configs[cfg].routes
    IN /\ Len(routes) = Len(list)
       /\ ToSet(routes) = {Compiled(list[i]) : i \in DOMAIN list}
       /\ \A i, j \in DOMAIN routes : i < j => ~Less(routes[j], routes[i])

\* ServeHTTP serves a request by a route that matches it and than which no other
\* matching route is more specific, as long as the table it took is in effect.  A
\* route that asks for headers is not more specific than one that does not: it has
\* to be listed before it (config.yaml: "THIS MUST BE THE LAST ROUTE" of the one that
\* catches the rest), and then it goes first, as TestL7Routing has it, in a list
\* that sort.Slice sorts by insertion.  In a longer one either may.
BestRoute ==
    LET list == configs[cfg].routes IN
    \A c \in Active :
       LET call == serving[c] IN
       call.version = version =>
          /\ Best(call.rule, {Rule(rt) : rt \in ToSet(routes)}, call.request)
          /\ Len(list) <= MaxInsertion =>
                FirstListed(call.rule, [i \in DOMAIN list |-> Rule(list[i])], call.request)

\* A rule serves a page, whatever headers it asks for.
ForPage(rt, p) == Matches(rt, [host |-> p.host, path |-> p.path, headers |-> rt.headers])

\* The item came through a route that serves p; if the routes have not changed
\* since, no more specific route that asks for no header serves p.
Fits(item, p) ==
    /\ ForPage(item[1], p)
    /\ item[2] = version =>
          ~\E rt \in ToSet(routes) :
             DOMAIN rt.headers = {} /\ ForPage(rt, p) /\ MoreSpecific(rt, item[1])

\* What a request for a page finds in the cache, which is shared by all routes and
\* outlives reloads, fits a page whose host and path, written one after the other,
\* are its own.  That is the page itself, unless a host has a slash or a path
\* does not begin with one.
CacheByPage ==
    \A p \in Pages :
       cache[Key(p)] # noItem =>
          \E q \in Pages : q.host \o q.path = p.host \o p.path /\ Fits(cache[Key(p)], q)

\* No two routes of a file have the same rule; nothing in the code sees to that.  Of
\* two that do, the one sort.Slice puts first serves, and the other never does.
Distinct(list) ==
    \A i, j \in DOMAIN list : Rule(list[i]) = Rule(list[j]) => i = j

FilesDistinct == \A f \in Files : Distinct(f.routes)

\* The routes as a function from rules to pools.
TableOf(rs) ==
    [k \in {Rule(rs[i]) : i \in DOMAIN rs} |->
        rs[CHOOSE i \in DOMAIN rs : Rule(rs[i]) = k].pool]

\* The change of a shows in the table T.
InEffect(a, T) ==
    LET op == admin[a].op
        k  == Rule(IF op.kind = "addRoute" THEN admin[a].route ELSE Indexed(a))
    IN CASE op.kind = "addRoute"      -> k \in DOMAIN T /\ T[k] = Pool(admin[a].route.backends)
         [] op.kind = "deleteRoute"   -> k \notin DOMAIN T
         [] op.kind = "addBackend"    -> op.addr \in DOMAIN T[k] /\ T[k][op.addr] = Weight(op.weight)
         [] op.kind = "deleteBackend" -> op.addr \notin DOMAIN T[k]
         [] op.kind = "updateBackend" -> T[k][op.addr] = op.weight

\* A change the admin API acknowledges is in effect in the routes (admin_test.go
\* checks "if the LB's config was actually updated"), except in three cases: a
\* SIGHUP has replaced the configuration since the handler looked it up; the
\* address cannot be parsed, and the pool leaves the backend out; the route has the
\* backend twice, and the loop over the backends updates the first of them while
\* the pool takes the last.
AckedInEffect ==
    [][\A a \in Admins :
          /\ admin[a].pc = "apply" /\ admin'[a].pc = "idle"
          /\ version' # version
          /\ admin[a].listener = cfg
          /\ admin[a].op.addr \notin BadAddrs
          /\ admin[a].op.kind = "updateBackend" => Cardinality(Positions(a)) = 1
          => InEffect(a, TableOf(routes'))]_vars

Tables == {TableOf([i \in DOMAIN f.routes |-> Compiled(f.routes[i])]) : f \in Files}

RT == INSTANCE RouteTable WITH Loadable <- Tables, table <- TableOf(routes)

\* The routes in effect behave like the table an administrator has in mind: each
\* step loads a file as a whole or changes one entry, and the others stay.
ImplementsRouteTable == RT!Spec
=============================================================================
