------------------------------ MODULE L7Handler ------------------------------
(***************************************************************************)
(* The handler of an L7 route, run by one goroutine per request: the       *)
(* response cache, the choice of a backend, the connection counter, the    *)
(* circuit breaker, the reverse proxy writing into a CachingRecorder, and  *)
(* the reply.  The reverse proxy and go-cache are external.                *)
(*                                                                         *)
(* A response is its status and where its body comes from.  The headers,   *)
(* which the recorder passes through, are left out.  answer is what the    *)
(* backend really did with a request and is history.                       *)
(***************************************************************************)
EXTENDS BackendPool, FiniteSets

CONSTANTS
    Pages,        \* cache keys, r.Host + r.URL.Path
    CacheConfigs, \* the values of "lb.cache != nil" to consider
    Counting,     \* the strategy needs connection counts
    Statuses      \* the statuses backends answer with

ASSUME L7Assumption ==
    /\ CacheConfigs \subseteq BOOLEAN
    /\ Counting \in BOOLEAN
    /\ Statuses \subseteq 200..599
    /\ IsFiniteSet(Requests) /\ Cardinality(Requests) < UintMod

\* What a backend did with a request, beside answering with a status.
unasked == 0
unreachable == 1
aborted == 2

Bodies == {"empty", "error", "backend"}

\* No item in the cache, or no complete reply.
noResponse == [status |-> 0, body |-> "empty"]

VARIABLES
    cacheEnabled,  \* lb.cache != nil
    cache,         \* lb.cache: the item of a page, or noResponse
    pc,            \* where the handler of a request is
    req,           \* the request: its page and whether it is a GET
    target,        \* the backend GetNextBackend returned
    recorder,      \* the CachingRecorder
    reply,         \* what the client has received
    answer         \* history, see above

reqVars == <<req, target, recorder, reply, answer>>
vars == <<poolVars, cacheEnabled, cache, pc, reqVars>>

PCs == {"new", "lookup", "pick", "state", "count", "execute", "proxy", "after", "finish",
        "store", "write", "release", "done"}

\* Points between IncrementConnections and the deferred DecrementConnections.
Counted == {"execute", "proxy", "after", "finish", "store", "write", "release"}

Responses == [status : 200..599, body : Bodies] \cup {noResponse}

TypeOK ==
    /\ PoolTypeOK
    /\ cacheEnabled \in BOOLEAN
    /\ cache \in [Pages -> Responses]
    /\ pc \in [Requests -> PCs]
    /\ req \in [Requests -> [page : Pages, get : BOOLEAN]]
    /\ target \in [Requests -> Backends \cup {nil}]
    /\ recorder \in [Requests -> [status : 200..599, wroteHeader : BOOLEAN,
                                  body : {"empty", "backend"}]]
    /\ reply \in [Requests -> Responses]
    /\ answer \in [Requests -> Statuses \cup {unasked, unreachable, aborted}]

\* The recorder the handler makes.
NewRecorder == [status |-> 200, wroteHeader |-> FALSE, body |-> "empty"]

Init ==
    /\ NewPool
    /\ cacheEnabled \in CacheConfigs
    /\ cache = [p \in Pages |-> noResponse]
    /\ pc = [r \in Requests |-> "new"]
    /\ req \in [Requests -> [page : Pages, get : BOOLEAN]]
    /\ target = [r \in Requests |-> nil]
    /\ recorder = [r \in Requests |-> NewRecorder]
    /\ reply = [r \in Requests |-> noResponse]
    /\ answer = [r \in Requests |-> unasked]

Goto(r, from, to) ==
    /\ pc[r] = from
    /\ pc' = [pc EXCEPT ![r] = to]

Respond(r, status, body) ==
    reply' = [reply EXCEPT ![r] = [status |-> status, body |-> body]]

\* The response cache applies to this request.
Caching(r) == cacheEnabled /\ req[r].get

-----------------------------------------------------------------------------
Arrive(r) ==
    /\ Goto(r, "new", IF Caching(r) THEN "lookup" ELSE "pick")
    /\ UNCHANGED <<poolVars, cacheEnabled, cache, reqVars>>

\* A hit is answered with the cached status and body.
CacheHit(r) ==
    LET item == cache[req[r].page]
    IN /\ item # noResponse
       /\ Goto(r, "lookup", "done")
       /\ Respond(r, item.status, item.body)
       /\ UNCHANGED <<poolVars, cacheEnabled, cache, req, target, recorder, answer>>

CacheMiss(r) ==
    /\ cache[req[r].page] = noResponse
    /\ Goto(r, "lookup", "pick")
    /\ UNCHANGED <<poolVars, cacheEnabled, cache, reqVars>>

\* GetNextBackend, as in module TcpProxy.
SeeHealthy(r, b) ==
    /\ Goto(r, "pick", "state")
    /\ healthy[b]
    /\ target' = [target EXCEPT ![r] = b]
    /\ UNCHANGED <<poolVars, cacheEnabled, cache, req, recorder, reply, answer>>

SeeNotOpen(r) ==
    /\ Goto(r, "state", "count")
    /\ ~Open(target[r])
    /\ UNCHANGED <<poolVars, cacheEnabled, cache, reqVars>>

NoBackend(r) ==
    /\ \/ Goto(r, "pick", "done")
       \/ Goto(r, "state", "done") /\ Open(target[r])
    /\ Respond(r, 503, "error")
    /\ UNCHANGED <<poolVars, cacheEnabled, cache, req, target, recorder, answer>>

Count(r) ==
    /\ Goto(r, "count", IF cbEnabled THEN "execute" ELSE "proxy")
    /\ IF Counting THEN IncrementConnections(target[r]) ELSE UNCHANGED connections
    /\ UNCHANGED <<cbEnabled, healthy, cb, cacheEnabled, cache, reqVars>>

\* Mutant: returns past the deferred decrement.
BlockedCounted(r) ==
    /\ Goto(r, "execute", "done")
    /\ Rejects(cb[target[r]])
    /\ Respond(r, 503, "error")
    /\ UNCHANGED <<poolVars, cacheEnabled, cache, req, target, recorder, answer>>

\* cb.Execute refuses the call.
Blocked(r) ==
    /\ Goto(r, "execute", "release")
    /\ Rejects(cb[target[r]])
    /\ Respond(r, 503, "error")
    /\ UNCHANGED <<poolVars, cacheEnabled, cache, req, target, recorder, answer>>

Execute(r) ==
    /\ Goto(r, "execute", "proxy")
    /\ ~Rejects(cb[target[r]])
    /\ cb' = [cb EXCEPT ![target[r]] = BeforeRequest(@, r)]
    /\ UNCHANGED <<cbEnabled, healthy, connections, cacheEnabled, cache, reqVars>>

-----------------------------------------------------------------------------
(* backend.proxy.ServeHTTP(recorder, r) *)

AfterProxy == IF cbEnabled THEN "after" ELSE "finish"

\* WriteHeader of the recorder sets the status and wroteHeader and tells the
\* client nothing; Write fills the recorder's buffer.
Record(r, status, body) ==
    recorder' = [recorder EXCEPT ![r] =
                    [status |-> status, wroteHeader |-> TRUE, body |-> body]]

Answered(r, status) ==
    /\ Goto(r, "proxy", AfterProxy)
    /\ Record(r, status, "backend")
    /\ answer' = [answer EXCEPT ![r] = status]
    /\ UNCHANGED <<poolVars, cacheEnabled, cache, req, target, reply>>

\* The backend cannot be reached.  The reverse proxy's own ErrorHandler writes
\* 502; the one installed with a breaker only logs.
Unreachable(r) ==
    /\ Goto(r, "proxy", AfterProxy)
    /\ IF cbEnabled THEN UNCHANGED recorder ELSE Record(r, 502, "empty")
    /\ answer' = [answer EXCEPT ![r] = unreachable]
    /\ UNCHANGED <<poolVars, cacheEnabled, cache, req, target, reply>>

\* The backend breaks off within the body: the reverse proxy panics, the
\* breaker counts a failure and passes the panic on, and the server drops the
\* client's connection and the recorder.
Aborted(r) ==
    /\ Goto(r, "proxy", "release")
    /\ cb' = IF cbEnabled THEN [cb EXCEPT ![target[r]] = AfterRequest(@, r, FALSE)] ELSE cb
    /\ answer' = [answer EXCEPT ![r] = aborted]
    /\ UNCHANGED <<cbEnabled, healthy, connections, cacheEnabled, cache, req, target, recorder, reply>>

-----------------------------------------------------------------------------
\* What the handler returns to cb.Execute as an error.
Failure(r) == recorder[r].status >= 500

\* Mutant: the outcome is not recorded.
RecordOutcomeForgotten(r) ==
    /\ Goto(r, "after", "finish")
    /\ UNCHANGED <<poolVars, cacheEnabled, cache, reqVars>>

RecordOutcome(r) ==
    /\ Goto(r, "after", "finish")
    /\ cb' = [cb EXCEPT ![target[r]] = AfterRequest(@, r, ~Failure(r))]
    /\ UNCHANGED <<cbEnabled, healthy, connections, cacheEnabled, cache, reqVars>>

\* With a breaker, a failure is answered with 502 if no header was written, else
\* not at all: the server then sends an implicit 200 without a body.
FinishFailure(r) ==
    /\ cbEnabled /\ Failure(r)
    /\ Goto(r, "finish", "release")
    /\ IF recorder[r].wroteHeader THEN Respond(r, 200, "empty") ELSE Respond(r, 502, "error")
    /\ UNCHANGED <<poolVars, cacheEnabled, cache, req, target, recorder, answer>>

\* Mutant: stores whatever the status is.
StorableAny(r) == Caching(r)

Storable(r) == Caching(r) /\ recorder[r].status < 500

Finish(r) ==
    /\ ~(cbEnabled /\ Failure(r))
    /\ Goto(r, "finish", IF Storable(r) THEN "store" ELSE "write")
    /\ UNCHANGED <<poolVars, cacheEnabled, cache, reqVars>>

Store(r) ==
    /\ Goto(r, "store", "write")
    /\ cache' = [cache EXCEPT ![req[r].page] =
                    [status |-> recorder[r].status, body |-> recorder[r].body]]
    /\ UNCHANGED <<poolVars, cacheEnabled, reqVars>>

\* WriteHeader is called only if the recorder's wroteHeader is not set; without
\* it the first Write sends 200.
WriteReply(r) ==
    /\ Goto(r, "write", "release")
    /\ Respond(r, IF recorder[r].wroteHeader THEN 200 ELSE recorder[r].status,
               recorder[r].body)
    /\ UNCHANGED <<poolVars, cacheEnabled, cache, req, target, recorder, answer>>

\* The deferred DecrementConnections.
Release(r) ==
    /\ Goto(r, "release", "done")
    /\ IF Counting THEN DecrementConnections(target[r]) ELSE UNCHANGED connections
    /\ UNCHANGED <<cbEnabled, healthy, cb, cacheEnabled, cache, reqVars>>

-----------------------------------------------------------------------------
(* Environment *)

Expire(p) ==
    /\ cache[p] # noResponse
    /\ cache' = [cache EXCEPT ![p] = noResponse]
    /\ UNCHANGED <<poolVars, cacheEnabled, pc, reqVars>>

HealthChanges(b) ==
    /\ SetHealth(b, ~healthy[b])
    /\ UNCHANGED <<cbEnabled, cb, connections, cacheEnabled, cache, pc, reqVars>>

TimeoutElapses(b) ==
    /\ OpenTimeout(b)
    /\ UNCHANGED <<cacheEnabled, cache, pc, reqVars>>

Handler(r) ==
    \/ Arrive(r) \/ CacheHit(r) \/ CacheMiss(r)
    \/ (\E b \in Backends : SeeHealthy(r, b)) \/ SeeNotOpen(r) \/ NoBackend(r)
    \/ Count(r) \/ Blocked(r) \/ Execute(r)
    \/ (\E s \in Statuses : Answered(r, s)) \/ Unreachable(r) \/ Aborted(r)
    \/ RecordOutcome(r) \/ FinishFailure(r) \/ Finish(r) \/ Store(r)
    \/ WriteReply(r) \/ Release(r)

Next ==
    \/ \E r \in Requests : Handler(r)
    \/ \E p \in Pages : Expire(p)
    \/ \E b \in Backends : HealthChanges(b) \/ TimeoutElapses(b)

Spec == Init /\ [][Next]_vars

-----------------------------------------------------------------------------
(* Properties *)

(* For the strategies that count, connections is the number of requests    *)
(* that chose the backend and have not ended, also when the breaker        *)
(* refuses the call or the reverse proxy panics.                           *)
ConnectionsExact ==
    \A b \in Backends :
       connections[b] =
          IF Counting THEN Cardinality({r \in Requests : pc[r] \in Counted /\ target[r] = b})
          ELSE 0

(* A breaker awaits only calls that are running on its backend, at most    *)
(* one when it is half-open: neither a failed dial nor a panic leaks the   *)
(* slot.                                                                   *)
SlotsHeld ==
    \A b \in Backends :
       /\ cb[b].admitted \subseteq
             {r \in Requests : pc[r] \in {"proxy", "after"} /\ target[r] = b}
       /\ cb[b].state = "half-open" => \A r, s \in cb[b].admitted : r = s
       /\ cb[b].state = "open" => cb[b].admitted = {}

(* What is cached for a page is what a backend answered, below 500, to a   *)
(* GET of that page.  The one exception: behind a breaker an unreachable   *)
(* backend leaves the recorder's initial 200 and an empty body, which the  *)
(* breaker counts as a success and the cache keeps.                        *)
CacheFromBackend ==
    \A p \in Pages : cache[p] # noResponse =>
       \E r \in Requests :
          /\ req[r] = [page |-> p, get |-> TRUE]
          /\ \/ answer[r] = cache[p].status /\ cache[p].status < 500
             \/ cbEnabled /\ answer[r] = unreachable
                /\ cache[p] = [status |-> 200, body |-> "empty"]
==============================================================================
