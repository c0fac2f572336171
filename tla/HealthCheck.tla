---------------------------- MODULE HealthCheck ----------------------------
(***************************************************************************)
(* StartHealthChecks of the pool of a TCP listener or of an L7 route,      *)
(* whose backends come and go, with just enough traffic to trip the        *)
(* breakers.  A check dials with a 2s timeout and the ticker has a period  *)
(* of 5s, so a backend has at most one check under way.  The ticker skips  *)
(* a backend whose breaker is open, so that its flag is stale for as long  *)
(* as the breaker keeps opening.                                           *)
(*                                                                         *)
(* What a breaker takes for a failure is not what a health check does.  A  *)
(* TCP call fails if its dial fails, and succeeds however the connection   *)
(* ends.  An L7 call fails on a status of 500 or more or if its answer     *)
(* breaks off (the reverse proxy panics); one that cannot be connected     *)
(* succeeds, because the ErrorHandler leaves the recorder at status 200.   *)
(***************************************************************************)
EXTENDS BackendPool

CONSTANT MaxReloads   \* bound on the reloads

VARIABLES
    layer,       \* "L4", the pool of a TCP listener, or "L7", that of a route
    reachable,   \* the backend accepts TCP connections
    failing,     \* L7: the answers of the backend have a status >= 500 or break off,
                 \* be it the backend or its client that hangs up
    check,       \* the health check goroutine of a backend
    sent,        \* the backend a request is running on, or nil
    outcome,     \* what the function that the breaker executes returns, once settled
    reloads      \* number of reloads

world    == <<layer, reachable, failing>>
requests == <<sent, outcome>>
vars     == <<poolVars, world, check, requests, reloads>>

TypeOK ==
    /\ PoolTypeOK
    /\ layer \in {"L4", "L7"}
    /\ reachable \in [Backends -> BOOLEAN] /\ failing \in [Backends -> BOOLEAN]
    /\ check \in [Backends -> {"none", "dialing", "ok", "failed"}]
    /\ sent \in [Requests -> Backends \cup {nil}]
    /\ outcome \in [Requests -> {"pending", "success", "failure"}]
    /\ reloads \in 0..MaxReloads

\* StartHealthChecks starts a first check of every backend, breaker or not.
Init ==
    /\ NewPool
    /\ layer \in {"L4", "L7"}
    /\ reachable \in [Backends -> BOOLEAN]
    /\ failing \in [Backends -> IF layer = "L7" THEN BOOLEAN ELSE {FALSE}]
    /\ check = [b \in Backends |-> "dialing"]
    /\ sent = [r \in Requests |-> nil]
    /\ outcome = [r \in Requests |-> "pending"]
    /\ reloads = 0

-----------------------------------------------------------------------------
\* Mutant: also skips a half-open breaker.
CheckStartsClosed(b) ==
    /\ check[b] = "none"
    /\ cbEnabled => cb[b].state = "closed"
    /\ check' = [check EXCEPT ![b] = "dialing"]
    /\ UNCHANGED <<poolVars, world, requests, reloads>>

\* The ticker's loop reaches b; an open breaker is skipped.
CheckStarts(b) ==
    /\ check[b] = "none"
    /\ ~Open(b)
    /\ check' = [check EXCEPT ![b] = "dialing"]
    /\ UNCHANGED <<poolVars, world, requests, reloads>>

\* net.DialTimeout returns.
DialReturns(b) ==
    /\ check[b] = "dialing"
    /\ check' = [check EXCEPT ![b] = IF reachable[b] THEN "ok" ELSE "failed"]
    /\ UNCHANGED <<poolVars, world, requests, reloads>>

\* Mutant: a failed check leaves the flag alone.
CheckEndsUp(b) ==
    /\ check[b] \in {"ok", "failed"}
    /\ SetHealth(b, healthy[b] \/ check[b] = "ok")
    /\ check' = [check EXCEPT ![b] = "none"]
    /\ UNCHANGED <<cbEnabled, cb, connections, world, requests, reloads>>

\* The check records what it found, however stale it is by now.
CheckEnds(b) ==
    /\ check[b] \in {"ok", "failed"}
    /\ SetHealth(b, check[b] = "ok")
    /\ check' = [check EXCEPT ![b] = "none"]
    /\ UNCHANGED <<cbEnabled, cb, connections, world, requests, reloads>>

-----------------------------------------------------------------------------
(* Traffic, reloads and the backends themselves. *)

\* A handler executes a request on b.  It read the health flag some time ago,
\* so the flag is no guard of this step; without a breaker it changes nothing.
Send(r, b) ==
    /\ sent[r] = nil
    /\ cbEnabled /\ ~Rejects(cb[b])
    /\ cb' = [cb EXCEPT ![b] = BeforeRequest(@, r)]
    /\ sent' = [sent EXCEPT ![r] = b]
    /\ UNCHANGED <<cbEnabled, healthy, connections, world, check, outcome, reloads>>

\* What a call that meets b now can return.
Outcomes(b) ==
    CASE reachable[b] /\ ~failing[b] -> {"success"}
      [] reachable[b] /\ failing[b]  -> {"failure"}
      [] ~reachable[b] /\ layer = "L4" -> {"failure"}
      [] ~reachable[b] /\ layer = "L7" -> {"success", "failure"}

\* The dial of a TCP call, or the answer to an L7 call, settles what the
\* breaker will record, when the connection or the answer is over.
Settle(r) ==
    /\ sent[r] # nil /\ outcome[r] = "pending"
    /\ \E o \in Outcomes(sent[r]) : outcome' = [outcome EXCEPT ![r] = o]
    /\ UNCHANGED <<poolVars, world, check, sent, reloads>>

RequestEnds(r) ==
    /\ sent[r] # nil /\ outcome[r] # "pending"
    /\ cb' = [cb EXCEPT ![sent[r]] = AfterRequest(@, r, outcome[r] = "success")]
    /\ sent' = [sent EXCEPT ![r] = nil]
    /\ outcome' = [outcome EXCEPT ![r] = "pending"]
    /\ UNCHANGED <<cbEnabled, healthy, connections, world, check, reloads>>

TimeoutElapses(b) ==
    /\ OpenTimeout(b)
    /\ UNCHANGED <<world, check, requests, reloads>>

\* reloadConfig_unsafe gives every route a new pool, with breakers or without:
\* its backends are unhealthy and its checks start over.  The requests and the
\* checks of the old pool go on with the backends of that pool.  The running
\* TCP proxies keep their pools.
Reload ==
    /\ layer = "L7" /\ reloads < MaxReloads
    /\ reloads' = reloads + 1
    /\ cbEnabled' \in CBConfigs
    /\ healthy' = [b \in Backends |-> FALSE]
    /\ cb' = [b \in Backends |-> NewCircuitBreaker]
    /\ connections' = [b \in Backends |-> 0]
    /\ check' = [b \in Backends |-> "dialing"]
    /\ sent' = [r \in Requests |-> nil]
    /\ outcome' = [r \in Requests |-> "pending"]
    /\ UNCHANGED world

BackendChanges(b) ==
    /\ \/ reachable' = [reachable EXCEPT ![b] = ~@] /\ UNCHANGED failing
       \/ /\ layer = "L7"
          /\ failing' = [failing EXCEPT ![b] = ~@] /\ UNCHANGED reachable
    /\ UNCHANGED <<poolVars, layer, check, requests, reloads>>

-----------------------------------------------------------------------------
Checking(b) == CheckStarts(b) \/ DialReturns(b) \/ CheckEnds(b)

Next ==
    \/ \E b \in Backends :
          \/ Checking(b) \/ TimeoutElapses(b) \/ BackendChanges(b)
          \/ \E r \in Requests : Send(r, b)
    \/ \E r \in Requests : Settle(r) \/ RequestEnds(r)
    \/ Reload

(* The ticker keeps firing, dials time out and the breaker's timer runs.   *)
(* Nothing makes traffic arrive, and nothing makes a request end: a TCP    *)
(* call may last for ever.                                                 *)
Fairness == \A b \in Backends : WF_vars(Checking(b)) /\ WF_vars(TimeoutElapses(b))

Spec == Init /\ [][Next]_vars /\ Fairness

-----------------------------------------------------------------------------
Available(b) == healthy[b] /\ ~Open(b)

(* A backend that stays up, and on L7 stops failing requests, comes back   *)
(* into rotation for good: neither the skipped checks of an open breaker,  *)
(* nor the checks and requests that began before it recovered, nor the     *)
(* reset of every health flag by a reload keep it out.                     *)
Recovers ==
    \A b \in Backends : <>[](reachable[b] /\ ~failing[b]) => <>[]Available(b)

(* A backend that stays down is not left in rotation.  Without breakers it *)
(* leaves for good.  With them it only leaves again and again: the ticker  *)
(* may find the breaker open at every tick and never clear the flag, so    *)
(* that each half-open period lets a request through.  It does so although *)
(* a TCP call that dialled before still records a success, and on L7 every *)
(* call that cannot connect does.                                          *)
LeavesRotation ==
    \A b \in Backends :
       /\ <>[]~reachable[b] => []<>~Available(b)
       /\ <>[](~reachable[b] /\ ~cbEnabled) => <>[]~Available(b)
=============================================================================
