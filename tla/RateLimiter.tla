---------------------------- MODULE RateLimiter ----------------------------
(***************************************************************************)
(* The global rate limiter: ServeHTTP asks Allow, which counts a client's  *)
(* requests under one Redis key with INCR and gives the key one second to  *)
(* live with EXPIRE.  Both commands travel in one pipeline, which is not a *)
(* transaction: other calls, and time, come between them, and the pipeline *)
(* can fail before, between and after them.  Redis is external; a key is   *)
(* its count (0: no key) and its time to live.                             *)
(*                                                                         *)
(* Time is discrete, Second ticks to a second.  granted, quiet, busy and   *)
(* broken are history: no action depends on them.                          *)
(***************************************************************************)
EXTENDS Integers, FiniteSetsExt

CONSTANTS
    Callers,      \* goroutines that serve requests, of one or more processes
    IPs,          \* client addresses
    Second,       \* ticks per second
    TwiceRates,   \* twice the configured requestsPerSecond, a float64
    MaxCount      \* bound on a key's count

ASSUME RateAssumption ==
    /\ Second \in Nat \ {0}
    /\ TwiceRates \subseteq Nat
    /\ MaxCount \in Nat

NoLimiter == -1   \* lb.rl == nil
NoTTL     == -1   \* a key without a time to live, or no key
idle == [ip |-> "none", n |-> 0, slow |-> FALSE]

VARIABLES
    limit,     \* RateLimiter.limit, or NoLimiter
    count,     \* the value of an IP's key
    ttl,       \* the ticks it has left
    call,      \* the Allow under way of every caller: the reply to its INCR
    granted,   \* calls allowed by the count in the last second: what INCR returned
               \* to each and its age in ticks
    quiet,     \* ticks since the last command for an IP, at most Second
    busy,      \* INCRs for an IP since it was last quiet for a second
    broken     \* IPs of which a call failed or had a tick between its commands

redis == <<count, ttl>>
history == <<granted, quiet, busy, broken>>
vars == <<limit, redis, call, history>>

\* No limiter without a rate, or when Redis is not configured or does not
\* answer the ping; else the rate is truncated to an int.
NewRateLimiter(twiceRate, pong) ==
    IF twiceRate = 0 \/ ~pong THEN NoLimiter ELSE twiceRate \div 2

Init ==
    /\ \E r \in TwiceRates, pong \in BOOLEAN : limit = NewRateLimiter(r, pong)
    /\ count = [ip \in IPs |-> 0]
    /\ ttl = [ip \in IPs |-> NoTTL]
    /\ call = [c \in Callers |-> idle]
    /\ granted = [ip \in IPs |-> <<>>]
    /\ quiet = [ip \in IPs |-> Second]
    /\ busy = [ip \in IPs |-> 0]
    /\ broken = {}

-----------------------------------------------------------------------------
\* Allow denies a call whose INCR returned n.
Denied(n) == n > limit

\* INCR creates the key without a time to live and keeps that of a key.
Incr(c, ip) ==
    /\ limit # NoLimiter
    /\ call[c] = idle
    /\ count[ip] < MaxCount
    /\ count' = [count EXCEPT ![ip] = @ + 1]
    /\ call' = [call EXCEPT ![c] = [ip |-> ip, n |-> count[ip] + 1, slow |-> FALSE]]
    /\ quiet' = [quiet EXCEPT ![ip] = 0]
    /\ busy' = [busy EXCEPT ![ip] = Min({@ + 1, MaxCount})]
    /\ UNCHANGED <<limit, ttl, granted, broken>>

\* Mutants: EXPIRE only for a new key (a fixed window); no EXPIRE; too long a time.
ExpireNewKey(ip) ==
    ttl' = [ttl EXCEPT ![ip] = IF count[ip] > 0 /\ @ = NoTTL THEN Second ELSE @]
ExpireForgotten(ip) == ip \in IPs /\ UNCHANGED ttl
ExpireLate(ip) ==
    ttl' = [ttl EXCEPT ![ip] = IF count[ip] > 0 THEN Second + 1 ELSE NoTTL]

\* EXPIRE does nothing to a key that is gone.
ExpireKey(ip) ==
    ttl' = [ttl EXCEPT ![ip] = IF count[ip] > 0 THEN Second ELSE NoTTL]

\* One more grant, under a number that is free.
Grant(grants, n) ==
    LET k == CHOOSE k \in 1..(Cardinality(DOMAIN grants) + 1) : k \notin DOMAIN grants
    IN [j \in DOMAIN grants \cup {k} |-> IF j = k THEN [n |-> n, age |-> 0] ELSE grants[j]]

\* EXPIRE, and the reply decides the call.
Expire(c) ==
    LET l == call[c]
    IN /\ l # idle
       /\ ExpireKey(l.ip)
       /\ call' = [call EXCEPT ![c] = idle]
       /\ granted' = IF Denied(l.n) \/ l.slow THEN granted
                     ELSE [granted EXCEPT ![l.ip] = Grant(@, l.n)]
       /\ quiet' = [quiet EXCEPT ![l.ip] = 0]
       /\ UNCHANGED <<limit, count, busy, broken>>

\* Exec returns an error and the call is allowed; INCR was executed, and EXPIRE
\* too or not.  (When neither was, nothing changes.)
PipelineFails(c) ==
    LET l == call[c]
    IN /\ l # idle
       /\ ExpireKey(l.ip) \/ UNCHANGED ttl
       /\ call' = [call EXCEPT ![c] = idle]
       /\ broken' = broken \cup {l.ip}
       /\ quiet' = [quiet EXCEPT ![l.ip] = 0]
       /\ UNCHANGED <<limit, count, granted, busy>>

-----------------------------------------------------------------------------
\* The grants that are less than a second old after another tick.
Older(grants) ==
    [k \in {j \in DOMAIN grants : grants[j].age + 1 < Second} |->
        [grants[k] EXCEPT !.age = @ + 1]]

\* A key with one tick left disappears.
Gone(ip) == ttl[ip] = 1

Tick ==
    /\ count' = [ip \in IPs |-> IF Gone(ip) THEN 0 ELSE count[ip]]
    /\ ttl' = [ip \in IPs |-> IF Gone(ip) \/ ttl[ip] = NoTTL THEN NoTTL ELSE ttl[ip] - 1]
    /\ call' = [c \in Callers |-> IF call[c] = idle THEN idle
                                  ELSE [call[c] EXCEPT !.slow = TRUE]]
    /\ granted' = [ip \in IPs |-> Older(granted[ip])]
    /\ quiet' = [ip \in IPs |-> Min({quiet[ip] + 1, Second})]
    /\ busy' = [ip \in IPs |-> IF quiet'[ip] = Second THEN 0 ELSE busy[ip]]
    /\ broken' = broken \cup {call[c].ip : c \in {d \in Callers : call[d] # idle}}
    /\ UNCHANGED limit

Next ==
    \/ \E c \in Callers : Expire(c) \/ PipelineFails(c) \/ \E ip \in IPs : Incr(c, ip)
    \/ Tick

Spec == Init /\ [][Next]_vars

-----------------------------------------------------------------------------
TypeOK ==
    /\ limit \in Nat \cup {NoLimiter}
    /\ count \in [IPs -> 0..MaxCount]
    /\ ttl \in [IPs -> (1..Second) \cup {NoTTL}]
    /\ \A c \in Callers : call[c] = idle \/
          call[c] \in [ip : IPs, n : 1..MaxCount, slow : BOOLEAN]
    /\ quiet \in [IPs -> 0..Second]
    /\ busy \in [IPs -> 0..MaxCount]

(* In any one second at most limit requests of an address are allowed on   *)
(* the strength of their count, also when several processes count together *)
(* and earlier pipelines broke off: every allowed request renews the key,  *)
(* so the count covers at least the last second.  (Not counted are calls   *)
(* whose two commands a tick came between: their EXPIRE may find the key   *)
(* gone.)                                                                  *)
AtMostLimitPerSecond ==
    \A ip \in IPs : limit # NoLimiter =>
       Cardinality(DOMAIN granted[ip]) <= limit

(* A client is denied only if it has sent more than limit requests without *)
(* a silent second between them: a second of silence is enough to start    *)
(* afresh.  (The requests need not fall into one second, as "Requests per  *)
(* second" in line 14 suggests: each renews the key, so that a client with *)
(* a steady rate far below limit is denied in the end.)  Exempt are        *)
(* clients of which a pipeline broke off or was held up between INCR and   *)
(* EXPIRE, which can leave a key that never expires.                       *)
DeniedOnlyWhenBusy ==
    \A c \in Callers : call[c] # idle /\ Denied(call[c].n) =>
       busy[call[c].ip] > limit \/ call[c].ip \in broken
=============================================================================
