-------------------------- MODULE RateLimiterProofs --------------------------
(***************************************************************************)
(* Theorems about RateLimiter for any number of callers, processes and     *)
(* addresses, any limit and any resolution of time.                        *)
(***************************************************************************)
EXTENDS RateLimiter, FiniteSetTheorems, TLAPS

-----------------------------------------------------------------------------
(* Type correctness. *)

Pending == [ip : IPs, n : 1..MaxCount, slow : BOOLEAN]

TypeInv == TypeOK /\ call \in [Callers -> Pending \cup {idle}] /\ broken \subseteq IPs

(* A reply to INCR is never idle. *)
LEMMA PendingNotIdle == idle \notin Pending
<1>1. 0 \notin 1..MaxCount
  BY RateAssumption
<1>. QED BY <1>1 DEF idle, Pending

(* Min of two numbers. *)
LEMMA MinOfTwo ==
    ASSUME NEW a \in Int, NEW b \in Int
    PROVE  Min({a, b}) = IF a <= b THEN a ELSE b
BY DEF Min

(* The time a key may have. *)
LEMMA ExpireKeyOK ==
    ASSUME TypeOK, NEW ip \in IPs, ExpireKey(ip) \/ UNCHANGED ttl
    PROVE  ttl' \in [IPs -> (1..Second) \cup {NoTTL}]
<1>1. ttl \in [IPs -> (1..Second) \cup {NoTTL}]
  BY DEF TypeOK
<1>2. Second \in 1..Second
  BY RateAssumption
<1>3. CASE ExpireKey(ip)
  <2>1. ttl' = [ttl EXCEPT ![ip] = IF count[ip] > 0 THEN Second ELSE NoTTL]
    BY <1>3 DEF ExpireKey
  <2>. QED BY <1>1, <1>2, <2>1
<1>. QED BY <1>1, <1>3

(* A new limiter, with no key in Redis, is well typed. *)
LEMMA TypeInvInit == Init => TypeInv
<1>. SUFFICES ASSUME Init PROVE TypeInv
  OBVIOUS
<1>1. limit \in Nat \cup {NoLimiter}
  <2>1. PICK r \in TwiceRates, pong \in BOOLEAN : limit = NewRateLimiter(r, pong)
    BY DEF Init
  <2>2. r \in Nat
    BY RateAssumption
  <2>3. r \div 2 \in Nat
    BY <2>2
  <2>. QED BY <2>1, <2>3 DEF NewRateLimiter
<1>. QED BY <1>1, RateAssumption DEF Init, TypeInv, TypeOK

(* Every step of Allow, of Redis and of the clock keeps the types. *)
LEMMA TypeInvStep == TypeInv /\ [Next]_vars => TypeInv'
<1>. SUFFICES ASSUME TypeInv, [Next]_vars PROVE TypeInv'
  OBVIOUS
<1>0. /\ limit \in Nat \cup {NoLimiter} /\ count \in [IPs -> 0..MaxCount]
      /\ ttl \in [IPs -> (1..Second) \cup {NoTTL}]
      /\ quiet \in [IPs -> 0..Second] /\ busy \in [IPs -> 0..MaxCount]
      /\ call \in [Callers -> Pending \cup {idle}] /\ broken \subseteq IPs
      /\ Second \in Nat /\ Second > 0 /\ MaxCount \in Nat
  BY RateAssumption DEF TypeInv, TypeOK
<1>. SUFFICES /\ limit' \in Nat \cup {NoLimiter} /\ count' \in [IPs -> 0..MaxCount]
              /\ ttl' \in [IPs -> (1..Second) \cup {NoTTL}]
              /\ quiet' \in [IPs -> 0..Second] /\ busy' \in [IPs -> 0..MaxCount]
              /\ call' \in [Callers -> Pending \cup {idle}] /\ broken' \subseteq IPs
  BY DEF TypeInv, TypeOK, Pending
<1>1. CASE UNCHANGED vars
  BY <1>0, <1>1 DEF vars, redis, history
<1>2. ASSUME NEW c \in Callers, NEW ip \in IPs, Incr(c, ip)
      PROVE  /\ limit' \in Nat \cup {NoLimiter} /\ count' \in [IPs -> 0..MaxCount]
             /\ ttl' \in [IPs -> (1..Second) \cup {NoTTL}]
             /\ quiet' \in [IPs -> 0..Second] /\ busy' \in [IPs -> 0..MaxCount]
             /\ call' \in [Callers -> Pending \cup {idle}] /\ broken' \subseteq IPs
  <2>1. PICK k \in 1..MaxCount : k = count[ip] + 1
    BY <1>0, <1>2 DEF Incr
  <2>2. count' = [count EXCEPT ![ip] = k]
    BY <1>2, <2>1 DEF Incr
  <2>3. call' \in [Callers -> Pending \cup {idle}]
    <3>1. [ip |-> ip, n |-> k, slow |-> FALSE] \in Pending
      BY DEF Pending
    <3>2. call' = [call EXCEPT ![c] = [ip |-> ip, n |-> k, slow |-> FALSE]]
      BY <1>2, <2>1 DEF Incr
    <3>. QED BY <1>0, <3>1, <3>2
  <2>4. PICK m \in 0..MaxCount : m = Min({busy[ip] + 1, MaxCount})
    <3>1. busy[ip] + 1 \in Int /\ MaxCount \in Int /\ busy[ip] \in 0..MaxCount
      BY <1>0
    <3>2. Min({busy[ip] + 1, MaxCount}) = IF busy[ip] + 1 <= MaxCount THEN busy[ip] + 1 ELSE MaxCount
      BY <3>1, MinOfTwo
    <3>. QED BY <1>0, <3>1, <3>2
  <2>5. busy' = [busy EXCEPT ![ip] = m]
    BY <1>2, <2>4 DEF Incr
  <2>. QED BY <1>0, <1>2, <2>2, <2>3, <2>5 DEF Incr
<1>3. ASSUME NEW c \in Callers, Expire(c) \/ PipelineFails(c)
      PROVE  /\ limit' \in Nat \cup {NoLimiter} /\ count' \in [IPs -> 0..MaxCount]
             /\ ttl' \in [IPs -> (1..Second) \cup {NoTTL}]
             /\ quiet' \in [IPs -> 0..Second] /\ busy' \in [IPs -> 0..MaxCount]
             /\ call' \in [Callers -> Pending \cup {idle}] /\ broken' \subseteq IPs
  <2>1. call[c] \in Pending
    BY <1>0, <1>3 DEF Expire, PipelineFails
  <2>2. PICK ip \in IPs : ip = call[c].ip
    BY <2>1 DEF Pending
  <2>3. ttl' \in [IPs -> (1..Second) \cup {NoTTL}]
    BY <1>3, <2>2, ExpireKeyOK DEF Expire, PipelineFails, TypeInv
  <2>4. call' = [call EXCEPT ![c] = idle] /\ quiet' = [quiet EXCEPT ![ip] = 0]
        /\ broken' \in {broken, broken \cup {ip}}
    BY <1>3, <2>2 DEF Expire, PipelineFails
  <2>5. limit' = limit /\ count' = count /\ busy' = busy
    BY <1>3 DEF Expire, PipelineFails
  <2>. QED BY <1>0, <2>3, <2>4, <2>5
<1>4. CASE Tick
  <2>1. limit' = limit /\ count' \in [IPs -> 0..MaxCount]
    BY <1>0, <1>4 DEF Tick
  <2>2. ttl' \in [IPs -> (1..Second) \cup {NoTTL}]
    <3>1. ASSUME NEW ip \in IPs, ~(Gone(ip) \/ ttl[ip] = NoTTL)
          PROVE  ttl[ip] - 1 \in 1..Second
      BY <1>0, <3>1 DEF Gone
    <3>. QED BY <1>4, <3>1 DEF Tick
  <2>3. call' \in [Callers -> Pending \cup {idle}]
    <3>1. ASSUME NEW c \in Callers, call[c] # idle
          PROVE  [call[c] EXCEPT !.slow = TRUE] \in Pending
      BY <1>0, <3>1 DEF Pending
    <3>. QED BY <1>4, <3>1 DEF Tick
  <2>4. quiet' \in [IPs -> 0..Second]
    <3>1. ASSUME NEW ip \in IPs PROVE Min({quiet[ip] + 1, Second}) \in 0..Second
      <4>1. quiet[ip] + 1 \in Int /\ Second \in Int /\ quiet[ip] \in 0..Second
        BY <1>0
      <4>2. Min({quiet[ip] + 1, Second}) = IF quiet[ip] + 1 <= Second THEN quiet[ip] + 1 ELSE Second
        BY <4>1, MinOfTwo
      <4>. QED BY <1>0, <4>1, <4>2
    <3>. QED BY <1>4, <3>1 DEF Tick
  <2>5. busy' \in [IPs -> 0..MaxCount]
    BY <1>0, <1>4 DEF Tick
  <2>6. broken' \subseteq IPs
    <3>1. \A c \in Callers : call[c] # idle => call[c].ip \in IPs
      BY <1>0 DEF Pending
    <3>. QED BY <1>0, <1>4, <3>1 DEF Tick
  <2>. QED BY <1>0, <2>1, <2>2, <2>3, <2>4, <2>5, <2>6
<1>. QED BY <1>1, <1>2, <1>3, <1>4 DEF Next

(* The types hold in every reachable state. *)
LEMMA TypeInvHolds == Spec => []TypeInv
BY TypeInvInit, TypeInvStep, PTL DEF Spec

(* The counts, the times to live and the calls under way stay well typed:  *)
(* in particular no key ever has more than a second to live.               *)
THEOREM TypeCorrect == Spec => []TypeOK
<1>1. TypeInv => TypeOK
  BY DEF TypeInv
<1>. QED BY <1>1, TypeInvHolds, PTL

-----------------------------------------------------------------------------
(* Who is denied. *)

Waiting(ip) == \E c \in Callers : call[c] # idle /\ call[c].ip = ip

\* The count of a key covers no more than the requests since the client was
\* last silent for a second: as soon as no call is between its commands, the
\* key goes before the client has been silent for a second.
BusyInv ==
    \A ip \in IPs : ip \notin broken =>
       /\ count[ip] <= busy[ip]
       /\ \A c \in Callers : call[c] # idle /\ call[c].ip = ip => call[c].n <= busy[ip]
       /\ \/ count[ip] = 0 \/ Waiting(ip)
          \/ ttl[ip] # NoTTL /\ ttl[ip] + quiet[ip] <= Second

(* Without a call there is nothing to be busy with. *)
LEMMA BusyInvInit == Init => BusyInv
<1>1. Init => \A ip \in IPs : count[ip] = 0 /\ busy[ip] = 0
  BY DEF Init
<1>2. Init => \A c \in Callers : call[c] = idle
  BY DEF Init
<1>. QED BY <1>1, <1>2 DEF BusyInv

(* Every step keeps the count of a key within the requests since the last second
   of silence, and the life of the key within what that second has left. *)
LEMMA BusyInvStep == TypeInv /\ BusyInv /\ [Next]_vars => BusyInv'
<1>. SUFFICES ASSUME TypeInv, BusyInv, [Next]_vars, NEW a \in IPs, a \notin broken'
              PROVE  /\ count'[a] <= busy'[a]
                     /\ \A d \in Callers : call'[d] # idle /\ call'[d].ip = a => call'[d].n <= busy'[a]
                     /\ \/ count'[a] = 0 \/ Waiting(a)'
                        \/ ttl'[a] # NoTTL /\ ttl'[a] + quiet'[a] <= Second
  BY DEF BusyInv
<1>0. /\ limit \in Nat \cup {NoLimiter} /\ count \in [IPs -> 0..MaxCount]
      /\ ttl \in [IPs -> (1..Second) \cup {NoTTL}]
      /\ quiet \in [IPs -> 0..Second] /\ busy \in [IPs -> 0..MaxCount]
      /\ call \in [Callers -> Pending \cup {idle}]
      /\ Second \in Nat /\ Second > 0 /\ MaxCount \in Nat
  BY RateAssumption DEF TypeInv, TypeOK
<1>1. a \notin broken
  BY DEF Next, vars, redis, history, Incr, Expire, PipelineFails, Tick
<1>2. /\ count[a] <= busy[a]
      /\ \A d \in Callers : call[d] # idle /\ call[d].ip = a => call[d].n <= busy[a]
      /\ \/ count[a] = 0 \/ Waiting(a)
         \/ ttl[a] # NoTTL /\ ttl[a] + quiet[a] <= Second
  BY <1>1 DEF BusyInv
<1>. DEFINE Goal == /\ count'[a] <= busy'[a]
                    /\ \A d \in Callers : call'[d] # idle /\ call'[d].ip = a => call'[d].n <= busy'[a]
                    /\ \/ count'[a] = 0 \/ Waiting(a)'
                       \/ ttl'[a] # NoTTL /\ ttl'[a] + quiet'[a] <= Second
<1>3. CASE UNCHANGED vars
  <2>1. count' = count /\ busy' = busy /\ call' = call /\ ttl' = ttl /\ quiet' = quiet
    BY <1>3 DEF vars, redis, history
  <2>2. Waiting(a)' <=> Waiting(a)
    BY <2>1 DEF Waiting
  <2>. QED BY <1>2, <2>1, <2>2
<1>4. ASSUME NEW c \in Callers, NEW ip \in IPs, Incr(c, ip) PROVE Goal
  <2>1. /\ call[c] = idle /\ count' = [count EXCEPT ![ip] = @ + 1] /\ count[ip] < MaxCount
        /\ call' = [call EXCEPT ![c] = [ip |-> ip, n |-> count[ip] + 1, slow |-> FALSE]]
        /\ busy' = [busy EXCEPT ![ip] = Min({@ + 1, MaxCount})]
        /\ quiet' = [quiet EXCEPT ![ip] = 0] /\ ttl' = ttl
    BY <1>4 DEF Incr
  <2>2. /\ call'[c] = [ip |-> ip, n |-> count[ip] + 1, slow |-> FALSE]
        /\ \A d \in Callers : d # c => call'[d] = call[d]
    BY <1>0, <2>1
  <2>3. call'[c].n = count[ip] + 1 /\ call'[c].ip = ip
    BY <2>2
  <2>4. CASE a # ip
    <3>1. count'[a] = count[a] /\ busy'[a] = busy[a] /\ ttl'[a] = ttl[a] /\ quiet'[a] = quiet[a]
      BY <1>0, <2>1, <2>4
    <3>2. Waiting(a) => Waiting(a)'
      BY <2>1, <2>2 DEF Waiting
    <3>. QED BY <1>2, <2>2, <2>3, <2>4, <3>1, <3>2
  <2>5. CASE a = ip
    <3>1. PICK x \in 0..MaxCount, y \in 0..MaxCount : x = count[a] /\ y = busy[a]
      BY <1>0
    <3>2. Min({y + 1, MaxCount}) = IF y + 1 <= MaxCount THEN y + 1 ELSE MaxCount
      BY <1>0, <3>1, MinOfTwo
    <3>3. busy'[a] = Min({y + 1, MaxCount}) /\ count'[a] = x + 1
      BY <1>0, <2>1, <2>5, <3>1
    <3>4. x <= y /\ x < MaxCount
      BY <1>2, <2>1, <2>5, <3>1
    <3>5. count'[a] <= busy'[a] /\ y <= busy'[a] /\ busy'[a] \in Nat
      BY <1>0, <3>1, <3>2, <3>3, <3>4
    <3>6. ASSUME NEW d \in Callers, call'[d] # idle, call'[d].ip = a PROVE call'[d].n <= busy'[a]
      <4>1. CASE d = c
        BY <2>3, <2>5, <3>1, <3>3, <3>5, <4>1
      <4>2. CASE d # c
        <5>1. call'[d] = call[d] /\ call[d] \in Pending
          BY <1>0, <2>2, <3>6, <4>2
        <5>2. call[d].n \in 1..MaxCount /\ call[d].n <= y
          BY <1>2, <3>1, <3>6, <5>1 DEF Pending
        <5>. QED BY <1>0, <3>1, <3>5, <5>1, <5>2
      <4>. QED BY <4>1, <4>2
    <3>7. Waiting(a)'
      <4>1. call'[c] # idle
        <5>1. x + 1 # 0
          BY <3>1
        <5>. QED BY <2>3, <2>5, <3>1, <5>1 DEF idle
      <4>. QED BY <2>3, <2>5, <4>1 DEF Waiting
    <3>. QED BY <3>5, <3>6, <3>7
  <2>. QED BY <2>4, <2>5
<1>5. ASSUME NEW c \in Callers, Expire(c) \/ PipelineFails(c) PROVE Goal
  <2>1. call[c] \in Pending
    BY <1>0, <1>5 DEF Expire, PipelineFails
  <2>2. PICK ip \in IPs : ip = call[c].ip
    BY <2>1 DEF Pending
  <2>3. /\ call' = [call EXCEPT ![c] = idle] /\ quiet' = [quiet EXCEPT ![ip] = 0]
        /\ count' = count /\ busy' = busy
    BY <1>5, <2>2 DEF Expire, PipelineFails
  <2>4. \A d \in Callers : call'[d] = IF d = c THEN idle ELSE call[d]
    BY <1>0, <2>3
  <2>5. CASE a # ip
    <3>1. quiet'[a] = quiet[a] /\ ttl'[a] = ttl[a]
      BY <1>0, <1>5, <2>2, <2>3, <2>5 DEF Expire, PipelineFails, ExpireKey
    <3>2. Waiting(a) => Waiting(a)'
      BY <2>2, <2>4, <2>5 DEF Waiting
    <3>. QED BY <1>2, <2>3, <2>4, <3>1, <3>2
  <2>6. CASE a = ip
    <3>1. Expire(c)
      BY <1>5, <2>2, <2>6 DEF PipelineFails
    <3>2. ttl'[a] = (IF count[a] > 0 THEN Second ELSE NoTTL) /\ quiet'[a] = 0
      BY <1>0, <2>2, <2>3, <2>6, <3>1 DEF Expire, ExpireKey
    <3>3. count[a] \in Nat /\ Second # NoTTL
      BY <1>0 DEF NoTTL
    <3>. QED BY <1>0, <1>2, <2>3, <2>4, <3>2, <3>3
  <2>. QED BY <2>5, <2>6
<1>6. CASE Tick
  <2>1. ~Waiting(a)
    BY <1>6 DEF Tick, Waiting
  <2>2. \A d \in Callers : ~(call'[d] # idle /\ call'[d].ip = a)
    <3>. TAKE d \in Callers
    <3>1. CASE call[d] = idle
      BY <1>6, <3>1 DEF Tick
    <3>2. CASE call[d] # idle
      <4>1. call'[d] = [call[d] EXCEPT !.slow = TRUE] /\ call[d] \in Pending
        BY <1>0, <1>6, <3>2 DEF Tick
      <4>2. call'[d].ip = call[d].ip
        BY <4>1 DEF Pending
      <4>. QED BY <2>1, <3>2, <4>2 DEF Waiting
    <3>. QED BY <3>1, <3>2
  <2>3. /\ count'[a] = (IF Gone(a) THEN 0 ELSE count[a])
        /\ ttl'[a] = IF Gone(a) \/ ttl[a] = NoTTL THEN NoTTL ELSE ttl[a] - 1
        /\ quiet'[a] = Min({quiet[a] + 1, Second})
        /\ busy'[a] = IF quiet'[a] = Second THEN 0 ELSE busy[a]
    BY <1>6 DEF Tick
  <2>4. quiet[a] \in 0..Second /\ count[a] \in 0..MaxCount /\ busy[a] \in 0..MaxCount
        /\ ttl[a] \in (1..Second) \cup {NoTTL}
    BY <1>0
  <2>5. quiet'[a] = IF quiet[a] + 1 <= Second THEN quiet[a] + 1 ELSE Second
    BY <1>0, <2>3, <2>4, MinOfTwo
  <2>6. CASE count[a] = 0
    <3>1. count'[a] = 0
      BY <2>3, <2>6
    <3>. QED BY <1>0, <2>2, <2>3, <2>4, <3>1
  <2>7. CASE count[a] # 0
    <3>1. PICK t \in 1..Second : t = ttl[a] /\ t + quiet[a] <= Second
      BY <1>2, <2>1, <2>4, <2>7
    <3>2. CASE t = 1
      <4>1. count'[a] = 0
        BY <2>3, <3>1, <3>2 DEF Gone
      <4>. QED BY <1>0, <2>2, <2>3, <2>4, <4>1
    <3>3. CASE t # 1
      <4>1. ttl[a] # NoTTL /\ ~Gone(a) /\ t - 1 # NoTTL
        BY <1>0, <3>1, <3>3 DEF Gone, NoTTL
      <4>2. ttl'[a] = t - 1 /\ count'[a] = count[a]
        BY <2>3, <3>1, <4>1
      <4>3. quiet'[a] = quiet[a] + 1 /\ quiet'[a] # Second
        BY <1>0, <2>4, <2>5, <3>1, <3>3
      <4>4. busy'[a] = busy[a] /\ ttl'[a] + quiet'[a] <= Second
        BY <1>0, <2>3, <2>4, <3>1, <4>2, <4>3
      <4>. QED BY <1>2, <2>2, <4>1, <4>2, <4>4
    <3>. QED BY <3>2, <3>3
  <2>. QED BY <2>6, <2>7
<1>. QED BY <1>3, <1>4, <1>5, <1>6 DEF Next

(* Allow denies a request only to a client that has sent more than limit   *)
(* requests without a silent second between them, or of which a pipeline   *)
(* broke off or was held up.                                               *)
THEOREM DeniedWhenBusy == Spec => []DeniedOnlyWhenBusy
<1>1. TypeInv /\ BusyInv => DeniedOnlyWhenBusy
  <2>. SUFFICES ASSUME TypeInv, BusyInv, NEW c \in Callers, call[c] # idle, Denied(call[c].n),
                       call[c].ip \notin broken
                PROVE  busy[call[c].ip] > limit
    BY DEF DeniedOnlyWhenBusy
  <2>1. call[c] \in Pending /\ limit \in Int /\ busy \in [IPs -> 0..MaxCount]
    BY DEF TypeInv, TypeOK, NoLimiter
  <2>2. call[c].ip \in IPs /\ call[c].n \in Int
    BY <2>1 DEF Pending
  <2>3. call[c].n <= busy[call[c].ip] /\ call[c].n > limit
    BY <2>2 DEF BusyInv, Denied
  <2>4. busy[call[c].ip] \in Int
    BY <2>1, <2>2
  <2>. QED BY <2>1, <2>2, <2>3, <2>4
<1>2. Spec => []BusyInv
  BY BusyInvInit, BusyInvStep, TypeInvHolds, PTL DEF Spec
<1>. QED BY <1>1, <1>2, TypeInvHolds, PTL

-----------------------------------------------------------------------------
(* How many are allowed. *)

\* The key that counted the grants g of the last second is still there, with
\* the count cnt and the time t to live.
Covered(g, cnt, t) ==
    /\ IsFiniteSet(DOMAIN g)
    /\ \A k \in DOMAIN g :
          /\ g[k] \in [n : 1..MaxCount, age : 0..(Second - 1)]
          /\ g[k].n <= limit /\ g[k].n <= cnt
          /\ t # NoTTL /\ t + g[k].age >= Second
    /\ \A j, k \in DOMAIN g : j # k => g[j].n # g[k].n

\* A call for ip between its commands, in one tick.
Quick(l, ip) == l # idle /\ l.ip = ip /\ ~l.slow

\* The replies of the calls under way are new.
Fresh(ip) ==
    \A c \in Callers : Quick(call[c], ip) =>
       /\ call[c].n <= count[ip]
       /\ \A k \in DOMAIN granted[ip] : granted[ip][k].n # call[c].n
       /\ \A d \in Callers : d # c /\ Quick(call[d], ip) => call[d].n # call[c].n

GrantInv ==
    /\ granted = [ip \in IPs |-> granted[ip]]
    /\ \A ip \in IPs : Covered(granted[ip], count[ip], ttl[ip]) /\ Fresh(ip)

(* There is a free number for one more grant. *)
LEMMA GrantOK ==
    ASSUME NEW g, IsFiniteSet(DOMAIN g), NEW x, NEW h, h = Grant(g, x)
    PROVE  \E k : /\ k \notin DOMAIN g /\ DOMAIN h = DOMAIN g \cup {k}
                  /\ h[k] = [n |-> x, age |-> 0]
                  /\ \A j \in DOMAIN g : h[j] = g[j]
<1>. DEFINE D == DOMAIN g
            size == Cardinality(D)
<1>1. size \in Nat
  BY FS_CardinalityType
<1>2. \E k \in 1..(size + 1) : k \notin D
  <2>1. SUFFICES ASSUME 1..(size + 1) \subseteq D PROVE FALSE
    OBVIOUS
  <2>2. Cardinality(1..(size + 1)) <= Cardinality(D)
    BY <2>1, FS_Subset
  <2>3. PICK z \in Int : z = size + 1
    BY <1>1
  <2>4. Cardinality(1..z) = IF 1 > z THEN 0 ELSE z - 1 + 1
    BY FS_Interval
  <2>. QED BY <1>1, <2>2, <2>3, <2>4
<1>. DEFINE k == CHOOSE k \in 1..(size + 1) : k \notin D
<1>3. k \notin D
  BY <1>2
<1>4. h = [j \in D \cup {k} |-> IF j = k THEN [n |-> x, age |-> 0] ELSE g[j]]
  BY DEF Grant
<1>. HIDE DEF k
<1>. QED BY <1>3, <1>4

(* No more grants than numbers up to limit. *)
LEMMA CoveredBound ==
    ASSUME NEW g, NEW cnt, NEW t, Covered(g, cnt, t), limit \in Nat
    PROVE  Cardinality(DOMAIN g) <= limit
<1>. DEFINE f == [k \in DOMAIN g |-> g[k].n]
<1>1. \A k \in DOMAIN g : g[k].n \in 1..limit
  BY DEF Covered
<1>2. f \in [DOMAIN g -> 1..limit] /\ \A j, k \in DOMAIN g : f[j] = f[k] => j = k
  BY <1>1 DEF Covered
<1>3. f \in Injection(DOMAIN g, 1..limit)
  BY <1>2 DEF Injection, IsInjective
<1>4. IsFiniteSet(1..limit) /\ Cardinality(1..limit) = IF 1 > limit THEN 0 ELSE limit - 1 + 1
  BY FS_Interval
<1>5. Cardinality(DOMAIN g) <= Cardinality(1..limit)
  <2>. HIDE DEF f
  <2>. QED BY <1>3, <1>4, FS_Injection
<1>. QED BY <1>4, <1>5

(* Nothing has been granted at the start. *)
LEMMA GrantInvInit == Init => GrantInv
<1>. SUFFICES ASSUME Init PROVE GrantInv
  OBVIOUS
<1>1. granted = [ip \in IPs |-> <<>>] /\ DOMAIN <<>> = {} /\ \A c \in Callers : call[c] = idle
  BY DEF Init
<1>2. IsFiniteSet({})
  BY FS_EmptySet
<1>3. \A ip \in IPs : DOMAIN granted[ip] = {}
  BY <1>1
<1>. QED BY <1>1, <1>2, <1>3 DEF GrantInv, Covered, Fresh, Quick

(* The grants of an address that a step leaves alone. *)
LEMMA FreshKept ==
    ASSUME NEW a \in IPs, Fresh(a), granted'[a] = granted[a], count'[a] = count[a],
           \A d \in Callers : Quick(call'[d], a) => call'[d] = call[d]
    PROVE  Fresh(a)'
BY DEF Fresh

(* Every step keeps the grants of a second numbered apart, by counts that the
   key still covers. *)
LEMMA GrantInvStep == TypeInv /\ GrantInv /\ [Next]_vars => GrantInv'
<1>. SUFFICES ASSUME TypeInv, GrantInv, [Next]_vars PROVE GrantInv'
  OBVIOUS
<1>0. /\ limit \in Nat \cup {NoLimiter} /\ count \in [IPs -> 0..MaxCount]
      /\ ttl \in [IPs -> (1..Second) \cup {NoTTL}]
      /\ call \in [Callers -> Pending \cup {idle}]
      /\ Second \in Nat /\ Second > 0 /\ MaxCount \in Nat
      /\ limit' = limit
  <2>1. limit' = limit
    BY DEF Next, vars, Incr, Expire, PipelineFails, Tick
  <2>. QED BY <2>1, RateAssumption DEF TypeInv, TypeOK
<1>1. granted' = [ip \in IPs |-> granted'[ip]]
  <2>1. granted = [ip \in IPs |-> granted[ip]]
    BY DEF GrantInv
  <2>2. CASE granted' = granted
    BY <2>1, <2>2
  <2>3. ASSUME NEW c \in Callers, Expire(c) PROVE granted' = [ip \in IPs |-> granted'[ip]]
    BY <2>1, <2>3 DEF Expire
  <2>4. CASE Tick
    BY <2>4 DEF Tick
  <2>. QED BY <2>2, <2>3, <2>4 DEF Next, vars, history, Incr, PipelineFails
<1>2. ASSUME NEW a \in IPs PROVE Covered(granted'[a], count'[a], ttl'[a]) /\ Fresh(a)'
  <2>0. Covered(granted[a], count[a], ttl[a]) /\ Fresh(a)
    BY DEF GrantInv
  <2>1. CASE UNCHANGED vars
    BY <2>0, <2>1, FreshKept DEF vars, redis, history
  <2>2. ASSUME NEW c \in Callers, NEW ip \in IPs, Incr(c, ip)
        PROVE  Covered(granted'[a], count'[a], ttl'[a]) /\ Fresh(a)'
    <3>1. /\ granted' = granted /\ ttl' = ttl /\ count' = [count EXCEPT ![ip] = @ + 1]
          /\ call' = [call EXCEPT ![c] = [ip |-> ip, n |-> count[ip] + 1, slow |-> FALSE]]
      BY <2>2 DEF Incr
    <3>2. PICK x \in 0..MaxCount : x = count[ip]
      BY <1>0
    <3>3. PICK l : l = [ip |-> ip, n |-> x + 1, slow |-> FALSE]
      OBVIOUS
    <3>4. call'[c] = l /\ l.n = x + 1 /\ l.ip = ip
      BY <1>0, <3>1, <3>2, <3>3
    <3>5. \A d \in Callers : d # c => call'[d] = call[d]
      BY <1>0, <3>1
    <3>6. CASE a # ip
      <4>1. count'[a] = count[a]
        BY <1>0, <3>1, <3>6
      <4>2. \A d \in Callers : Quick(call'[d], a) => call'[d] = call[d]
        BY <3>4, <3>5, <3>6 DEF Quick
      <4>. QED BY <2>0, <3>1, <4>1, <4>2, FreshKept
    <3>7. CASE a = ip
      <4>1. count'[a] = x + 1 /\ count[a] = x
        BY <1>0, <3>1, <3>2, <3>7
      <4>2. PICK g : g = granted[a] /\ g = granted'[a]
        BY <3>1
      <4>3. \A k \in DOMAIN g : g[k].n \in Nat /\ g[k].n <= x
        BY <2>0, <4>1, <4>2 DEF Covered
      <4>4. Covered(g, x + 1, ttl[a])
        BY <2>0, <4>1, <4>2, <4>3 DEF Covered
      <4>5. ASSUME NEW d \in Callers, d # c, Quick(call[d], a)
            PROVE  /\ call[d].n \in Nat /\ call[d].n <= x
                   /\ \A k \in DOMAIN g : g[k].n # call[d].n
                   /\ \A e \in Callers : e # d /\ Quick(call[e], a) => call[e].n # call[d].n
        <5>1. call[d] \in Pending
          BY <1>0, <4>5 DEF Quick
        <5>2. call[d].n \in 1..MaxCount
          BY <5>1 DEF Pending
        <5>. QED BY <2>0, <4>1, <4>2, <4>5, <5>2 DEF Fresh
      <4>6. ASSUME NEW d \in Callers, Quick(call'[d], a)
            PROVE  /\ call'[d].n <= x + 1
                   /\ \A k \in DOMAIN g : g[k].n # call'[d].n
                   /\ \A e \in Callers : e # d /\ Quick(call'[e], a) => call'[e].n # call'[d].n
        <5>1. CASE d = c
          <6>1. call'[d].n = x + 1
            BY <3>4, <5>1
          <6>2. \A k \in DOMAIN g : g[k].n # x + 1
            BY <3>2, <4>3
          <6>3. ASSUME NEW e \in Callers, e # d, Quick(call'[e], a) PROVE call'[e].n # x + 1
            <7>1. call'[e] = call[e] /\ Quick(call[e], a)
              BY <3>5, <5>1, <6>3
            <7>2. call[e].n \in Nat /\ call[e].n <= x
              BY <4>5, <5>1, <6>3, <7>1
            <7>. QED BY <3>2, <7>1, <7>2
          <6>. QED BY <3>2, <6>1, <6>2, <6>3
        <5>2. CASE d # c
          <6>1. call'[d] = call[d] /\ Quick(call[d], a)
            BY <3>5, <4>6, <5>2
          <6>2. /\ call[d].n \in Nat /\ call[d].n <= x
                /\ \A k \in DOMAIN g : g[k].n # call[d].n
            BY <4>5, <5>2, <6>1
          <6>3. ASSUME NEW e \in Callers, e # d, Quick(call'[e], a) PROVE call'[e].n # call[d].n
            <7>1. CASE e = c
              BY <3>2, <3>4, <6>2, <7>1
            <7>2. CASE e # c
              <8>1. call'[e] = call[e]
                BY <3>5, <7>2
              <8>. QED BY <4>5, <5>2, <6>1, <6>3, <8>1
            <7>. QED BY <7>1, <7>2
          <6>. QED BY <3>2, <6>1, <6>2, <6>3
        <5>. QED BY <5>1, <5>2
      <4>7. Fresh(a)'
        BY <4>1, <4>2, <4>6 DEF Fresh
      <4>. QED BY <3>1, <4>1, <4>2, <4>4, <4>7
    <3>. QED BY <3>6, <3>7
  <2>3. ASSUME NEW c \in Callers, Expire(c) \/ PipelineFails(c)
        PROVE  Covered(granted'[a], count'[a], ttl'[a]) /\ Fresh(a)'
    <3>1. call[c] \in Pending /\ call[c] # idle
      BY <1>0, <2>3 DEF Expire, PipelineFails
    <3>2. PICK ip \in IPs, x \in 1..MaxCount : ip = call[c].ip /\ x = call[c].n
      BY <3>1 DEF Pending
    <3>3. /\ call' = [call EXCEPT ![c] = idle] /\ count' = count
          /\ ExpireKey(ip) \/ ttl' = ttl
      BY <2>3, <3>2 DEF Expire, PipelineFails
    <3>4. \A d \in Callers : call'[d] = IF d = c THEN idle ELSE call[d]
      BY <1>0, <3>3
    <3>5. \A d \in Callers : Quick(call'[d], a) => d # c /\ call'[d] = call[d]
      BY <3>4 DEF Quick
    <3>6. CASE granted'[a] = granted[a]
      <4>1. Fresh(a)'
        BY <2>0, <3>3, <3>5, <3>6, FreshKept
      <4>2. PICK g, n : g = granted[a] /\ g = granted'[a] /\ n = count[a] /\ n = count'[a]
        BY <3>3, <3>6
      <4>3. CASE ttl'[a] = ttl[a]
        BY <2>0, <4>1, <4>2, <4>3
      <4>4. CASE ttl'[a] # ttl[a]
        <5>1. ttl'[a] = IF n > 0 THEN Second ELSE NoTTL
          BY <1>0, <3>3, <4>2, <4>4 DEF ExpireKey
        <5>0. n \in 0..MaxCount
          BY <1>0, <4>2
        <5>2. ASSUME NEW k \in DOMAIN g PROVE n > 0 /\ g[k].age \in Nat
          <6>1. g[k] \in [n : 1..MaxCount, age : 0..(Second - 1)] /\ g[k].n <= n
            BY <2>0, <4>2 DEF Covered
          <6>2. g[k].n \in 1..MaxCount /\ g[k].age \in 0..(Second - 1)
            BY <6>1
          <6>. QED BY <1>0, <5>0, <6>1, <6>2
        <5>3. \A k \in DOMAIN g : ttl'[a] # NoTTL /\ ttl'[a] + g[k].age >= Second
          <6>. TAKE k \in DOMAIN g
          <6>1. ttl'[a] = Second /\ g[k].age \in Nat
            BY <5>1, <5>2
          <6>. QED BY <1>0, <6>1 DEF NoTTL
        <5>4. Covered(g, n, ttl'[a])
          BY <2>0, <4>2, <5>3 DEF Covered
        <5>. QED BY <4>1, <4>2, <5>4
      <4>. QED BY <4>3, <4>4
    <3>7. CASE granted'[a] # granted[a]
      <4>1. Expire(c) /\ ~Denied(x) /\ ~call[c].slow
        BY <2>3, <3>2, <3>7 DEF Expire, PipelineFails
      <4>2. granted' = [granted EXCEPT ![ip] = Grant(@, x)]
        BY <3>2, <4>1 DEF Expire
      <4>3. a = ip
        BY <3>7, <4>2 DEF GrantInv
      <4>4. PICK g, h, n : g = granted[a] /\ h = granted'[a] /\ n = count[a] /\ n = count'[a]
        BY <3>3
      <4>5. h = Grant(g, x)
        <5>1. granted = [i \in IPs |-> granted[i]]
          BY DEF GrantInv
        <5>. QED BY <4>2, <4>3, <4>4, <5>1
      <4>6. IsFiniteSet(DOMAIN g)
        BY <2>0, <4>4 DEF Covered
      <4>7. PICK k : /\ k \notin DOMAIN g /\ DOMAIN h = DOMAIN g \cup {k}
                     /\ h[k] = [n |-> x, age |-> 0]
                     /\ \A j \in DOMAIN g : h[j] = g[j]
        BY <4>5, <4>6, GrantOK
      <4>8. h[k].n = x /\ h[k].age = 0
        BY <4>7
      <4>9. Quick(call[c], a)
        BY <3>1, <3>2, <4>1, <4>3 DEF Quick
      <4>10. x <= n /\ \A j \in DOMAIN g : g[j].n # x
        BY <2>0, <3>2, <4>4, <4>9 DEF Fresh
      <4>11. x <= limit
        BY <1>0, <3>2, <4>1 DEF Denied, NoLimiter
      <4>12. ttl'[a] = Second
        <5>0. n \in 0..MaxCount
          BY <1>0, <4>4
        <5>1. n > 0
          BY <1>0, <4>10, <5>0
        <5>2. ExpireKey(ip)
          BY <3>2, <4>1 DEF Expire
        <5>. QED BY <1>0, <4>3, <4>4, <5>1, <5>2 DEF ExpireKey
      <4>13. Covered(h, n, Second)
        <5>1. IsFiniteSet(DOMAIN h)
          BY <4>6, <4>7, FS_AddElement
        <5>2. ASSUME NEW j \in DOMAIN h
              PROVE  /\ h[j] \in [n : 1..MaxCount, age : 0..(Second - 1)]
                     /\ h[j].n <= limit /\ h[j].n <= n
                     /\ Second # NoTTL /\ Second + h[j].age >= Second
          <6>1. CASE j = k
            <7>1. h[k] \in [n : 1..MaxCount, age : 0..(Second - 1)]
              BY <1>0, <3>2, <4>7
            <7>. QED BY <1>0, <4>8, <4>10, <4>11, <6>1, <7>1 DEF NoTTL
          <6>2. CASE j # k
            <7>1. j \in DOMAIN g /\ h[j] = g[j]
              BY <4>7, <6>2
            <7>2. /\ g[j] \in [n : 1..MaxCount, age : 0..(Second - 1)]
                  /\ g[j].n <= limit /\ g[j].n <= n
              BY <2>0, <4>4, <7>1 DEF Covered
            <7>3. g[j].age \in Nat
              BY <7>2
            <7>. QED BY <1>0, <7>1, <7>2, <7>3 DEF NoTTL
          <6>. QED BY <6>1, <6>2
        <5>3. ASSUME NEW i \in DOMAIN h, NEW j \in DOMAIN h, i # j PROVE h[i].n # h[j].n
          <6>1. \A e \in DOMAIN h : e # k => e \in DOMAIN g /\ h[e].n = g[e].n
            BY <4>7
          <6>2. \A d, e \in DOMAIN g : d # e => g[d].n # g[e].n
            BY <2>0, <4>4 DEF Covered
          <6>. QED BY <4>8, <4>10, <5>3, <6>1, <6>2
        <5>. QED BY <5>1, <5>2, <5>3 DEF Covered
      <4>14. ASSUME NEW d \in Callers, Quick(call'[d], a)
             PROVE  /\ call'[d].n <= n
                    /\ \A j \in DOMAIN h : h[j].n # call'[d].n
                    /\ \A e \in Callers : e # d /\ Quick(call'[e], a) => call'[e].n # call'[d].n
        <5>1. d # c /\ call'[d] = call[d] /\ Quick(call[d], a)
          BY <3>5, <4>14
        <5>2. /\ call[d].n <= n /\ \A j \in DOMAIN g : g[j].n # call[d].n
              /\ \A e \in Callers : e # d /\ Quick(call[e], a) => call[e].n # call[d].n
          BY <2>0, <4>4, <5>1 DEF Fresh
        <5>3. call[d].n # x
          BY <3>2, <4>9, <5>1, <5>2
        <5>4. \A j \in DOMAIN h : h[j].n # call[d].n
          BY <4>7, <4>8, <5>2, <5>3
        <5>5. \A e \in Callers : e # d /\ Quick(call'[e], a) => call'[e].n # call[d].n
          BY <3>5, <5>2
        <5>. QED BY <5>1, <5>2, <5>4, <5>5
      <4>15. Fresh(a)'
        BY <4>4, <4>14 DEF Fresh
      <4>. QED BY <4>4, <4>12, <4>13, <4>15
    <3>. QED BY <3>6, <3>7
  <2>4. CASE Tick
    <3>1. \A d \in Callers : ~Quick(call'[d], a)
      <4>. TAKE d \in Callers
      <4>1. CASE call[d] = idle
        BY <2>4, <4>1 DEF Tick, Quick
      <4>2. CASE call[d] # idle
        <5>1. call'[d] = [call[d] EXCEPT !.slow = TRUE] /\ call[d] \in Pending
          BY <1>0, <2>4, <4>2 DEF Tick
        <5>2. call'[d].slow
          BY <5>1 DEF Pending
        <5>. QED BY <5>2 DEF Quick
      <4>. QED BY <4>1, <4>2
    <3>2. Fresh(a)'
      BY <3>1 DEF Fresh
    <3>3. PICK g, h : g = granted[a] /\ h = granted'[a]
      OBVIOUS
    <3>4. h = [k \in {j \in DOMAIN g : g[j].age + 1 < Second} |-> [g[k] EXCEPT !.age = @ + 1]]
      BY <2>4, <3>3 DEF Tick, Older
    <3>5. DOMAIN h = {j \in DOMAIN g : g[j].age + 1 < Second}
      BY <3>4
    <3>6. IsFiniteSet(DOMAIN h)
      <4>1. IsFiniteSet(DOMAIN g)
        BY <2>0, <3>3 DEF Covered
      <4>2. DOMAIN h \in SUBSET DOMAIN g
        BY <3>5
      <4>. QED BY <4>1, <4>2, FS_Subset
    <3>7. ASSUME NEW k \in DOMAIN h
          PROVE  /\ h[k] \in [n : 1..MaxCount, age : 0..(Second - 1)]
                 /\ h[k].n <= limit /\ h[k].n <= count'[a]
                 /\ ttl'[a] # NoTTL /\ ttl'[a] + h[k].age >= Second
                 /\ h[k].n = g[k].n /\ k \in DOMAIN g
      <4>1. k \in DOMAIN g /\ g[k].age + 1 < Second
        BY <3>5
      <4>2. /\ g[k] \in [n : 1..MaxCount, age : 0..(Second - 1)]
            /\ g[k].n <= limit /\ g[k].n <= count[a]
            /\ ttl[a] # NoTTL /\ ttl[a] + g[k].age >= Second
        BY <2>0, <3>3, <4>1 DEF Covered
      <4>3. PICK e \in 0..(Second - 1) : e = g[k].age + 1
        BY <1>0, <4>1, <4>2
      <4>4. h[k] = [g[k] EXCEPT !.age = e]
        BY <3>4, <3>5, <4>3
      <4>5. /\ h[k] \in [n : 1..MaxCount, age : 0..(Second - 1)]
            /\ h[k].n = g[k].n /\ h[k].age = e
        BY <4>2, <4>4
      <4>6. PICK t \in 1..Second : t = ttl[a] /\ t # 1
        BY <1>0, <4>1, <4>2
      <4>7. ~Gone(a) /\ ttl[a] # NoTTL /\ t - 1 # NoTTL
        BY <4>2, <4>6 DEF Gone, NoTTL
      <4>8. ttl'[a] = t - 1 /\ count'[a] = count[a]
        BY <2>4, <4>6, <4>7 DEF Tick
      <4>9. ttl'[a] + e >= Second
        BY <1>0, <4>2, <4>3, <4>6, <4>8
      <4>. QED BY <4>1, <4>2, <4>5, <4>7, <4>8, <4>9
    <3>8. \A j, k \in DOMAIN h : j # k => h[j].n # h[k].n
      <4>1. \A j, k \in DOMAIN g : j # k => g[j].n # g[k].n
        BY <2>0, <3>3 DEF Covered
      <4>. QED BY <3>7, <4>1
    <3>9. Covered(h, count'[a], ttl'[a])
      BY <3>6, <3>7, <3>8 DEF Covered
    <3>. QED BY <3>2, <3>3, <3>9
  <2>. QED BY <2>1, <2>2, <2>3, <2>4 DEF Next
<1>3. \A ip \in IPs : Covered(granted[ip], count[ip], ttl[ip])' /\ Fresh(ip)'
  BY <1>0, <1>2 DEF Covered
<1>. QED BY <1>1, <1>3 DEF GrantInv

(* In any one second at most limit requests of an address are allowed on   *)
(* the strength of their count, for any number of processes that share the *)
(* Redis server and whatever pipelines break off.                          *)
THEOREM AtMostLimit == Spec => []AtMostLimitPerSecond
<1>1. TypeInv /\ GrantInv => AtMostLimitPerSecond
  <2>. SUFFICES ASSUME TypeInv, GrantInv, NEW ip \in IPs, limit # NoLimiter
                PROVE  Cardinality(DOMAIN granted[ip]) <= limit
    BY DEF AtMostLimitPerSecond
  <2>1. limit \in Nat
    BY DEF TypeInv, TypeOK
  <2>2. Covered(granted[ip], count[ip], ttl[ip])
    BY DEF GrantInv
  <2>. QED BY <2>1, <2>2, CoveredBound
<1>2. Spec => []GrantInv
  BY GrantInvInit, GrantInvStep, TypeInvHolds, PTL DEF Spec
<1>. QED BY <1>1, <1>2, TypeInvHolds, PTL
==============================================================================
