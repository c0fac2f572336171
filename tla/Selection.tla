----------------------------- MODULE Selection -----------------------------
(***************************************************************************)
(* GetNextBackend called concurrently by the proxies' handlers, for every  *)
(* strategy.  A call is a scan of p.backends in which every visit is a     *)
(* read of the health flag, then a read of the breaker's state, then the   *)
(* strategy's loop body; health checks, breakers and connection counters   *)
(* change between any two of these reads.  Only weighted-round-robin takes *)
(* the pool's lock.                                                        *)
(*                                                                         *)
(* Each caller keeps, besides the locals of the Go function, the backends  *)
(* it has found available in this call (up), those that have been so at    *)
(* every instant of it (steady) and the counts it read (seen); passed      *)
(* counts the calls in a row that found a backend available and returned   *)
(* another (weighted-round-robin only); straight says that round-robin has *)
(* led the call from each backend to the next: no other call has advanced  *)
(* the counter during this one, and it has not wrapped at a number that is *)
(* no multiple of the pool's size.  These are history: no action depends   *)
(* on them.                                                                *)
(***************************************************************************)
EXTENDS Integers, FiniteSetsExt, SequencesExt

CONSTANTS
    Pools,        \* the pools to consider: their strategy and number of backends, the
                  \* goroutines that call them and the client addresses these serve
    CfgWeight,    \* BackendConfig.Weight of every backend
    UintMod,      \* stands for 2^64
    MaxConns,     \* bound on the connections of a backend, and on the decrements that
                  \* precede their increments
    CBEnabled,    \* backends own a circuit breaker
    Hash          \* fnv32a of the IPs

NoIP == "no address"   \* the empty clientIP
nil == -1

ASSUME SelectionAssumption ==
    /\ \A p \in Pools : p.size \in Nat /\ 0..(p.size - 1) \subseteq DOMAIN CfgWeight
    /\ \A p \in Pools : nil \notin p.callers
    /\ \A b \in DOMAIN CfgWeight : CfgWeight[b] \in Int
    /\ UintMod \in Nat /\ UintMod > 1 /\ MaxConns \in Nat /\ 2 * MaxConns < UintMod
    /\ CBEnabled \in BOOLEAN
    /\ \A p \in Pools : \A cl \in p.clients : cl.ip # NoIP => Hash[cl.ip] \in Nat

VARIABLES
    pool,            \* the member of Pools at hand; it never changes
    healthy, open,   \* health flag and "the breaker is open", per backend
    connections,     \* Backend.connections
    current,         \* p.current
    currentWeight,   \* Backend.CurrentWeight
    lock,            \* holder of p.lock, or nil
    call,            \* the state of every caller
    passed           \* history, see above

poolVars == <<pool, healthy, open, connections>>
vars == <<poolVars, current, currentWeight, lock, call, passed>>

strategy == pool.strategy       \* p.strategy
N        == pool.size           \* len(p.backends)
Backends == 0..(N - 1)
Callers  == pool.callers        \* goroutines that call GetNextBackend
Clients  == pool.clients        \* records [ip, port]

\* A counter is at most MaxConns away from zero, on either side of it: the UDP
\* proxy counts a flow down before up if its reader is the faster one.
Counts == 0..MaxConns \cup (UintMod - MaxConns)..(UintMod - 1)

\* newL4Backend and newL7Backend: a weight that is not positive becomes 1.
Weight(b) == IF CfgWeight[b] > 0 THEN CfgWeight[b] ELSE 1

\* A call that has not looked at any backend yet: i counts the visits, at is
\* the backend being visited; best, min, total and list are the Go locals.
NewCall(client, pc, steady) ==
    [pc |-> pc, client |-> client, i |-> 0, at |-> nil, best |-> nil,
     min |-> UintMod - 1, total |-> 0, list |-> <<>>,
     up |-> {}, steady |-> steady, straight |-> TRUE, seen |-> [b \in Backends |-> 0]]

Idle == NewCall(CHOOSE cl \in Clients : TRUE, "idle", {})

Init ==
    /\ pool \in Pools
    /\ healthy \in [Backends -> BOOLEAN]
    /\ open = [b \in Backends |-> FALSE]
    /\ connections = [b \in Backends |-> 0]
    /\ current = 0
    /\ currentWeight = [b \in Backends |-> 0]
    /\ lock = nil
    /\ call = [c \in Callers |-> Idle]
    /\ passed = [b \in Backends |-> 0]

Update(c, l) == call' = [call EXCEPT ![c] = l]

-----------------------------------------------------------------------------
(* The strategies' loops. *)

\* The default of the switch; ip-hash falls back to it without an address.
RoundRobin(l) ==
    \/ strategy \notin {"ip-hash", "least-connections",
                       "weighted-least-connections", "weighted-round-robin"}
    \/ strategy = "ip-hash" /\ l.client.ip = NoIP

\* The visit of a backend ends without considering it.
Skip(l) == [l EXCEPT !.pc = "scan", !.i = @ + 1, !.at = nil]

\* Mutant: the loop stops one backend early.
ScanOverEarly(l) == l.i >= N - 1

ScanOver(l) == l.i = N

\* Mutant: hashes the whole remote address.
HashAddr(client) == Hash[client.ip] + client.port

\* The hash of the client's address; net.SplitHostPort has dropped the port.
HashIP(client) == Hash[client.ip]

\* The count as the strategy uses it.  The weighted one takes it as a float64,
\* which rounds the numbers next to 2^64 to 2^64.
Read(b) == IF strategy = "weighted-least-connections" /\ connections[b] > MaxConns
           THEN UintMod ELSE connections[b]

\* Mutant: ignores the weights.
FewerUnweighted(l, b) == l.best = nil \/ Read(b) < l.min

\* b has fewer connections than the best so far, in proportion to the weights
\* if these count.  The weighted strategy starts with an infinite score, the
\* other one with 2^64 - 1, which is also a value of the counter.
Fewer(l, b) ==
    IF strategy = "least-connections" THEN Read(b) < l.min
    ELSE l.best = nil \/ Read(b) * Weight(l.best) < l.min * Weight(b)

\* The strategy's loop body for a backend found available.
Consider(l) ==
    LET b    == l.at
        next == Skip(l)
        read == [next EXCEPT !.seen[b] = Read(b)]
        took == [read EXCEPT !.best = b, !.min = Read(b)]
        sum  == [next EXCEPT !.total = @ + Weight(b)]
    IN CASE RoundRobin(l) -> [l EXCEPT !.pc = "returned", !.best = b]
         [] strategy = "ip-hash" /\ ~RoundRobin(l)
              -> [next EXCEPT !.list = Append(@, b)]
         [] strategy \in {"least-connections", "weighted-least-connections"}
              -> IF Fewer(l, b) THEN took ELSE read
         [] strategy = "weighted-round-robin"
              -> IF l.best = nil
                    \/ currentWeight[b] + Weight(b) > currentWeight[l.best]
                 THEN [sum EXCEPT !.best = b] ELSE sum

\* What the function returns after its loop.
Result(l) ==
    IF strategy = "ip-hash" /\ l.list # <<>>
    THEN l.list[1 + (HashIP(l.client) % Len(l.list))]
    ELSE l.best

\* Mutants: charges nothing; charges the weights of all backends.
ChargeNothing(l) == 0
ChargeAll(l) == MapThenSumSet(Weight, Backends)

\* What weighted-round-robin takes off the winner's current weight.
Charge(l) == l.total

\* Mutant: a counter that does not wrap.
NextCurrentUnbounded == current + 1

\* atomic.AddUint64(&p.current, 1)
NextCurrent == (current + 1) % UintMod

-----------------------------------------------------------------------------
(* The steps of a call. *)

\* weighted-round-robin takes p.lock for the whole scan.
Call(c, client) ==
    /\ call[c].pc = "idle"
    /\ strategy = "weighted-round-robin" => lock = nil
    /\ lock' = IF strategy = "weighted-round-robin" THEN c ELSE lock
    /\ Update(c, NewCall(client, "scan",
                         {b \in Backends : healthy[b] /\ ~open[b]}))
    /\ UNCHANGED <<poolVars, current, currentWeight, passed>>

\* round-robin advances the shared counter and visits the index it got; the
\* others visit the backends in order.  The visit reads IsHealthy.
Visit(c) ==
    LET l == call[c]
        n == NextCurrent
        b == IF RoundRobin(l) THEN n % N ELSE l.i
        v == [l EXCEPT !.at = b, !.pc = "state",
                       !.straight = @ /\ ~(RoundRobin(l) /\ n = 0 /\ UintMod % N # 0)]
    IN /\ l.pc = "scan"
       /\ ~ScanOver(l)
       /\ current' = IF RoundRobin(l) THEN n ELSE current
       /\ call' = [d \in Callers |->
                     CASE d = c -> IF healthy[b] THEN v ELSE Skip(v)
                       [] d # c -> [call[d] EXCEPT !.straight = @ /\ ~RoundRobin(l)]]
       /\ UNCHANGED <<poolVars, currentWeight, lock, passed>>

\* Mutant: does not ask the breaker.
ReadStateIgnored(c) ==
    LET l == call[c]
    IN /\ l.pc = "state"
       /\ Update(c, [l EXCEPT !.pc = "body", !.up = IF open[l.at] THEN @ ELSE @ \cup {l.at}])
       /\ UNCHANGED <<poolVars, current, currentWeight, lock, passed>>

\* cb.State() != StateOpen
ReadState(c) ==
    LET l == call[c]
    IN /\ l.pc = "state"
       /\ Update(c, IF open[l.at] THEN Skip(l)
                    ELSE [l EXCEPT !.pc = "body", !.up = @ \cup {l.at}])
       /\ UNCHANGED <<poolVars, current, currentWeight, lock, passed>>

LoopBody(c) ==
    LET l == call[c]
    IN /\ l.pc = "body"
       /\ Update(c, Consider(l))
       /\ currentWeight' = IF strategy = "weighted-round-robin"
                           THEN [currentWeight EXCEPT ![l.at] = @ + Weight(l.at)]
                           ELSE currentWeight
       /\ UNCHANGED <<poolVars, current, lock, passed>>

\* The loop is over; weighted-round-robin charges the winner and unlocks.
Finish(c) ==
    LET l == call[c]
    IN /\ l.pc = "scan"
       /\ ScanOver(l)
       /\ Update(c, [l EXCEPT !.pc = "returned", !.best = Result(l)])
       /\ lock' = IF lock = c THEN nil ELSE lock
       /\ currentWeight' = IF strategy = "weighted-round-robin" /\ l.best # nil
                           THEN [currentWeight EXCEPT ![l.best] = @ - Charge(l)]
                           ELSE currentWeight
       /\ passed' = [b \in Backends |->
                       IF strategy = "weighted-round-robin" /\ b \in l.up \ {l.best}
                       THEN passed[b] + 1 ELSE 0]
       /\ UNCHANGED <<poolVars, current>>

\* The caller uses the result and may call again.
Return(c) ==
    /\ call[c].pc = "returned"
    /\ Update(c, Idle)
    /\ UNCHANGED <<poolVars, current, currentWeight, lock, passed>>

-----------------------------------------------------------------------------
(* The rest of the program. *)

\* A backend that became unavailable is steady in no running call.
Unsteady(b) ==
    call' = [c \in Callers |-> [call[c] EXCEPT !.steady = @ \ {b}]]

HealthChanges(b) ==
    /\ healthy' = [healthy EXCEPT ![b] = ~@]
    /\ IF healthy[b] THEN Unsteady(b) ELSE UNCHANGED call
    /\ UNCHANGED <<pool, open, connections, current, currentWeight, lock, passed>>

CircuitChanges(b) ==
    /\ CBEnabled
    /\ open' = [open EXCEPT ![b] = ~@]
    /\ IF ~open[b] THEN Unsteady(b) ELSE UNCHANGED call
    /\ UNCHANGED <<pool, healthy, connections, current, currentWeight, lock, passed>>

\* IncrementConnections, or DecrementConnections, which adds 2^64 - 1.
ConnectionsChange(b) ==
    /\ strategy \in {"least-connections", "weighted-least-connections"}
    /\ \E d \in {1, UintMod - 1} :
          /\ (connections[b] + d) % UintMod \in Counts
          /\ connections' = [connections EXCEPT ![b] = (@ + d) % UintMod]
    /\ UNCHANGED <<pool, healthy, open, current, currentWeight, lock, call, passed>>

Next ==
    \/ \E c \in Callers :
          \/ \E cl \in Clients : Call(c, cl)
          \/ Visit(c) \/ ReadState(c) \/ LoopBody(c) \/ Finish(c) \/ Return(c)
    \/ \E b \in Backends :
          HealthChanges(b) \/ CircuitChanges(b) \/ ConnectionsChange(b)

Spec == Init /\ [][Next]_vars

-----------------------------------------------------------------------------
(* Properties *)

TypeOK ==
    /\ pool \in Pools
    /\ healthy \in [Backends -> BOOLEAN] /\ open \in [Backends -> BOOLEAN]
    /\ connections \in [Backends -> Counts]
    /\ current \in 0..(UintMod - 1)
    /\ currentWeight \in [Backends -> Int]
    /\ lock \in Callers \cup {nil}
    /\ \A c \in Callers :
          /\ call[c].pc \in {"idle", "scan", "state", "body", "returned"}
          /\ call[c].i \in 0..N
          /\ {call[c].at, call[c].best} \subseteq Backends \cup {nil}

Returned(c) == call[c].pc = "returned"

(* A backend is returned only if this very call saw it healthy and after-  *)
(* wards saw its breaker not open, for every strategy and interleaving.    *)
PickedWasAvailable ==
    \A c \in Callers : Returned(c) /\ call[c].best # nil => call[c].best \in call[c].up

\* The backends whose counter a least-connections call read as 2^64 - 1.
Uncountable(l) ==
    {b \in Backends : strategy = "least-connections" /\ l.seen[b] = UintMod - 1}

(* "No healthy backend found": no backend is returned only if none was     *)
(* available for the whole duration of the call.  There are two exceptions.*)
(* Round-robin calls that overlap: each visit takes its index from the     *)
(* counter they share, so one of them can be led past an available backend *)
(* on every visit and answer nil; so can the call at the wrap of the       *)
(* counter, if the number of backends does not divide 2^64.  And least-    *)
(* connections: its minimum starts at 2^64 - 1 and is compared with <, so  *)
(* it never takes a backend whose counter it reads at 2^64 - 1, where the  *)
(* counter stands while a decrement precedes its increment.                *)
NilOnlyIfNoneAvailable ==
    \A c \in Callers :
       Returned(c) /\ call[c].best = nil /\ (RoundRobin(call[c]) => call[c].straight)
       => call[c].steady \subseteq Uncountable(call[c])

(* The backend chosen by (weighted) least connections has, among those the *)
(* call found available, the smallest load the call read, and is the first *)
(* such; a counter read below zero is the largest load of all.             *)
LeastLoaded ==
    \A c \in Callers :
       LET l == call[c]
           Wt(b) == IF strategy = "least-connections" THEN 1 ELSE Weight(b)
       IN  Returned(c) /\ l.best # nil
           /\ strategy \in {"least-connections", "weighted-least-connections"}
           => \A b \in l.up :
                 LET mine == l.seen[l.best] * Wt(b)
                     its  == l.seen[b] * Wt(l.best)
                 IN  mine < its \/ (mine = its /\ l.best <= b)

(* ip-hash: two calls for the same client host, from whatever port, that   *)
(* find the same backends available return the same backend.               *)
IPAffinity ==
    \A c, d \in Callers :
       /\ strategy = "ip-hash" /\ Returned(c) /\ Returned(d)
       /\ call[c].client.ip = call[d].client.ip /\ call[c].client.ip # NoIP
       /\ call[c].up = call[d].up
       => call[c].best = call[d].best

(* weighted-round-robin: between calls the current weights sum to zero, so *)
(* what one backend was granted the others paid for, whichever backends    *)
(* were skipped in earlier scans.                                          *)
WeightsBalanced ==
    lock = nil => MapThenSumSet(LAMBDA b : currentWeight[b], Backends) = 0

\* The most that two backends weigh together.
HeaviestPair ==
    Max({IF a = b THEN 0 ELSE Weight(a) + Weight(b) : a, b \in Backends})

(* weighted-round-robin starves no backend: one that every call finds      *)
(* available is passed over by at most (N - 1) * HeaviestPair / Weight     *)
(* calls in a row, however the other backends come and go.                 *)
NoStarvation ==
    strategy = "weighted-round-robin" =>
       \A b \in Backends : passed[b] * Weight(b) <= (N - 1) * HeaviestPair
=============================================================================
