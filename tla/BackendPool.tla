----------------------------- MODULE BackendPool -----------------------------
(***************************************************************************)
(* A BackendPool as the proxies share it: for every backend its health     *)
(* flag, its circuit breaker and its connection counter, with the          *)
(* operations of Backend.  p.backends is a slice, so a backend is its      *)
(* index; the order is the order of a Go map iteration, that is arbitrary, *)
(* and nothing here depends on it.  The strategies that choose a backend   *)
(* are the module Selection.                                               *)
(***************************************************************************)
EXTENDS Integers, CircuitBreaker

CONSTANTS
    N,          \* len(p.backends)
    CBConfigs,  \* the values of cbCfg.Enabled to consider
    UintMod     \* stands for 2^64, the modulus of the uint64 counters

ASSUME PoolAssumption ==
    /\ N \in Nat
    /\ CBConfigs \subseteq BOOLEAN
    /\ UintMod \in Nat /\ UintMod > 1

Backends == 0..(N - 1)

nil == -1       \* no backend

VARIABLES
    cbEnabled,    \* cbCfg != nil && cbCfg.Enabled: backends own a breaker
    healthy,      \* Backend.healthy
    cb,           \* Backend.cb
    connections   \* Backend.connections, a uint64

poolVars == <<cbEnabled, healthy, cb, connections>>

PoolTypeOK ==
    /\ cbEnabled \in BOOLEAN
    /\ healthy \in [Backends -> BOOLEAN]
    /\ cb \in [Backends -> Breakers]
    /\ connections \in [Backends -> 0..(UintMod - 1)]

\* NewL4BackendPool for a TCP listener: a backend starts unhealthy until its
\* first health check succeeds.
NewPool ==
    /\ cbEnabled \in CBConfigs
    /\ healthy = [b \in Backends |-> FALSE]
    /\ cb = [b \in Backends |-> NewCircuitBreaker]
    /\ connections = [b \in Backends |-> 0]

Open(b) == cbEnabled /\ cb[b].state = "open"

SetHealth(b, h) == healthy' = [healthy EXCEPT ![b] = h]

IncrementConnections(b) ==
    connections' = [connections EXCEPT ![b] = (@ + 1) % UintMod]

\* atomic.AddUint64(&b.connections, ^uint64(0)): adds 2^64 - 1.
DecrementConnections(b) ==
    connections' = [connections EXCEPT ![b] = (@ + (UintMod - 1)) % UintMod]

\* OpenStateTimeout elapses.  gobreaker makes the transition when it is next
\* asked for its state; nothing can tell that from making it at once.
OpenTimeout(b) ==
    /\ cbEnabled
    /\ cb[b].state = "open"
    /\ cb' = [cb EXCEPT ![b] = SetState("half-open")]
    /\ UNCHANGED <<cbEnabled, healthy, connections>>
==============================================================================
