--------------------------- MODULE CircuitBreaker ---------------------------
(***************************************************************************)
(* The circuit breaker each backend owns: gobreaker v1.0.0 with the        *)
(* settings newL4Backend and newL7Backend give it (MaxRequests 1, Interval *)
(* 0).  The library is external to the repository; it is modelled from the *)
(* way the proxies use it: State(), and Execute(f), which is a             *)
(* BeforeRequest, the call of f, and an AfterRequest.                      *)
(*                                                                         *)
(* gobreaker tags a request with the generation it was admitted in and     *)
(* ignores the outcome of a request of an earlier generation.  The model   *)
(* keeps, instead of the generation number, the set of requests admitted   *)
(* in the current generation whose outcome is still awaited.  With         *)
(* MaxRequests = 1 a half-open breaker is full exactly when that set is    *)
(* not empty, because the first outcome ends the generation.               *)
(***************************************************************************)
EXTENDS Naturals

CONSTANTS
    Requests,             \* identities of the calls of Execute
    ConsecutiveFailures   \* cbCfg.ConsecutiveFailures

ASSUME FailuresAssumption == ConsecutiveFailures \in Nat

CBStates == {"closed", "half-open", "open"}

Breakers == [state    : CBStates,
             failures : 0..ConsecutiveFailures,
             admitted : SUBSET Requests]

\* A state change starts a new generation with cleared counts.
SetState(s) == [state |-> s, failures |-> 0, admitted |-> {}]

NewCircuitBreaker == SetState("closed")

\* Mutant: trips one failure late.
ReadyToTripLate(failures) == failures > ConsecutiveFailures + 1

ReadyToTrip(failures) == failures > ConsecutiveFailures

\* ErrOpenState, or ErrTooManyRequests in the half-open state.
Rejects(brk) ==
    \/ brk.state = "open"
    \/ brk.state = "half-open" /\ brk.admitted # {}

BeforeRequest(brk, r) == [brk EXCEPT !.admitted = @ \cup {r}]

\* The outcome of r is known and does not change the state.
Forget(brk, r, failures) ==
    [state |-> brk.state, failures |-> failures, admitted |-> brk.admitted \ {r}]

AfterRequest(brk, r, ok) ==
    IF r \notin brk.admitted THEN brk
    ELSE IF brk.state = "half-open" THEN SetState(IF ok THEN "closed" ELSE "open")
    ELSE IF ok THEN Forget(brk, r, 0)
    ELSE IF ReadyToTrip(brk.failures + 1) THEN SetState("open")
    ELSE Forget(brk, r, brk.failures + 1)
=============================================================================
