------------------------------- MODULE Drain -------------------------------
(***************************************************************************)
(* What a proxy promises its operator about stopping: a connection that    *)
(* the proxy has taken charge of is opened once and closed once, and the   *)
(* proxy reports itself drained only while none is open.                   *)
(***************************************************************************)
CONSTANT Conns

VARIABLES
    phase,     \* of every connection: "new", "open", "closed"
    drained    \* Wait has returned

vars == <<phase, drained>>

Init ==
    /\ phase = [c \in Conns |-> "new"]
    /\ drained = FALSE

Open(c) ==
    /\ phase[c] = "new"
    /\ phase' = [phase EXCEPT ![c] = "open"]
    /\ UNCHANGED drained

Close(c) ==
    /\ phase[c] = "open"
    /\ phase' = [phase EXCEPT ![c] = "closed"]
    /\ UNCHANGED drained

Drained ==
    /\ ~drained
    /\ \A c \in Conns : phase[c] # "open"
    /\ drained' = TRUE
    /\ UNCHANGED phase

Next == Drained \/ \E c \in Conns : Open(c) \/ Close(c)

Spec == Init /\ [][Next]_vars
=============================================================================
