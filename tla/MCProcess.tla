----------------------------- MODULE MCProcess -----------------------------
(***************************************************************************)
(* Instances of Process: two proxies of one protocol, which one goroutine  *)
(* waits for in turn, and all kinds of servers together.                   *)
(***************************************************************************)
EXTENDS Process

CONSTANT c1   \* model value

MCConfigs ==
    { [admin |-> TRUE,  listeners |-> <<"autocert", "unknown">>],
      [admin |-> FALSE, listeners |-> <<"tcp", "tcp">>],
      [admin |-> FALSE, listeners |-> <<"udp", "http", "tcp">>] }
=============================================================================
