---------------------------- MODULE MCSelection ----------------------------
(* Small instances of Selection. *)
EXTENDS Selection, TLC

CONSTANTS p, q

MCHash == [a |-> 3, b |-> 4]

OneClient == {[ip |-> "a", port |-> 1]}

\* One host behind two ports, and another host.
ThreeClients == OneClient \cup {[ip |-> "a", port |-> 2], [ip |-> "b", port |-> 1]}

\* net.SplitHostPort failed.
NoClient == {[ip |-> NoIP, port |-> 0]}

\* Three backends scanned by one caller, and two backends scanned by two.
MCPools ==
    [strategy : {"unknown", "least-connections", "weighted-least-connections",
                 "weighted-round-robin"},
     size : {3}, callers : {{p}}, clients : {OneClient}]
    \cup [strategy : {"ip-hash"}, size : {3}, callers : {{p}}, clients : {NoClient}]
    \cup [strategy : {"ip-hash"}, size : {2}, callers : {{p, q}}, clients : {ThreeClients}]
    \cup [strategy : {"round-robin", "weighted-round-robin"},
          size : {2}, callers : {{p, q}}, clients : {OneClient}]

\* Weights as configured: 0 and -1 are treated as 1.
MCWeights == 0 :> 0 @@ 1 :> 2 @@ 2 :> (-1)
=============================================================================
