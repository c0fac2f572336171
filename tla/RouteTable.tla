----------------------------- MODULE RouteTable -----------------------------
(***************************************************************************)
(* What the administrator is promised about the routes in effect: a route  *)
(* is a rule with a weight for each of its backends; the table is replaced *)
(* as a whole by one that was loaded, or changes in one entry only.        *)
(***************************************************************************)
CONSTANT Loadable   \* the tables that can be loaded

VARIABLE table      \* a function from rules to functions from backends to weights

\* The functions differ at k at most.
SameBut(k, old, new) ==
    /\ DOMAIN new \ {k} = DOMAIN old \ {k}
    /\ \A j \in DOMAIN old \ {k} : new[j] = old[j]

Init == table \in Loadable

Load == table' \in Loadable

\* A route comes or goes.
AddRoute(k)    == k \notin DOMAIN table /\ SameBut(k, table, table')
DeleteRoute(k) == k \notin DOMAIN table' /\ SameBut(k, table, table')

\* One backend of a route comes, goes or changes its weight.
ChangeBackend(k) ==
    /\ k \in DOMAIN table'
    /\ SameBut(k, table, table')
    /\ \E a \in DOMAIN table[k] \cup DOMAIN table'[k] : SameBut(a, table[k], table'[k])

Next ==
    \/ Load
    \/ \E k \in DOMAIN table' : AddRoute(k)
    \/ \E k \in DOMAIN table : DeleteRoute(k) \/ ChangeBackend(k)

Spec == Init /\ [][Next]_table
=============================================================================
