----------------------------- MODULE MCAdminAPI -----------------------------
(***************************************************************************)
(* An instance of AdminAPI: three files, one of which needs a token and    *)
(* one of which has no http listener.  The first file has routes that      *)
(* match the same requests: a route for all hosts, a tie with it that asks *)
(* for a header, and a route of one host, which lists a backend twice.     *)
(* With MaxInsertion = 2 the tie may come in either order in this file; in *)
(* the second, which lists the route with the header first, it stays so.   *)
(* The first two pages have the same key.                                  *)
(***************************************************************************)
EXTENDS AdminAPI

CONSTANTS a1, a2, c1   \* model values

none == [k \in {} |-> ""]
v1   == [k \in {"v"} |-> "1"]
v0   == [k \in {"v"} |-> ""]

B(addr, weight) == [addr |-> addr, weight |-> weight]

R(host, path, headers, backends) ==
    [host |-> host, path |-> path, headers |-> headers, backends |-> backends]

all    == R(<<>>, <<"/">>, none, <<B("b1", 0)>>)
header == R(<<>>, <<"/">>, v1, <<B("b1", 1)>>)
host   == R(<<"g">>, <<"/">>, none, <<B("b2", 1), B("b1", 1), B("b2", 3)>>)
others == R(<<>>, <<"/">>, none, <<B("b2", 1)>>)
deep   == R(<<>>, <<"/", "a">>, none, <<B("b2", 1), B("bad", 1)>>)

MCFiles ==
    { [token |-> "", http |-> TRUE, routes |-> <<all, header, host>>],
      [token |-> "t", http |-> TRUE, routes |-> <<header, others>>],
      [token |-> "", http |-> FALSE, routes |-> <<>>] }

MCNewRoutes  == {deep, all, R(<<"h">>, <<>>, none, <<>>)}
MCPages      == {[host |-> <<"h">>, path |-> <<"/", "a", "/", "a">>],
                 [host |-> <<"h", "/", "a">>, path |-> <<"/", "a">>],
                 [host |-> <<"g">>, path |-> <<"/", "a">>]}
MCHeaderSets == {v0, v1}
Perms        == Permutations(Admins)

\* The files above are such that the route table is well defined.
ASSUME FilesDistinct
=============================================================================
