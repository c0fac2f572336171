------------------------------- MODULE Router -------------------------------
(***************************************************************************)
(* The route table: Route.Matches, the order into which buildL7Routes      *)
(* sorts the routes, and the loop of ServeHTTP that takes the first match. *)
(* A host or a path is a sequence of characters, "" is <<>>; the headers   *)
(* of a route are a function on the keys it names, those of a request a    *)
(* function on all keys ("" for a header it does not have).                *)
(***************************************************************************)
EXTENDS Naturals, SequencesExt

CONSTANT MaxInsertion   \* sort.Slice sorts up to this many elements by insertion: 12

ASSUME RouterAssumption == MaxInsertion \in Nat

Matches(rt, r) ==
    /\ rt.host # <<>> => rt.host = r.host
    /\ rt.path # <<>> => IsPrefix(rt.path, r.path)
    /\ \A k \in DOMAIN rt.headers : r.headers[k] = rt.headers[k]

\* Mutant: shorter paths first.
LessShortest(r1, r2) == Len(r1.path) < Len(r2.path)

\* The less function of sort.Slice.
Less(r1, r2) ==
    LET h1 == r1.host # <<>>
        h2 == r2.host # <<>>
    IN \/ h1 /\ ~h2
       \/ h1 = h2 /\ Len(r1.path) > Len(r2.path)
       \/ h1 = h2 /\ Len(r1.path) = Len(r2.path) /\ Len(r1.host) > Len(r2.host)

\* The route that was o[i]th may come ith: no later route is less than it, and if
\* sort.Slice sorts by insertion, it leaves routes of which neither is less alone.
InOrder(table, o) ==
    \A i, j \in DOMAIN table : i < j =>
       /\ ~Less(table[o[j]], table[o[i]])
       /\ Len(table) <= MaxInsertion /\ ~Less(table[o[i]], table[o[j]]) => o[i] < o[j]

\* What sort.Slice may make of a table.
Sorted(table) ==
    {[i \in DOMAIN table |-> table[o[i]]] :
        o \in {o \in SetToSeqs(DOMAIN table) : InOrder(table, o)}}

\* The index of the route that serves r, or 0.
FirstMatch(table, r) == SelectInSeq(table, LAMBDA rt : Matches(rt, r))

-----------------------------------------------------------------------------
(* Reference *)

\* Among routes that match the same request, one that names the host goes
\* before one that does not, then the longer prefix of the path.
MoreSpecific(r1, r2) ==
    \/ r1.host # <<>> /\ r2.host = <<>>
    \/ (r1.host # <<>>) = (r2.host # <<>>) /\ IsStrictPrefix(r2.path, r1.path)

Best(rt, routes, r) ==
    /\ rt \in routes /\ Matches(rt, r)
    /\ \A other \in routes : Matches(other, r) => ~MoreSpecific(other, rt)

\* Of the routes with its host and path that match, none is listed before rt.
FirstListed(rt, list, r) ==
    \A i \in DOMAIN list :
       Matches(list[i], r) /\ list[i].host = rt.host /\ list[i].path = rt.path
       => \E j \in 1..i : list[j] = rt
=============================================================================
