--------------------------- MODULE AdminAPIProofs ---------------------------
(***************************************************************************)
(* Theorems about Router for tables of any length and any alphabet, and    *)
(* about AdminAPI for any files, routes, clients and number of reloads.    *)
(***************************************************************************)
EXTENDS AdminAPI, SequenceTheorems, WellFoundedInduction, FiniteSetTheorems, TLAPS

-----------------------------------------------------------------------------
(* The router. *)

(* A set of natural numbers that is not empty has a least member, and Min is it. *)
LEMMA MinIsLeast ==
    ASSUME NEW S \in SUBSET Nat, S # {}
    PROVE  Min(S) \in S /\ \A n \in S : Min(S) <= n
<1>. DEFINE R == {p \in Nat \X Nat : p[1] < p[2]}
<1>1. IsWellFoundedOn(R, Nat)
  BY NatLessThanWellFounded, Zenon DEF OpToRel
<1>2. \E m \in S : \A n \in S : ~(<<n, m>> \in R)
  <2>. HIDE DEF R
  <2>. QED  BY <1>1, WFMin, Zenon
<1>3. \E m \in S : \A n \in S : m <= n
  <2>1. PICK m \in S : \A n \in S : ~(<<n, m>> \in R)
    BY <1>2
  <2>2. ASSUME NEW n \in S
        PROVE  m <= n
    <3>1. n \in Nat /\ m \in Nat
      OBVIOUS
    <3>2. <<n, m>> \notin R
      BY <2>1
    <3>3. n < m => <<n, m>> \in R
      BY <3>1
    <3>. HIDE DEF R
    <3>. QED  BY <3>1, <3>2, <3>3
  <2>. QED  BY <2>2
<1>. QED  BY <1>3 DEF Min

(* FirstMatch, the loop of ServeHTTP, finds a route if one matches, and the  *)
(* first that does.                                                          *)
LEMMA FirstMatchFirst ==
    ASSUME NEW table, NEW r, Len(table) \in Nat,
           NEW j \in 1..Len(table), Matches(table[j], r)
    PROVE  LET i == FirstMatch(table, r)
           IN i \in 1..Len(table) /\ Matches(table[i], r) /\ i <= j
<1>. DEFINE I == {i \in 1..Len(table) : Matches(table[i], r)}
<1>1. j \in I /\ I \in SUBSET Nat
  OBVIOUS
<1>2. FirstMatch(table, r) = Min(I)
  BY <1>1 DEF FirstMatch, SelectInSeq
<1>. QED  BY <1>1, <1>2, MinIsLeast

(* A strict prefix is shorter. *)
LEMMA StrictPrefixShorter ==
    ASSUME NEW C, NEW s \in Seq(C), NEW t \in Seq(C), IsStrictPrefix(s, t)
    PROVE  Len(s) < Len(t)
<1>1. Len(s) <= Len(t) /\ SubSeq(s, 1, Len(s)) = SubSeq(t, 1, Len(s)) /\ s # t
  BY DEF IsStrictPrefix, IsPrefix
<1>2. Len(s) = Len(t) => s = t
  <2>. HAVE Len(s) = Len(t)
  <2>1. SubSeq(s, 1, Len(s)) = s /\ SubSeq(t, 1, Len(t)) = t
    BY SubSeqFull
  <2>. QED  BY <1>1, <2>1
<1>. QED  BY <1>1, <1>2

(* The order of sort.Slice puts a more specific rule before a less specific one. *)
LEMMA MoreSpecificLess ==
    ASSUME NEW C, NEW r1, NEW r2,
           r1.path \in Seq(C), r2.path \in Seq(C), MoreSpecific(r1, r2)
    PROVE  Less(r1, r2)
<1>1. CASE r1.host # <<>> /\ r2.host = <<>>
  BY <1>1 DEF Less
<1>2. CASE (r1.host # <<>>) = (r2.host # <<>>) /\ IsStrictPrefix(r2.path, r1.path)
  <2>1. Len(r2.path) < Len(r1.path)
    BY <1>2, StrictPrefixShorter
  <2>. QED  BY <1>2, <2>1 DEF Less
<1>. QED  BY <1>1, <1>2 DEF MoreSpecific

(* ServeHTTP takes the first match of a table in the order of buildL7Routes. *)
(* For every table and every request one of its routes matches, that is a    *)
(* best route: it matches, and no other matching route is more specific,     *)
(* whatever the sort makes of routes that compare equal.                     *)
THEOREM FirstMatchIsBest ==
    ASSUME NEW C, NEW table, NEW r, Len(table) \in Nat, DOMAIN table = 1..Len(table),
           \A i \in DOMAIN table : table[i].path \in Seq(C),
           \A i, j \in DOMAIN table : i < j => ~Less(table[j], table[i]),
           \E i \in DOMAIN table : Matches(table[i], r)
    PROVE  Best(table[FirstMatch(table, r)], ToSet(table), r)
<1>. DEFINE f == FirstMatch(table, r)
<1>1. f \in DOMAIN table /\ Matches(table[f], r)
  BY FirstMatchFirst
<1>2. table[f] \in ToSet(table)
  BY <1>1 DEF ToSet
<1>3. ASSUME NEW other \in ToSet(table), Matches(other, r)
      PROVE  ~MoreSpecific(other, table[f])
  <2>1. PICK j \in DOMAIN table : other = table[j]
    BY DEF ToSet
  <2>2. f <= j
    BY <1>3, <2>1, FirstMatchFirst
  <2>3. ~Less(table[j], table[f])
    <3>1. CASE f < j
      BY <1>1, <3>1
    <3>2. CASE f = j
      <4>1. Len(table[j].path) \in Nat
        BY LenProperties
      <4>. QED  BY <3>2, <4>1 DEF Less
    <3>. QED  BY <1>1, <2>2, <3>1, <3>2
  <2>. QED  BY <1>1, <2>1, <2>3, MoreSpecificLess
<1>. QED  BY <1>1, <1>2, <1>3 DEF Best

-----------------------------------------------------------------------------
(* What sort.Slice makes of a table. *)

(* A sequence that lists a range of numbers without repetition has them all. *)
LEMMA OrderIsOnto ==
    ASSUME NEW n \in Nat, NEW o \in SetToSeqs(1..n)
    PROVE  o \in [1..n -> 1..n] /\ \A j \in 1..n : \E i \in 1..n : o[i] = j
<1>1. IsFiniteSet(1..n) /\ Cardinality(1..n) = n
  BY FS_Interval
<1>2. o \in [1..n -> 1..n] /\ \A i, j \in 1..n : i # j => o[i] # o[j]
  BY <1>1 DEF SetToSeqs
<1>3. o \in Injection(1..n, 1..n)
  BY <1>2 DEF Injection, IsInjective
<1>4. o \in Surjection(1..n, 1..n)
  BY <1>1, <1>3, FS_Injection
<1>. QED BY <1>2, <1>4 DEF Surjection

(* The sorted table has the routes of the table it was made from, no more  *)
(* and no fewer places, and no route after one it is less than.            *)
LEMMA SortedTable ==
    ASSUME NEW n \in Nat, NEW table, DOMAIN table = 1..n, NEW t \in Sorted(table)
    PROVE  /\ DOMAIN t = 1..n /\ Len(t) = n
           /\ ToSet(t) = ToSet(table)
           /\ \A i, j \in DOMAIN t : i < j => ~Less(t[j], t[i])
<1>1. PICK o \in SetToSeqs(1..n) : InOrder(table, o) /\ t = [i \in 1..n |-> table[o[i]]]
  BY DEF Sorted
<1>2. o \in [1..n -> 1..n] /\ \A j \in 1..n : \E i \in 1..n : o[i] = j
  BY OrderIsOnto
<1>3. DOMAIN t = 1..n
  BY <1>1
<1>4. Len(t) = n
  <2>1. t \in Seq(ToSet(t))
    BY <1>1, <1>3 DEF ToSet
  <2>. QED BY <1>3, <2>1, LenProperties
<1>5. ToSet(t) = ToSet(table)
  BY <1>1, <1>2 DEF ToSet
<1>6. \A i, j \in DOMAIN t : i < j => ~Less(t[j], t[i])
  BY <1>1, <1>3 DEF InOrder
<1>. QED BY <1>3, <1>4, <1>5, <1>6

(* Up to MaxInsertion routes, sort.Slice leaves those that compare equal in *)
(* the order they were listed in, so that of several routes with one host   *)
(* and one path, ServeHTTP takes the first listed that matches.             *)
THEOREM FirstMatchKeepsOrder ==
    ASSUME NEW n \in Nat, n <= MaxInsertion, NEW S, NEW table \in [1..n -> S],
           NEW t \in Sorted(table), NEW r, \E i \in DOMAIN table : Matches(table[i], r)
    PROVE  FirstListed(t[FirstMatch(t, r)], table, r)
<1>. DEFINE f == FirstMatch(t, r)
<1>1. PICK o \in SetToSeqs(1..n) : InOrder(table, o) /\ t = [i \in 1..n |-> table[o[i]]]
  BY DEF Sorted
<1>2. o \in [1..n -> 1..n] /\ \A j \in 1..n : \E i \in 1..n : o[i] = j
  BY OrderIsOnto
<1>3. Len(t) = n
  BY SortedTable
<1>4. Len(table) = n
  <2>1. table \in Seq(S) /\ DOMAIN table = 1..n
    OBVIOUS
  <2>. QED BY <2>1, LenProperties
<1>5. SUFFICES ASSUME NEW i \in 1..n, Matches(table[i], r),
                      table[i].host = t[f].host, table[i].path = t[f].path
               PROVE  \E j \in 1..i : table[j] = t[f]
  BY DEF FirstListed
<1>6. PICK k \in 1..n : o[k] = i
  BY <1>2
<1>7. f \in 1..n /\ f <= k
  <2>1. Matches(t[k], r)
    BY <1>1, <1>5, <1>6
  <2>. QED BY <1>3, <2>1, FirstMatchFirst
<1>. HIDE DEF f
<1>8. t[f] = table[o[f]] /\ o[f] \in 1..n
  BY <1>1, <1>2, <1>7
<1>9. ~Less(table[o[f]], table[o[k]]) \/ f = k
  <2>. SUFFICES ASSUME Less(table[o[f]], table[o[k]]), f < k PROVE FALSE
    BY <1>7
  <2>1. Len(table[i].path) = Len(t[f].path) /\ Len(table[i].host) = Len(t[f].host)
    BY <1>5
  <2>. QED BY <1>5, <1>6, <1>8, <2>1 DEF Less
<1>10. o[f] <= i
  <2>1. CASE f = k  BY <1>6, <2>1
  <2>2. CASE f < k
    <3>1. o[f] < o[k]
      BY <1>1, <1>4, <1>7, <1>9, <2>2 DEF InOrder
    <3>. QED BY <1>6, <1>8, <3>1
  <2>. QED BY <1>7, <2>1, <2>2
<1>. QED BY <1>8, <1>10

-----------------------------------------------------------------------------
(* The lists of a configuration. *)

\* A sequence of anything.
IsSeq(s) == s \in Seq(ToSet(s))

(* A sequence is a sequence of its members. *)
LEMMA AnySeq ==
    ASSUME NEW S, NEW s \in Seq(S)
    PROVE  IsSeq(s)
<1>1. /\ Len(s) \in Nat /\ DOMAIN s = 1..Len(s)
      /\ s \in [1..Len(s) -> S]
  BY LenProperties
<1>2. s \in [1..Len(s) -> ToSet(s)]
  BY <1>1 DEF ToSet
<1>. QED BY <1>1, <1>2 DEF IsSeq

(* append grows a list by its argument. *)
LEMMA AppendAny ==
    ASSUME NEW s, IsSeq(s), NEW e, NEW t, t = Append(s, e)
    PROVE  /\ IsSeq(t) /\ DOMAIN t = 1..(Len(s) + 1) /\ DOMAIN s = 1..Len(s) /\ Len(s) \in Nat
           /\ \A i \in DOMAIN s : t[i] = s[i]
           /\ t[Len(s) + 1] = e
<1>. DEFINE S == ToSet(s) \cup {e}
<1>1. s \in Seq(S)
  BY SeqMonotonic DEF IsSeq
<1>2. t \in Seq(S) /\ Len(t) = Len(s) + 1
  BY <1>1, AppendProperties
<1>3. IsSeq(t)
  BY <1>2, AnySeq
<1>4. DOMAIN t = 1..(Len(s) + 1) /\ DOMAIN s = 1..Len(s) /\ Len(s) \in Nat
  BY <1>1, <1>2, LenProperties
<1>. HIDE DEF S
<1>. QED BY <1>1, <1>3, <1>4, AppendProperties

(* Replacing a member of a list leaves a list. *)
LEMMA ExceptAny ==
    ASSUME NEW s, IsSeq(s), NEW i \in DOMAIN s, NEW e, NEW t, t = [s EXCEPT ![i] = e]
    PROVE  /\ IsSeq(t) /\ DOMAIN t = DOMAIN s
           /\ \A j \in DOMAIN s : t[j] = IF j = i THEN e ELSE s[j]
<1>. DEFINE S == ToSet(s) \cup {e}
<1>1. s \in Seq(S)
  BY SeqMonotonic DEF IsSeq
<1>2. t \in Seq(S)
  BY <1>1
<1>3. IsSeq(t)
  BY <1>2, AnySeq
<1>4. DOMAIN t = DOMAIN s /\ \A j \in DOMAIN s : t[j] = IF j = i THEN e ELSE s[j]
  BY <1>1
<1>. QED BY <1>3, <1>4

(* So does taking one out, and the others stay in it. *)
LEMMA RemoveAny ==
    ASSUME NEW s, IsSeq(s), NEW i \in DOMAIN s, NEW t, t = RemoveAt(s, i)
    PROVE  /\ IsSeq(t) /\ ToSet(t) \subseteq ToSet(s)
<1>1. s \in Seq(ToSet(s)) /\ Len(s) \in Nat /\ i \in 1..Len(s)
  BY LenProperties DEF IsSeq
<1>2. SubSeq(s, 1, i - 1) \in Seq(ToSet(s)) /\ SubSeq(s, i + 1, Len(s)) \in Seq(ToSet(s))
  BY <1>1
<1>3. t \in Seq(ToSet(s))
  BY <1>2, ConcatProperties DEF RemoveAt
<1>4. \A j \in DOMAIN t : t[j] \in ToSet(s)
  BY <1>3, ElementOfSeq, LenProperties
<1>. QED BY <1>3, <1>4, AnySeq DEF ToSet

-----------------------------------------------------------------------------
(* The lists of backends of a route. *)

(* The members of a list of backends are records of an address and a weight. *)
LEMMA ABackendList ==
    ASSUME NEW s, IsSeq(s), \A i \in DOMAIN s : DOMAIN s[i] = {"addr", "weight"}
    PROVE  IsBackendList(s)
  BY DEF IsBackendList, IsSeq

(* append adds a backend. *)
LEMMA AppendBackend ==
    ASSUME NEW s, IsBackendList(s), NEW e, DOMAIN e = {"addr", "weight"}
    PROVE  IsBackendList(Append(s, e))
<1>1. IsSeq(s)
  BY DEF IsBackendList, IsSeq
<1>2. PICK t : t = Append(s, e)
  OBVIOUS
<1>3. IsSeq(t) /\ DOMAIN t = 1..(Len(s) + 1) /\ DOMAIN s = 1..Len(s) /\ Len(s) \in Nat
  BY <1>1, <1>2, AppendAny
<1>4. \A i \in DOMAIN s : t[i] = s[i]
  BY <1>1, <1>2, AppendAny
<1>5. t[Len(s) + 1] = e
  BY <1>1, <1>2, AppendAny
<1>6. \A i \in DOMAIN t : DOMAIN t[i] = {"addr", "weight"}
  BY <1>3, <1>4, <1>5 DEF IsBackendList
<1>. QED BY <1>2, <1>3, <1>6, ABackendList

(* Setting the weight of one backend changes that weight only. *)
LEMMA SetWeight ==
    ASSUME NEW s, IsBackendList(s), NEW m \in DOMAIN s, NEW w,
           NEW t, t = [s EXCEPT ![m].weight = w]
    PROVE  /\ IsBackendList(t) /\ DOMAIN t = DOMAIN s
           /\ \A i \in DOMAIN s : t[i].addr = s[i].addr
           /\ \A i \in DOMAIN s : t[i].weight = IF i = m THEN w ELSE s[i].weight
<1>. DEFINE e == [s[m] EXCEPT !.weight = w]
<1>1. IsSeq(s) /\ DOMAIN s[m] = {"addr", "weight"}
  BY DEF IsBackendList, IsSeq
<1>2. DOMAIN e = {"addr", "weight"} /\ e.addr = s[m].addr /\ e.weight = w
  BY <1>1
<1>3. t = [s EXCEPT ![m] = e]
  OBVIOUS
<1>. HIDE DEF e
<1>4. /\ IsSeq(t) /\ DOMAIN t = DOMAIN s
      /\ \A j \in DOMAIN s : t[j] = IF j = m THEN e ELSE s[j]
  BY <1>1, <1>3, ExceptAny
<1>5. IsBackendList(t)
  BY <1>2, <1>4, ABackendList DEF IsBackendList
<1>. QED BY <1>2, <1>4, <1>5

\* t is what the loop of DeleteBackendFromRoute keeps of the first n members of s:
\* no backend of that address, and of every other address the same last backend.
Keeps(s, n, addr, t) ==
    /\ IsBackendList(t)
    /\ \A j \in DOMAIN t : t[j].addr # addr /\ \E i \in 1..n : s[i] = t[j]
    /\ \A i \in 1..n :
          /\ s[i].addr # addr
          /\ \A j \in (i + 1)..n : s[j].addr # s[i].addr
          => \E m \in DOMAIN t :
                t[m] = s[i] /\ \A j \in DOMAIN t : j > m => t[j].addr # s[i].addr

(* The loop has kept nothing before the first backend. *)
LEMMA KeepsNone ==
    ASSUME NEW s, NEW addr
    PROVE  Keeps(s, 0, addr, <<>>)
<1>1. IsBackendList(<<>>)
  BY DEF IsBackendList, ToSet
<1>. QED BY <1>1 DEF Keeps

(* One more round of the loop: continue, or append. *)
LEMMA KeepsMore ==
    ASSUME NEW s, IsBackendList(s), NEW n \in Nat, n < Len(s), NEW addr,
           NEW t, Keeps(s, n, addr, t),
           NEW u, u = IF s[n + 1].addr = addr THEN t ELSE Append(t, s[n + 1])
    PROVE  Keeps(s, n + 1, addr, u)
<1>. DEFINE e == s[n + 1]
<1>1. DOMAIN s = 1..Len(s) /\ Len(s) \in Nat
  BY LenProperties DEF IsBackendList
<1>2. DOMAIN e = {"addr", "weight"}
  BY <1>1 DEF IsBackendList
<1>3. IsBackendList(t) /\ \A j \in DOMAIN t : t[j].addr # addr /\ \E i \in 1..n : s[i] = t[j]
  BY DEF Keeps
<1>4. CASE e.addr = addr
  <2>1. u = t
    BY <1>4
  <2>. QED BY <1>3, <1>4, <2>1 DEF Keeps
<1>5. CASE e.addr # addr
  <2>0. u = Append(t, e)
    BY <1>5
  <2>. HIDE DEF e
  <2>1. IsSeq(t)
    BY <1>3 DEF IsBackendList, IsSeq
  <2>2. DOMAIN u = 1..(Len(t) + 1) /\ DOMAIN t = 1..Len(t) /\ Len(t) \in Nat
    BY <2>0, <2>1, AppendAny
  <2>3. \A i \in DOMAIN t : u[i] = t[i]
    BY <2>0, <2>1, AppendAny
  <2>4. u[Len(t) + 1] = e
    BY <2>0, <2>1, AppendAny
  <2>5. IsBackendList(u)
    BY <1>2, <1>3, <2>0, AppendBackend
  <2>6. ASSUME NEW j \in DOMAIN u
        PROVE  u[j].addr # addr /\ \E i \in 1..(n + 1) : s[i] = u[j]
    <3>1. CASE j \in DOMAIN t
      <4>1. PICK i \in 1..n : s[i] = t[j]
        BY <1>3, <3>1
      <4>2. i \in 1..(n + 1)
        OBVIOUS
      <4>. QED BY <1>3, <2>3, <3>1, <4>1, <4>2
    <3>2. CASE j = Len(t) + 1
      <4>1. s[n + 1] = u[j] /\ n + 1 \in 1..(n + 1)
        BY <2>4, <3>2 DEF e
      <4>. QED BY <1>5, <2>4, <3>2, <4>1
    <3>. QED BY <2>2, <3>1, <3>2
  <2>7. ASSUME NEW i \in 1..(n + 1), s[i].addr # addr,
               \A j \in (i + 1)..(n + 1) : s[j].addr # s[i].addr
        PROVE  \E m \in DOMAIN u :
                  u[m] = s[i] /\ \A j \in DOMAIN u : j > m => u[j].addr # s[i].addr
    <3>1. CASE i = n + 1
      <4>1. Len(t) + 1 \in DOMAIN u /\ u[Len(t) + 1] = s[i]
        BY <2>2, <2>4, <3>1 DEF e
      <4>2. \A j \in DOMAIN u : ~(j > Len(t) + 1)
        BY <2>2
      <4>. QED BY <4>1, <4>2
    <3>2. CASE i \in 1..n
      <4>1. \A j \in (i + 1)..n : s[j].addr # s[i].addr
        BY <2>7
      <4>2. PICK m \in DOMAIN t :
               t[m] = s[i] /\ \A j \in DOMAIN t : j > m => t[j].addr # s[i].addr
        BY <2>7, <3>2, <4>1 DEF Keeps
      <4>3. n + 1 \in (i + 1)..(n + 1)
        BY <3>2
      <4>4. e.addr # s[i].addr
        BY <2>7, <4>3 DEF e
      <4>5. m \in DOMAIN u /\ u[m] = s[i]
        BY <2>2, <2>3, <4>2
      <4>6. ASSUME NEW j \in DOMAIN u, j > m PROVE u[j].addr # s[i].addr
        <5>1. CASE j \in DOMAIN t  BY <2>3, <4>2, <4>6, <5>1
        <5>2. CASE j = Len(t) + 1  BY <2>4, <4>4, <5>2
        <5>. QED BY <2>2, <5>1, <5>2
      <4>. QED BY <4>5, <4>6
    <3>. QED BY <3>1, <3>2
  <2>. QED BY <2>5, <2>6, <2>7 DEF Keeps
<1>. QED BY <1>4, <1>5

\* g[n] is newBackends after n rounds, for n up to m.
Rounds(s, addr, m, g) ==
    g = [n \in 0..m |-> IF n = 0 THEN <<>>
                        ELSE IF s[n].addr = addr THEN g[n - 1]
                        ELSE Append(g[n - 1], s[n])]

(* The loop runs any number of rounds. *)
LEMMA RoundsExist ==
    ASSUME NEW s, NEW addr, NEW m \in Nat
    PROVE  \E g : Rounds(s, addr, m, g)
<1>. DEFINE Bad == {k \in Nat : ~\E g : Rounds(s, addr, k, g)}
<1>1. SUFFICES ASSUME Bad # {} PROVE FALSE
  OBVIOUS
<1>2. Bad \in SUBSET Nat
  OBVIOUS
<1>3. PICK k \in Bad : \A j \in Bad : k <= j
  <2>. HIDE DEF Bad
  <2>. QED BY <1>1, <1>2, MinIsLeast
<1>4. k # 0
  <2>. DEFINE g == [n \in 0..0 |-> <<>>]
  <2>1. Rounds(s, addr, 0, g)
    BY DEF Rounds
  <2>2. \E h : Rounds(s, addr, 0, h)
    <3>. HIDE DEF g
    <3>. QED BY <2>1
  <2>. QED BY <1>3, <2>2
<1>5. k - 1 \in Nat /\ k - 1 \notin Bad
  <2>1. k \in Nat /\ k - 1 \in Nat /\ ~(k <= k - 1)
    BY <1>3, <1>4
  <2>. HIDE DEF Bad
  <2>. QED BY <1>3, <2>1
<1>6. PICK g : Rounds(s, addr, k - 1, g)
  BY <1>5
<1>. DEFINE h == [n \in 0..k |-> IF n < k THEN g[n]
                                 ELSE IF s[n].addr = addr THEN g[n - 1]
                                 ELSE Append(g[n - 1], s[n])]
<1>7. Rounds(s, addr, k, h)
  <2>1. \A n \in 0..(k - 1) : g[n] = IF n = 0 THEN <<>>
                                     ELSE IF s[n].addr = addr THEN g[n - 1]
                                     ELSE Append(g[n - 1], s[n])
    BY <1>6 DEF Rounds
  <2>2. ASSUME NEW n \in 0..k
        PROVE  h[n] = IF n = 0 THEN <<>>
                      ELSE IF s[n].addr = addr THEN h[n - 1]
                      ELSE Append(h[n - 1], s[n])
    <3>1. n # 0 => n - 1 \in 0..k /\ n - 1 < k /\ h[n - 1] = g[n - 1]
      BY <1>3
    <3>2. n < k => n \in 0..(k - 1) /\ h[n] = g[n]
      BY <1>3
    <3>3. ~(n < k) => h[n] = IF s[n].addr = addr THEN g[n - 1] ELSE Append(g[n - 1], s[n])
      OBVIOUS
    <3>. HIDE DEF h
    <3>. QED BY <1>4, <2>1, <3>1, <3>2, <3>3
  <2>. QED BY <2>2 DEF Rounds
<1>8. k \in Nat /\ ~\E f : Rounds(s, addr, k, f)
  BY <1>3
<1>. HIDE DEF h, Bad
<1>. QED BY <1>7, <1>8

(* DeleteBackendFromRoute keeps the backends of other addresses. *)
LEMMA WithoutKeeps ==
    ASSUME NEW s, IsBackendList(s), NEW addr
    PROVE  Keeps(s, Len(s), addr, Without(s, addr))
<1>1. Len(s) \in Nat
  BY LenProperties DEF IsBackendList
<1>. DEFINE g == CHOOSE h : Rounds(s, addr, Len(s), h)
<1>2. Rounds(s, addr, Len(s), g)
  <2>1. \E h : Rounds(s, addr, Len(s), h)
    BY <1>1, RoundsExist
  <2>. QED BY <2>1
<1>3. Without(s, addr) = g[Len(s)]
  BY DEF Without, Rounds
<1>. HIDE DEF g
<1>4. \A n \in 0..Len(s) : g[n] = IF n = 0 THEN <<>>
                                  ELSE IF s[n].addr = addr THEN g[n - 1]
                                  ELSE Append(g[n - 1], s[n])
  BY <1>2 DEF Rounds
<1>. DEFINE Bad == {n \in 0..Len(s) : ~Keeps(s, n, addr, g[n])}
<1>5. ASSUME Bad # {} PROVE FALSE
  <2>1. Bad \in SUBSET Nat
    BY <1>1
  <2>2. PICK k \in Bad : \A j \in Bad : k <= j
    <3>. HIDE DEF Bad
    <3>. QED BY <1>5, <2>1, MinIsLeast
  <2>3. k \in 0..Len(s) /\ ~Keeps(s, k, addr, g[k])
    BY <2>2
  <2>4. k # 0
    BY <1>1, <1>4, <2>3, KeepsNone
  <2>5. k - 1 \in Nat /\ k - 1 < Len(s) /\ (k - 1) + 1 = k
    BY <1>1, <2>3, <2>4
  <2>6. k - 1 \notin Bad
    <3>1. ~(k <= k - 1)
      BY <2>3
    <3>. HIDE DEF Bad
    <3>. QED BY <2>2, <3>1
  <2>7. Keeps(s, k - 1, addr, g[k - 1])
    BY <1>1, <2>3, <2>5, <2>6
  <2>8. g[k] = IF s[(k - 1) + 1].addr = addr THEN g[k - 1] ELSE Append(g[k - 1], s[(k - 1) + 1])
    BY <1>4, <2>3, <2>4, <2>5
  <2>9. Keeps(s, (k - 1) + 1, addr, g[k])
    BY <2>5, <2>7, <2>8, KeepsMore
  <2>. QED BY <2>3, <2>5, <2>9
<1>6. Keeps(s, Len(s), addr, g[Len(s)])
  BY <1>1, <1>5
<1>. QED BY <1>3, <1>6

(* What a handler makes of the backends of a route is a list of backends. *)
LEMMA BackendLists ==
    ASSUME NEW s, IsBackendList(s)
    PROVE  /\ \A addr, w : IsBackendList(Append(s, [addr |-> addr, weight |-> w]))
           /\ \A addr : IsBackendList(Without(s, addr))
           /\ \A m \in DOMAIN s : \A w : IsBackendList([s EXCEPT ![m].weight = w])
<1>1. ASSUME NEW addr, NEW w PROVE IsBackendList(Append(s, [addr |-> addr, weight |-> w]))
  <2>1. PICK e : e = [addr |-> addr, weight |-> w]
    OBVIOUS
  <2>2. DOMAIN e = {"addr", "weight"}
    BY <2>1
  <2>. QED BY <2>1, <2>2, AppendBackend
<1>2. \A addr : IsBackendList(Without(s, addr))
  BY WithoutKeeps DEF Keeps
<1>3. \A m \in DOMAIN s : \A w : IsBackendList([s EXCEPT ![m].weight = w])
  BY SetWeight
<1>. QED BY <1>1, <1>2, <1>3

(* The last backend of an address among those of a list. *)
LEMMA LastBackend ==
    ASSUME NEW s, IsBackendList(s), NEW i \in DOMAIN s
    PROVE  LET l == SelectLastInSeq(s, LAMBDA b : b.addr = s[i].addr)
           IN /\ l \in DOMAIN s /\ s[l].addr = s[i].addr
              /\ \A j \in DOMAIN s : j > l => s[j].addr # s[i].addr
<1>. DEFINE I == {j \in 1..Len(s) : s[j].addr = s[i].addr}
            D == {k \in 0..Len(s) : Len(s) - k \in I}
<1>1. DOMAIN s = 1..Len(s) /\ Len(s) \in Nat
  BY LenProperties DEF IsBackendList
<1>2. i \in I
  BY <1>1
<1>3. Len(s) - i \in D /\ D \in SUBSET Nat
  <2>1. Len(s) - i \in 0..Len(s) /\ Len(s) - (Len(s) - i) = i
    BY <1>1
  <2>. HIDE DEF I
  <2>. QED BY <1>1, <1>2, <2>1
<1>4. PICK k \in D : \A d \in D : k <= d
  <2>. HIDE DEF D
  <2>. QED BY <1>3, MinIsLeast
<1>5. Len(s) - k \in I
  BY <1>4
<1>6. ASSUME NEW j \in I PROVE Len(s) - k >= j
  <2>1. Len(s) - j \in 0..Len(s) /\ Len(s) - (Len(s) - j) = j
    BY <1>1
  <2>2. Len(s) - j \in D
    BY <2>1
  <2>3. k \in 0..Len(s) /\ k <= Len(s) - j /\ j \in 1..Len(s)
    BY <1>4, <2>2
  <2>. QED BY <1>1, <2>3
<1>7. Max(I) \in I /\ \A j \in I : Max(I) >= j
  <2>. HIDE DEF I
  <2>. QED BY <1>5, <1>6 DEF Max
<1>8. SelectLastInSeq(s, LAMBDA b : b.addr = s[i].addr) = Max(I)
  BY <1>2 DEF SelectLastInSeq
<1>9. PICK l : l = Max(I)
  OBVIOUS
<1>10. l \in 1..Len(s) /\ s[l].addr = s[i].addr
  BY <1>7, <1>9
<1>11. \A j \in 1..Len(s) : j > l => s[j].addr # s[i].addr
  <2>1. \A j \in I : l >= j
    BY <1>7, <1>9
  <2>. QED BY <1>10, <2>1
<1>. HIDE DEF I
<1>. QED BY <1>1, <1>8, <1>9, <1>10, <1>11

(* NewL7BackendPool: the last backend of each address that can be parsed. *)
LEMMA PoolIs ==
    ASSUME NEW s, IsBackendList(s)
    PROVE  /\ DOMAIN Pool(s) = {s[i].addr : i \in DOMAIN s} \ BadAddrs
           /\ \A i \in DOMAIN s :
                 /\ s[i].addr \notin BadAddrs
                 /\ \A j \in DOMAIN s : j > i => s[j].addr # s[i].addr
                 => Pool(s)[s[i].addr] = Weight(s[i].weight)
           /\ \A a \in DOMAIN Pool(s) :
                 \E i \in DOMAIN s : /\ s[i].addr = a
                                     /\ \A j \in DOMAIN s : j > i => s[j].addr # a
<1>0. DOMAIN s = 1..Len(s) /\ Len(s) \in Nat
  BY LenProperties DEF IsBackendList
<1>1. DOMAIN Pool(s) = {s[i].addr : i \in DOMAIN s} \ BadAddrs
  BY DEF Pool
<1>2. ASSUME NEW i \in DOMAIN s, s[i].addr \notin BadAddrs,
             \A j \in DOMAIN s : j > i => s[j].addr # s[i].addr
      PROVE  Pool(s)[s[i].addr] = Weight(s[i].weight)
  <2>1. PICK l : l = SelectLastInSeq(s, LAMBDA b : b.addr = s[i].addr)
    OBVIOUS
  <2>2. l \in DOMAIN s /\ s[l].addr = s[i].addr
    BY <2>1, LastBackend
  <2>3. \A j \in DOMAIN s : j > l => s[j].addr # s[i].addr
    BY <2>1, LastBackend
  <2>4. l = i
    BY <1>0, <1>2, <2>2, <2>3
  <2>5. Pool(s)[s[i].addr] = Weight(s[l].weight)
    <3>1. s[i].addr \in {s[j].addr : j \in DOMAIN s} \ BadAddrs
      BY <1>2
    <3>. QED BY <2>1, <3>1 DEF Pool
  <2>. QED BY <2>4, <2>5
<1>3. ASSUME NEW a \in DOMAIN Pool(s)
      PROVE  \E i \in DOMAIN s : /\ s[i].addr = a
                                /\ \A j \in DOMAIN s : j > i => s[j].addr # a
  <2>1. PICK i \in DOMAIN s : s[i].addr = a
    BY <1>1
  <2>2. PICK l : l = SelectLastInSeq(s, LAMBDA b : b.addr = s[i].addr)
    OBVIOUS
  <2>3. l \in DOMAIN s /\ s[l].addr = s[i].addr
    BY <2>2, LastBackend
  <2>4. \A j \in DOMAIN s : j > l => s[j].addr # s[i].addr
    BY <2>2, LastBackend
  <2>. QED BY <2>1, <2>3, <2>4
<1>. QED BY <1>1, <1>2, <1>3

(* The changes the handlers make leave a list of routes. *)
LEMMA RouteLists ==
    ASSUME NEW list, IsRouteList(list)
    PROVE  /\ \A rc : IsRouteConfig(rc) => IsRouteList(Append(list, rc))
           /\ \A i \in DOMAIN list : IsRouteList(RemoveAt(list, i))
           /\ \A i \in DOMAIN list : \A b :
                 IsBackendList(b) => IsRouteList([list EXCEPT ![i].backends = b])
<1>0. IsSeq(list) /\ DOMAIN list = 1..Len(list)
  BY LenProperties DEF IsRouteList, IsSeq
<1>1. ASSUME NEW rc, IsRouteConfig(rc) PROVE IsRouteList(Append(list, rc))
  <2>1. PICK t : t = Append(list, rc)
    OBVIOUS
  <2>2. IsSeq(t)
    BY <1>0, <2>1, AppendAny
  <2>3. DOMAIN t = 1..(Len(list) + 1) 
    BY <1>0, <2>1, AppendAny
  <2>4. Len(list) \in Nat
    BY <1>0, <2>1, AppendAny
  <2>5. \A i \in DOMAIN list : t[i] = list[i]
    BY <1>0, <2>1, AppendAny
  <2>6. t[Len(list) + 1] = rc
    BY <1>0, <2>1, AppendAny
  <2>. QED BY <1>0, <1>1, <2>1, <2>2, <2>3, <2>4, <2>5, <2>6 DEF IsRouteList, IsSeq
<1>2. ASSUME NEW i \in DOMAIN list PROVE IsRouteList(RemoveAt(list, i))
  <2>1. PICK t : t = RemoveAt(list, i)
    OBVIOUS
  <2>2. IsSeq(t) /\ ToSet(t) \subseteq ToSet(list)
    BY <1>0, <2>1, RemoveAny
  <2>. QED BY <2>1, <2>2 DEF IsRouteList, IsSeq, ToSet
<1>3. ASSUME NEW i \in DOMAIN list, NEW b, IsBackendList(b)
      PROVE  IsRouteList([list EXCEPT ![i].backends = b])
  <2>. DEFINE e == [list[i] EXCEPT !.backends = b]
  <2>1. PICK t : t = [list EXCEPT ![i] = e]
    OBVIOUS
  <2>2. IsRouteConfig(e)
    BY <1>3 DEF IsRouteList, IsRouteConfig
  <2>. HIDE DEF e
  <2>3. /\ IsSeq(t) /\ DOMAIN t = DOMAIN list
        /\ \A j \in DOMAIN list : t[j] = IF j = i THEN e ELSE list[j]
    BY <1>0, <2>1, ExceptAny
  <2>4. IsRouteList(t)
    BY <2>2, <2>3 DEF IsRouteList, IsSeq
  <2>. QED BY <2>1, <2>4 DEF e
<1>. QED BY <1>1, <1>2, <1>3

-----------------------------------------------------------------------------
(* The configurations in the heap, and the routes built from them. *)

HeapOK(heap) ==
    /\ IsSeq(heap)
    /\ \A i \in DOMAIN heap : "routes" \in DOMAIN heap[i] /\ IsRouteList(heap[i].routes)

\* A handler that is about to apply a change holds a configuration of the heap.
AdminOK(a) ==
    admin[a].pc = "apply" =>
       /\ admin[a].listener \in DOMAIN configs
       /\ admin[a].op.kind = "addRoute" => IsRouteConfig(admin[a].route)

ConfigInv ==
    /\ HeapOK(configs) /\ cfg \in DOMAIN configs
    /\ DOMAIN admin = Admins /\ \A a \in Admins : AdminOK(a)

\* A step that rebuilds routes and pools.
Rebuilds ==
    /\ HeapOK(configs') /\ DOMAIN configs \subseteq DOMAIN configs'
    /\ cfg' \in DOMAIN configs'
    /\ routes' \in buildL7Routes(configs'[cfg'])
    /\ version' = version + 1
    /\ UNCHANGED <<serving, cache>>

Rules(list) == [i \in DOMAIN list |-> Rule(list[i])]

\* If sort.Slice sorts by insertion, the first match of rs is the first in list of
\* the matching rules with its host and path.
KeepsOrder(rs, list) ==
    Len(list) <= MaxInsertion =>
       \A r : \A i : i = FirstMatch(rs, r) /\ i # 0 => FirstListed(Rule(rs[i]), Rules(list), r)

\* The table rs is what buildL7Routes makes of list.
BuiltFrom(rs, list) ==
    /\ DOMAIN rs = 1..Len(list) /\ Len(rs) = Len(list) /\ Len(list) \in Nat
    /\ ToSet(rs) = {Compiled(list[i]) : i \in DOMAIN list}
    /\ \A i, j \in DOMAIN rs : i < j => ~Less(rs[j], rs[i])
    /\ \A i \in DOMAIN rs : rs[i].path \in Seq(STRING)
    /\ KeepsOrder(rs, list)

(* What a sorted table keeps of the order of the routes, it keeps of that of *)
(* their rules.                                                              *)
LEMMA OrderOfRules ==
    ASSUME NEW list, NEW n \in Nat, DOMAIN list = 1..n, Len(list) = n,
           NEW rs \in Sorted([i \in 1..n |-> Compiled(list[i])])
    PROVE  KeepsOrder(rs, list)
<1>. DEFINE T == {Compiled(list[i]) : i \in 1..n}
<1>1. PICK table : table = [i \in 1..n |-> Compiled(list[i])]
  OBVIOUS
<1>2. table \in [1..n -> T] /\ rs \in Sorted(table) /\ DOMAIN table = 1..n
  BY <1>1
<1>. SUFFICES ASSUME n <= MaxInsertion, NEW r, NEW f, f = FirstMatch(rs, r), f # 0
              PROVE  FirstListed(Rule(rs[f]), Rules(list), r)
  BY DEF KeepsOrder
<1>. HIDE DEF T
<1>3. DOMAIN rs = 1..n /\ Len(rs) = n /\ ToSet(rs) = ToSet(table)
  BY <1>2, SortedTable
<1>4. PICK k \in 1..n : Matches(rs[k], r)
  BY <1>3 DEF FirstMatch, SelectInSeq
<1>5. \E i \in DOMAIN table : Matches(table[i], r)
  BY <1>2, <1>3, <1>4 DEF ToSet
<1>6. FirstListed(rs[f], table, r)
  BY <1>2, <1>5, FirstMatchKeepsOrder
<1>7. \A rc : /\ Rule(rc).host = rc.host /\ Rule(rc).path = rc.path
              /\ Compiled(rc).host = rc.host /\ Compiled(rc).path = rc.path
              /\ Rule(Compiled(rc)) = Rule(rc)
              /\ Matches(Rule(rc), r) <=> Matches(Compiled(rc), r)
  BY DEF Rule, Compiled, Matches
<1>8. /\ DOMAIN Rules(list) = 1..n
      /\ \A i \in 1..n : Rules(list)[i] = Rule(list[i]) /\ table[i] = Compiled(list[i])
  BY <1>1 DEF Rules
<1>9. ASSUME NEW i \in 1..n, Matches(Rule(list[i]), r),
             list[i].host = rs[f].host, list[i].path = rs[f].path
      PROVE  \E j \in 1..i : Rule(list[j]) = Rule(rs[f])
  <2>1. PICK j \in 1..i : table[j] = rs[f]
    BY <1>2, <1>6, <1>7, <1>8, <1>9 DEF FirstListed
  <2>. QED BY <1>7, <1>8, <2>1
<1>. QED BY <1>7, <1>8, <1>9 DEF FirstListed

(* buildL7Routes compiles each route of a configuration once, and sorts. *)
LEMMA BuildRoutes ==
    ASSUME NEW config, IsRouteList(config.routes), NEW rs \in buildL7Routes(config)
    PROVE  BuiltFrom(rs, config.routes)
<1>. DEFINE list == config.routes
            table == [i \in DOMAIN list |-> Compiled(list[i])]
<1>1. Len(list) \in Nat /\ DOMAIN list = 1..Len(list)
  BY LenProperties DEF IsRouteList
<1>2. DOMAIN table = 1..Len(list) /\ rs \in Sorted(table)
  BY <1>1 DEF buildL7Routes
<1>3. ToSet(table) = {Compiled(list[i]) : i \in DOMAIN list}
  BY DEF ToSet
<1>4. /\ DOMAIN rs = 1..Len(list) /\ Len(rs) = Len(list)
      /\ ToSet(rs) = ToSet(table)
      /\ \A i, j \in DOMAIN rs : i < j => ~Less(rs[j], rs[i])
  <2>. HIDE DEF table, list
  <2>. QED BY <1>1, <1>2, SortedTable
<1>5. ASSUME NEW i \in DOMAIN rs PROVE rs[i].path \in Seq(STRING)
  <2>1. rs[i] \in ToSet(rs)
    BY DEF ToSet
  <2>2. PICK j \in DOMAIN list : rs[i] = Compiled(list[j])
    BY <1>3, <1>4, <2>1
  <2>. QED BY <2>2 DEF Compiled, IsRouteList, IsRouteConfig
<1>6. KeepsOrder(rs, list)
  <2>1. rs \in Sorted([i \in 1..Len(list) |-> Compiled(list[i])])
    BY <1>1, <1>2
  <2>. HIDE DEF list
  <2>. QED BY <1>1, <2>1, OrderOfRules
<1>. QED BY <1>1, <1>3, <1>4, <1>5, <1>6 DEF BuiltFrom

(* A handler that commits a list of routes rebuilds everything. *)
LEMMA CommitRebuilds ==
    ASSUME ConfigInv, NEW a \in Admins, admin[a].pc = "apply",
           NEW list, IsRouteList(list), Commit(a, list), UNCHANGED <<serving, cache>>
    PROVE  Rebuilds
<1>. DEFINE l == admin[a].listener
            e == [configs[l] EXCEPT !.routes = list]
<1>1. IsSeq(configs) /\ l \in DOMAIN configs
  BY DEF ConfigInv, HeapOK, AdminOK
<1>2. configs' = [configs EXCEPT ![l] = e]
  BY DEF Commit, reloadConfig_unsafe
<1>3. "routes" \in DOMAIN e /\ IsRouteList(e.routes)
  BY <1>1 DEF ConfigInv, HeapOK
<1>. HIDE DEF l, e
<1>4. /\ IsSeq(configs') /\ DOMAIN configs' = DOMAIN configs
      /\ \A j \in DOMAIN configs : configs'[j] = IF j = l THEN e ELSE configs[j]
  BY <1>1, <1>2, ExceptAny
<1>5. HeapOK(configs')
  BY <1>3, <1>4 DEF ConfigInv, HeapOK
<1>. QED BY <1>4, <1>5 DEF ConfigInv, Rebuilds, Commit, reloadConfig_unsafe

(* The requests on a backend replace the backends of a route by a list of  *)
(* backends: the old ones and a new one, those of other addresses, or the  *)
(* old ones with a weight set.                                             *)
LEMMA BackendChanges ==
    ASSUME ConfigInv, NEW a \in Admins, admin[a].pc = "apply",
           AddBackendToRoute(a) \/ DeleteBackendFromRoute(a) \/ UpdateBackendWeightInRoute(a)
    PROVE  UNCHANGED lbVars \/ (Exists(a) /\ \E b : IsBackendList(b) /\ CommitBackends(a, b))
<1>. DEFINE bs == Indexed(a).backends
<1>1. Exists(a) => IsBackendList(bs)
  BY DEF ConfigInv, AdminOK, HeapOK, Listed, Exists, Indexed, IsRouteList, IsRouteConfig
<1>2. Exists(a) /\ Positions(a) # {} => Min(Positions(a)) \in DOMAIN bs
  <2>. HAVE Exists(a) /\ Positions(a) # {}
  <2>1. DOMAIN bs = 1..Len(bs) /\ Len(bs) \in Nat
    BY <1>1, LenProperties DEF IsBackendList
  <2>2. Positions(a) \in SUBSET Nat
    BY <2>1 DEF Positions
  <2>3. Min(Positions(a)) \in Positions(a)
    BY <2>2, MinIsLeast
  <2>. QED BY <2>3 DEF Positions
<1>3. CASE AddBackendToRoute(a)
  <2>1. \/ UNCHANGED lbVars
        \/ Exists(a) /\ \E w : CommitBackends(a, Append(bs, [addr |-> admin[a].op.addr, weight |-> w]))
    BY <1>3 DEF AddBackendToRoute, CommitIf
  <2>. HIDE DEF bs
  <2>. QED BY <1>1, <2>1, BackendLists
<1>4. CASE DeleteBackendFromRoute(a)
  <2>1. UNCHANGED lbVars \/ (Exists(a) /\ CommitBackends(a, Without(bs, admin[a].op.addr)))
    BY <1>4 DEF DeleteBackendFromRoute, CommitIf
  <2>. HIDE DEF bs
  <2>. QED BY <1>1, <2>1, BackendLists
<1>5. CASE UpdateBackendWeightInRoute(a)
  <2>1. \/ UNCHANGED lbVars
        \/ /\ Exists(a) /\ Positions(a) # {}
           /\ CommitBackends(a, [bs EXCEPT ![Min(Positions(a))].weight = admin[a].op.weight])
    BY <1>5 DEF UpdateBackendWeightInRoute, CommitIf
  <2>. HIDE DEF bs
  <2>. QED BY <1>1, <1>2, <2>1, BackendLists
<1>. QED BY <1>3, <1>4, <1>5

(* Every step leaves what is in the heap alone, or rebuilds. *)
LEMMA StepKinds ==
    ASSUME ConfigInv, [Next]_vars
    PROVE  Rebuilds \/ UNCHANGED lbVars
<1>1. ASSUME NEW f \in Files, Sighup(f) PROVE Rebuilds
  <2>1. IsSeq(configs) /\ configs' = Append(configs, f)
    BY <1>1 DEF ConfigInv, HeapOK, Sighup, reloadConfig_unsafe, LoadConfig
  <2>2. IsSeq(configs') /\ DOMAIN configs = 1..Len(configs) /\ Len(configs) \in Nat
    BY <2>1, AppendAny
  <2>3. DOMAIN configs' = 1..(Len(configs) + 1)
    BY <2>1, AppendAny
  <2>4. \A i \in DOMAIN configs : configs'[i] = configs[i]
    BY <2>1, AppendAny
  <2>5. configs'[Len(configs) + 1] = f
    BY <2>1, AppendAny
  <2>6. "routes" \in DOMAIN f /\ IsRouteList(f.routes)
    BY AdminAssumption
  <2>7. HeapOK(configs')
    BY <2>2, <2>3, <2>4, <2>5, <2>6 DEF ConfigInv, HeapOK
  <2>. QED BY <1>1, <2>2, <2>3, <2>7 DEF Rebuilds, Sighup, reloadConfig_unsafe
<1>2. ASSUME NEW a \in Admins, admin[a].pc = "apply"
      PROVE  IsRouteList(Listed(a))
  BY <1>2 DEF ConfigInv, AdminOK, HeapOK, Listed
<1>3. ASSUME NEW a \in Admins, AddRoute(a) PROVE Rebuilds \/ UNCHANGED lbVars
  <2>1. /\ admin[a].pc = "apply" /\ IsRouteConfig(admin[a].route)
        /\ UNCHANGED <<serving, cache>>
    BY <1>3 DEF AddRoute, Applying, ConfigInv, AdminOK
  <2>2. IsRouteList(Append(Listed(a), admin[a].route))
    BY <1>2, <2>1, RouteLists
  <2>3. Commit(a, Append(Listed(a), admin[a].route)) \/ UNCHANGED lbVars
    BY <1>3 DEF AddRoute, CommitIf
  <2>. QED BY <2>1, <2>2, <2>3, CommitRebuilds
<1>4. ASSUME NEW a \in Admins, DeleteRoute(a) PROVE Rebuilds \/ UNCHANGED lbVars
  <2>1. /\ admin[a].pc = "apply" /\ UNCHANGED <<serving, cache>>
        /\ \/ UNCHANGED lbVars
           \/ Exists(a) /\ Commit(a, RemoveAt(Listed(a), admin[a].op.index + 1))
    BY <1>4 DEF DeleteRoute, Applying, CommitIf
  <2>2. Exists(a) => IsRouteList(RemoveAt(Listed(a), admin[a].op.index + 1))
    BY <1>2, <2>1, RouteLists DEF Exists
  <2>. QED BY <2>1, <2>2, CommitRebuilds
<1>5. ASSUME NEW a \in Admins, admin[a].pc = "apply", Exists(a),
             NEW b, IsBackendList(b), CommitBackends(a, b),
             UNCHANGED <<serving, cache>>
      PROVE  Rebuilds
  <2>1. IsRouteList([Listed(a) EXCEPT ![admin[a].op.index + 1].backends = b])
    BY <1>2, <1>5, RouteLists DEF Exists
  <2>. QED BY <1>5, <2>1, CommitRebuilds DEF CommitBackends
<1>6. ASSUME NEW a \in Admins,
             AddBackendToRoute(a) \/ DeleteBackendFromRoute(a) \/ UpdateBackendWeightInRoute(a)
      PROVE  Rebuilds \/ UNCHANGED lbVars
  <2>1. admin[a].pc = "apply" /\ UNCHANGED <<serving, cache>>
    BY <1>6 DEF AddBackendToRoute, DeleteBackendFromRoute, UpdateBackendWeightInRoute, Applying
  <2>2. UNCHANGED lbVars \/ (Exists(a) /\ \E b : IsBackendList(b) /\ CommitBackends(a, b))
    BY <1>6, <2>1, BackendChanges
  <2>. QED BY <1>5, <2>1, <2>2
<1>7. ASSUME NEW a \in Admins,
             \/ \E h \in Headers : Authenticate(a, h)
             \/ addRouteHandler(a) \/ deleteRouteHandler(a) \/ addBackendHandler(a)
             \/ deleteBackendHandler(a) \/ updateBackendHandler(a) \/ Refuse(a)
      PROVE  UNCHANGED lbVars
  BY <1>7 DEF Authenticate, addRouteHandler, deleteRouteHandler, addBackendHandler,
              deleteBackendHandler, updateBackendHandler, Refuse, Accept
<1>8. CASE \/ UNCHANGED vars
           \/ \E c \in Callers : Serve(c)
           \/ \E p \in Pages : Expire(p)
  BY <1>8 DEF vars, Serve, ServeHTTP, Answered, Expire
<1>. QED BY <1>1, <1>3, <1>4, <1>6, <1>7, <1>8 DEF Next, Handler

(* What a step does to the handlers. *)
LEMMA AdminSteps ==
    ASSUME DOMAIN admin = Admins, [Next]_vars
    PROVE  /\ DOMAIN admin' = Admins
           /\ \A a \in Admins :
                 \/ admin'[a] = admin[a] \/ admin'[a].pc # "apply"
                 \/ /\ admin'[a].listener = cfg
                    /\ admin'[a].op.kind = "addRoute" => IsRouteConfig(admin'[a].route)
<1>1. ASSUME NEW a \in Admins, NEW e, admin' = [admin EXCEPT ![a] = e],
             \/ e.pc # "apply"
             \/ e.listener = cfg /\ (e.op.kind = "addRoute" => IsRouteConfig(e.route))
      PROVE  /\ DOMAIN admin' = Admins
             /\ \A b \in Admins :
                   \/ admin'[b] = admin[b] \/ admin'[b].pc # "apply"
                   \/ /\ admin'[b].listener = cfg
                      /\ admin'[b].op.kind = "addRoute" => IsRouteConfig(admin'[b].route)
  BY <1>1
<1>. DEFINE Goal == /\ DOMAIN admin' = Admins
                    /\ \A a \in Admins :
                          \/ admin'[a] = admin[a] \/ admin'[a].pc # "apply"
                          \/ /\ admin'[a].listener = cfg
                             /\ admin'[a].op.kind = "addRoute" => IsRouteConfig(admin'[a].route)
<1>2. ASSUME NEW a \in Admins, \E h \in Headers : Authenticate(a, h) PROVE Goal
  BY <1>2 DEF Authenticate
<1>3. ASSUME NEW a \in Admins, admin' = [admin EXCEPT ![a] = idleAdmin] PROVE Goal
  BY <1>1, <1>3 DEF idleAdmin
<1>4. ASSUME NEW a \in Admins,
             \/ Refuse(a) \/ AddRoute(a) \/ DeleteRoute(a) \/ AddBackendToRoute(a)
             \/ DeleteBackendFromRoute(a) \/ UpdateBackendWeightInRoute(a)
      PROVE  Goal
  BY <1>3, <1>4 DEF Refuse, AddRoute, DeleteRoute, AddBackendToRoute, DeleteBackendFromRoute,
                    UpdateBackendWeightInRoute, Applying
<1>5. ASSUME NEW a \in Admins, NEW op, NEW route, Accept(a, op, route),
             op.kind = "addRoute" => IsRouteConfig(route)
      PROVE  Goal
  <2>. DEFINE e == [pc |-> "apply", op |-> op, route |-> route, listener |-> cfg]
  <2>1. e.op = op /\ e.route = route /\ e.listener = cfg
    OBVIOUS
  <2>2. admin' = [admin EXCEPT ![a] = e]
    BY <1>5 DEF Accept
  <2>. HIDE DEF e
  <2>. QED BY <1>1, <1>5, <2>1, <2>2
<1>6. ASSUME NEW a \in Admins,
             \/ addRouteHandler(a) \/ deleteRouteHandler(a) \/ addBackendHandler(a)
             \/ deleteBackendHandler(a) \/ updateBackendHandler(a)
      PROVE  Goal
  <2>1. ASSUME addRouteHandler(a) PROVE Goal
    <3>1. PICK rt \in NewRoutes : Accept(a, Op("addRoute", 0, "", 0), rt)
      BY <2>1 DEF addRouteHandler
    <3>2. IsRouteConfig(rt)
      BY AdminAssumption
    <3>. QED BY <1>5, <3>1, <3>2
  <2>2. ASSUME NEW kind \in {"deleteRoute", "addBackend", "deleteBackend", "updateBackend"},
               NEW i, NEW addr, NEW w, Accept(a, Op(kind, i, addr, w), <<>>)
        PROVE  Goal
    <3>1. Op(kind, i, addr, w).kind # "addRoute"
      BY DEF Op
    <3>. QED BY <1>5, <2>2, <3>1
  <2>. HIDE DEF Goal
  <2>3. CASE deleteRouteHandler(a)
    BY <2>2, <2>3 DEF deleteRouteHandler
  <2>4. CASE addBackendHandler(a)
    BY <2>2, <2>4 DEF addBackendHandler
  <2>5. CASE deleteBackendHandler(a)
    BY <2>2, <2>5 DEF deleteBackendHandler
  <2>6. CASE updateBackendHandler(a)
    BY <2>2, <2>6 DEF updateBackendHandler
  <2>. QED BY <1>6, <2>1, <2>3, <2>4, <2>5, <2>6
<1>7. ASSUME \/ UNCHANGED vars
             \/ \E f \in Files : Sighup(f)
             \/ \E c \in Callers : Serve(c)
             \/ \E p \in Pages : Expire(p)
      PROVE  Goal
  <2>1. UNCHANGED admin
    BY <1>7 DEF vars, Sighup, Serve, ServeHTTP, Answered, Expire
  <2>. QED BY <2>1
<1>. HIDE DEF Goal
<1>8. Goal
  BY <1>2, <1>4, <1>6, <1>7 DEF Next, Handler
<1>. QED BY <1>8 DEF Goal

(* The heap stays a heap of configurations, and the handlers hold members  *)
(* of it, over a step.                                                     *)
LEMMA ConfigStep ==
    ASSUME ConfigInv, [Next]_vars
    PROVE  ConfigInv'
<1>1. /\ HeapOK(configs') /\ DOMAIN configs \subseteq DOMAIN configs'
      /\ cfg' \in DOMAIN configs'
  <2>1. CASE Rebuilds  BY <2>1 DEF Rebuilds
  <2>2. CASE UNCHANGED lbVars  BY <2>2 DEF lbVars, ConfigInv
  <2>. QED BY <2>1, <2>2, StepKinds
<1>2. DOMAIN admin = Admins /\ cfg \in DOMAIN configs /\ \A a \in Admins : AdminOK(a)
  BY DEF ConfigInv
<1>3. DOMAIN admin' = Admins
  BY <1>2, AdminSteps
<1>4. ASSUME NEW a \in Admins PROVE AdminOK(a)'
  <2>1. \/ admin'[a] = admin[a] \/ admin'[a].pc # "apply"
        \/ /\ admin'[a].listener = cfg
           /\ admin'[a].op.kind = "addRoute" => IsRouteConfig(admin'[a].route)
    BY <1>2, AdminSteps
  <2>. QED BY <1>1, <1>2, <2>1 DEF AdminOK
<1>. QED BY <1>1, <1>3, <1>4 DEF ConfigInv, HeapOK, IsSeq

(* The first configuration. *)
LEMMA InitConfig ==
    ASSUME Init
    PROVE  ConfigInv /\ BuiltFrom(routes, configs[cfg].routes)
<1>1. PICK f \in Files : configs = <<f>> /\ routes \in buildL7Routes(f)
  BY DEF Init
<1>2. "routes" \in DOMAIN f /\ IsRouteList(f.routes)
  BY AdminAssumption
<1>3. configs \in Seq({f}) /\ DOMAIN configs = {1} /\ configs[1] = f
  BY <1>1
<1>4. HeapOK(configs)
  BY <1>2, <1>3, AnySeq DEF HeapOK
<1>5. DOMAIN admin = Admins /\ \A a \in Admins : admin[a].pc # "apply"
  BY DEF Init, idleAdmin
<1>6. BuiltFrom(routes, configs[1].routes)
  BY <1>1, <1>2, <1>3, BuildRoutes
<1>. QED BY <1>3, <1>4, <1>5, <1>6 DEF Init, ConfigInv, AdminOK

(* The routes are those of the configuration in use after a step. *)
LEMMA BuiltStep ==
    ASSUME ConfigInv, BuiltFrom(routes, configs[cfg].routes), [Next]_vars
    PROVE  BuiltFrom(routes', configs'[cfg'].routes)
<1>1. CASE Rebuilds
  <2>1. IsRouteList(configs'[cfg'].routes) /\ routes' \in buildL7Routes(configs'[cfg'])
    BY <1>1 DEF Rebuilds, HeapOK
  <2>. QED BY <2>1, BuildRoutes
<1>2. CASE UNCHANGED lbVars
  BY <1>2 DEF lbVars
<1>. QED BY <1>1, <1>2, StepKinds

(* For any files and changes, the routes in effect are those of the        *)
(* configuration in use, each compiled once, in the order of sort.Slice,   *)
(* however the handlers, which hold a configuration that may have been     *)
(* replaced, and SIGHUPs interleave.                                       *)
THEOREM RoutesFollowConfig == Spec => []RoutesMatchConfig
<1>. DEFINE I == ConfigInv /\ BuiltFrom(routes, configs[cfg].routes)
<1>1. Init => I
  BY InitConfig
<1>2. I /\ [Next]_vars => I'
  <2>. SUFFICES ASSUME I, [Next]_vars PROVE I'  OBVIOUS
  <2>1. ConfigInv'
    BY ConfigStep
  <2>2. BuiltFrom(routes', configs'[cfg'].routes)
    BY BuiltStep
  <2>3. BuiltFrom(routes, configs[cfg].routes)'
    BY <2>2 
  <2>. QED BY <2>1, <2>3
<1>3. I => RoutesMatchConfig
  BY DEF BuiltFrom, RoutesMatchConfig
<1>. QED BY <1>1, <1>2, <1>3, PTL DEF Spec

-----------------------------------------------------------------------------
(* The requests *)

\* l is what ServeHTTP makes of a request: the first match of the table in effect.
Taken(l) ==
    /\ l.version = version
    /\ \E p \in Pages : p.host = l.request.host /\ p.path = l.request.path
    /\ \E i : i = FirstMatch(routes, l.request) /\ i # 0 /\ l.rule = Rule(routes[i])

(* ServeHTTP. *)
LEMMA ServeEffect ==
    ASSUME NEW c \in Callers, NEW p \in Pages, NEW h \in HeaderSets, ServeHTTP(c, p, h)
    PROVE  /\ UNCHANGED <<lbVars, cache>>
           /\ \E l : Taken(l) /\ serving' = [serving EXCEPT ![c] = l]
<1>. DEFINE r == [host |-> p.host, path |-> p.path, headers |-> h]
            i == FirstMatch(routes, r)
            l == [pc |-> "proxy", request |-> r, rule |-> Rule(routes[i]), version |-> version]
<1>1. i # 0 /\ serving' = [serving EXCEPT ![c] = l] /\ UNCHANGED <<lbVars, cache>>
  BY DEF ServeHTTP
<1>2. l.version = version /\ l.request = r /\ l.rule = Rule(routes[i])
  OBVIOUS
<1>3. r.host = p.host /\ r.path = p.path
  OBVIOUS
<1>. HIDE DEF r, l
<1>4. Taken(l)
  BY <1>1, <1>2, <1>3 DEF Taken
<1>. QED BY <1>1, <1>4

(* A request is routed by the table in effect when it comes. *)
LEMMA TakesCurrent ==
    ASSUME DOMAIN serving = Callers, [Next]_vars
    PROVE  /\ DOMAIN serving' = Callers
           /\ \A c \in Callers :
                 \/ serving'[c] = serving[c] \/ serving'[c].pc = "idle"
                 \/ UNCHANGED lbVars /\ \E l : l = serving'[c] /\ Taken(l)
<1>1. ASSUME NEW c \in Callers, Serve(c)
      PROVE  /\ DOMAIN serving' = Callers
             /\ \A d \in Callers :
                   \/ serving'[d] = serving[d] \/ serving'[d].pc = "idle"
                   \/ UNCHANGED lbVars /\ \E l : l = serving'[d] /\ Taken(l)
  <2>1. ASSUME NEW l, serving' = [serving EXCEPT ![c] = l]
        PROVE  /\ DOMAIN serving' = Callers /\ serving'[c] = l
               /\ \A d \in Callers \ {c} : serving'[d] = serving[d]
    BY <2>1
  <2>2. CASE \E p \in Pages, h \in HeaderSets : ServeHTTP(c, p, h)
    <3>1. PICK l : Taken(l) /\ serving' = [serving EXCEPT ![c] = l] /\ UNCHANGED lbVars
      BY <2>2, ServeEffect
    <3>. QED BY <2>1, <3>1
  <2>3. CASE Answered(c)
    <3>1. serving' = [serving EXCEPT ![c] = idleCall]
      BY <2>3 DEF Answered
    <3>2. serving'[c].pc = "idle"
      BY <3>1 DEF idleCall
    <3>. QED BY <3>1, <3>2
  <2>. QED BY <1>1, <2>2, <2>3 DEF Serve
<1>3. CASE \/ UNCHANGED vars \/ \E p \in Pages : Expire(p)
           \/ \E f \in Files : Sighup(f)
           \/ \E a \in Admins : Handler(a)
  BY <1>3 DEF vars, Expire, Sighup, Handler, Authenticate, addRouteHandler, deleteRouteHandler,
              addBackendHandler, deleteBackendHandler, updateBackendHandler, Accept, Refuse,
              AddRoute, DeleteRoute, AddBackendToRoute, DeleteBackendFromRoute,
              UpdateBackendWeightInRoute, Applying
<1>. QED BY <1>1, <1>3 DEF Next

-----------------------------------------------------------------------------
(* Routing *)

\* What BestRoute says of a request that was routed by the table in effect.
RoutedWell(l) ==
    /\ Best(l.rule, {Rule(rt) : rt \in ToSet(routes)}, l.request)
    /\ Len(configs[cfg].routes) <= MaxInsertion =>
          FirstListed(l.rule, Rules(configs[cfg].routes), l.request)

\* A rule serves a request, as it should if its table is the one in effect.
Served(l) ==
    /\ l.version \in Nat /\ l.version <= version
    /\ \E p \in Pages : p.host = l.request.host /\ p.path = l.request.path
    /\ Matches(l.rule, l.request)
    /\ l.version = version => RoutedWell(l)

ServedInv ==
    /\ ConfigInv /\ BuiltFrom(routes, configs[cfg].routes)
    /\ version \in Nat /\ DOMAIN serving = Callers
    /\ \A c \in Active : Served(serving[c])

(* ServeHTTP takes a best rule of the table. *)
LEMMA BestRule ==
    ASSUME NEW list, BuiltFrom(routes, list), NEW r, NEW i, i = FirstMatch(routes, r), i # 0
    PROVE  Best(Rule(routes[i]), {Rule(rt) : rt \in ToSet(routes)}, r)
<1>1. Len(routes) \in Nat /\ DOMAIN routes = 1..Len(routes)
  BY DEF BuiltFrom
<1>2. \E j \in DOMAIN routes : Matches(routes[j], r)
  BY <1>1 DEF FirstMatch, SelectInSeq
<1>3. Best(routes[i], ToSet(routes), r)
  BY <1>1, <1>2, FirstMatchIsBest DEF BuiltFrom
<1>4. \A rt : Matches(Rule(rt), r) <=> Matches(rt, r)
  BY DEF Matches, Rule
<1>5. \A rt, other : MoreSpecific(Rule(other), Rule(rt)) <=> MoreSpecific(other, rt)
  BY DEF MoreSpecific, Rule
<1>. QED BY <1>3, <1>4, <1>5 DEF Best

(* What the requests under way know stays true over a step. *)
LEMMA ServedStep ==
    ASSUME ServedInv, [Next]_vars
    PROVE  ServedInv'
<1>1. ConfigInv' /\ BuiltFrom(routes', configs'[cfg'].routes) /\ DOMAIN serving' = Callers
  BY ConfigStep, BuiltStep, TakesCurrent DEF ServedInv
<1>2. version' \in Nat
  BY StepKinds DEF ServedInv, Rebuilds, lbVars
<1>3. ASSUME NEW l, Served(l) PROVE Served(l)'
  <2>1. CASE UNCHANGED lbVars
    BY <1>3, <2>1 DEF lbVars, Served, RoutedWell
  <2>2. CASE Rebuilds
    <3>1. version' = version + 1 /\ l.version # version' /\ l.version <= version'
      BY <1>3, <2>2 DEF Served, ServedInv, Rebuilds
    <3>. QED BY <1>3, <3>1 DEF Served
  <2>. QED BY <2>1, <2>2, StepKinds DEF ServedInv
<1>4. ASSUME NEW c \in Active' PROVE Served(serving[c])'
  <2>1. PICK l : l = serving'[c]
    OBVIOUS
  <2>2. c \in Callers /\ l.pc # "idle"
    BY <2>1 DEF Active
  <2>3. Served(l)'
    <3>1. CASE l = serving[c]
      <4>1. Served(l)
        BY <2>2, <3>1 DEF ServedInv, Active
      <4>. QED BY <1>3, <4>1
    <3>2. CASE Taken(l) /\ UNCHANGED lbVars
      <4>1. Best(l.rule, {Rule(rt) : rt \in ToSet(routes)}, l.request)
        BY <3>2, BestRule DEF Taken, ServedInv
      <4>2. Len(configs[cfg].routes) <= MaxInsertion =>
               FirstListed(l.rule, Rules(configs[cfg].routes), l.request)
        BY <3>2 DEF Taken, ServedInv, BuiltFrom, KeepsOrder
      <4>3. Served(l)
        BY <3>2, <4>1, <4>2 DEF Taken, Served, RoutedWell, Best, ServedInv
      <4>. QED BY <1>3, <4>3
    <3>. QED BY <2>1, <2>2, <3>1, <3>2, TakesCurrent DEF ServedInv
  <2>. QED BY <2>1, <2>3 DEF Served
<1>. QED BY <1>1, <1>2, <1>4 DEF ServedInv

(* Nothing is being served at the start. *)
LEMMA InitServed == Init => ServedInv
<1>. SUFFICES ASSUME Init PROVE ServedInv  OBVIOUS
<1>1. Active = {} /\ DOMAIN serving = Callers
  BY DEF Init, Active, idleCall
<1>. QED BY <1>1, InitConfig DEF Init, ServedInv

(* For any configurations and any request: while the table a request was   *)
(* routed by is in effect, no other of its routes that match is more       *)
(* specific than the one ServeHTTP took, and of those with its host and    *)
(* path none was listed before it, as long as there are no more routes     *)
(* than sort.Slice sorts by insertion.                                     *)
THEOREM RoutedByBest == Spec => []BestRoute
<1>1. ServedInv /\ [Next]_vars => ServedInv'
  BY ServedStep
<1>2. ServedInv => BestRoute
  BY DEF ServedInv, Served, RoutedWell, Rules, BestRoute
<1>. QED BY <1>1, <1>2, InitServed, PTL DEF Spec

-----------------------------------------------------------------------------
(* The cache *)

\* What CacheByPage says of an item of a page, and that the table it came through
\* is not a later one than that in effect.
ItemOf(item, p) == Fits(item, p) /\ item[2] \in Nat /\ item[2] <= version

\* An item is that of a page with the same key.
Shared(item, p) == \E q \in Pages : Key(q) = Key(p) /\ ItemOf(item, q)

CacheInv ==
    /\ DOMAIN cache = {Key(p) : p \in Pages}
    /\ \A p \in Pages : \A item : item = cache[Key(p)] /\ item # noItem => Shared(item, p)

(* What is cached of a request is right for its page. *)
LEMMA AnswerFits ==
    ASSUME NEW l, Served(l), NEW p \in Pages, p.host = l.request.host, p.path = l.request.path
    PROVE  ItemOf(<<l.rule, l.version>>, p)
<1>1. Matches(l.rule, l.request) /\ l.version \in Nat /\ l.version <= version
  BY DEF Served
<1>2. ForPage(l.rule, p)
  BY <1>1 DEF ForPage, Matches
<1>3. ASSUME l.version = version, NEW rt \in ToSet(routes), DOMAIN rt.headers = {},
             ForPage(rt, p), MoreSpecific(rt, l.rule)
      PROVE  FALSE
  <2>1. Best(l.rule, {Rule(x) : x \in ToSet(routes)}, l.request)
    BY <1>3 DEF Served, RoutedWell
  <2>2. Matches(Rule(rt), l.request)
    BY <1>3 DEF ForPage, Matches, Rule
  <2>3. MoreSpecific(Rule(rt), l.rule)
    BY <1>3 DEF MoreSpecific, Rule
  <2>. QED BY <1>3, <2>1, <2>2, <2>3 DEF Best
<1>. QED BY <1>1, <1>2, <1>3 DEF ItemOf, Fits

(* The cache stays right over a step. *)
LEMMA CacheStep ==
    ASSUME ServedInv, CacheInv, [Next]_vars
    PROVE  CacheInv'
<1>0. ASSUME NEW item, NEW p \in Pages, ItemOf(item, p) PROVE ItemOf(item, p)'
  <2>1. CASE UNCHANGED lbVars
    BY <1>0, <2>1 DEF lbVars, ItemOf, Fits
  <2>2. CASE Rebuilds
    <3>1. item[2] # version' /\ item[2] <= version'
      BY <1>0, <2>2 DEF ItemOf, ServedInv, Rebuilds
    <3>. QED BY <1>0, <3>1 DEF ItemOf, Fits
  <2>. QED BY <2>1, <2>2, StepKinds DEF ServedInv
<1>1. ASSUME NEW item, NEW p \in Pages, Shared(item, p) PROVE Shared(item, p)'
  BY <1>0, <1>1 DEF Shared
<1>2. CASE UNCHANGED cache
  BY <1>1, <1>2 DEF CacheInv
<1>3. ASSUME NEW c \in Callers, Answered(c) PROVE CacheInv'
  <2>. DEFINE l == serving[c]
              item == <<l.rule, l.version>>
  <2>1. Served(l)
    BY <1>3 DEF Answered, ServedInv, Active
  <2>2. PICK p \in Pages : p.host = l.request.host /\ p.path = l.request.path
    BY <2>1 DEF Served
  <2>3. PICK i : i = item
    OBVIOUS
  <2>4. ItemOf(i, p)
    BY <2>1, <2>2, <2>3, AnswerFits
  <2>5. Key(l.request) = Key(p)
    BY <2>2 DEF Key
  <2>6. CASE cache' = [cache EXCEPT ![Key(p)] = i]
    <3>1. DOMAIN cache' = DOMAIN cache /\ cache'[Key(p)] = i
      BY <2>6 DEF CacheInv
    <3>2. ASSUME NEW q \in Pages, NEW j, j = cache'[Key(q)], j # noItem PROVE Shared(j, q)'
      <4>1. CASE Key(q) = Key(p)
        <5>1. j = i
          BY <3>1, <3>2, <4>1
        <5>2. Shared(j, q)
          BY <2>4, <4>1, <5>1 DEF Shared
        <5>. QED BY <1>1, <5>2
      <4>2. CASE Key(q) # Key(p)
        <5>1. j = cache[Key(q)]
          BY <2>6, <3>2, <4>2 DEF CacheInv
        <5>. QED BY <1>1, <3>2, <5>1 DEF CacheInv
      <4>. QED BY <4>1, <4>2
    <3>. QED BY <3>1, <3>2 DEF CacheInv
  <2>. QED BY <1>2, <1>3, <2>3, <2>5, <2>6 DEF Answered
<1>4. ASSUME NEW p \in Pages, Expire(p) PROVE CacheInv'
  <2>1. /\ DOMAIN cache' = DOMAIN cache
        /\ \A q \in Pages : cache'[Key(q)] \in {cache[Key(q)], noItem}
    BY <1>4 DEF Expire, CacheInv
  <2>. QED BY <1>1, <2>1 DEF CacheInv
<1>5. CASE \/ UNCHANGED vars
           \/ \E f \in Files : Sighup(f)
           \/ \E a \in Admins : Handler(a)
  BY <1>2, <1>5 DEF vars, Sighup, Handler, Authenticate, addRouteHandler,
              deleteRouteHandler, addBackendHandler, deleteBackendHandler, updateBackendHandler,
              Accept, Refuse, AddRoute, DeleteRoute, AddBackendToRoute, DeleteBackendFromRoute,
              UpdateBackendWeightInRoute, Applying
<1>6. ASSUME NEW c \in Callers, NEW p \in Pages, NEW h \in HeaderSets, ServeHTTP(c, p, h)
      PROVE  CacheInv'
  BY <1>2, <1>6, ServeEffect
<1>. QED BY <1>3, <1>4, <1>5, <1>6 DEF Next, Serve

(* For any pages and any reloads while answers are under way: what the     *)
(* cache has for a page fits a page with the same host and path written    *)
(* one after the other: it came through a route that serves it, and if     *)
(* that table is still in effect through none less specific than a route   *)
(* without headers that serves it too.                                     *)
THEOREM CacheKeepsPages == Spec => []CacheByPage
<1>1. Init => CacheInv
  BY DEF Init, CacheInv
<1>2. ServedInv /\ [Next]_vars => ServedInv'
  BY ServedStep
<1>3. ServedInv /\ CacheInv /\ [Next]_vars => CacheInv'
  BY CacheStep
<1>4. CacheInv => CacheByPage
  BY DEF CacheInv, Shared, ItemOf, Key, CacheByPage
<1>. QED BY <1>1, <1>2, <1>3, <1>4, InitServed, PTL DEF Spec

\* Pages as they almost always are: no slash in the host, and a path that begins
\* with one.
PlainPage(p) ==
    /\ \A i \in DOMAIN p.host : p.host[i] # "/"
    /\ p.path # <<>> => p.path[1] = "/"

(* r.Host + r.URL.Path tells plain pages apart: the host ends where the    *)
(* first slash is.                                                         *)
LEMMA KeysDiffer ==
    ASSUME NEW p \in Pages, NEW q \in Pages, PlainPage(p), PlainPage(q), Key(p) = Key(q)
    PROVE  p.host = q.host /\ p.path = q.path
<1>1. /\ p.host \in Seq(STRING) /\ p.path \in Seq(STRING)
      /\ q.host \in Seq(STRING) /\ q.path \in Seq(STRING)
  BY AdminAssumption
<1>2. ASSUME NEW h1 \in Seq(STRING), NEW p1 \in Seq(STRING),
             NEW h2 \in Seq(STRING), NEW p2 \in Seq(STRING),
             h1 \o p1 = h2 \o p2, p1 # <<>> => p1[1] = "/",
             \A i \in DOMAIN h2 : h2[i] # "/"
      PROVE  ~(Len(h1) < Len(h2))
  <2>. SUFFICES ASSUME Len(h1) < Len(h2) PROVE FALSE  OBVIOUS
  <2>1. /\ Len(h1) \in Nat /\ Len(h2) \in Nat /\ Len(p1) \in Nat /\ Len(p2) \in Nat
        /\ DOMAIN h2 = 1..Len(h2)
    BY LenProperties
  <2>2. Len(h1) + Len(p1) = Len(h2) + Len(p2)
    BY <1>2, ConcatProperties
  <2>3. p1 # <<>>
    BY <2>1, <2>2, EmptySeq
  <2>. DEFINE k == Len(h1) + 1
  <2>4. (h1 \o p1)[k] = p1[1]
    BY <2>1, <2>2, ConcatProperties
  <2>5. (h2 \o p2)[k] = h2[k]
    BY <2>1, ConcatProperties
  <2>6. k \in DOMAIN h2
    BY <2>1
  <2>. QED BY <1>2, <2>3, <2>4, <2>5, <2>6
<1>3. Len(p.host) = Len(q.host)
  <2>1. /\ ~(Len(p.host) < Len(q.host)) /\ ~(Len(q.host) < Len(p.host))
    BY <1>1, <1>2 DEF Key, PlainPage
  <2>. QED BY <1>1, <2>1, LenProperties
<1>a. ASSUME NEW h1 \in Seq(STRING), NEW p1 \in Seq(STRING)
      PROVE  /\ \A i \in 1..Len(h1) : (h1 \o p1)[i] = h1[i]
             /\ \A i \in 1..Len(p1) : (h1 \o p1)[Len(h1) + i] = p1[i]
             /\ Len(h1) \in Nat /\ Len(p1) \in Nat
             /\ Len(h1 \o p1) = Len(h1) + Len(p1)
  BY ConcatProperties, LenProperties
<1>4. p.host = q.host
  <2>1. \A i \in 1..Len(p.host) : (p.host \o p.path)[i] = p.host[i]
    BY <1>1, <1>a
  <2>2. \A i \in 1..Len(q.host) : (q.host \o q.path)[i] = q.host[i]
    BY <1>1, <1>a
  <2>3. \A i \in 1..Len(p.host) : p.host[i] = q.host[i]
    BY <1>3, <2>1, <2>2 DEF Key
  <2>. QED BY <1>1, <1>3, <2>3, SeqEqual
<1>5. p.path = q.path
  <2>1. Len(p.path) = Len(q.path)
    <3>1. /\ Len(p.host) \in Nat /\ Len(p.path) \in Nat
          /\ Len(p.host \o p.path) = Len(p.host) + Len(p.path)
      BY <1>1, <1>a
    <3>2. /\ Len(q.host) \in Nat /\ Len(q.path) \in Nat
          /\ Len(q.host \o q.path) = Len(q.host) + Len(q.path)
      BY <1>1, <1>a
    <3>3. p.host \o p.path = q.host \o q.path
      BY DEF Key
    <3>4. Len(p.host) + Len(p.path) = Len(q.host) + Len(q.path)
      BY <3>1, <3>2, <3>3, Zenon
    <3>5. \A a, b, c \in Nat : a + b = a + c => b = c
      OBVIOUS
    <3>. QED BY <1>3, <3>1, <3>2, <3>4, <3>5, Zenon
  <2>2. \A i \in 1..Len(p.path) : (p.host \o p.path)[Len(p.host) + i] = p.path[i]
    BY <1>1, <1>a
  <2>3. \A i \in 1..Len(q.path) : (q.host \o q.path)[Len(q.host) + i] = q.path[i]
    BY <1>1, <1>a
  <2>4. \A i \in 1..Len(p.path) : p.path[i] = q.path[i]
    BY <1>3, <2>1, <2>2, <2>3 DEF Key
  <2>. QED BY <1>1, <2>1, <2>4, SeqEqual
<1>. QED BY <1>4, <1>5

ItemsFit == \A p \in Pages : cache[Key(p)] # noItem => Fits(cache[Key(p)], p)

(* If the hosts have no slash and the paths begin with one, no two pages   *)
(* share a key, and what the cache has for a page fits that very page.     *)
THEOREM CacheKeepsPlainPages ==
    ASSUME \A p \in Pages : PlainPage(p)
    PROVE  Spec => []ItemsFit
<1>1. CacheByPage => ItemsFit
  <2>. SUFFICES ASSUME CacheByPage, NEW p \in Pages, cache[Key(p)] # noItem
                PROVE  Fits(cache[Key(p)], p)
    BY DEF ItemsFit
  <2>1. PICK q \in Pages : q.host \o q.path = p.host \o p.path /\ Fits(cache[Key(p)], q)
    BY DEF CacheByPage
  <2>2. q.host = p.host /\ q.path = p.path
    BY <2>1, KeysDiffer DEF Key
  <2>. QED BY <2>1, <2>2 DEF Fits, ForPage
<1>. QED BY <1>1, CacheKeepsPages, PTL

-----------------------------------------------------------------------------
(* The route table an administrator has in mind *)

\* The table that a list of routes with distinct rules stands for.
View(list) ==
    [k \in {Rule(list[i]) : i \in DOMAIN list} |->
        Pool(list[CHOOSE i \in DOMAIN list : Rule(list[i]) = k].backends)]

(* A route of the list is in the table, with its pool. *)
LEMMA ViewAt ==
    ASSUME NEW list, Distinct(list)
    PROVE  /\ DOMAIN View(list) = {Rule(list[i]) : i \in DOMAIN list}
           /\ \A i \in DOMAIN list : View(list)[Rule(list[i])] = Pool(list[i].backends)
<1>1. DOMAIN View(list) = {Rule(list[i]) : i \in DOMAIN list}
  BY DEF View
<1>2. ASSUME NEW i \in DOMAIN list
      PROVE  View(list)[Rule(list[i])] = Pool(list[i].backends)
  <2>1. PICK m : m = CHOOSE j \in DOMAIN list : Rule(list[j]) = Rule(list[i])
    OBVIOUS
  <2>2. m \in DOMAIN list /\ Rule(list[m]) = Rule(list[i])
    BY <2>1
  <2>3. m = i
    BY <2>2 DEF Distinct
  <2>4. View(list)[Rule(list[i])] = Pool(list[m].backends)
    BY <2>1 DEF View
  <2>. QED BY <2>3, <2>4
<1>. QED BY <1>1, <1>2

(* The order the sort makes does not matter to the table. *)
LEMMA ViewOf ==
    ASSUME NEW list, Distinct(list),
           NEW rs, ToSet(rs) = {Compiled(list[i]) : i \in DOMAIN list}
    PROVE  TableOf(rs) = View(list)
<1>1. ASSUME NEW j \in DOMAIN rs
      PROVE  \E i \in DOMAIN list : rs[j] = Compiled(list[i])
  BY DEF ToSet
<1>2. ASSUME NEW i \in DOMAIN list
      PROVE  \E j \in DOMAIN rs : rs[j] = Compiled(list[i])
  BY DEF ToSet
<1>3. \A rc : Rule(Compiled(rc)) = Rule(rc) /\ Compiled(rc).pool = Pool(rc.backends)
  BY DEF Rule, Compiled
<1>. DEFINE K == {Rule(list[i]) : i \in DOMAIN list}
<1>4. {Rule(rs[j]) : j \in DOMAIN rs} = K
  <2>1. \A j \in DOMAIN rs : Rule(rs[j]) \in K
    BY <1>1, <1>3
  <2>2. \A i \in DOMAIN list : Rule(list[i]) \in {Rule(rs[j]) : j \in DOMAIN rs}
    BY <1>2, <1>3
  <2>. QED BY <2>1, <2>2
<1>5. ASSUME NEW k \in K PROVE TableOf(rs)[k] = View(list)[k]
  <2>1. PICK j : j = CHOOSE x \in DOMAIN rs : Rule(rs[x]) = k
    OBVIOUS
  <2>2. j \in DOMAIN rs /\ Rule(rs[j]) = k
    <3>1. \E x \in DOMAIN rs : Rule(rs[x]) = k
      BY <1>4
    <3>. QED BY <2>1, <3>1
  <2>3. PICK i \in DOMAIN list : rs[j] = Compiled(list[i])
    BY <1>1, <2>2
  <2>4. Rule(list[i]) = k /\ rs[j].pool = Pool(list[i].backends)
    BY <1>3, <2>2, <2>3
  <2>5. TableOf(rs)[k] = rs[j].pool
    <3>1. k \in {Rule(rs[x]) : x \in DOMAIN rs}
      BY <1>4
    <3>. QED BY <2>1, <3>1 DEF TableOf
  <2>. QED BY <2>4, <2>5, ViewAt
<1>6. TableOf(rs) = [k \in K |-> TableOf(rs)[k]]
  BY <1>4 DEF TableOf
<1>7. View(list) = [k \in K |-> View(list)[k]]
  BY DEF View
<1>. HIDE DEF K
<1>. QED BY <1>5, <1>6, <1>7

(* AddRoute adds one entry. *)
LEMMA ViewAdd ==
    ASSUME NEW list, IsSeq(list), Distinct(list), NEW rc,
           ~\E i \in DOMAIN list : list[i].path = rc.path /\ list[i].host = rc.host
    PROVE  LET new == Append(list, rc)
               k == Rule(rc)
           IN /\ Distinct(new)
              /\ k \notin DOMAIN View(list) /\ k \in DOMAIN View(new)
              /\ RT!SameBut(k, View(list), View(new))
              /\ View(new)[k] = Pool(rc.backends)
<1>. DEFINE k == Rule(rc)
<1>1. PICK new : new = Append(list, rc)
  OBVIOUS
<1>2. DOMAIN new = 1..(Len(list) + 1) /\ DOMAIN list = 1..Len(list) /\ Len(list) \in Nat
  BY <1>1, AppendAny
<1>3. \A i \in DOMAIN list : new[i] = list[i]
  BY <1>1, AppendAny
<1>4. new[Len(list) + 1] = rc
  BY <1>1, AppendAny
<1>5. \A i \in DOMAIN list : Rule(list[i]) # k
  BY DEF Rule
<1>6. Distinct(new)
  <2>. SUFFICES ASSUME NEW i \in DOMAIN new, NEW j \in DOMAIN new, Rule(new[i]) = Rule(new[j])
                PROVE  i = j
    BY DEF Distinct
  <2>1. CASE i \in DOMAIN list /\ j \in DOMAIN list
    BY <1>3, <2>1 DEF Distinct
  <2>2. CASE i = Len(list) + 1
    BY <1>2, <1>3, <1>4, <1>5, <2>2
  <2>3. CASE j = Len(list) + 1
    BY <1>2, <1>3, <1>4, <1>5, <2>3
  <2>. QED BY <1>2, <2>1, <2>2, <2>3
<1>7. /\ DOMAIN View(list) = {Rule(list[i]) : i \in DOMAIN list}
      /\ DOMAIN View(new) = {Rule(new[i]) : i \in DOMAIN new}
      /\ \A i \in DOMAIN list : View(list)[Rule(list[i])] = Pool(list[i].backends)
      /\ \A i \in DOMAIN new : View(new)[Rule(new[i])] = Pool(new[i].backends)
  BY <1>6, ViewAt
<1>8. Len(list) + 1 \in DOMAIN new /\ DOMAIN list \subseteq DOMAIN new
  BY <1>2
<1>9. k \notin DOMAIN View(list) /\ k \in DOMAIN View(new) /\ View(new)[k] = Pool(rc.backends)
  BY <1>4, <1>5, <1>7, <1>8
<1>. HIDE DEF k
<1>10. DOMAIN View(new) \ {k} = DOMAIN View(list) \ {k}
  <2>1. ASSUME NEW x \in DOMAIN View(new), x # k PROVE x \in DOMAIN View(list)
    <3>1. PICK i \in DOMAIN new : x = Rule(new[i])
      BY <1>7
    <3>2. i \in DOMAIN list
      BY <1>2, <1>4, <2>1, <3>1 DEF k
    <3>. QED BY <1>3, <1>7, <3>1, <3>2
  <2>2. ASSUME NEW x \in DOMAIN View(list) PROVE x \in DOMAIN View(new)
    BY <1>3, <1>7, <1>8
  <2>. QED BY <2>1, <2>2
<1>11. \A x \in DOMAIN View(list) : View(new)[x] = View(list)[x]
  BY <1>3, <1>7, <1>8
<1>12. RT!SameBut(k, View(list), View(new))
  BY <1>10, <1>11 DEF RT!SameBut
<1>. QED BY <1>1, <1>6, <1>9, <1>12 DEF k

(* DeleteRoute shifts the routes after the one it deletes. *)
LEMMA RemoveShifts ==
    ASSUME NEW s, IsSeq(s), NEW i \in DOMAIN s, NEW t, t = RemoveAt(s, i)
    PROVE  /\ DOMAIN s = 1..Len(s) /\ Len(s) \in Nat /\ DOMAIN t = 1..(Len(s) - 1)
           /\ \A j \in DOMAIN t : t[j] = IF j < i THEN s[j] ELSE s[j + 1]
<1>1. s \in Seq(ToSet(s)) /\ Len(s) \in Nat /\ i \in 1..Len(s) /\ DOMAIN s = 1..Len(s)
  BY LenProperties DEF IsSeq
<1>. DEFINE l == SubSeq(s, 1, i - 1)
            r == SubSeq(s, i + 1, Len(s))
<1>2. /\ l \in Seq(ToSet(s)) /\ Len(l) = i - 1 /\ \A j \in 1..(i - 1) : l[j] = s[j]
  BY <1>1
<1>3. /\ r \in Seq(ToSet(s)) /\ Len(r) = Len(s) - i
      /\ \A j \in 1..(Len(s) - i) : r[j] = s[i + j]
  BY <1>1
<1>4. t = l \o r
  BY DEF RemoveAt
<1>. HIDE DEF l, r
<1>5. /\ Len(t) = Len(l) + Len(r) /\ t \in Seq(ToSet(s))
      /\ \A j \in 1..(Len(l) + Len(r)) : t[j] = IF j <= Len(l) THEN l[j] ELSE r[j - Len(l)]
  BY <1>2, <1>3, <1>4, ConcatProperties
<1>6. DOMAIN t = 1..(Len(s) - 1)
  BY <1>1, <1>2, <1>3, <1>5, LenProperties
<1>7. ASSUME NEW j \in DOMAIN t PROVE t[j] = IF j < i THEN s[j] ELSE s[j + 1]
  <2>1. j \in 1..(Len(s) - 1) /\ t[j] = IF j <= i - 1 THEN l[j] ELSE r[j - (i - 1)]
    BY <1>1, <1>2, <1>3, <1>5, <1>6
  <2>2. CASE j < i
    BY <1>1, <1>2, <2>1, <2>2
  <2>3. CASE ~(j < i)
    <3>1. j - (i - 1) \in 1..(Len(s) - i) /\ i + (j - (i - 1)) = j + 1
      BY <1>1, <2>1, <2>3
    <3>2. ~(j <= i - 1)
      BY <1>1, <2>1, <2>3
    <3>. QED BY <1>3, <2>1, <2>3, <3>1, <3>2
  <2>. QED BY <2>2, <2>3
<1>. QED BY <1>1, <1>6, <1>7

(* DeleteRoute removes one entry. *)
LEMMA ViewDelete ==
    ASSUME NEW list, IsSeq(list), Distinct(list), NEW i \in DOMAIN list
    PROVE  LET new == RemoveAt(list, i)
               k == Rule(list[i])
           IN /\ Distinct(new)
              /\ k \in DOMAIN View(list) /\ k \notin DOMAIN View(new)
              /\ RT!SameBut(k, View(list), View(new))
<1>. DEFINE k == Rule(list[i])
            At(j) == IF j < i THEN j ELSE j + 1
<1>1. PICK new : new = RemoveAt(list, i)
  OBVIOUS
<1>2. /\ DOMAIN list = 1..Len(list) /\ Len(list) \in Nat /\ DOMAIN new = 1..(Len(list) - 1)
      /\ \A j \in DOMAIN new : new[j] = IF j < i THEN list[j] ELSE list[j + 1]
  BY <1>1, RemoveShifts
<1>3. \A j \in DOMAIN new : new[j] = list[At(j)] /\ At(j) \in DOMAIN list /\ At(j) # i
  BY <1>2
<1>4. \A j, m \in DOMAIN new : At(j) = At(m) => j = m
  BY <1>2
<1>5. ASSUME NEW m \in DOMAIN list, m # i PROVE \E j \in DOMAIN new : At(j) = m
  <2>1. CASE m < i
    <3>1. m \in DOMAIN new /\ At(m) = m
      BY <1>2, <2>1
    <3>. QED BY <3>1
  <2>2. CASE m > i
    <3>1. m - 1 \in DOMAIN new /\ At(m - 1) = m
      BY <1>2, <2>2
    <3>. QED BY <3>1
  <2>. QED BY <1>2, <1>5, <2>1, <2>2
<1>. HIDE DEF At
<1>6. Distinct(new)
  BY <1>3, <1>4 DEF Distinct
<1>7. /\ DOMAIN View(list) = {Rule(list[j]) : j \in DOMAIN list}
      /\ DOMAIN View(new) = {Rule(new[j]) : j \in DOMAIN new}
      /\ \A j \in DOMAIN list : View(list)[Rule(list[j])] = Pool(list[j].backends)
      /\ \A j \in DOMAIN new : View(new)[Rule(new[j])] = Pool(new[j].backends)
  BY <1>6, ViewAt
<1>8. k \in DOMAIN View(list)
  BY <1>7
<1>9. k \notin DOMAIN View(new)
  <2>1. \A j \in DOMAIN new : Rule(new[j]) # k
    BY <1>3 DEF Distinct
  <2>. QED BY <1>7, <2>1
<1>10. ASSUME NEW x \in DOMAIN View(list), x # k
       PROVE  x \in DOMAIN View(new) /\ View(new)[x] = View(list)[x]
  <2>1. PICK m \in DOMAIN list : x = Rule(list[m])
    BY <1>7
  <2>2. m # i
    BY <1>10, <2>1
  <2>3. PICK j \in DOMAIN new : At(j) = m
    BY <1>5, <2>2
  <2>4. new[j] = list[m]
    BY <1>3, <2>3
  <2>. QED BY <1>7, <2>1, <2>3, <2>4
<1>11. ASSUME NEW x \in DOMAIN View(new) PROVE x \in DOMAIN View(list)
  BY <1>3, <1>7
<1>12. RT!SameBut(k, View(list), View(new))
  <2>. HIDE DEF k
  <2>. QED BY <1>10, <1>11 DEF RT!SameBut
<1>. QED BY <1>1, <1>6, <1>8, <1>9, <1>12

\* new is the list with other backends for route i.
OtherBackends(list, i, b, new) == new = [list EXCEPT ![i].backends = b]

(* The requests on backends change the pool of one entry. *)
LEMMA ViewChange ==
    ASSUME NEW list, IsRouteList(list), Distinct(list), NEW i \in DOMAIN list,
           NEW b, NEW new, OtherBackends(list, i, b, new)
    PROVE  LET k == Rule(list[i])
           IN /\ Distinct(new)
              /\ k \in DOMAIN View(list) /\ DOMAIN View(new) = DOMAIN View(list)
              /\ RT!SameBut(k, View(list), View(new))
              /\ View(list)[k] = Pool(list[i].backends)
              /\ View(new)[k] = Pool(b)
<1>. DEFINE k == Rule(list[i])
            e == [list[i] EXCEPT !.backends = b]
<1>1. IsSeq(list) /\ DOMAIN list[i] = {"host", "path", "headers", "backends"}
  BY DEF IsRouteList, IsSeq, IsRouteConfig
<1>2. Rule(e) = k /\ e.backends = b
  BY <1>1 DEF Rule
<1>3. new = [list EXCEPT ![i] = e]
  BY DEF OtherBackends
<1>. HIDE DEF e
<1>5. DOMAIN new = DOMAIN list /\ \A j \in DOMAIN list : new[j] = IF j = i THEN e ELSE list[j]
  BY <1>1, <1>3, ExceptAny
<1>6. \A j \in DOMAIN list : Rule(new[j]) = Rule(list[j])
  BY <1>2, <1>5
<1>7. Distinct(new)
  BY <1>5, <1>6 DEF Distinct
<1>8. /\ DOMAIN View(list) = {Rule(list[j]) : j \in DOMAIN list}
      /\ DOMAIN View(new) = {Rule(new[j]) : j \in DOMAIN new}
      /\ \A j \in DOMAIN list : View(list)[Rule(list[j])] = Pool(list[j].backends)
      /\ \A j \in DOMAIN new : View(new)[Rule(new[j])] = Pool(new[j].backends)
  BY <1>7, ViewAt
<1>9. DOMAIN View(new) = DOMAIN View(list)
  BY <1>5, <1>6, <1>8
<1>10. k \in DOMAIN View(list) /\ View(list)[k] = Pool(list[i].backends)
  BY <1>8
<1>11. View(new)[k] = Pool(b)
  BY <1>2, <1>5, <1>6, <1>8
<1>12. \A x \in DOMAIN View(list) \ {k} : View(new)[x] = View(list)[x]
  <2>. SUFFICES ASSUME NEW x \in DOMAIN View(list), x # k PROVE View(new)[x] = View(list)[x]
    OBVIOUS
  <2>1. PICK j \in DOMAIN list : x = Rule(list[j])
    BY <1>8
  <2>2. j # i
    BY <2>1
  <2>3. new[j] = list[j]
    BY <1>5, <2>2
  <2>. QED BY <1>5, <1>8, <2>1, <2>3
<1>13. RT!SameBut(k, View(list), View(new))
  <2>. HIDE DEF k
  <2>. QED BY <1>9, <1>12 DEF RT!SameBut
<1>. QED BY <1>7, <1>9, <1>10, <1>11, <1>13

\* Member i of s is the last one of its address.
IsLast(s, i) == \A j \in DOMAIN s : j > i => s[j].addr # s[i].addr

\* Member i of s is the last of its address in t too, and t has no other addresses.
SameElsewhere(addr, s, t) ==
    /\ \A i \in DOMAIN s :
          s[i].addr # addr /\ IsLast(s, i) =>
             \E m \in DOMAIN t :
                t[m].addr = s[i].addr /\ t[m].weight = s[i].weight /\ IsLast(t, m)
    /\ \A j \in DOMAIN t : t[j].addr # addr => \E i \in DOMAIN s : s[i].addr = t[j].addr

(* The weight of the last backend of an address counts. *)
LEMMA PoolOf ==
    ASSUME NEW s, IsBackendList(s), NEW i \in DOMAIN s, s[i].addr \notin BadAddrs, IsLast(s, i)
    PROVE  s[i].addr \in DOMAIN Pool(s) /\ Pool(s)[s[i].addr] = Weight(s[i].weight)
<1>1. \A j \in DOMAIN s : j > i => s[j].addr # s[i].addr
  BY DEF IsLast
<1>2. DOMAIN Pool(s) = {s[j].addr : j \in DOMAIN s} \ BadAddrs
  BY PoolIs
<1>3. Pool(s)[s[i].addr] = Weight(s[i].weight)
  BY <1>1, PoolIs
<1>. QED BY <1>2, <1>3

(* Two lists of backends that differ at one address only make pools that do. *)
LEMMA PoolsDiffer ==
    ASSUME NEW s, IsBackendList(s), NEW t, IsBackendList(t), NEW addr, SameElsewhere(addr, s, t)
    PROVE  /\ RT!SameBut(addr, Pool(s), Pool(t))
           /\ addr \notin DOMAIN Pool(s) \cup DOMAIN Pool(t) => Pool(t) = Pool(s)
<1>1. /\ DOMAIN Pool(s) = {s[i].addr : i \in DOMAIN s} \ BadAddrs
      /\ DOMAIN Pool(t) = {t[i].addr : i \in DOMAIN t} \ BadAddrs
  BY PoolIs
<1>2. ASSUME NEW x \in DOMAIN Pool(s), x # addr
      PROVE  x \in DOMAIN Pool(t) /\ Pool(t)[x] = Pool(s)[x]
  <2>0. PICK i \in DOMAIN s : s[i].addr = x /\ \A j \in DOMAIN s : j > i => s[j].addr # x
    BY PoolIs
  <2>1. s[i].addr = x /\ IsLast(s, i)
    BY <2>0 DEF IsLast
  <2>2. PICK m \in DOMAIN t : t[m].addr = x /\ t[m].weight = s[i].weight /\ IsLast(t, m)
    BY <1>2, <2>1 DEF SameElsewhere
  <2>3. x \notin BadAddrs
    BY <1>1
  <2>4. Pool(s)[x] = Weight(s[i].weight)
    BY <2>1, <2>3, PoolOf
  <2>5. Pool(t)[x] = Weight(t[m].weight)
    BY <2>2, <2>3, PoolOf
  <2>6. x \in DOMAIN Pool(t)
    BY <1>1, <2>2, <2>3
  <2>. QED BY <2>2, <2>4, <2>5, <2>6
<1>3. ASSUME NEW x \in DOMAIN Pool(t), x # addr PROVE x \in DOMAIN Pool(s)
  BY <1>1, <1>3 DEF SameElsewhere
<1>4. RT!SameBut(addr, Pool(s), Pool(t))
  BY <1>2, <1>3 DEF RT!SameBut
<1>5. ASSUME addr \notin DOMAIN Pool(s) \cup DOMAIN Pool(t) PROVE Pool(t) = Pool(s)
  <2>1. DOMAIN Pool(t) = DOMAIN Pool(s)
    BY <1>2, <1>3, <1>5
  <2>2. \A x \in DOMAIN Pool(s) : Pool(t)[x] = Pool(s)[x]
    BY <1>2, <1>5
  <2>3. Pool(s) = [x \in DOMAIN Pool(s) |-> Pool(s)[x]]
    BY DEF Pool
  <2>4. Pool(t) = [x \in DOMAIN Pool(t) |-> Pool(t)[x]]
    BY DEF Pool
  <2>. QED BY <2>1, <2>2, <2>3, <2>4
<1>. QED BY <1>4, <1>5

\* The pool of one address comes, goes or changes.
OneBackend(addr, s, t) ==
    /\ RT!SameBut(addr, Pool(s), Pool(t))
    /\ addr \notin DOMAIN Pool(s) \cup DOMAIN Pool(t) => Pool(t) = Pool(s)

(* AddBackendToRoute adds a backend of a new address to the pool. *)
LEMMA PoolAdd ==
    ASSUME NEW s, IsBackendList(s), NEW addr, \A i \in DOMAIN s : s[i].addr # addr, NEW w,
           NEW t, t = Append(s, [addr |-> addr, weight |-> w])
    PROVE  /\ IsBackendList(t) /\ OneBackend(addr, s, t)
           /\ addr \notin BadAddrs => addr \in DOMAIN Pool(t) /\ Pool(t)[addr] = Weight(w)
<1>1. PICK e : e = [addr |-> addr, weight |-> w]
  OBVIOUS
<1>2. e.addr = addr /\ e.weight = w
  BY <1>1
<1>3. IsBackendList(t)
  BY BackendLists
<1>4. IsSeq(s) /\ t = Append(s, e)
  BY <1>1 DEF IsBackendList, IsSeq
<1>5. DOMAIN t = 1..(Len(s) + 1) /\ DOMAIN s = 1..Len(s) /\ Len(s) \in Nat
  BY <1>4, AppendAny
<1>6. \A i \in DOMAIN s : t[i] = s[i]
  BY <1>4, AppendAny
<1>7. t[Len(s) + 1] = e
  BY <1>4, AppendAny
<1>8. ASSUME NEW i \in DOMAIN s, s[i].addr # addr, IsLast(s, i)
      PROVE  \E m \in DOMAIN t :
                t[m].addr = s[i].addr /\ t[m].weight = s[i].weight /\ IsLast(t, m)
  <2>1. i \in DOMAIN t /\ t[i] = s[i]
    BY <1>5, <1>6
  <2>2. ASSUME NEW j \in DOMAIN t, j > i PROVE t[j].addr # s[i].addr
    <3>1. CASE j \in DOMAIN s  BY <1>6, <1>8, <2>2, <3>1 DEF IsLast
    <3>2. CASE j = Len(s) + 1  BY <1>2, <1>7, <1>8, <3>2
    <3>. QED BY <1>5, <3>1, <3>2
  <2>. QED BY <2>1, <2>2 DEF IsLast
<1>9. ASSUME NEW j \in DOMAIN t, t[j].addr # addr
      PROVE  \E i \in DOMAIN s : s[i].addr = t[j].addr
  <2>1. j \in DOMAIN s
    BY <1>2, <1>5, <1>7, <1>9
  <2>. QED BY <1>6, <2>1
<1>10. OneBackend(addr, s, t)
  <2>1. SameElsewhere(addr, s, t)
    BY <1>8, <1>9 DEF SameElsewhere
  <2>. QED BY <1>3, <2>1, PoolsDiffer DEF OneBackend
<1>11. ASSUME addr \notin BadAddrs
       PROVE  addr \in DOMAIN Pool(t) /\ Pool(t)[addr] = Weight(w)
  <2>1. Len(s) + 1 \in DOMAIN t /\ t[Len(s) + 1].addr = addr /\ t[Len(s) + 1].weight = w
    BY <1>2, <1>5, <1>7
  <2>2. IsLast(t, Len(s) + 1)
    BY <1>5 DEF IsLast
  <2>. QED BY <1>3, <1>11, <2>1, <2>2, PoolOf
<1>. QED BY <1>3, <1>10, <1>11

(* DeleteBackendFromRoute takes an address out of the pool. *)
LEMMA PoolDelete ==
    ASSUME NEW s, IsBackendList(s), NEW addr, NEW t, t = Without(s, addr)
    PROVE  IsBackendList(t) /\ OneBackend(addr, s, t) /\ addr \notin DOMAIN Pool(t)
<1>1. DOMAIN s = 1..Len(s) /\ Len(s) \in Nat
  BY LenProperties DEF IsBackendList
<1>2. Keeps(s, Len(s), addr, t)
  BY WithoutKeeps
<1>3. IsBackendList(t) /\ \A j \in DOMAIN t : t[j].addr # addr /\ \E i \in DOMAIN s : s[i] = t[j]
  BY <1>1, <1>2 DEF Keeps
<1>4. ASSUME NEW i \in DOMAIN s, s[i].addr # addr, IsLast(s, i)
      PROVE  \E m \in DOMAIN t :
                t[m].addr = s[i].addr /\ t[m].weight = s[i].weight /\ IsLast(t, m)
  <2>1. \A j \in (i + 1)..Len(s) : s[j].addr # s[i].addr
    BY <1>1, <1>4 DEF IsLast
  <2>2. PICK m \in DOMAIN t :
           t[m] = s[i] /\ \A j \in DOMAIN t : j > m => t[j].addr # s[i].addr
    BY <1>1, <1>2, <1>4, <2>1 DEF Keeps
  <2>. QED BY <2>2 DEF IsLast
<1>5. \A j \in DOMAIN t : \E i \in DOMAIN s : s[i].addr = t[j].addr
  BY <1>3
<1>6. OneBackend(addr, s, t)
  <2>1. SameElsewhere(addr, s, t)
    BY <1>4, <1>5 DEF SameElsewhere
  <2>. QED BY <1>3, <2>1, PoolsDiffer DEF OneBackend
<1>7. addr \notin DOMAIN Pool(t)
  BY <1>3, PoolIs
<1>. QED BY <1>3, <1>6, <1>7

(* UpdateBackendWeightInRoute changes the weight of one address at most,   *)
(* and sets it if the route lists the address once.                        *)
LEMMA PoolUpdate ==
    ASSUME NEW s, IsBackendList(s), NEW m \in DOMAIN s, NEW w,
           NEW t, t = [s EXCEPT ![m].weight = w]
    PROVE  /\ IsBackendList(t) /\ OneBackend(s[m].addr, s, t)
           /\ /\ s[m].addr \notin BadAddrs
              /\ \A j \in DOMAIN s : s[j].addr = s[m].addr => j = m
              => Pool(t)[s[m].addr] = Weight(w)
<1>1. /\ IsBackendList(t) /\ DOMAIN t = DOMAIN s
      /\ \A i \in DOMAIN s : t[i].addr = s[i].addr
      /\ \A i \in DOMAIN s : t[i].weight = IF i = m THEN w ELSE s[i].weight
  <2>1. IsBackendList(t) /\ DOMAIN t = DOMAIN s
    BY SetWeight
  <2>2. \A i \in DOMAIN s : t[i].addr = s[i].addr
    BY SetWeight
  <2>3. \A i \in DOMAIN s : t[i].weight = IF i = m THEN w ELSE s[i].weight
    BY SetWeight
  <2>. QED BY <2>1, <2>2, <2>3
<1>2. DOMAIN s = 1..Len(s) /\ Len(s) \in Nat
  BY LenProperties DEF IsBackendList
<1>3. ASSUME NEW i \in DOMAIN s, s[i].addr # s[m].addr, IsLast(s, i)
      PROVE  \E n \in DOMAIN t :
                t[n].addr = s[i].addr /\ t[n].weight = s[i].weight /\ IsLast(t, n)
  <2>1. i # m
    BY <1>3
  <2>2. i \in DOMAIN t /\ t[i].addr = s[i].addr /\ t[i].weight = s[i].weight
    BY <1>1, <2>1
  <2>3. IsLast(t, i)
    BY <1>1, <1>3 DEF IsLast
  <2>. QED BY <2>2, <2>3
<1>4. \A j \in DOMAIN t : \E i \in DOMAIN s : s[i].addr = t[j].addr
  BY <1>1
<1>5. OneBackend(s[m].addr, s, t)
  <2>1. SameElsewhere(s[m].addr, s, t)
    BY <1>3, <1>4 DEF SameElsewhere
  <2>. QED BY <1>1, <2>1, PoolsDiffer DEF OneBackend
<1>6. ASSUME s[m].addr \notin BadAddrs, \A j \in DOMAIN s : s[j].addr = s[m].addr => j = m
      PROVE  Pool(t)[s[m].addr] = Weight(w)
  <2>1. m \in DOMAIN t /\ t[m].addr = s[m].addr /\ t[m].weight = w
    BY <1>1
  <2>2. IsLast(t, m)
    BY <1>1, <1>2, <1>6, <2>1 DEF IsLast
  <2>3. Pool(t)[t[m].addr] = Weight(t[m].weight)
    BY <1>1, <1>6, <2>1, <2>2, PoolOf
  <2>. QED BY <2>1, <2>3
<1>. QED BY <1>1, <1>5, <1>6

\* From one table to another: a route comes, goes, or one backend of it changes.
Added(k, V, W)   == k \notin DOMAIN V /\ k \in DOMAIN W /\ RT!SameBut(k, V, W)
Removed(k, V, W) == k \in DOMAIN V /\ k \notin DOMAIN W /\ RT!SameBut(k, V, W)
Changed(k, addr, V, W) ==
    /\ k \in DOMAIN V /\ DOMAIN W = DOMAIN V /\ RT!SameBut(k, V, W)
    /\ RT!SameBut(addr, V[k], W[k])
    /\ addr \notin DOMAIN V[k] \cup DOMAIN W[k] => W[k] = V[k]

OneEntry(V, W) ==
    \E k : Added(k, V, W) \/ Removed(k, V, W) \/ \E addr : Changed(k, addr, V, W)

\* The exceptions of AckedInEffect that are not about SIGHUP.
Plain(a) ==
    /\ admin[a].op.addr \notin BadAddrs
    /\ admin[a].op.kind = "updateBackend" => Cardinality(Positions(a)) = 1

\* list is what the change of a makes of the routes it holds.
Edit(a, list) ==
    /\ IsRouteList(list) /\ Distinct(list)
    /\ OneEntry(View(Listed(a)), View(list))
    /\ Plain(a) => InEffect(a, View(list))

\* The routes of every configuration in the heap have distinct rules.
HeapDistinct == \A i \in DOMAIN configs : Distinct(configs[i].routes)

TableInv ==
    /\ ConfigInv /\ HeapDistinct
    /\ BuiltFrom(routes, configs[cfg].routes)

(* The routes a handler holds. *)
LEMMA ListedOK ==
    ASSUME TableInv, NEW a \in Admins, admin[a].pc = "apply"
    PROVE  IsRouteList(Listed(a)) /\ IsSeq(Listed(a)) /\ Distinct(Listed(a))
<1>1. IsRouteList(Listed(a)) /\ Distinct(Listed(a))
  BY DEF TableInv, HeapDistinct, ConfigInv, AdminOK, HeapOK, Listed
<1>. QED BY <1>1 DEF IsRouteList, IsSeq

(* AddRoute edits the list. *)
LEMMA EditAddRoute ==
    ASSUME TableInv, NEW a \in Admins, AddRoute(a)
    PROVE  UNCHANGED lbVars \/ \E list : Edit(a, list) /\ Commit(a, list)
<1>. DEFINE rc == admin[a].route
            old == Listed(a)
            k == Rule(rc)
<1>1. /\ admin[a].pc = "apply" /\ admin[a].op.kind = "addRoute"
      /\ IsRouteConfig(rc)
  BY DEF AddRoute, Applying, TableInv, ConfigInv, AdminOK
<1>2. \/ UNCHANGED lbVars
      \/ /\ ~\E i \in DOMAIN old : old[i].path = rc.path /\ old[i].host = rc.host
         /\ Commit(a, Append(old, rc))
  BY DEF AddRoute, CommitIf
<1>3. IsRouteList(old) /\ IsSeq(old) /\ Distinct(old)
  BY <1>1, ListedOK
<1>4. ASSUME ~\E i \in DOMAIN old : old[i].path = rc.path /\ old[i].host = rc.host
      PROVE  Edit(a, Append(old, rc))
  <2>. HIDE DEF rc, old
  <2>1. PICK new : new = Append(old, rc)
    OBVIOUS
  <2>2. IsRouteList(new)
    BY <1>1, <1>3, <2>1, RouteLists
  <2>3. /\ Distinct(new)
        /\ k \notin DOMAIN View(old) /\ k \in DOMAIN View(new)
        /\ RT!SameBut(k, View(old), View(new))
        /\ View(new)[k] = Pool(rc.backends)
    BY <1>3, <1>4, <2>1, ViewAdd
  <2>4. OneEntry(View(old), View(new))
    BY <2>3 DEF OneEntry, Added
  <2>5. InEffect(a, View(new))
    BY <1>1, <2>3 DEF InEffect, rc
  <2>. QED BY <2>1, <2>2, <2>3, <2>4, <2>5 DEF Edit, old
<1>. QED BY <1>2, <1>4

(* DeleteRoute edits the list. *)
LEMMA EditDeleteRoute ==
    ASSUME TableInv, NEW a \in Admins, DeleteRoute(a)
    PROVE  UNCHANGED lbVars \/ \E list : Edit(a, list) /\ Commit(a, list)
<1>. DEFINE i == admin[a].op.index + 1
            old == Listed(a)
            k == Rule(old[i])
<1>1. admin[a].pc = "apply" /\ admin[a].op.kind = "deleteRoute"
  BY DEF DeleteRoute, Applying
<1>2. UNCHANGED lbVars \/ (i \in DOMAIN old /\ Commit(a, RemoveAt(old, i)))
  BY DEF DeleteRoute, CommitIf, Exists
<1>3. IsRouteList(old) /\ IsSeq(old) /\ Distinct(old)
  BY <1>1, ListedOK
<1>4. ASSUME i \in DOMAIN old PROVE Edit(a, RemoveAt(old, i))
  <2>. HIDE DEF i, old
  <2>1. PICK new : new = RemoveAt(old, i)
    OBVIOUS
  <2>2. IsRouteList(new)
    BY <1>3, <1>4, <2>1, RouteLists
  <2>3. /\ Distinct(new)
        /\ k \in DOMAIN View(old) /\ k \notin DOMAIN View(new)
        /\ RT!SameBut(k, View(old), View(new))
    BY <1>3, <1>4, <2>1, ViewDelete
  <2>4. OneEntry(View(old), View(new))
    BY <2>3 DEF OneEntry, Removed
  <2>5. InEffect(a, View(new))
    BY <1>1, <2>3 DEF InEffect, Indexed, i, old
  <2>. QED BY <2>1, <2>2, <2>3, <2>4, <2>5 DEF Edit, old
<1>. QED BY <1>2, <1>4

(* A new list of backends for a route edits the list of routes. *)
LEMMA EditBackends ==
    ASSUME TableInv, NEW a \in Admins, admin[a].pc = "apply", Exists(a),
           admin[a].op.kind \in {"addBackend", "deleteBackend", "updateBackend"},
           NEW b, IsBackendList(b), OneBackend(admin[a].op.addr, Indexed(a).backends, b),
           Plain(a) =>
              CASE admin[a].op.kind = "addBackend" ->
                      /\ admin[a].op.addr \in DOMAIN Pool(b)
                      /\ Pool(b)[admin[a].op.addr] = Weight(admin[a].op.weight)
                [] admin[a].op.kind = "deleteBackend" -> admin[a].op.addr \notin DOMAIN Pool(b)
                [] admin[a].op.kind = "updateBackend" ->
                      Pool(b)[admin[a].op.addr] = admin[a].op.weight
    PROVE  Edit(a, [Listed(a) EXCEPT ![admin[a].op.index + 1].backends = b])
<1>. DEFINE i == admin[a].op.index + 1
            old == Listed(a)
            k == Rule(old[i])
            addr == admin[a].op.addr
<1>1. IsRouteList(old) /\ Distinct(old)
  BY ListedOK
<1>2. i \in DOMAIN old /\ Indexed(a) = old[i]
  BY DEF Exists, Indexed
<1>. HIDE DEF i, old
<1>3. PICK new : new = [old EXCEPT ![i].backends = b]
  OBVIOUS
<1>4. IsRouteList(new)
  BY <1>1, <1>2, <1>3, RouteLists
<1>5. OtherBackends(old, i, b, new)
  BY <1>3 DEF OtherBackends
<1>6. /\ Distinct(new)
      /\ k \in DOMAIN View(old) /\ DOMAIN View(new) = DOMAIN View(old)
      /\ RT!SameBut(k, View(old), View(new))
      /\ View(old)[k] = Pool(old[i].backends)
      /\ View(new)[k] = Pool(b)
  BY <1>1, <1>2, <1>5, ViewChange
<1>7. OneEntry(View(old), View(new))
  <2>1. Changed(k, addr, View(old), View(new))
    BY <1>2, <1>6 DEF Changed, OneBackend
  <2>. QED BY <2>1 DEF OneEntry
<1>8. ASSUME Plain(a) PROVE InEffect(a, View(new))
  <2>1. CASE admin[a].op.kind = "addBackend"
    BY <1>2, <1>6, <1>8, <2>1 DEF InEffect
  <2>2. CASE admin[a].op.kind = "deleteBackend"
    BY <1>2, <1>6, <1>8, <2>2 DEF InEffect
  <2>3. CASE admin[a].op.kind = "updateBackend"
    BY <1>2, <1>6, <1>8, <2>3 DEF InEffect
  <2>. QED BY <2>1, <2>2, <2>3
<1>9. Edit(a, new)
  BY <1>4, <1>6, <1>7, <1>8 DEF Edit, old
<1>. QED BY <1>3, <1>9 DEF i, old

(* So do the requests on backends. *)
LEMMA EditBackendRequests ==
    ASSUME TableInv, NEW a \in Admins,
           AddBackendToRoute(a) \/ DeleteBackendFromRoute(a) \/ UpdateBackendWeightInRoute(a)
    PROVE  UNCHANGED lbVars \/ \E list : Edit(a, list) /\ Commit(a, list)
<1>. DEFINE bs == Indexed(a).backends
            op == admin[a].op
<1>1. admin[a].pc = "apply"
  BY DEF AddBackendToRoute, DeleteBackendFromRoute, UpdateBackendWeightInRoute, Applying
<1>2. Exists(a) => IsBackendList(bs)
  BY <1>1, ListedOK DEF Exists, Indexed, IsRouteList, IsRouteConfig
<1>3. \A b : CommitBackends(a, b) =
              Commit(a, [Listed(a) EXCEPT ![op.index + 1].backends = b])
  BY DEF CommitBackends
<1>4. CASE AddBackendToRoute(a)
  <2>. DEFINE w == IF op.weight = 0 THEN 1 ELSE op.weight
  <2>1. op.kind = "addBackend"
    BY <1>4 DEF AddBackendToRoute, Applying
  <2>2. \/ UNCHANGED lbVars
        \/ /\ Exists(a) /\ Positions(a) = {}
           /\ CommitBackends(a, Append(bs, [addr |-> op.addr, weight |-> w]))
    BY <1>4 DEF AddBackendToRoute, CommitIf
  <2>3. Weight(w) = Weight(op.weight)
    BY DEF Weight
  <2>4. Positions(a) = {} => \A i \in DOMAIN bs : bs[i].addr # op.addr
    BY DEF Positions
  <2>5. ASSUME Exists(a), Positions(a) = {},
               NEW b, b = Append(bs, [addr |-> op.addr, weight |-> w])
        PROVE  Edit(a, [Listed(a) EXCEPT ![op.index + 1].backends = b])
    <3>1. /\ IsBackendList(b) /\ OneBackend(op.addr, bs, b)
          /\ op.addr \notin BadAddrs => op.addr \in DOMAIN Pool(b) /\ Pool(b)[op.addr] = Weight(w)
      <4>1. PICK addr : addr = op.addr
        OBVIOUS
      <4>2. /\ IsBackendList(bs) /\ (\A i \in DOMAIN bs : bs[i].addr # addr)
            /\ b = Append(bs, [addr |-> addr, weight |-> w])
        BY <1>2, <2>4, <2>5, <4>1
      <4>. HIDE DEF bs, op, w
      <4>3. IsBackendList(b) /\ OneBackend(addr, bs, b)
        BY <4>2, PoolAdd
      <4>4. addr \notin BadAddrs => addr \in DOMAIN Pool(b) /\ Pool(b)[addr] = Weight(w)
        BY <4>2, PoolAdd
      <4>. QED BY <4>1, <4>3, <4>4
    <3>. HIDE DEF w
    <3>. QED BY <1>1, <2>1, <2>3, <2>5, <3>1, EditBackends DEF Plain
  <2>. HIDE DEF bs, op, w
  <2>. QED BY <1>3, <2>2, <2>5
<1>5. CASE DeleteBackendFromRoute(a)
  <2>1. op.kind = "deleteBackend"
    BY <1>5 DEF DeleteBackendFromRoute, Applying
  <2>2. UNCHANGED lbVars \/ (Exists(a) /\ CommitBackends(a, Without(bs, op.addr)))
    BY <1>5 DEF DeleteBackendFromRoute, CommitIf
  <2>3. ASSUME Exists(a), NEW b, b = Without(bs, op.addr)
        PROVE  Edit(a, [Listed(a) EXCEPT ![op.index + 1].backends = b])
    <3>1. IsBackendList(b) /\ OneBackend(op.addr, bs, b) /\ op.addr \notin DOMAIN Pool(b)
      BY <1>2, <2>3, PoolDelete
    <3>. QED BY <1>1, <2>1, <2>3, <3>1, EditBackends
  <2>. HIDE DEF bs, op
  <2>. QED BY <1>3, <2>2, <2>3
<1>6. CASE UpdateBackendWeightInRoute(a)
  <2>. DEFINE m == Min(Positions(a))
  <2>1. op.kind = "updateBackend"
    BY <1>6 DEF UpdateBackendWeightInRoute, Applying
  <2>2. \/ UNCHANGED lbVars
        \/ /\ Exists(a) /\ op.weight > 0 /\ Positions(a) # {}
           /\ CommitBackends(a, [bs EXCEPT ![m].weight = op.weight])
    BY <1>6 DEF UpdateBackendWeightInRoute, CommitIf
  <2>3. ASSUME Exists(a), op.weight > 0, Positions(a) # {},
               NEW b, b = [bs EXCEPT ![m].weight = op.weight]
        PROVE  Edit(a, [Listed(a) EXCEPT ![op.index + 1].backends = b])
    <3>1. DOMAIN bs = 1..Len(bs) /\ Len(bs) \in Nat
      BY <1>2, <2>3, LenProperties DEF IsBackendList
    <3>2. Positions(a) \in SUBSET Nat /\ Positions(a) \subseteq 1..Len(bs)
      BY <3>1 DEF Positions
    <3>3. m \in Positions(a)
      BY <2>3, <3>2, MinIsLeast
    <3>4. m \in DOMAIN bs /\ bs[m].addr = op.addr
      BY <3>3 DEF Positions
    <3>. HIDE DEF m
    <3>5. IsBackendList(b) /\ OneBackend(op.addr, bs, b)
      BY <1>2, <2>3, <3>4, PoolUpdate
    <3>6. ASSUME Plain(a) PROVE Pool(b)[op.addr] = op.weight
      <4>1. Cardinality(Positions(a)) = 1 /\ op.addr \notin BadAddrs
        BY <2>1, <3>6 DEF Plain
      <4>2. IsFiniteSet(Positions(a))
        <5>1. IsFiniteSet(1..Len(bs))
          BY <3>1, FS_Interval
        <5>. QED BY <3>2, <5>1, FS_Subset
      <4>3. PICK x : Positions(a) = {x}
        BY <4>1, <4>2, FS_Singleton
      <4>4. \A j \in DOMAIN bs : bs[j].addr = bs[m].addr => j = m
        BY <3>3, <3>4, <4>3 DEF Positions
      <4>5. Pool(b)[bs[m].addr] = Weight(op.weight)
        <5>1. bs[m].addr \notin BadAddrs
          BY <3>4, <4>1
        <5>. HIDE DEF bs, op
        <5>. QED BY <1>2, <2>3, <3>4, <4>4, <5>1, PoolUpdate
      <4>. QED BY <2>3, <3>4, <4>5 DEF Weight
    <3>. QED BY <1>1, <2>1, <2>3, <3>5, <3>6, EditBackends
  <2>. HIDE DEF bs, op, m
  <2>. QED BY <1>3, <2>2, <2>3
<1>. QED BY <1>4, <1>5, <1>6

\* The handler applies its change.
Applies(a) ==
    \/ AddRoute(a) \/ DeleteRoute(a) \/ AddBackendToRoute(a)
    \/ DeleteBackendFromRoute(a) \/ UpdateBackendWeightInRoute(a)

(* Only a SIGHUP and the five changes touch configurations and routes. *)
LEMMA TableStepKinds ==
    ASSUME [Next]_vars
    PROVE  \/ UNCHANGED lbVars
           \/ \E f \in Files : Sighup(f)
           \/ \E a \in Admins : Applies(a)
<1>1. ASSUME NEW a \in Admins, Handler(a) PROVE UNCHANGED lbVars \/ Applies(a)
  BY <1>1 DEF Handler, Applies, Authenticate, addRouteHandler, deleteRouteHandler,
              addBackendHandler, deleteBackendHandler, updateBackendHandler, Refuse, Accept
<1>2. CASE \/ UNCHANGED vars
           \/ \E c \in Callers : Serve(c)
           \/ \E p \in Pages : Expire(p)
  BY <1>2 DEF vars, Serve, ServeHTTP, Answered, Expire
<1>. QED BY <1>1, <1>2 DEF Next

(* Applying a change edits the routes the handler holds, or does nothing. *)
LEMMA AppliesEdit ==
    ASSUME TableInv, NEW a \in Admins, Applies(a)
    PROVE  /\ admin[a].pc = "apply"
           /\ UNCHANGED lbVars \/ \E list : Edit(a, list) /\ Commit(a, list)
<1>1. admin[a].pc = "apply"
  BY DEF Applies, AddRoute, DeleteRoute, AddBackendToRoute, DeleteBackendFromRoute,
         UpdateBackendWeightInRoute, Applying
<1>. QED BY <1>1, EditAddRoute, EditDeleteRoute, EditBackendRequests DEF Applies

(* After a commit the heap has the list in the place of the old one. *)
LEMMA CommitHeap ==
    ASSUME TableInv, NEW a \in Admins, admin[a].pc = "apply",
           NEW list, Distinct(list), Commit(a, list)
    PROVE  /\ HeapDistinct' /\ cfg' = cfg
           /\ configs'[cfg'].routes =
                 IF admin[a].listener = cfg THEN list ELSE configs[cfg].routes
<1>. DEFINE l == admin[a].listener
            e == [configs[l] EXCEPT !.routes = list]
<1>1. IsSeq(configs) /\ l \in DOMAIN configs /\ cfg \in DOMAIN configs
  BY DEF TableInv, ConfigInv, HeapOK, AdminOK
<1>2. configs' = [configs EXCEPT ![l] = e] /\ cfg' = cfg
  BY DEF Commit, reloadConfig_unsafe
<1>3. e.routes = list
  BY <1>1 DEF TableInv, ConfigInv, HeapOK
<1>. HIDE DEF l, e
<1>4. /\ DOMAIN configs' = DOMAIN configs
      /\ \A j \in DOMAIN configs : configs'[j] = IF j = l THEN e ELSE configs[j]
  BY <1>1, <1>2, ExceptAny
<1>5. HeapDistinct'
  BY <1>3, <1>4 DEF TableInv, HeapDistinct
<1>. QED BY <1>1, <1>2, <1>3, <1>4, <1>5 DEF l

(* The table in effect is that of the list the routes were built from. *)
LEMMA TableBuilt ==
    ASSUME NEW rs, NEW list, BuiltFrom(rs, list), Distinct(list)
    PROVE  TableOf(rs) = View(list)
  BY ViewOf DEF BuiltFrom

(* The table of a file is one of those that can be loaded. *)
LEMMA FileTable ==
    ASSUME NEW f \in Files, Distinct(f.routes)
    PROVE  View(f.routes) \in Tables
<1>. DEFINE rs == [i \in DOMAIN f.routes |-> Compiled(f.routes[i])]
<1>1. ToSet(rs) = {Compiled(f.routes[i]) : i \in DOMAIN f.routes}
  BY DEF ToSet
<1>2. TableOf(rs) \in Tables
  BY DEF Tables
<1>. HIDE DEF rs
<1>. QED BY <1>1, <1>2, ViewOf

(* The rules stay distinct over a step: AddRoute refuses a route with the  *)
(* host and the path of another.                                           *)
LEMMA TableInvStep ==
    ASSUME FilesDistinct, TableInv, [Next]_vars
    PROVE  TableInv'
<1>1. ConfigInv /\ BuiltFrom(routes, configs[cfg].routes)
  BY DEF TableInv
<1>2. ConfigInv'
  BY <1>1, ConfigStep
<1>3. BuiltFrom(routes', configs'[cfg'].routes)
  BY <1>1, BuiltStep
<1>4. HeapDistinct'
  <2>1. CASE UNCHANGED lbVars
    BY <2>1 DEF TableInv, HeapDistinct, lbVars
  <2>2. ASSUME NEW f \in Files, Sighup(f) PROVE HeapDistinct'
    <3>1. IsSeq(configs) /\ configs' = Append(configs, f)
      BY <1>1, <2>2 DEF ConfigInv, HeapOK, Sighup, reloadConfig_unsafe, LoadConfig
    <3>2. DOMAIN configs' = 1..(Len(configs) + 1) /\ DOMAIN configs = 1..Len(configs)
          /\ Len(configs) \in Nat
      BY <3>1, AppendAny
    <3>3. \A i \in DOMAIN configs : configs'[i] = configs[i]
      BY <3>1, AppendAny
    <3>4. configs'[Len(configs) + 1] = f
      BY <3>1, AppendAny
    <3>. QED BY <3>2, <3>3, <3>4 DEF TableInv, HeapDistinct, FilesDistinct
  <2>3. ASSUME NEW a \in Admins, Applies(a) PROVE HeapDistinct'
    <3>1. /\ admin[a].pc = "apply"
          /\ UNCHANGED lbVars \/ \E list : Edit(a, list) /\ Commit(a, list)
      BY <2>3, AppliesEdit
    <3>2. ASSUME NEW list, Edit(a, list), Commit(a, list) PROVE HeapDistinct'
      BY <3>1, <3>2, CommitHeap DEF Edit
    <3>. QED BY <2>1, <3>1, <3>2
  <2>. QED BY <2>1, <2>2, <2>3, TableStepKinds
<1>. QED BY <1>2, <1>3, <1>4 DEF TableInv

(* Initially the rules are distinct, and the table is that of a file. *)
LEMMA TableInvInit ==
    ASSUME FilesDistinct, Init
    PROVE  TableInv /\ RT!Init
<1>1. PICK f \in Files : configs = <<f>>
  BY DEF Init
<1>2. ConfigInv /\ BuiltFrom(routes, configs[cfg].routes)
  BY InitConfig
<1>3. cfg = 1 /\ DOMAIN configs = {1} /\ configs[1] = f
  BY <1>1 DEF Init
<1>4. Distinct(f.routes)
  BY DEF FilesDistinct
<1>5. TableInv
  BY <1>2, <1>3, <1>4 DEF TableInv, HeapDistinct
<1>6. TableOf(routes) = View(f.routes)
  BY <1>2, <1>3, <1>4, TableBuilt
<1>. QED BY <1>4, <1>5, <1>6, FileTable DEF RT!Init

(* A table that changes in one entry makes a step of RouteTable. *)
LEMMA OneEntryStep ==
    ASSUME OneEntry(TableOf(routes), TableOf(routes'))
    PROVE  RT!Next \/ TableOf(routes') = TableOf(routes)
<1>. DEFINE V == TableOf(routes)
            W == TableOf(routes')
<1>0. V = [x \in DOMAIN V |-> V[x]] /\ W = [x \in DOMAIN W |-> W[x]]
  BY DEF TableOf
<1>1. PICK k : Added(k, V, W) \/ Removed(k, V, W) \/ \E addr : Changed(k, addr, V, W)
  BY DEF OneEntry
<1>2. RT!Next = (\/ W \in Tables
                 \/ \E x \in DOMAIN W : x \notin DOMAIN V /\ RT!SameBut(x, V, W)
                 \/ \E x \in DOMAIN V :
                       \/ x \notin DOMAIN W /\ RT!SameBut(x, V, W)
                       \/ /\ x \in DOMAIN W /\ RT!SameBut(x, V, W)
                          /\ \E y \in DOMAIN V[x] \cup DOMAIN W[x] : RT!SameBut(y, V[x], W[x]))
  BY DEF RT!Next, RT!Load, RT!AddRoute, RT!DeleteRoute, RT!ChangeBackend
<1>. HIDE DEF V, W
<1>3. ASSUME NEW addr, Changed(k, addr, V, W), W[k] = V[k] PROVE W = V
  BY <1>0, <1>3 DEF Changed, RT!SameBut
<1>. QED BY <1>1, <1>2, <1>3 DEF Added, Removed, Changed, V, W

(* Every step changes one entry of the table, loads a file or leaves the   *)
(* table alone.                                                            *)
LEMMA TableStep ==
    ASSUME FilesDistinct, TableInv, TableInv', [Next]_vars
    PROVE  RT!Next \/ TableOf(routes') = TableOf(routes)
<1>1. TableOf(routes) = View(configs[cfg].routes)
  BY TableBuilt DEF TableInv, HeapDistinct, ConfigInv
<1>2. TableOf(routes') = View(configs'[cfg'].routes)
  BY TableBuilt DEF TableInv, HeapDistinct, ConfigInv
<1>3. CASE UNCHANGED lbVars
  BY <1>3 DEF lbVars
<1>4. ASSUME NEW f \in Files, Sighup(f) PROVE RT!Next
  <2>1. IsSeq(configs) /\ configs' = Append(configs, f) /\ cfg' = Len(configs) + 1
    BY <1>4 DEF TableInv, ConfigInv, HeapOK, Sighup, reloadConfig_unsafe, LoadConfig
  <2>2. configs'[cfg'] = f
    BY <2>1, AppendAny
  <2>3. TableOf(routes') \in Tables
    BY <1>2, <2>2, FileTable DEF FilesDistinct
  <2>. QED BY <2>3 DEF RT!Next, RT!Load
<1>5. ASSUME NEW a \in Admins, Applies(a)
      PROVE  RT!Next \/ TableOf(routes') = TableOf(routes)
  <2>1. /\ admin[a].pc = "apply"
        /\ UNCHANGED lbVars \/ \E list : Edit(a, list) /\ Commit(a, list)
    BY <1>5, AppliesEdit
  <2>2. ASSUME NEW list, Edit(a, list), Commit(a, list)
        PROVE  RT!Next \/ TableOf(routes') = TableOf(routes)
    <3>1. configs'[cfg'].routes =
             IF admin[a].listener = cfg THEN list ELSE configs[cfg].routes
      BY <2>1, <2>2, CommitHeap DEF Edit
    <3>2. CASE admin[a].listener = cfg
      <4>1. Listed(a) = configs[cfg].routes
        BY <3>2 DEF Listed
      <4>2. OneEntry(TableOf(routes), TableOf(routes'))
        BY <1>1, <1>2, <2>2, <3>1, <3>2, <4>1 DEF Edit
      <4>. QED BY <4>2, OneEntryStep
    <3>3. CASE admin[a].listener # cfg
      BY <1>1, <1>2, <3>1, <3>3
    <3>. QED BY <3>2, <3>3
  <2>. QED BY <1>3, <2>1, <2>2
<1>. QED BY <1>3, <1>4, <1>5, TableStepKinds

(* If no file lists two routes of the same rule, the routes in effect      *)
(* implement the table an administrator has in mind, for any files,        *)
(* changes, clients and interleavings with SIGHUPs: each step loads a file *)
(* as a whole, or adds or deletes one route, or changes one backend of one *)
(* route, or leaves the table as it is; a change that goes to a            *)
(* configuration that a SIGHUP has replaced rebuilds the same table.       *)
THEOREM RoutesImplementTable ==
    ASSUME FilesDistinct
    PROVE  Spec => ImplementsRouteTable
<1>1. Init => TableInv /\ RT!Init
  BY TableInvInit
<1>2. TableInv /\ [Next]_vars => TableInv'
  BY TableInvStep
<1>3. TableInv /\ TableInv' /\ [Next]_vars => [RT!Next]_(TableOf(routes))
  BY TableStep
<1>. QED BY <1>1, <1>2, <1>3, PTL DEF Spec, ImplementsRouteTable, RT!Spec

(* If no file lists two routes of the same rule, a change the admin API    *)
(* acknowledges is in effect in the routes, with the three exceptions the  *)
(* property names, whatever other requests and SIGHUPs interleave.         *)
THEOREM AcksTakeEffect ==
    ASSUME FilesDistinct
    PROVE  Spec => AckedInEffect
<1>. DEFINE A == \A a \in Admins :
                    /\ admin[a].pc = "apply" /\ admin'[a].pc = "idle"
                    /\ version' # version
                    /\ admin[a].listener = cfg
                    /\ admin[a].op.addr \notin BadAddrs
                    /\ admin[a].op.kind = "updateBackend" => Cardinality(Positions(a)) = 1
                    => InEffect(a, TableOf(routes'))
<1>1. Init => TableInv
  BY TableInvInit
<1>2. TableInv /\ [Next]_vars => TableInv'
  BY TableInvStep
<1>3. TableInv /\ TableInv' /\ [Next]_vars => [A]_vars
  <2>. SUFFICES ASSUME TableInv, TableInv', Next,
                       NEW a \in Admins, admin[a].pc = "apply", admin'[a].pc = "idle",
                       version' # version, admin[a].listener = cfg, Plain(a)
                PROVE  InEffect(a, TableOf(routes'))
    BY DEF Plain
  <2>1. PICK b \in Admins : Applies(b)
    <3>1. ~UNCHANGED lbVars
      BY DEF lbVars
    <3>2. ASSUME NEW f \in Files, Sighup(f) PROVE FALSE
      BY <3>2 DEF Sighup
    <3>. QED BY <3>1, <3>2, TableStepKinds
  <2>2. b = a
    <3>1. admin' = [admin EXCEPT ![b] = idleAdmin]
      BY <2>1 DEF Applies, AddRoute, DeleteRoute, AddBackendToRoute, DeleteBackendFromRoute,
                  UpdateBackendWeightInRoute, Applying
    <3>. QED BY <3>1
  <2>3. PICK list : Edit(a, list) /\ Commit(a, list)
    <3>1. ~UNCHANGED lbVars
      BY DEF lbVars
    <3>. QED BY <2>1, <2>2, <3>1, AppliesEdit
  <2>4. configs'[cfg'].routes = list
    BY <2>3, CommitHeap DEF Edit
  <2>5. TableOf(routes') = View(list)
    BY <2>4, TableBuilt DEF TableInv, HeapDistinct, ConfigInv
  <2>. QED BY <2>3, <2>5 DEF Edit
<1>. QED BY <1>1, <1>2, <1>3, PTL DEF Spec, AckedInEffect
=============================================================================
