--------------------------- MODULE SelectionProofs ---------------------------
(***************************************************************************)
(* Theorems about Selection for pools of any size and weights, any number  *)
(* of concurrent callers and any width of the counters.                    *)
(***************************************************************************)
EXTENDS Selection, SequenceTheorems, WellFoundedInduction, FiniteSetTheorems, TLAPS

-----------------------------------------------------------------------------
(* Type correctness. *)

CallPCs == {"idle", "scan", "state", "body", "returned"}

\* The client of a call nobody has made.
Someone == CHOOSE cl \in Clients : TRUE

Calls == [pc : CallPCs, client : Clients \cup {Someone}, i : 0..N,
          at : Backends \cup {nil}, best : Backends \cup {nil}, min : Nat, total : Nat,
          list : Seq(Backends), up : SUBSET Backends, steady : SUBSET Backends,
          straight : BOOLEAN, seen : [Backends -> Nat]]

\* What the locals of a call say of each other.
Shape(l) ==
    /\ l.pc # "idle" => l.client \in Clients
    /\ l.pc \in {"state", "body"} => l.i < N /\ l.at \in Backends
    /\ l.pc \in {"state", "body"} /\ ~RoundRobin(l) => l.at = l.i
    /\ l.pc = "body" => l.at \in l.up
    /\ l.best # nil => l.best \in l.up
    /\ \A k \in 1..Len(l.list) : l.list[k] \in l.up
    /\ l.list # <<>> => strategy = "ip-hash" /\ ~RoundRobin(l) /\ l.client \in Clients

GlobalsOK ==
    /\ pool \in Pools
    /\ healthy \in [Backends -> BOOLEAN] /\ open \in [Backends -> BOOLEAN]
    /\ connections \in [Backends -> Counts]
    /\ current \in 0..(UintMod - 1)
    /\ currentWeight \in [Backends -> Int]
    /\ lock \in Callers \cup {nil}

TypeInv ==
    /\ GlobalsOK
    /\ call \in [Callers -> Calls]
    /\ \A c \in Callers : Shape(call[c])

(* The pool has a size, and its backends weights. *)
LEMMA PoolFacts ==
    ASSUME pool \in Pools
    PROVE  /\ N \in Nat
           /\ \A b \in Backends : b \in Nat /\ b # nil /\ Weight(b) \in Nat /\ Weight(b) > 0
<1>1. N \in Nat /\ 0..(N - 1) \subseteq DOMAIN CfgWeight
  BY SelectionAssumption DEF N
<1>2. ASSUME NEW b \in Backends PROVE b \in Nat /\ b # nil /\ Weight(b) \in Nat /\ Weight(b) > 0
  <2>1. b \in Nat /\ b \in DOMAIN CfgWeight
    BY <1>1 DEF Backends
  <2>2. CfgWeight[b] \in Int
    BY <2>1, SelectionAssumption
  <2>. QED BY <2>1, <2>2 DEF nil, Weight
<1>. QED BY <1>1, <1>2

(* The counter that wraps stays in its range; the index of a visit is one  *)
(* of a backend.                                                           *)
LEMMA Remainders ==
    ASSUME NEW x \in Nat, NEW m \in Nat, m > 0
    PROVE  x % m \in 0..(m - 1)
OBVIOUS

(* What least connections reads is a natural number, and at most 2^64 - 1   *)
(* where it does not go through a float64.                                 *)
LEMMA ReadOK ==
    ASSUME GlobalsOK, NEW b \in Backends
    PROVE  Read(b) \in Nat /\ (strategy = "least-connections" => Read(b) <= UintMod - 1)
<1>1. connections[b] \in Counts /\ UintMod \in Nat /\ MaxConns \in Nat /\ 2 * MaxConns < UintMod
  BY SelectionAssumption DEF GlobalsOK
<1>2. connections[b] \in Nat /\ connections[b] <= UintMod - 1
  BY <1>1 DEF Counts
<1>. QED BY <1>1, <1>2 DEF Read

(* A new call. *)
LEMMA NewCallOK ==
    ASSUME pool \in Pools, NEW client \in Clients \cup {Someone}, NEW pc \in CallPCs,
           pc # "idle" => client \in Clients,
           NEW steady \in SUBSET Backends, NEW m, m = NewCall(client, pc, steady)
    PROVE  /\ m \in Calls
           /\ m.pc = pc /\ m.client = client /\ m.i = 0 /\ m.at = nil /\ m.best = nil
           /\ m.min = UintMod - 1 /\ m.list = <<>> /\ m.up = {} /\ m.steady = steady
           /\ m.straight /\ m.total = 0
<1>1. N \in Nat
  BY PoolFacts
<1>2. UintMod - 1 \in Nat
  BY SelectionAssumption
<1>3. [b \in Backends |-> 0] \in [Backends -> Nat] /\ <<>> \in Seq(Backends)
  OBVIOUS
<1>4. m \in Calls
  BY <1>1, <1>2, <1>3 DEF NewCall, Calls, Someone
<1>. QED BY <1>4 DEF NewCall

-----------------------------------------------------------------------------
(* What each step does to the locals of a call.  l is the call before the  *)
(* step, m the call after it.                                              *)

\* The locals a visit that skips its backend leaves alone.
Kept(l, m) ==
    /\ m.client = l.client /\ m.best = l.best /\ m.min = l.min /\ m.total = l.total
    /\ m.list = l.list /\ m.steady = l.steady /\ m.seen = l.seen

\* The backend a visit reads.
Target(l) == IF RoundRobin(l) THEN NextCurrent % N ELSE l.i

Starts(l, m) ==
    /\ l.pc = "idle"
    /\ \E cl \in Clients :
          m = NewCall(cl, "scan", {b \in Backends : healthy[b] /\ ~open[b]})

Visits(l, m) ==
    /\ l.pc = "scan" /\ l.i < N /\ Target(l) \in Backends
    /\ Kept(l, m) /\ m.up = l.up
    /\ m.straight => l.straight /\ (RoundRobin(l) => NextCurrent # 0 \/ UintMod % N = 0)
    /\ \/ healthy[Target(l)] /\ m.pc = "state" /\ m.at = Target(l) /\ m.i = l.i
       \/ ~healthy[Target(l)] /\ m.pc = "scan" /\ m.at = nil /\ m.i = l.i + 1

Reads(l, m) ==
    /\ l.pc = "state" /\ Kept(l, m) /\ m.straight = l.straight
    /\ \/ open[l.at] /\ m.pc = "scan" /\ m.at = nil /\ m.i = l.i + 1 /\ m.up = l.up
       \/ ~open[l.at] /\ m.pc = "body" /\ m.at = l.at /\ m.i = l.i /\ m.up = l.up \cup {l.at}

\* The strategy's loop body.
Considers(l, m) ==
    /\ l.pc = "body"
    /\ m.client = l.client /\ m.up = l.up /\ m.steady = l.steady /\ m.straight = l.straight
    /\ RoundRobin(l) => /\ m.pc = "returned" /\ m.i = l.i /\ m.at = l.at
                        /\ m.best = l.at /\ m.list = l.list
    /\ ~RoundRobin(l) => m.pc = "scan" /\ m.i = l.i + 1 /\ m.at = nil
    /\ strategy = "ip-hash" /\ ~RoundRobin(l) =>
          m.best = l.best /\ m.list = Append(l.list, l.at)
    /\ strategy \in {"least-connections", "weighted-least-connections"} =>
          /\ m.list = l.list /\ m.seen = [l.seen EXCEPT ![l.at] = Read(l.at)]
          /\ IF Fewer(l, l.at) THEN m.best = l.at /\ m.min = Read(l.at)
                               ELSE m.best = l.best /\ m.min = l.min
    /\ strategy = "weighted-round-robin" =>
          /\ m.list = l.list /\ m.best \in {l.best, l.at} /\ m.best # nil
          /\ m.total = l.total + Weight(l.at)
          /\ m.best = l.at <=> \/ l.best \in {nil, l.at}
                              \/ currentWeight[l.at] + Weight(l.at) > currentWeight[l.best]

Finishes(l, m) ==
    /\ l.pc = "scan" /\ l.i = N
    /\ m.pc = "returned" /\ m.best = Result(l)
    /\ m.client = l.client /\ m.i = l.i /\ m.at = l.at /\ m.min = l.min /\ m.list = l.list
    /\ m.up = l.up /\ m.steady = l.steady /\ m.straight = l.straight /\ m.seen = l.seen

\* The call makes no step; the step of another or of the rest of the program
\* may advance the counter or make a backend unavailable.
Ages(l, m) ==
    /\ m.client = l.client /\ m.best = l.best /\ m.min = l.min /\ m.list = l.list
    /\ m.seen = l.seen /\ m.total = l.total
    /\ m.pc = l.pc /\ m.i = l.i /\ m.at = l.at /\ m.up = l.up
    /\ m.straight => l.straight /\ current' = current
    /\ \A b \in m.steady : b \in l.steady /\ (healthy[b] => healthy'[b]) /\ (open'[b] => open[b])

(* A visit that skips its backend. *)
LEMMA SkipEffect ==
    ASSUME N \in Nat, NEW l \in Calls, l.i < N, NEW m, m = Skip(l)
    PROVE  /\ m \in Calls /\ Kept(l, m) /\ m.up = l.up /\ m.straight = l.straight
           /\ m.pc = "scan" /\ m.at = nil /\ m.i = l.i + 1
<1>1. l.i \in 0..N
  BY DEF Calls
<1>2. PICK j \in 0..N : j = l.i + 1
  BY <1>1
<1>3. m = [l EXCEPT !.pc = "scan", !.i = j, !.at = nil]
  BY <1>2 DEF Skip
<1>4. m \in Calls
  BY <1>3 DEF Calls, CallPCs
<1>5. Kept(l, m) /\ m.up = l.up /\ m.straight = l.straight /\ m.pc = "scan" /\ m.at = nil /\ m.i = j
  BY <1>3 DEF Calls, Kept
<1>. QED BY <1>2, <1>4, <1>5

(* A visit, and the others it disturbs. *)
LEMMA VisitEffect ==
    ASSUME TypeInv, NEW c \in Callers, Visit(c), NEW d \in Callers,
           NEW l, l = call[d], NEW m, m = call'[d]
    PROVE  /\ m \in Calls
           /\ IF d = c THEN Visits(l, m) ELSE Ages(l, m)
<1>1. /\ l \in Calls /\ N \in Nat /\ UintMod \in Nat /\ UintMod > 1 /\ current \in Nat
      /\ call[c] \in Calls
  BY PoolFacts, SelectionAssumption DEF TypeInv, GlobalsOK
<1>4. healthy' = healthy /\ open' = open
  BY DEF Visit, poolVars
<1>2. CASE d = c
  <2>. DEFINE b == Target(l)
              s == l.straight /\ ~(RoundRobin(l) /\ NextCurrent = 0 /\ UintMod % N # 0)
              v == [l EXCEPT !.at = b, !.pc = "state", !.straight = s]
  <2>1. l.pc = "scan" /\ l.i # N /\ m = IF healthy[b] THEN v ELSE Skip(v)
    BY <1>2 DEF Visit, ScanOver, Target
  <2>2. l.i \in 0..N /\ l.i < N
    BY <1>1, <2>1 DEF Calls
  <2>3. b \in Backends
    <3>1. NextCurrent \in Nat
      BY <1>1, Remainders DEF NextCurrent
    <3>2. NextCurrent % N \in 0..(N - 1)
      BY <1>1, <2>2, <3>1, Remainders
    <3>. QED BY <1>1, <2>2, <3>2 DEF Target, Backends
  <2>4. s \in BOOLEAN
    BY <1>1 DEF Calls
  <2>5. s => l.straight /\ (RoundRobin(l) => NextCurrent # 0 \/ UintMod % N = 0)
    OBVIOUS
  <2>. HIDE DEF b, s
  <2>6. /\ v \in Calls /\ Kept(l, v) /\ v.up = l.up /\ v.straight = s /\ v.at = b /\ v.pc = "state"
        /\ v.i = l.i
    BY <1>1, <2>3, <2>4 DEF Calls, CallPCs, Kept
  <2>7. CASE healthy[b]
    <3>1. m = v
      BY <2>1, <2>7
    <3>. QED BY <1>2, <2>1, <2>2, <2>3, <2>5, <2>6, <2>7, <3>1 DEF Visits, b
  <2>8. CASE ~healthy[b]
    <3>1. m = Skip(v)
      BY <2>1, <2>8
    <3>. HIDE DEF v
    <3>2. m \in Calls
      BY <1>1, <2>2, <2>6, <3>1, SkipEffect
    <3>3. /\ Kept(v, m) /\ m.up = v.up /\ m.straight = v.straight
          /\ m.pc = "scan" /\ m.at = nil /\ m.i = v.i + 1
      BY <1>1, <2>2, <2>6, <3>1, SkipEffect
    <3>4. Kept(l, m)
      BY <2>6, <3>3 DEF Kept
    <3>. QED BY <1>2, <2>1, <2>2, <2>3, <2>5, <2>6, <2>8, <3>2, <3>3, <3>4 DEF Visits, b
  <2>. QED BY <2>7, <2>8
<1>3. CASE d # c
  <2>1. m = [l EXCEPT !.straight = @ /\ ~RoundRobin(call[c])]
    BY <1>3 DEF Visit
  <2>2. CASE RoundRobin(call[c])
    <3>1. m = [l EXCEPT !.straight = FALSE]
      BY <2>1, <2>2
    <3>2. m \in Calls /\ ~m.straight
      BY <1>1, <3>1 DEF Calls
    <3>. QED BY <1>1, <1>3, <3>1, <3>2, <1>4 DEF Ages, Calls
  <2>3. CASE ~RoundRobin(call[c])
    <3>1. l.straight \in BOOLEAN
      BY <1>1 DEF Calls
    <3>2. (l.straight /\ ~RoundRobin(call[c])) = l.straight
      BY <2>3, <3>1, Zenon
    <3>3. m = [l EXCEPT !.straight = l.straight]
      BY <2>1, <3>2
    <3>4. m = l
      BY <1>1, <3>3 DEF Calls
    <3>5. current' = current
      BY <2>3 DEF Visit
    <3>. QED BY <1>1, <1>3, <1>4, <3>4, <3>5 DEF Ages
  <2>. QED BY <2>2, <2>3
<1>. QED BY <1>2, <1>3

(* A read of the breaker's state. *)
LEMMA ReadEffect ==
    ASSUME TypeInv, NEW c \in Callers, ReadState(c), NEW l, l = call[c], NEW m, m = call'[c]
    PROVE  m \in Calls /\ Reads(l, m)
<1>1. /\ l \in Calls /\ N \in Nat /\ l.pc = "state" /\ l.i < N /\ l.at \in Backends
      /\ call \in [Callers -> Calls]
  BY PoolFacts DEF TypeInv, GlobalsOK, Shape, ReadState
<1>2. CASE open[l.at]
  <2>1. m = Skip(l)
    BY <1>1, <1>2 DEF ReadState, Update
  <2>2. /\ m \in Calls /\ Kept(l, m) /\ m.up = l.up /\ m.straight = l.straight
        /\ m.pc = "scan" /\ m.at = nil /\ m.i = l.i + 1
    BY <1>1, <2>1, SkipEffect
  <2>. QED BY <1>1, <1>2, <2>2 DEF Reads
<1>3. CASE ~open[l.at]
  <2>1. m = [l EXCEPT !.pc = "body", !.up = @ \cup {l.at}]
    BY <1>1, <1>3 DEF ReadState, Update
  <2>a. PICK u \in SUBSET Backends : u = l.up \cup {l.at}
    BY <1>1 DEF Calls
  <2>b. m = [l EXCEPT !.pc = "body", !.up = u]
    BY <2>1, <2>a
  <2>2. m \in Calls
    BY <1>1, <2>b DEF Calls, CallPCs
  <2>3. /\ Kept(l, m) /\ m.straight = l.straight /\ m.pc = "body" /\ m.at = l.at /\ m.i = l.i
        /\ m.up = l.up \cup {l.at}
    BY <1>1, <2>1 DEF Calls, Kept
  <2>. QED BY <1>1, <1>3, <2>2, <2>3 DEF Reads
<1>. QED BY <1>2, <1>3

(* The loop body of each strategy. *)
LEMMA ConsiderEffect ==
    ASSUME TypeInv, NEW c \in Callers, LoopBody(c), NEW l, l = call[c], NEW m, m = call'[c]
    PROVE  m \in Calls /\ Considers(l, m)
<1>1. /\ l \in Calls /\ N \in Nat /\ l.pc = "body" /\ l.i < N /\ l.at \in Backends
      /\ call \in [Callers -> Calls]
  BY PoolFacts DEF TypeInv, GlobalsOK, Shape, LoopBody
<1>2. m = Consider(l)
  BY <1>1 DEF LoopBody, Update
<1>3. PICK n : n = Skip(l)
  OBVIOUS
<1>4. /\ n \in Calls /\ Kept(l, n) /\ n.up = l.up /\ n.straight = l.straight
      /\ n.pc = "scan" /\ n.at = nil /\ n.i = l.i + 1
  BY <1>1, <1>3, SkipEffect
<1>5. CASE RoundRobin(l)
  <2>1. m = [l EXCEPT !.pc = "returned", !.best = l.at]
    BY <1>2, <1>5 DEF Consider, RoundRobin
  <2>. QED BY <1>1, <1>5, <2>1 DEF Calls, CallPCs, Considers, RoundRobin
<1>6. CASE strategy = "ip-hash" /\ ~RoundRobin(l)
  <2>1. m = [n EXCEPT !.list = Append(n.list, l.at)]
    BY <1>2, <1>3, <1>6 DEF Consider, RoundRobin
  <2>2. Append(n.list, l.at) \in Seq(Backends)
    BY <1>1, <1>4 DEF Calls
  <2>3. m \in Calls
    BY <1>4, <2>1, <2>2 DEF Calls
  <2>4. /\ m.list = Append(l.list, l.at) /\ m.client = l.client /\ m.up = l.up
        /\ m.steady = l.steady /\ m.straight = l.straight /\ m.best = l.best
        /\ m.pc = "scan" /\ m.i = l.i + 1 /\ m.at = nil
    BY <1>4, <2>1 DEF Calls, Kept
  <2>. QED BY <1>1, <1>6, <2>3, <2>4 DEF Considers
<1>7. CASE strategy \in {"least-connections", "weighted-least-connections"}
  <2>1. PICK k \in Nat : k = Read(l.at)
    BY <1>1, ReadOK DEF TypeInv
  <2>2. PICK r : r = [n EXCEPT !.seen[l.at] = Read(l.at)]
    OBVIOUS
  <2>3. r = [n EXCEPT !.seen = [n.seen EXCEPT ![l.at] = k]]
    BY <2>1, <2>2
  <2>4. [n.seen EXCEPT ![l.at] = k] \in [Backends -> Nat]
    BY <1>4 DEF Calls
  <2>5. /\ r \in Calls /\ r.seen = [l.seen EXCEPT ![l.at] = k]
        /\ r.client = l.client /\ r.up = l.up /\ r.steady = l.steady
        /\ r.straight = l.straight /\ r.best = l.best /\ r.min = l.min /\ r.list = l.list
        /\ r.pc = "scan" /\ r.i = l.i + 1 /\ r.at = nil
    BY <1>4, <2>3, <2>4 DEF Calls, Kept
  <2>6. ~RoundRobin(l)
    BY <1>7 DEF RoundRobin
  <2>7. m = IF Fewer(l, l.at) THEN [r EXCEPT !.best = l.at, !.min = Read(l.at)] ELSE r
    BY <1>2, <1>3, <1>7, <2>2, <2>6 DEF Consider
  <2>8. CASE ~Fewer(l, l.at)
    <3>1. m = r
      BY <2>7, <2>8
    <3>. QED BY <1>1, <1>7, <2>1, <2>5, <2>6, <2>8, <3>1 DEF Considers
  <2>9. CASE Fewer(l, l.at)
    <3>1. m = [r EXCEPT !.best = l.at, !.min = k]
      BY <2>1, <2>7, <2>9
    <3>2. m \in Calls
      BY <1>1, <2>5, <3>1 DEF Calls
    <3>3. /\ m.seen = r.seen /\ m.client = r.client /\ m.up = r.up /\ m.steady = r.steady
          /\ m.straight = r.straight /\ m.list = r.list /\ m.best = l.at /\ m.min = k
          /\ m.pc = r.pc /\ m.i = r.i /\ m.at = r.at
      BY <2>5, <3>1 DEF Calls
    <3>. QED BY <1>1, <1>7, <2>1, <2>5, <2>6, <2>9, <3>2, <3>3 DEF Considers
  <2>. QED BY <2>8, <2>9
<1>8. CASE strategy = "weighted-round-robin"
  <2>1. ~RoundRobin(l)
    BY <1>8 DEF RoundRobin
  <2>2. Weight(l.at) \in Nat /\ l.at # nil
    BY <1>1, PoolFacts DEF TypeInv, GlobalsOK
  <2>3. PICK s : s = [n EXCEPT !.total = @ + Weight(l.at)]
    OBVIOUS
  <2>a. PICK t \in Nat : t = n.total + Weight(l.at)
    BY <1>4, <2>2 DEF Calls
  <2>b. s = [n EXCEPT !.total = t]
    BY <2>3, <2>a
  <2>4. /\ s \in Calls
        /\ s.client = l.client /\ s.up = l.up /\ s.steady = l.steady
        /\ s.straight = l.straight /\ s.best = l.best /\ s.list = l.list
        /\ s.pc = "scan" /\ s.i = l.i + 1 /\ s.at = nil /\ s.total = l.total + Weight(l.at)
    BY <1>4, <2>a, <2>b DEF Calls, Kept
  <2>. DEFINE wins == \/ l.best = nil
                      \/ currentWeight[l.at] + Weight(l.at) > currentWeight[l.best]
  <2>5. m = IF wins THEN [s EXCEPT !.best = l.at] ELSE s
    BY <1>2, <1>3, <1>8, <2>1, <2>3 DEF Consider
  <2>6. CASE wins
    <3>0. m = [s EXCEPT !.best = l.at]
      BY <2>5, <2>6
    <3>1. /\ m \in Calls /\ m.best = l.at
          /\ m.client = s.client /\ m.up = s.up /\ m.steady = s.steady
          /\ m.straight = s.straight /\ m.list = s.list
          /\ m.pc = s.pc /\ m.i = s.i /\ m.at = s.at /\ m.total = s.total
      BY <1>1, <2>4, <3>0 DEF Calls
    <3>. QED BY <1>1, <1>8, <2>1, <2>2, <2>4, <2>6, <3>1 DEF Considers
  <2>7. CASE ~wins
    <3>1. m = s
      BY <2>5, <2>7
    <3>. QED BY <1>1, <1>8, <2>1, <2>4, <2>7, <3>1 DEF Considers
  <2>. QED BY <2>6, <2>7
<1>. QED BY <1>5, <1>6, <1>7, <1>8 DEF RoundRobin

(* What a call that has visited every backend returns.  ip-hash takes the  *)
(* member of the list of available backends that the address hashes to.    *)
LEMMA ResultOK ==
    ASSUME pool \in Pools, NEW l \in Calls, Shape(l)
    PROVE  /\ Result(l) \in Backends \cup {nil}
           /\ Result(l) # nil => Result(l) \in l.up
           /\ strategy = "ip-hash" /\ l.list # <<>> =>
                /\ Len(l.list) \in Nat \ {0} /\ Hash[l.client.ip] \in Nat
                /\ Result(l) = l.list[1 + (Hash[l.client.ip] % Len(l.list))]
                /\ Result(l) # nil
           /\ ~(strategy = "ip-hash" /\ l.list # <<>>) => Result(l) = l.best
<1>1. CASE strategy = "ip-hash" /\ l.list # <<>>
  <2>1. l.client \in Clients /\ l.client.ip # NoIP
    BY <1>1 DEF Shape, RoundRobin
  <2>2. PICK h \in Nat : h = Hash[l.client.ip]
    BY <2>1, SelectionAssumption DEF Clients
  <2>3. PICK k \in Nat : k = Len(l.list) /\ k > 0
    BY <1>1 DEF Calls
  <2>4. 1 + (h % k) \in 1..k
    BY <2>2, <2>3
  <2>5. l.list[1 + (h % k)] \in Backends /\ l.list[1 + (h % k)] \in l.up
    BY <2>3, <2>4 DEF Calls, Shape
  <2>6. Result(l) = l.list[1 + (h % k)]
    BY <1>1, <2>2, <2>3 DEF Result, HashIP
  <2>7. Result(l) # nil
    BY <2>5, <2>6, PoolFacts
  <2>8. Hash[l.client.ip] \in Nat /\ Len(l.list) \in Nat \ {0}
    BY <2>2, <2>3
  <2>. QED BY <1>1, <2>2, <2>3, <2>5, <2>6, <2>7, <2>8
<1>2. CASE ~(strategy = "ip-hash" /\ l.list # <<>>)
  <2>1. Result(l) = l.best
    BY <1>2 DEF Result
  <2>. QED BY <1>2, <2>1 DEF Shape, Calls
<1>. QED BY <1>1, <1>2

(* The end of a call that has visited every backend. *)
LEMMA FinishEffect ==
    ASSUME TypeInv, NEW c \in Callers, Finish(c), NEW l, l = call[c], NEW m, m = call'[c]
    PROVE  m \in Calls /\ Finishes(l, m)
<1>1. /\ l \in Calls /\ l.pc = "scan" /\ l.i = N /\ Shape(l)
      /\ call \in [Callers -> Calls] /\ pool \in Pools
  BY DEF TypeInv, GlobalsOK, Finish, ScanOver
<1>2. m = [l EXCEPT !.pc = "returned", !.best = Result(l)]
  BY <1>1 DEF Finish, Update
<1>3. PICK r \in Backends \cup {nil} : r = Result(l)
  BY <1>1, ResultOK
<1>. QED BY <1>1, <1>2, <1>3 DEF Calls, CallPCs, Finishes

(* A call that is not being made. *)
LEMMA IdleOK ==
    ASSUME pool \in Pools, NEW m, m = Idle
    PROVE  /\ m \in Calls /\ m.pc = "idle" /\ m.best = nil /\ m.min = UintMod - 1
           /\ m.list = <<>> /\ m.up = {} /\ m.steady = {}
<1>1. m = NewCall(Someone, "idle", {})
  BY DEF Idle, Someone
<1>2. Someone \in Clients \cup {Someone} /\ "idle" \in CallPCs /\ {} \in SUBSET Backends
  BY DEF CallPCs
<1>. HIDE DEF Someone
<1>. QED BY <1>1, <1>2, NewCallOK

\* Where a step of the program takes one call.
CallStep(l, m) ==
    \/ /\ Starts(l, m) \/ Visits(l, m) \/ Reads(l, m) \/ Considers(l, m) \/ Finishes(l, m)
          \/ m = Idle
       /\ healthy' = healthy /\ open' = open
       /\ current' = IF l.pc = "scan" /\ l.i < N /\ RoundRobin(l) THEN NextCurrent ELSE current
    \/ Ages(l, m)

(* Every step of the program is one of these for every call. *)
LEMMA StepKinds ==
    ASSUME TypeInv, [Next]_vars, NEW d \in Callers, NEW l, l = call[d], NEW m, m = call'[d]
    PROVE  m \in Calls /\ CallStep(l, m)
<1>0. l \in Calls /\ pool \in Pools /\ call \in [Callers -> Calls] /\ N \in Nat
  BY PoolFacts DEF TypeInv, GlobalsOK
<1>1. ASSUME call' = call, healthy' = healthy, open' = open, current' = current
      PROVE  m \in Calls /\ CallStep(l, m)
  BY <1>0, <1>1 DEF CallStep, Ages
<1>2. ASSUME NEW c \in Callers, NEW f, call' = [call EXCEPT ![c] = f], d # c,
             healthy' = healthy, open' = open, current' = current
      PROVE  m \in Calls /\ CallStep(l, m)
  <2>1. m = l
    BY <1>0, <1>2
  <2>. QED BY <1>0, <1>2, <2>1 DEF CallStep, Ages
<1>3. CASE UNCHANGED vars
  BY <1>1, <1>3 DEF vars, poolVars
<1>4. ASSUME NEW c \in Callers, NEW cl \in Clients, Call(c, cl)
      PROVE  m \in Calls /\ CallStep(l, m)
  <2>. DEFINE st == {b \in Backends : healthy[b] /\ ~open[b]}
              f  == NewCall(cl, "scan", st)
  <2>1. call' = [call EXCEPT ![c] = f] /\ healthy' = healthy /\ open' = open /\ current' = current
    BY <1>4 DEF Call, Update, poolVars
  <2>2. CASE d # c
    BY <1>2, <2>1, <2>2
  <2>3. CASE d = c
    <3>1. m = NewCall(cl, "scan", st) /\ l.pc = "idle"
      BY <1>0, <1>4, <2>1, <2>3 DEF Call
    <3>2. Starts(l, m)
      BY <3>1 DEF Starts
    <3>3. st \in SUBSET Backends /\ "scan" \in CallPCs /\ cl \in Clients \cup {Someone}
      BY DEF CallPCs
    <3>. HIDE DEF st
    <3>4. m \in Calls
      BY <1>0, <3>1, <3>3, NewCallOK
    <3>. QED BY <2>1, <3>1, <3>2, <3>4 DEF CallStep
  <2>. QED BY <2>2, <2>3
<1>5. ASSUME NEW c \in Callers, Visit(c)
      PROVE  m \in Calls /\ CallStep(l, m)
  <2>1. m \in Calls /\ (IF d = c THEN Visits(l, m) ELSE Ages(l, m))
    BY <1>5, VisitEffect
  <2>2. /\ healthy' = healthy /\ open' = open /\ call[c].pc = "scan"
        /\ current' = IF RoundRobin(call[c]) THEN NextCurrent ELSE current
    BY <1>5 DEF Visit, poolVars
  <2>. QED BY <2>1, <2>2 DEF CallStep, Visits
<1>6. ASSUME NEW c \in Callers, ReadState(c)
      PROVE  m \in Calls /\ CallStep(l, m)
  <2>1. /\ \E f : call' = [call EXCEPT ![c] = f]
        /\ healthy' = healthy /\ open' = open /\ current' = current
    BY <1>6 DEF ReadState, Update, poolVars
  <2>2. CASE d # c
    BY <1>2, <2>1, <2>2
  <2>3. CASE d = c
    <3>1. m \in Calls /\ Reads(l, m)
      BY <1>6, <2>3, ReadEffect
    <3>. QED BY <2>1, <3>1 DEF CallStep, Reads
  <2>. QED BY <2>2, <2>3
<1>7. ASSUME NEW c \in Callers, LoopBody(c)
      PROVE  m \in Calls /\ CallStep(l, m)
  <2>1. /\ \E f : call' = [call EXCEPT ![c] = f]
        /\ healthy' = healthy /\ open' = open /\ current' = current
    BY <1>7 DEF LoopBody, Update, poolVars
  <2>2. CASE d # c
    BY <1>2, <2>1, <2>2
  <2>3. CASE d = c
    <3>1. m \in Calls /\ Considers(l, m)
      BY <1>7, <2>3, ConsiderEffect
    <3>. QED BY <2>1, <3>1 DEF CallStep, Considers
  <2>. QED BY <2>2, <2>3
<1>8. ASSUME NEW c \in Callers, Finish(c)
      PROVE  m \in Calls /\ CallStep(l, m)
  <2>1. /\ \E f : call' = [call EXCEPT ![c] = f]
        /\ healthy' = healthy /\ open' = open /\ current' = current
    BY <1>8 DEF Finish, Update, poolVars
  <2>2. CASE d # c
    BY <1>2, <2>1, <2>2
  <2>3. CASE d = c
    <3>1. m \in Calls /\ Finishes(l, m)
      BY <1>8, <2>3, FinishEffect
    <3>2. ~(l.i < N)
      BY <1>0, <3>1 DEF Finishes
    <3>. QED BY <2>1, <3>1, <3>2 DEF CallStep
  <2>. QED BY <2>2, <2>3
<1>9. ASSUME NEW c \in Callers, Return(c)
      PROVE  m \in Calls /\ CallStep(l, m)
  <2>1. /\ call' = [call EXCEPT ![c] = Idle]
        /\ healthy' = healthy /\ open' = open /\ current' = current
    BY <1>9 DEF Return, Update, poolVars
  <2>2. CASE d # c
    BY <1>2, <2>1, <2>2
  <2>3. CASE d = c
    <3>1. m = Idle /\ l.pc = "returned"
      BY <1>0, <1>9, <2>1, <2>3 DEF Return
    <3>2. m \in Calls
      BY <1>0, <3>1, IdleOK
    <3>. QED BY <2>1, <3>1, <3>2 DEF CallStep
  <2>. QED BY <2>2, <2>3
<1>10. ASSUME NEW b \in Backends, current' = current, call' = call \/ Unsteady(b),
              \A a \in Backends : \/ (healthy[a] => healthy'[a]) /\ (open'[a] => open[a])
                                  \/ a = b /\ Unsteady(b)
       PROVE  m \in Calls /\ CallStep(l, m)
  <2>1. CASE call' = call
    <3>1. m = l /\ l.steady \subseteq Backends
      BY <1>0, <2>1 DEF Calls
    <3>2. ASSUME NEW a \in l.steady, a = b, Unsteady(b) PROVE FALSE
      <4>0. m = [l EXCEPT !.steady = l.steady \ {b}]
        BY <3>2 DEF Unsteady
      <4>1. m.steady = l.steady \ {b}
        BY <1>0, <4>0 DEF Calls
      <4>. QED BY <3>1, <3>2, <4>1
    <3>3. Ages(l, m)
      BY <1>10, <3>1, <3>2 DEF Ages
    <3>. QED BY <1>0, <3>1, <3>3 DEF CallStep
  <2>2. CASE Unsteady(b)
    <3>1. m = [l EXCEPT !.steady = @ \ {b}]
      BY <2>2 DEF Unsteady
    <3>2. PICK st \in SUBSET Backends : st = l.steady \ {b} /\ st \subseteq l.steady
      BY <1>0 DEF Calls
    <3>3. m = [l EXCEPT !.steady = st]
      BY <3>1, <3>2
    <3>4. m \in Calls
      BY <1>0, <3>3 DEF Calls
    <3>5. m.client = l.client /\ m.best = l.best /\ m.min = l.min /\ m.list = l.list
          /\ m.seen = l.seen /\ m.total = l.total /\ m.pc = l.pc /\ m.i = l.i /\ m.at = l.at
          /\ m.up = l.up /\ m.straight = l.straight /\ m.steady = st
      BY <1>0, <3>3 DEF Calls
    <3>6. Ages(l, m)
      BY <1>10, <3>2, <3>5 DEF Ages
    <3>. QED BY <3>4, <3>6 DEF CallStep
  <2>. QED BY <1>10, <2>1, <2>2
<1>11. healthy \in [Backends -> BOOLEAN] /\ open \in [Backends -> BOOLEAN]
  BY DEF TypeInv, GlobalsOK
<1>12. ASSUME NEW b \in Backends, HealthChanges(b)
       PROVE  m \in Calls /\ CallStep(l, m)
  <2>1. current' = current /\ (call' = call \/ Unsteady(b))
    BY <1>12 DEF HealthChanges
  <2>2. \A a \in Backends : \/ (healthy[a] => healthy'[a]) /\ (open'[a] => open[a])
                            \/ a = b /\ Unsteady(b)
    BY <1>11, <1>12 DEF HealthChanges
  <2>. QED BY <1>10, <2>1, <2>2
<1>13. ASSUME NEW b \in Backends, CircuitChanges(b)
       PROVE  m \in Calls /\ CallStep(l, m)
  <2>1. current' = current /\ (call' = call \/ Unsteady(b))
    BY <1>13 DEF CircuitChanges
  <2>2. \A a \in Backends : \/ (healthy[a] => healthy'[a]) /\ (open'[a] => open[a])
                            \/ a = b /\ Unsteady(b)
    BY <1>11, <1>13 DEF CircuitChanges
  <2>. QED BY <1>10, <2>1, <2>2
<1>14. ASSUME NEW b \in Backends, ConnectionsChange(b)
       PROVE  m \in Calls /\ CallStep(l, m)
  BY <1>1, <1>14 DEF ConnectionsChange
<1>. QED BY <1>3, <1>4, <1>5, <1>6, <1>7, <1>8, <1>9, <1>12, <1>13, <1>14 DEF Next

(* A step keeps the shape of a call. *)
LEMMA ShapeStep ==
    ASSUME pool \in Pools, NEW l \in Calls, NEW m \in Calls, CallStep(l, m), Shape(l)
    PROVE  Shape(m)
<1>0. N \in Nat /\ \A b \in Backends : b # nil
  BY PoolFacts
<1>1. CASE Starts(l, m)
  <2>1. PICK cl \in Clients, st \in SUBSET Backends : m = NewCall(cl, "scan", st)
    BY <1>1 DEF Starts
  <2>2. "scan" \in CallPCs /\ cl \in Clients \cup {Someone}
    BY DEF CallPCs
  <2>3. m.pc = "scan" /\ m.client = cl /\ m.best = nil /\ m.list = <<>>
    BY <2>1, <2>2, NewCallOK
  <2>. QED BY <2>3 DEF Shape
<1>2. CASE m = Idle
  <2>1. m.pc = "idle" /\ m.best = nil /\ m.list = <<>>
    BY <1>2, IdleOK
  <2>. QED BY <2>1 DEF Shape
<1>3. CASE Visits(l, m)
  <2>1. m.client = l.client /\ m.best = l.best /\ m.list = l.list /\ m.up = l.up
    BY <1>3 DEF Visits, Kept
  <2>2. RoundRobin(m) = RoundRobin(l)
    BY <2>1 DEF RoundRobin
  <2>3. m.pc = "state" => m.at = Target(l) /\ m.at \in Backends /\ m.i = l.i /\ l.i < N
    BY <1>3 DEF Visits
  <2>4. m.pc \in {"scan", "state"} /\ l.pc = "scan"
    BY <1>3 DEF Visits
  <2>. QED BY <2>1, <2>2, <2>3, <2>4 DEF Shape, Target
<1>4. CASE Reads(l, m)
  <2>1. m.client = l.client /\ m.best = l.best /\ m.list = l.list
    BY <1>4 DEF Reads, Kept
  <2>2. RoundRobin(m) = RoundRobin(l)
    BY <2>1 DEF RoundRobin
  <2>3. l.up \subseteq m.up /\ (m.pc = "body" => m.at \in m.up)
    BY <1>4 DEF Reads
  <2>. QED BY <1>0, <1>4, <2>1, <2>2, <2>3 DEF Shape, Reads
<1>5. CASE Considers(l, m)
  <2>1. m.client = l.client /\ m.up = l.up /\ l.pc = "body" /\ m.pc \in {"scan", "returned"}
    BY <1>5 DEF Considers
  <2>2. RoundRobin(m) = RoundRobin(l)
    BY <2>1 DEF RoundRobin
  <2>3. m.best # nil => m.best \in m.up
    BY <1>5, <2>1 DEF Considers, Shape, RoundRobin
  <2>4. m.list = l.list \/ (strategy = "ip-hash" /\ ~RoundRobin(l) /\ m.list = Append(l.list, l.at))
    BY <1>5 DEF Considers, RoundRobin
  <2>5. ASSUME NEW k \in 1..Len(m.list) PROVE m.list[k] \in m.up
    <3>1. l.list \in Seq(Backends) /\ l.at \in l.up
      BY <2>1 DEF Calls, Shape
    <3>2. \A j \in 1..Len(l.list) : l.list[j] \in l.up
      BY DEF Shape
    <3>3. CASE m.list = Append(l.list, l.at)
      <4>1. CASE k \in 1..Len(l.list)
        <5>1. m.list[k] = l.list[k]
          BY <3>1, <3>3, <4>1
        <5>. QED BY <2>1, <3>2, <4>1, <5>1
      <4>2. CASE k \notin 1..Len(l.list)
        <5>1. m.list[k] = l.at
          BY <3>1, <3>3, <4>2
        <5>. QED BY <2>1, <3>1, <5>1
      <4>. QED BY <4>1, <4>2
    <3>. QED BY <2>1, <2>4, <3>2, <3>3
  <2>6. m.list # <<>> => strategy = "ip-hash" /\ ~RoundRobin(m) /\ m.client \in Clients
    BY <2>1, <2>2, <2>4 DEF Shape
  <2>. QED BY <1>0, <2>1, <2>2, <2>3, <2>5, <2>6 DEF Shape
<1>6. CASE Finishes(l, m)
  <2>1. m.client = l.client /\ m.up = l.up /\ l.pc = "scan" /\ m.pc = "returned" /\ m.list = l.list
    BY <1>6 DEF Finishes
  <2>2. RoundRobin(m) = RoundRobin(l)
    BY <2>1 DEF RoundRobin
  <2>3. m.best # nil => m.best \in m.up
    BY <1>6, <2>1, ResultOK DEF Finishes
  <2>. QED BY <2>1, <2>2, <2>3 DEF Shape
<1>7. CASE Ages(l, m)
  <2>1. m.client = l.client
    BY <1>7 DEF Ages
  <2>2. RoundRobin(m) = RoundRobin(l)
    BY <2>1 DEF RoundRobin
  <2>. QED BY <1>7, <2>2 DEF Shape, Ages
<1>. QED BY <1>1, <1>2, <1>3, <1>4, <1>5, <1>6, <1>7 DEF CallStep

(* No step changes the pool. *)
LEMMA PoolStays ==
    ASSUME [Next]_vars
    PROVE  /\ pool' = pool
           /\ Backends' = Backends /\ Callers' = Callers /\ Calls' = Calls /\ strategy' = strategy
           /\ N' = N
<1>1. pool' = pool
  BY DEF Next, vars, poolVars, Call, Visit, ReadState, LoopBody, Finish, Return, HealthChanges,
         CircuitChanges, ConnectionsChange
<1>. QED BY <1>1 DEF Backends, Callers, Calls, strategy, N, Clients, Someone

(* The globals keep their types. *)
LEMMA GlobalsStep ==
    ASSUME TypeInv, [Next]_vars
    PROVE  GlobalsOK'
<1>0. /\ pool' = pool /\ Backends' = Backends /\ Callers' = Callers
      /\ pool \in Pools /\ N \in Nat /\ call \in [Callers -> Calls]
      /\ UintMod \in Nat /\ UintMod > 1 /\ MaxConns \in Nat
  BY PoolStays, PoolFacts, SelectionAssumption DEF TypeInv, GlobalsOK
<1>1. /\ healthy \in [Backends -> BOOLEAN] /\ open \in [Backends -> BOOLEAN]
      /\ connections \in [Backends -> Counts]
      /\ current \in 0..(UintMod - 1)
      /\ currentWeight \in [Backends -> Int]
      /\ lock \in Callers \cup {nil}
  BY DEF TypeInv, GlobalsOK
<1>2. healthy' \in [Backends -> BOOLEAN]
  BY <1>1 DEF Next, vars, poolVars, Call, Visit, ReadState, LoopBody, Finish, Return,
              HealthChanges, CircuitChanges, ConnectionsChange
<1>3. open' \in [Backends -> BOOLEAN]
  BY <1>1 DEF Next, vars, poolVars, Call, Visit, ReadState, LoopBody, Finish, Return,
              HealthChanges, CircuitChanges, ConnectionsChange
<1>4. connections' \in [Backends -> Counts]
  <2>1. CASE connections' = connections
    BY <1>1, <2>1
  <2>2. CASE \E b \in Backends, n \in Counts : connections' = [connections EXCEPT ![b] = n]
    BY <1>1, <2>2
  <2>3. ASSUME NEW b \in Backends, ConnectionsChange(b)
        PROVE  \E n \in Counts : connections' = [connections EXCEPT ![b] = n]
    BY <2>3 DEF ConnectionsChange
  <2>. QED
    BY <2>1, <2>2, <2>3 DEF Next, vars, poolVars, Call, Visit, ReadState, LoopBody, Finish, Return,
              HealthChanges, CircuitChanges
<1>5. current' \in 0..(UintMod - 1)
  <2>1. NextCurrent \in 0..(UintMod - 1)
    BY <1>0, <1>1 DEF NextCurrent
  <2>2. current' \in {current, NextCurrent}
    BY DEF Next, vars, poolVars, Call, Visit, ReadState, LoopBody, Finish, Return,
              HealthChanges, CircuitChanges, ConnectionsChange
  <2>. QED BY <1>1, <2>1, <2>2
<1>6. currentWeight' \in [Backends -> Int]
  <2>1. CASE currentWeight' = currentWeight
    BY <1>1, <2>1
  <2>2. ASSUME NEW c \in Callers, LoopBody(c)
        PROVE  currentWeight' \in [Backends -> Int]
    <3>1. call[c].at \in Backends
      BY <2>2 DEF LoopBody, TypeInv, Shape
    <3>2. Weight(call[c].at) \in Nat
      BY <1>0, <3>1, PoolFacts
    <3>3. \/ currentWeight' = currentWeight
          \/ currentWeight' = [currentWeight EXCEPT ![call[c].at] = @ + Weight(call[c].at)]
      BY <2>2 DEF LoopBody
    <3>. QED BY <1>1, <3>1, <3>2, <3>3
  <2>3. ASSUME NEW c \in Callers, Finish(c)
        PROVE  currentWeight' \in [Backends -> Int]
    <3>1. call[c].best \in Backends \cup {nil} /\ call[c].total \in Nat
      BY <1>0 DEF Calls
    <3>2. \/ currentWeight' = currentWeight
          \/ /\ call[c].best # nil
             /\ currentWeight' = [currentWeight EXCEPT ![call[c].best] = @ - call[c].total]
      BY <2>3 DEF Finish, Charge
    <3>. QED BY <1>1, <3>1, <3>2
  <2>. QED
    BY <2>1, <2>2, <2>3 DEF Next, vars, poolVars, Call, Visit, ReadState, Return,
              HealthChanges, CircuitChanges, ConnectionsChange
<1>7. lock' \in Callers \cup {nil}
  BY <1>1 DEF Next, vars, poolVars, Call, Visit, ReadState, LoopBody, Finish, Return,
              HealthChanges, CircuitChanges, ConnectionsChange
<1>. QED BY <1>0, <1>2, <1>3, <1>4, <1>5, <1>6, <1>7 DEF GlobalsOK

(* The domain of call is the callers. *)
LEMMA CallDomain ==
    ASSUME TypeInv, [Next]_vars
    PROVE  call' \in [Callers -> Calls]
<1>1. call \in [Callers -> Calls]
  BY DEF TypeInv
<1>2. call' = [d \in Callers |-> call'[d]]
  <2>1. CASE \E c \in Callers : Visit(c)
    BY <2>1 DEF Visit
  <2>2. CASE \E b \in Backends : Unsteady(b)
    BY <2>2 DEF Unsteady
  <2>3. CASE call' = call \/ \E c \in Callers : \E f : call' = [call EXCEPT ![c] = f]
    BY <1>1, <2>3
  <2>4. ASSUME NEW c \in Callers,
               (\E cl \in Clients : Call(c, cl)) \/ ReadState(c) \/ LoopBody(c) \/ Finish(c) \/ Return(c)
        PROVE  \E f : call' = [call EXCEPT ![c] = f]
    BY <2>4 DEF Call, ReadState, LoopBody, Finish, Return, Update
  <2>5. ASSUME NEW b \in Backends, HealthChanges(b) \/ CircuitChanges(b) \/ ConnectionsChange(b)
        PROVE  call' = call \/ Unsteady(b)
    BY <2>5 DEF HealthChanges, CircuitChanges, ConnectionsChange
  <2>. QED BY <2>1, <2>2, <2>3, <2>4, <2>5 DEF Next, vars
<1>3. \A d \in Callers : call'[d] \in Calls
  BY StepKinds
<1>. QED BY <1>2, <1>3

(* Every step of a call, of the health checks, of the breakers and of the
   connections keeps the types. *)
LEMMA TypeInvStep == TypeInv /\ [Next]_vars => TypeInv'
<1>. SUFFICES ASSUME TypeInv, [Next]_vars PROVE TypeInv'
  OBVIOUS
<1>1. /\ pool' = pool /\ Callers' = Callers /\ Calls' = Calls /\ strategy' = strategy /\ N' = N
      /\ Backends' = Backends /\ pool \in Pools /\ Clients' = Clients
  BY PoolStays DEF TypeInv, GlobalsOK, Clients
<1>2. GlobalsOK' /\ call' \in [Callers -> Calls]
  BY GlobalsStep, CallDomain
<1>3. ASSUME NEW d \in Callers PROVE Shape(call[d])'
  <2>1. PICK m : m = call'[d]
    OBVIOUS
  <2>2. call[d] \in Calls /\ Shape(call[d])
    BY DEF TypeInv
  <2>3. m \in Calls /\ CallStep(call[d], m)
    BY <2>1, StepKinds
  <2>4. Shape(m)
    BY <1>1, <2>2, <2>3, ShapeStep
  <2>. QED BY <1>1, <2>1, <2>4 DEF Shape, RoundRobin
<1>. QED BY <1>1, <1>2, <1>3 DEF TypeInv

(* A new pool is well typed. *)
LEMMA TypeInvInit == Init => TypeInv
<1>. SUFFICES ASSUME Init PROVE TypeInv
  OBVIOUS
<1>1. pool \in Pools
  BY DEF Init
<1>2. Idle \in Calls /\ Shape(Idle)
  <2>1. PICK m : m = Idle
    OBVIOUS
  <2>2. m \in Calls /\ m.pc = "idle" /\ m.best = nil /\ m.list = <<>>
    BY <1>1, <2>1, IdleOK
  <2>3. Shape(m)
    BY <2>2 DEF Shape
  <2>. QED BY <2>1, <2>2, <2>3
<1>3. GlobalsOK
  <2>1. 0 \in Counts
    BY SelectionAssumption DEF Counts
  <2>. QED BY <1>1, <2>1, SelectionAssumption DEF Init, GlobalsOK
<1>. QED BY <1>2, <1>3 DEF TypeInv, Init

(* The types hold in every reachable state. *)
LEMMA TypeInvHolds == Spec => []TypeInv
BY TypeInvInit, TypeInvStep, PTL DEF Spec

(* The variables keep their types: in particular no call indexes           *)
(* p.backends out of range and the round-robin counter stays in 64 bits.   *)
THEOREM TypeCorrect == Spec => []TypeOK
<1>1. TypeInv => TypeOK
  BY DEF TypeInv, GlobalsOK, TypeOK, Calls, CallPCs
<1>. QED BY <1>1, TypeInvHolds, PTL

(* GetNextBackend returns only a backend that the same call saw healthy    *)
(* and then saw with its breaker not open.                                 *)
THEOREM PickedAvailable == Spec => []PickedWasAvailable
<1>1. TypeInv => PickedWasAvailable
  BY DEF TypeInv, Shape, PickedWasAvailable
<1>. QED BY <1>1, TypeInvHolds, PTL

-----------------------------------------------------------------------------
(* ip-hash: the list of a call is the backends it found available, in the  *)
(* order of p.backends, so it is a function of that set.                   *)

Increasing(s) == \A j, k \in 1..Len(s) : j < k => s[j] < s[k]
Members(s)    == {s[k] : k \in 1..Len(s)}

\* The backends a call has found available and considered.
Considered(l) == IF l.pc = "body" THEN l.up \ {l.at} ELSE l.up

\* What ip-hash returns.
Hashed(l) == IF l.list = <<>> THEN nil
             ELSE l.list[1 + (Hash[l.client.ip] % Len(l.list))]

HashInv(l) ==
    strategy = "ip-hash" /\ ~RoundRobin(l) =>
       /\ Increasing(l.list)
       /\ Members(l.list) = Considered(l)
       /\ \A b \in Considered(l) : b < l.i
       /\ l.best = IF l.pc = "returned" THEN Hashed(l) ELSE nil

(* Increasing sequences of natural numbers with the same members agree     *)
(* wherever both are defined.                                              *)
LEMMA SameMembersAgree ==
    ASSUME NEW s \in Seq(Nat), NEW t \in Seq(Nat), Increasing(s), Increasing(t),
           Members(s) = Members(t)
    PROVE  \A k \in Nat : k \in 1..Len(s) /\ k \in 1..Len(t) => s[k] = t[k]
<1>. DEFINE R == {p \in Nat \X Nat : p[1] < p[2]}
            S == {k \in Nat : k \in 1..Len(s) /\ k \in 1..Len(t) /\ s[k] # t[k]}
<1>1. IsWellFoundedOn(R, Nat)
  BY NatLessThanWellFounded, Zenon DEF OpToRel
<1>2. SUFFICES ASSUME S # {} PROVE FALSE
  OBVIOUS
<1>3. \E m \in S : \A n \in S : ~(<<n, m>> \in R)
  <2>1. S \subseteq Nat
    OBVIOUS
  <2>. HIDE DEF R, S
  <2>. QED  BY <1>1, <1>2, <2>1, WFMin, Zenon
<1>4. PICK m \in S : \A n \in S : ~(<<n, m>> \in R)
  BY <1>3
<1>5. m \in Nat /\ m \in 1..Len(s) /\ m \in 1..Len(t) /\ s[m] # t[m]
  OBVIOUS
<1>6. ASSUME NEW n \in Nat, n \in 1..Len(s), n \in 1..Len(t), n < m PROVE s[n] = t[n]
  <2>1. <<n, m>> \in R
    BY <1>5, <1>6
  <2>2. n \notin S
    BY <1>4, <2>1
  <2>. QED BY <1>6, <2>2
<1>7. Len(s) \in Nat /\ Len(t) \in Nat /\ s[m] \in Nat /\ t[m] \in Nat
  BY <1>5
<1>8. CASE s[m] < t[m]
  <2>1. s[m] \in Members(t)
    BY <1>5 DEF Members
  <2>2. PICK j \in 1..Len(t) : s[m] = t[j]
    BY <2>1 DEF Members
  <2>3. t[j] \in Nat /\ j \in Nat
    BY <1>7, <2>2
  <2>4. ~(j = m) /\ ~(m < j)
    BY <1>5, <1>7, <1>8, <2>2, <2>3 DEF Increasing
  <2>5. j < m /\ j \in 1..Len(s)
    BY <1>5, <1>7, <2>3, <2>4
  <2>6. s[j] = t[j]
    BY <1>6, <2>3, <2>5
  <2>7. s[j] < s[m]
    BY <1>5, <2>5 DEF Increasing
  <2>. QED BY <1>7, <2>2, <2>6, <2>7
<1>9. CASE t[m] < s[m]
  <2>1. t[m] \in Members(s)
    BY <1>5 DEF Members
  <2>2. PICK j \in 1..Len(s) : t[m] = s[j]
    BY <2>1 DEF Members
  <2>3. s[j] \in Nat /\ j \in Nat
    BY <1>7, <2>2
  <2>4. ~(j = m) /\ ~(m < j)
    BY <1>5, <1>7, <1>9, <2>2, <2>3 DEF Increasing
  <2>5. j < m /\ j \in 1..Len(t)
    BY <1>5, <1>7, <2>3, <2>4
  <2>6. s[j] = t[j]
    BY <1>6, <2>2, <2>3, <2>5
  <2>7. t[j] < t[m]
    BY <1>5, <2>5 DEF Increasing
  <2>. QED BY <1>7, <2>2, <2>6, <2>7
<1>. QED BY <1>5, <1>7, <1>8, <1>9

(* So the one is not longer than the other. *)
LEMMA SameMembersLength ==
    ASSUME NEW s \in Seq(Nat), NEW t \in Seq(Nat), Increasing(s), Increasing(t),
           Members(s) = Members(t)
    PROVE  ~(Len(s) < Len(t))
<1>1. SUFFICES ASSUME Len(s) < Len(t) PROVE FALSE
  OBVIOUS
<1>2. PICK k \in Nat : k = Len(s) + 1 /\ k \in 1..Len(t)
  BY <1>1
<1>3. t[k] \in Members(s)
  BY <1>2 DEF Members
<1>4. PICK j \in 1..Len(s) : t[k] = s[j]
  BY <1>3 DEF Members
<1>5. j \in Nat /\ j < k /\ j \in 1..Len(t)
  BY <1>1, <1>2
<1>6. s[j] = t[j]
  BY <1>5, SameMembersAgree
<1>7. t[j] < t[k]
  BY <1>2, <1>5 DEF Increasing
<1>8. t[j] \in Nat /\ t[k] \in Nat
  BY <1>2, <1>5
<1>. QED BY <1>4, <1>6, <1>7, <1>8

(* An increasing sequence is determined by its members. *)
LEMMA SameMembersSame ==
    ASSUME NEW s \in Seq(Nat), NEW t \in Seq(Nat), Increasing(s), Increasing(t),
           Members(s) = Members(t)
    PROVE  s = t
<1>1. Len(s) \in Nat /\ Len(t) \in Nat
  OBVIOUS
<1>2. ~(Len(s) < Len(t)) /\ ~(Len(t) < Len(s))
  BY SameMembersLength
<1>3. Len(s) = Len(t)
  BY <1>1, <1>2
<1>4. \A k \in 1..Len(s) : s[k] = t[k]
  BY <1>1, <1>3, SameMembersAgree
<1>. QED BY <1>3, <1>4, SeqEqual

(* Appending the backend a visit in order has found available. *)
LEMMA AppendIncreasing ==
    ASSUME NEW s \in Seq(Nat), Increasing(s), NEW b \in Nat, \A a \in Members(s) : a < b,
           NEW t, t = Append(s, b)
    PROVE  Increasing(t) /\ Members(t) = Members(s) \cup {b}
<1>1. /\ Len(s) \in Nat /\ Len(t) = Len(s) + 1 /\ t[Len(s) + 1] = b
      /\ \A k \in 1..Len(s) : t[k] = s[k]
  OBVIOUS
<1>2. ASSUME NEW j \in 1..Len(t), NEW k \in 1..Len(t), j < k PROVE t[j] < t[k]
  <2>1. j \in 1..Len(s)
    BY <1>1, <1>2
  <2>2. t[j] = s[j] /\ s[j] \in Members(s)
    BY <1>1, <2>1 DEF Members
  <2>3. CASE k \in 1..Len(s)
    <3>1. t[k] = s[k] /\ s[j] < s[k]
      BY <1>1, <1>2, <2>1, <2>3 DEF Increasing
    <3>. QED BY <2>2, <3>1
  <2>4. CASE k \notin 1..Len(s)
    <3>1. k = Len(s) + 1
      BY <1>1, <2>4
    <3>. QED BY <1>1, <2>2, <3>1
  <2>. QED BY <2>3, <2>4
<1>3. Members(t) \subseteq Members(s) \cup {b}
  <2>1. ASSUME NEW k \in 1..Len(t) PROVE t[k] \in Members(s) \cup {b}
    <3>1. CASE k \in 1..Len(s)
      BY <1>1, <3>1 DEF Members
    <3>2. CASE k \notin 1..Len(s)
      <4>1. k = Len(s) + 1
        BY <1>1, <3>2
      <4>. QED BY <1>1, <4>1
    <3>. QED BY <3>1, <3>2
  <2>. QED BY <2>1 DEF Members
<1>4. Members(s) \cup {b} \subseteq Members(t)
  <2>1. ASSUME NEW k \in 1..Len(s) PROVE s[k] \in Members(t)
    <3>1. k \in 1..Len(t) /\ t[k] = s[k]
      BY <1>1
    <3>. QED BY <3>1 DEF Members
  <2>2. b \in Members(t)
    <3>1. Len(s) + 1 \in 1..Len(t)
      BY <1>1
    <3>. QED BY <1>1, <3>1 DEF Members
  <2>. QED BY <2>1, <2>2 DEF Members
<1>. QED BY <1>2, <1>3, <1>4 DEF Increasing

(* The list of a call is one of natural numbers. *)
LEMMA ListOfNat ==
    ASSUME pool \in Pools, NEW l \in Calls
    PROVE  l.list \in Seq(Nat) /\ l.i \in Nat
<1>1. Backends \subseteq Nat /\ N \in Nat
  BY PoolFacts
<1>2. l.list \in Seq(Backends) /\ l.i \in 0..N
  BY DEF Calls
<1>3. l.list \in Seq(Nat)
  BY <1>1, <1>2, SeqMonotonic
<1>. QED BY <1>1, <1>2, <1>3

(* A call that has considered nothing. *)
LEMMA HashInvEmpty ==
    ASSUME NEW m, m.pc # "body", m.pc # "returned", m.best = nil, m.list = <<>>, m.up = {}
    PROVE  HashInv(m)
<1>1. Increasing(<<>>) /\ Members(<<>>) = {}
  BY DEF Increasing, Members
<1>2. Considered(m) = {}
  BY DEF Considered
<1>. QED BY <1>1, <1>2 DEF HashInv

(* A step keeps the list in order. *)
LEMMA HashStep ==
    ASSUME pool \in Pools, NEW l \in Calls, NEW m \in Calls, CallStep(l, m), Shape(l), HashInv(l)
    PROVE  HashInv(m)
<1>0. /\ N \in Nat /\ \A b \in Backends : b # nil /\ b \in Nat
      /\ l.list \in Seq(Nat) /\ l.i \in Nat /\ l.up \subseteq Backends
  BY PoolFacts, ListOfNat DEF Calls
<1>1. CASE Starts(l, m)
  <2>1. PICK cl \in Clients, st \in SUBSET Backends : m = NewCall(cl, "scan", st)
    BY <1>1 DEF Starts
  <2>2. "scan" \in CallPCs /\ cl \in Clients \cup {Someone}
    BY DEF CallPCs
  <2>3. m.pc = "scan" /\ m.best = nil /\ m.list = <<>> /\ m.up = {}
    BY <2>1, <2>2, NewCallOK
  <2>. QED BY <2>3, HashInvEmpty
<1>2. CASE m = Idle
  <2>1. m.pc = "idle" /\ m.best = nil /\ m.list = <<>> /\ m.up = {}
    BY <1>2, IdleOK
  <2>. QED BY <2>1, HashInvEmpty
<1>. SUFFICES ASSUME strategy = "ip-hash", ~RoundRobin(m), ~Starts(l, m), m # Idle
              PROVE  HashInv(m)
  BY <1>1, <1>2 DEF HashInv
<1>3. m.client = l.client
  BY DEF CallStep, Visits, Reads, Considers, Finishes, Ages, Kept
<1>4. /\ ~RoundRobin(l) /\ Increasing(l.list) /\ Members(l.list) = Considered(l)
      /\ \A b \in Considered(l) : b < l.i
      /\ l.best = IF l.pc = "returned" THEN Hashed(l) ELSE nil
  BY <1>3 DEF HashInv, RoundRobin
<1>5. ASSUME m.list = l.list, Considered(m) = Considered(l), m.i \in {l.i, l.i + 1},
             m.best = IF m.pc = "returned" THEN Hashed(m) ELSE nil
      PROVE  HashInv(m)
  <2>1. \A b \in Considered(l) : b \in Nat
    BY <1>0 DEF Considered
  <2>2. \A b \in Considered(m) : b < m.i
    <3>. TAKE b \in Considered(m)
    <3>1. b \in Nat /\ b < l.i
      BY <1>4, <1>5, <2>1
    <3>. QED BY <1>0, <1>5, <3>1
  <2>. QED BY <1>4, <1>5, <2>2 DEF HashInv
<1>6. CASE Visits(l, m)
  BY <1>4, <1>5, <1>6 DEF Visits, Kept, Considered
<1>7. CASE Reads(l, m)
  <2>1. l.pc = "state" /\ m.list = l.list /\ m.best = nil /\ m.pc \in {"scan", "body"}
        /\ m.i \in {l.i, l.i + 1}
    BY <1>4, <1>7 DEF Reads, Kept
  <2>2. l.at = l.i
    BY <1>4, <2>1 DEF Shape
  <2>3. l.at \notin l.up
    BY <1>0, <1>4, <2>1, <2>2 DEF Considered
  <2>4. Considered(m) = Considered(l)
    BY <1>7, <2>3 DEF Reads, Considered
  <2>. QED BY <1>5, <2>1, <2>4
<1>8. CASE Considers(l, m)
  <2>1. /\ l.pc = "body" /\ m.pc = "scan" /\ m.best = nil /\ m.up = l.up /\ m.i = l.i + 1
        /\ m.list = Append(l.list, l.at)
    BY <1>4, <1>8 DEF Considers
  <2>2. l.at = l.i /\ l.at \in l.up
    BY <1>4, <2>1 DEF Shape
  <2>3. Considered(m) = Considered(l) \cup {l.at}
    BY <2>1, <2>2 DEF Considered
  <2>4. Increasing(m.list) /\ Members(m.list) = Members(l.list) \cup {l.at}
    <3>1. l.at \in Nat /\ \A a \in Members(l.list) : a < l.at
      BY <1>0, <1>4, <2>2
    <3>. QED BY <1>0, <1>4, <2>1, <3>1, AppendIncreasing
  <2>5. \A b \in Considered(m) : b < m.i
    BY <1>0, <1>4, <2>1, <2>2, <2>3 DEF Considered
  <2>. QED BY <1>4, <2>1, <2>3, <2>4, <2>5 DEF HashInv
<1>9. CASE Finishes(l, m)
  <2>1. l.best = nil
    BY <1>4, <1>9 DEF Finishes
  <2>2. Result(l) = Hashed(l)
    BY <2>1, ResultOK DEF Hashed
  <2>3. Hashed(m) = Hashed(l)
    BY <1>9 DEF Finishes, Hashed
  <2>. QED BY <1>5, <1>9, <2>2, <2>3 DEF Finishes, Considered
<1>10. CASE Ages(l, m)
  <2>1. Hashed(m) = Hashed(l)
    BY <1>10 DEF Ages, Hashed
  <2>. QED BY <1>4, <1>5, <1>10, <2>1 DEF Ages, Considered
<1>. QED BY <1>6, <1>7, <1>8, <1>9, <1>10 DEF CallStep

HashingInv == \A c \in Callers : HashInv(call[c])

(* Every step keeps the list of GetNextBackendByIP equal to what was found
   available, in the order of the pool. *)
LEMMA HashingInvStep == TypeInv /\ HashingInv /\ [Next]_vars => HashingInv'
<1>. SUFFICES ASSUME TypeInv, HashingInv, [Next]_vars PROVE HashingInv'
  OBVIOUS
<1>1. /\ Callers' = Callers /\ pool' = pool /\ strategy' = strategy /\ pool \in Pools
  BY PoolStays DEF TypeInv, GlobalsOK
<1>2. ASSUME NEW d \in Callers PROVE HashInv(call[d])'
  <2>1. PICK m : m = call'[d]
    OBVIOUS
  <2>2. call[d] \in Calls /\ Shape(call[d]) /\ HashInv(call[d])
    BY DEF TypeInv, HashingInv
  <2>3. m \in Calls /\ CallStep(call[d], m)
    BY <2>1, StepKinds
  <2>4. HashInv(m)
    BY <1>1, <2>2, <2>3, HashStep
  <2>. QED BY <1>1, <2>1, <2>4 DEF HashInv, RoundRobin, Considered, Hashed
<1>. QED BY <1>1, <1>2 DEF HashingInv

(* No call has a list yet. *)
LEMMA HashingInvInit == Init => HashingInv
<1>. SUFFICES ASSUME Init, NEW c \in Callers PROVE HashInv(call[c])
  BY DEF HashingInv
<1>1. PICK m : m = Idle
  OBVIOUS
<1>2. m.pc = "idle" /\ m.best = nil /\ m.list = <<>> /\ m.up = {}
  BY <1>1, IdleOK DEF Init
<1>3. HashInv(m)
  BY <1>2, HashInvEmpty
<1>. QED BY <1>1, <1>3 DEF Init

(* ip-hash sends a client host to one backend: two calls for it that found *)
(* the same backends available return the same one, whatever happened      *)
(* between their visits.                                                   *)
THEOREM HashKeepsAffinity == Spec => []IPAffinity
<1>1. TypeInv /\ HashingInv => IPAffinity
  <2>. SUFFICES ASSUME TypeInv, HashingInv, NEW c \in Callers, NEW d \in Callers,
                       strategy = "ip-hash", Returned(c), Returned(d),
                       call[c].client.ip = call[d].client.ip, call[c].client.ip # NoIP,
                       call[c].up = call[d].up
                PROVE  call[c].best = call[d].best
    BY DEF IPAffinity
  <2>1. ~RoundRobin(call[c]) /\ ~RoundRobin(call[d])
    BY DEF RoundRobin
  <2>2. /\ Increasing(call[c].list) /\ Members(call[c].list) = call[c].up
        /\ call[c].best = Hashed(call[c])
    BY <2>1 DEF HashingInv, HashInv, Considered, Returned
  <2>3. /\ Increasing(call[d].list) /\ Members(call[d].list) = call[d].up
        /\ call[d].best = Hashed(call[d])
    BY <2>1 DEF HashingInv, HashInv, Considered, Returned
  <2>4. call[c].list \in Seq(Nat) /\ call[d].list \in Seq(Nat)
    BY ListOfNat DEF TypeInv, GlobalsOK
  <2>5. call[c].list = call[d].list
    BY <2>2, <2>3, <2>4, SameMembersSame
  <2>. QED BY <2>2, <2>3, <2>5 DEF Hashed
<1>2. Spec => []HashingInv
  BY HashingInvInit, HashingInvStep, TypeInvHolds, PTL DEF Spec
<1>. QED BY <1>1, <1>2, TypeInvHolds, PTL

-----------------------------------------------------------------------------
(* Least connections. *)

LeastConnections == {"least-connections", "weighted-least-connections"}

Wt(b) == IF strategy = "least-connections" THEN 1 ELSE Weight(b)

\* The load the call read of its best backend is not above that of b.
Beats(l, b) ==
    \/ l.seen[l.best] * Wt(b) < l.seen[b] * Wt(l.best)
    \/ l.seen[l.best] * Wt(b) = l.seen[b] * Wt(l.best) /\ l.best <= b

\* Until there is a best backend min is MaxUint64.  Only a counter that least-
\* connections reads at that value does not become the best, so all that have
\* been considered by then stand there.
LoadInv(l) ==
    strategy \in LeastConnections =>
       /\ l.best = nil => l.min = UintMod - 1 /\ Considered(l) \subseteq Uncountable(l)
       /\ l.best # nil => l.best \in Considered(l) /\ l.min = l.seen[l.best]
       /\ \A b \in Considered(l) : b < l.i /\ (l.best # nil => Beats(l, b))

(* Comparing loads by cross-multiplication is transitive. *)
LEMMA CrossProducts ==
    ASSUME NEW sa \in Nat, NEW sb \in Nat, NEW sc \in Nat,
           NEW wa \in Nat, NEW wb \in Nat, NEW wc \in Nat, wa > 0, wb > 0, wc > 0,
           sc * wa <= sa * wc, sb * wc < sc * wb
    PROVE  sb * wa < sa * wb
<1>1. (sc * wa) * wb <= (sa * wc) * wb
  <2>1. \A x, y, z \in Nat : x <= y => x * z <= y * z
    OBVIOUS
  <2>2. sc * wa \in Nat /\ sa * wc \in Nat
    OBVIOUS
  <2>. QED BY <2>1, <2>2
<1>2. (sb * wc) * wa < (sc * wb) * wa
  <2>1. \A x, y, z \in Nat : x < y /\ z > 0 => x * z < y * z
    OBVIOUS
  <2>2. sb * wc \in Nat /\ sc * wb \in Nat
    OBVIOUS
  <2>. QED BY <2>1, <2>2
<1>3. (sc * wa) * wb = (sc * wb) * wa /\ (sa * wc) * wb = (sa * wb) * wc
      /\ (sb * wc) * wa = (sb * wa) * wc
  OBVIOUS
<1>4. (sb * wa) * wc < (sa * wb) * wc
  BY <1>1, <1>2, <1>3
<1>5. \A x, y, z \in Nat : x * z < y * z => x < y
  OBVIOUS
<1>6. sb * wa \in Nat /\ sa * wb \in Nat
  OBVIOUS
<1>. QED BY <1>4, <1>5, <1>6

(* A step keeps the best backend the least loaded of those considered. *)
LEMMA LoadStep ==
    ASSUME TypeInv, NEW l \in Calls, NEW m \in Calls, CallStep(l, m), Shape(l), LoadInv(l)
    PROVE  LoadInv(m)
<1>0. /\ pool \in Pools /\ N \in Nat /\ \A b \in Backends : b # nil /\ b \in Nat
      /\ l.i \in Nat /\ l.up \subseteq Backends /\ nil \notin Backends
      /\ GlobalsOK /\ UintMod \in Nat /\ UintMod > 1
  BY PoolFacts, ListOfNat, SelectionAssumption DEF Calls, TypeInv, GlobalsOK
<1>1. CASE Starts(l, m)
  <2>1. PICK cl \in Clients, st \in SUBSET Backends : m = NewCall(cl, "scan", st)
    BY <1>1 DEF Starts
  <2>2. "scan" \in CallPCs /\ cl \in Clients \cup {Someone}
    BY DEF CallPCs
  <2>3. m.best = nil /\ m.min = UintMod - 1 /\ m.up = {}
    BY <1>0, <2>1, <2>2, NewCallOK
  <2>. QED BY <2>3 DEF LoadInv, Considered
<1>2. CASE m = Idle
  <2>1. m.best = nil /\ m.min = UintMod - 1 /\ m.up = {}
    BY <1>0, <1>2, IdleOK
  <2>. QED BY <2>1 DEF LoadInv, Considered
<1>. SUFFICES ASSUME strategy \in LeastConnections, ~Starts(l, m), m # Idle
              PROVE  LoadInv(m)
  BY <1>1, <1>2 DEF LoadInv
<1>3. ~RoundRobin(l) /\ strategy # "ip-hash"
  BY DEF RoundRobin, LeastConnections
<1>4. /\ l.best = nil => l.min = UintMod - 1 /\ Considered(l) \subseteq Uncountable(l)
      /\ l.best # nil => l.best \in Considered(l) /\ l.min = l.seen[l.best]
      /\ \A b \in Considered(l) : b < l.i /\ (l.best # nil => Beats(l, b))
  BY DEF LoadInv
<1>5. ASSUME m.best = l.best, m.min = l.min, m.seen = l.seen, Considered(m) = Considered(l),
             m.i \in {l.i, l.i + 1}
      PROVE  LoadInv(m)
  <2>1. \A b \in Considered(l) : b \in Nat
    BY <1>0 DEF Considered
  <2>3. Uncountable(m) = Uncountable(l)
    BY <1>5 DEF Uncountable
  <2>2. ASSUME NEW b \in Considered(m) PROVE b < m.i /\ (m.best # nil => Beats(m, b))
    <3>1. b \in Nat /\ b < l.i /\ (l.best # nil => Beats(l, b))
      BY <1>4, <1>5, <2>1
    <3>2. b < m.i
      BY <1>0, <1>5, <3>1
    <3>. QED BY <1>5, <3>1, <3>2 DEF Beats
  <2>. QED BY <1>4, <1>5, <2>2, <2>3 DEF LoadInv
<1>6. CASE Visits(l, m)
  BY <1>5, <1>6 DEF Visits, Kept, Considered
<1>7. CASE Reads(l, m)
  <2>1. l.pc = "state" /\ m.best = l.best /\ m.min = l.min /\ m.seen = l.seen
        /\ m.i \in {l.i, l.i + 1}
    BY <1>7 DEF Reads, Kept
  <2>2. l.at = l.i
    BY <1>3, <2>1 DEF Shape
  <2>3. l.at \notin l.up
    BY <1>0, <1>4, <2>1, <2>2 DEF Considered
  <2>4. Considered(m) = Considered(l)
    BY <1>7, <2>3 DEF Reads, Considered
  <2>. QED BY <1>5, <2>1, <2>4
<1>8. CASE Considers(l, m)
  <2>1. PICK a \in Backends, k \in Nat : /\ a = l.at /\ k = Read(a)
                                         /\ strategy = "least-connections" => k <= UintMod - 1
    <3>1. l.at \in Backends
      BY <1>8 DEF Considers, Shape
    <3>. QED BY <1>0, <3>1, ReadOK
  <2>2. /\ l.pc = "body" /\ m.pc = "scan" /\ m.up = l.up /\ m.i = l.i + 1
        /\ m.seen = [l.seen EXCEPT ![a] = k]
    BY <1>3, <1>8, <2>1 DEF Considers, LeastConnections
  <2>3. IF Fewer(l, a) THEN m.best = a /\ m.min = k ELSE m.best = l.best /\ m.min = l.min
    BY <1>8, <2>1 DEF Considers, LeastConnections
  <2>4. a = l.i /\ a \in l.up
    BY <1>3, <2>1, <2>2 DEF Shape
  <2>5. Considered(m) = Considered(l) \cup {a} /\ Considered(l) = l.up \ {a}
    BY <2>1, <2>2, <2>4 DEF Considered
  <2>6. /\ l.seen \in [Backends -> Nat] /\ m.seen[a] = k
        /\ \A b \in Considered(l) : b \in Backends /\ b # a /\ b < a /\ m.seen[b] = l.seen[b]
    <3>1. l.seen \in [Backends -> Nat]
      BY DEF Calls
    <3>2. \A b \in Considered(l) : b \in Backends /\ b # a /\ b < a
      BY <1>0, <1>4, <2>4, <2>5
    <3>. QED BY <2>2, <3>1, <3>2
  <2>7. \A b \in Backends : Wt(b) \in Nat /\ Wt(b) > 0
    BY <1>0, PoolFacts DEF Wt
  <2>8. \A b \in Considered(m) : b < m.i
    BY <1>0, <1>4, <2>2, <2>4, <2>5, <2>6
  <2>9. CASE l.best = nil
    <3>1. l.min = UintMod - 1 /\ \A b \in Considered(l) : b \in Uncountable(l)
      BY <1>4, <2>9
    <3>2. CASE Fewer(l, a)
      <4>1. m.best = a /\ m.min = k
        BY <2>3, <3>2
      <4>2. ASSUME NEW b \in Considered(l) PROVE Beats(m, b)
        <5>1. strategy = "least-connections" /\ l.seen[b] = UintMod - 1
          BY <3>1 DEF Uncountable
        <5>2. k < UintMod - 1
          BY <2>1, <3>1, <3>2, <5>1 DEF Fewer
        <5>3. Wt(a) = 1 /\ Wt(b) = 1
          BY <5>1 DEF Wt
        <5>4. m.seen[b] = UintMod - 1 /\ m.seen[m.best] = k
          BY <2>6, <4>1, <5>1
        <5>. QED BY <1>0, <2>1, <4>1, <5>2, <5>3, <5>4 DEF Beats
      <4>3. Beats(m, a)
        BY <1>0, <2>1, <2>7, <4>1 DEF Beats
      <4>. QED BY <1>0, <2>1, <2>5, <2>6, <2>8, <4>1, <4>2, <4>3 DEF LoadInv
    <3>3. CASE ~Fewer(l, a)
      <4>1. m.best = nil /\ m.min = UintMod - 1
        BY <2>3, <2>9, <3>1, <3>3
      <4>2. strategy = "least-connections" /\ k = UintMod - 1
        BY <1>0, <2>1, <2>9, <3>1, <3>3 DEF Fewer
      <4>3. Considered(m) \subseteq Uncountable(m)
        BY <2>5, <2>6, <3>1, <4>2 DEF Uncountable
      <4>. QED BY <2>8, <4>1, <4>3 DEF LoadInv
    <3>. QED BY <3>2, <3>3
  <2>10. CASE l.best # nil
    <3>1. PICK c \in Considered(l) : c = l.best /\ l.min = l.seen[c]
      BY <1>4, <2>10
    <3>2. c \in Backends /\ c # a /\ c < a /\ m.seen[c] = l.seen[c]
      BY <2>6
    <3>3. l.seen[c] \in Nat /\ Wt(c) \in Nat /\ Wt(c) > 0 /\ Wt(a) \in Nat /\ Wt(a) > 0
      BY <2>6, <2>7, <3>2
    <3>4. Fewer(l, a) <=> k * Wt(c) < l.seen[c] * Wt(a)
      <4>1. CASE strategy = "least-connections"
        BY <2>1, <3>1, <3>3, <4>1 DEF Fewer, Wt
      <4>2. CASE strategy # "least-connections"
        BY <2>1, <2>10, <3>1, <4>2 DEF Fewer, Wt
      <4>. QED BY <4>1, <4>2
    <3>5. CASE Fewer(l, a)
      <4>1. m.best = a /\ m.min = k
        BY <2>3, <3>5
      <4>2. k * Wt(c) < l.seen[c] * Wt(a)
        BY <3>4, <3>5
      <4>3. ASSUME NEW b \in Considered(l) PROVE Beats(m, b)
        <5>1. b \in Backends /\ m.seen[b] = l.seen[b]
          BY <2>6
        <5>2. l.seen[b] \in Nat /\ Wt(b) \in Nat /\ Wt(b) > 0
          BY <2>6, <2>7, <5>1
        <5>3. l.seen[c] * Wt(b) <= l.seen[b] * Wt(c)
          <6>1. Beats(l, b)
            BY <1>4, <2>10
          <6>2. l.seen[c] * Wt(b) \in Nat /\ l.seen[b] * Wt(c) \in Nat
            BY <3>3, <5>2
          <6>. QED BY <3>1, <6>1, <6>2 DEF Beats
        <5>4. k * Wt(b) < l.seen[b] * Wt(a)
          <6>. HIDE DEF Wt
          <6>. QED BY <2>1, <3>3, <4>2, <5>2, <5>3, CrossProducts
        <5>. QED BY <2>6, <4>1, <5>1, <5>4 DEF Beats
      <4>4. Beats(m, a)
        BY <1>0, <2>1, <2>7, <4>1 DEF Beats
      <4>. QED BY <1>0, <2>1, <2>5, <2>6, <2>8, <4>1, <4>3, <4>4 DEF LoadInv
    <3>6. CASE ~Fewer(l, a)
      <4>1. m.best = c /\ m.min = l.seen[c]
        BY <2>3, <3>1, <3>6
      <4>2. l.seen[c] * Wt(a) <= k * Wt(c)
        <5>1. l.seen[c] * Wt(a) \in Nat /\ k * Wt(c) \in Nat
          BY <2>1, <3>3
        <5>. QED BY <3>4, <3>6, <5>1
      <4>3. ASSUME NEW b \in Considered(l) PROVE Beats(m, b)
        <5>1. b \in Backends /\ m.seen[b] = l.seen[b]
          BY <2>6
        <5>2. Beats(l, b)
          BY <1>4, <2>10
        <5>. QED BY <3>1, <3>2, <4>1, <5>1, <5>2 DEF Beats
      <4>4. Beats(m, a)
        <5>1. l.seen[c] * Wt(a) \in Nat /\ k * Wt(c) \in Nat /\ c <= a
          BY <1>0, <2>1, <3>2, <3>3
        <5>. QED BY <2>6, <3>2, <4>1, <4>2, <5>1 DEF Beats
      <4>. QED BY <2>5, <2>8, <2>10, <3>1, <3>2, <4>1, <4>3, <4>4 DEF LoadInv
    <3>. QED BY <3>5, <3>6
  <2>. QED BY <2>9, <2>10
<1>9. CASE Finishes(l, m)
  <2>1. m.best = l.best
    BY <1>0, <1>3, <1>9, ResultOK DEF Finishes
  <2>. QED BY <1>5, <1>9, <2>1 DEF Finishes, Considered
<1>10. CASE Ages(l, m)
  BY <1>5, <1>10 DEF Ages, Considered
<1>. QED BY <1>6, <1>7, <1>8, <1>9, <1>10 DEF CallStep

LoadsInv == \A c \in Callers : LoadInv(call[c])

(* Every step keeps the best backend of a scan ahead of all it has considered. *)
LEMMA LoadsInvStep == TypeInv /\ LoadsInv /\ [Next]_vars => LoadsInv'
<1>. SUFFICES ASSUME TypeInv, LoadsInv, [Next]_vars PROVE LoadsInv'
  OBVIOUS
<1>1. /\ Callers' = Callers /\ pool' = pool /\ strategy' = strategy
  BY PoolStays
<1>2. ASSUME NEW d \in Callers PROVE LoadInv(call[d])'
  <2>1. PICK m : m = call'[d]
    OBVIOUS
  <2>2. call[d] \in Calls /\ Shape(call[d]) /\ LoadInv(call[d])
    BY DEF TypeInv, LoadsInv
  <2>3. m \in Calls /\ CallStep(call[d], m)
    BY <2>1, StepKinds
  <2>4. LoadInv(m)
    BY <2>2, <2>3, LoadStep
  <2>. QED BY <1>1, <2>1, <2>4 DEF LoadInv, Considered, Beats, Wt, Uncountable, Backends, N
<1>. QED BY <1>1, <1>2 DEF LoadsInv

(* No call has considered a backend yet. *)
LEMMA LoadsInvInit == Init => LoadsInv
<1>. SUFFICES ASSUME Init, NEW c \in Callers PROVE LoadInv(call[c])
  BY DEF LoadsInv
<1>1. PICK m : m = Idle
  OBVIOUS
<1>2. m.best = nil /\ m.min = UintMod - 1 /\ m.up = {}
  BY <1>1, IdleOK DEF Init
<1>3. LoadInv(m)
  BY <1>2 DEF LoadInv, Considered
<1>. QED BY <1>1, <1>3 DEF Init

(* The best backend is ahead of all considered, in every reachable state. *)
LEMMA LoadsInvHolds == Spec => []LoadsInv
BY LoadsInvInit, LoadsInvStep, TypeInvHolds, PTL DEF Spec

(* The strategies of least connections return, of the backends the call    *)
(* found available, the first with the smallest load that it read, though  *)
(* the counters move while it reads them.                                  *)
THEOREM PicksLeastLoaded == Spec => []LeastLoaded
<1>1. LoadsInv => LeastLoaded
  <2>. SUFFICES ASSUME LoadsInv, NEW c \in Callers, Returned(c), call[c].best # nil,
                       strategy \in LeastConnections, NEW b \in call[c].up
                PROVE  Beats(call[c], b)
    BY DEF LeastLoaded, Beats, Wt, LeastConnections
  <2>1. LoadInv(call[c]) /\ b \in Considered(call[c])
    BY DEF LoadsInv, Considered, Returned
  <2>. QED BY <2>1 DEF LoadInv
<1>. QED BY <1>1, LoadsInvHolds, PTL

-----------------------------------------------------------------------------
(* No backend is returned only if none was available throughout.           *)

\* x divided by n is q, remainder r.
Divided(x, n, q, r) == x = n * q + r

(* Division with remainder has one answer. *)
LEMMA RemainderUnique ==
    ASSUME NEW n \in Nat, n > 0, NEW q \in Nat, NEW r \in 0..(n - 1), NEW x \in Nat, Divided(x, n, q, r)
    PROVE  x % n = r
<1>0. x = n * q + r
  BY DEF Divided
<1>1. PICK p \in Nat, t \in 0..(n - 1) : x = n * p + t /\ t = x % n
  <2>1. x \div n \in Nat /\ x % n \in 0..(n - 1) /\ x = n * (x \div n) + (x % n)
    OBVIOUS
  <2>. QED BY <2>1
<1>2. \A a, b, c \in Nat : a + 1 <= b => c * a + c <= c * b
  <2>. TAKE a, b, c \in Nat
  <2>. HAVE a + 1 <= b
  <2>1. PICK d \in Nat : b = a + 1 + d
    BY b - a - 1 \in Nat
  <2>2. c * b = c * a + c + c * d /\ c * d \in Nat /\ c * a \in Nat
    BY <2>1
  <2>. QED BY <2>2
<1>3. n * p \in Nat /\ n * q \in Nat
  OBVIOUS
<1>4. CASE p < q
  <2>1. n * p + n <= n * q
    BY <1>2, <1>4
  <2>. QED BY <1>0, <1>1, <1>3, <2>1
<1>5. CASE q < p
  <2>1. n * q + n <= n * p
    BY <1>2, <1>5
  <2>. QED BY <1>0, <1>1, <1>3, <2>1
<1>6. CASE p = q
  BY <1>0, <1>1, <1>3, <1>6
<1>. QED BY <1>4, <1>5, <1>6

(* Counting on from any number reaches every remainder within n steps. *)
LEMMA RemainderReached ==
    ASSUME NEW n \in Nat, n > 0, NEW c \in Nat, NEW b \in 0..(n - 1)
    PROVE  \E k \in 1..n : (c + k) % n = b
<1>1. PICK p \in Nat, t \in 0..(n - 1) : c = n * p + t
  <2>1. c \div n \in Nat /\ c % n \in 0..(n - 1) /\ c = n * (c \div n) + (c % n)
    OBVIOUS
  <2>. QED BY <2>1
<1>2. n * p \in Nat /\ n * (p + 1) = n * p + n
  OBVIOUS
<1>3. CASE t < b
  <2>1. PICK k \in 1..n : k = b - t
    BY <1>3
  <2>2. PICK x \in Nat : x = c + k /\ Divided(x, n, p, b)
    BY <1>1, <1>2, <2>1 DEF Divided
  <2>3. x % n = b
    BY <2>2, RemainderUnique, Zenon
  <2>. QED BY <2>2, <2>3
<1>4. CASE b <= t
  <2>1. PICK k \in 1..n : k = b + n - t
    BY <1>4
  <2>2. PICK x \in Nat, q \in Nat : x = c + k /\ q = p + 1 /\ Divided(x, n, q, b)
    BY <1>1, <1>2, <2>1 DEF Divided
  <2>3. x % n = b
    BY <2>2, RemainderUnique, Zenon
  <2>. QED BY <2>2, <2>3
<1>. QED BY <1>3, <1>4

(* A multiple of n does not change remainders. *)
LEMMA AddMultiple ==
    ASSUME NEW n \in Nat, n > 0, NEW u \in Nat, u % n = 0, NEW j \in Nat
    PROVE  (u + j) % n = j % n
<1>1. PICK p \in Nat : u = n * p
  <2>1. PICK p \in Nat : p = u \div n
    OBVIOUS
  <2>2. u = n * p
    BY <2>1
  <2>. QED BY <2>2
<1>2. PICK q \in Nat, t \in 0..(n - 1) : j = n * q + t /\ t = j % n
  <2>1. j \div n \in Nat /\ j % n \in 0..(n - 1) /\ j = n * (j \div n) + (j % n)
    OBVIOUS
  <2>. QED BY <2>1
<1>3. n * (p + q) = n * p + n * q /\ n * p \in Nat /\ n * q \in Nat
  OBVIOUS
<1>4. PICK x \in Nat, d \in Nat : x = u + j /\ d = p + q /\ Divided(x, n, d, t)
  BY <1>1, <1>2, <1>3 DEF Divided
<1>5. x % n = t
  BY <1>4, RemainderUnique, Zenon
<1>. QED BY <1>2, <1>4, <1>5

\* d follows c on a counter modulo u, and remainders by n with it.
Follows(d, c, u, n) == d = (c + 1) % u /\ (d # 0 \/ u % n = 0)

Nearer(d, c, n) == \A j \in Nat : (d + j) % n = (c + 1 + j) % n

(* Advancing the counter by one shortens the way to every index by one,    *)
(* also when it wraps at a multiple of the number of backends.             *)
LEMMA CounterAdvances ==
    ASSUME NEW n \in Nat, n > 0, NEW u \in Nat, u > 1, NEW c \in Nat, c < u, NEW d,
           Follows(d, c, u, n)
    PROVE  Nearer(d, c, n)
<1>. SUFFICES ASSUME NEW j \in Nat PROVE (d + j) % n = (c + 1 + j) % n
  BY DEF Nearer
<1>0. d = (c + 1) % u /\ (d # 0 \/ u % n = 0)
  BY DEF Follows
<1>1. CASE c + 1 < u
  <2>1. d = c + 1
    BY <1>0, <1>1
  <2>. QED BY <2>1
<1>2. CASE c + 1 = u
  <2>1. d = 0
    BY <1>0, <1>2
  <2>2. (u + j) % n = j % n
    BY <1>0, <2>1, AddMultiple
  <2>. QED BY <1>2, <2>1, <2>2
<1>. QED BY <1>1, <1>2

\* The counter cur reaches backend b within n visits.
Ahead(cur, n, b) == \E k \in 1..n : (cur + k) % N = b

\* Round-robin has yet to visit every backend that was available throughout.
AheadInv(l, cur) ==
    RoundRobin(l) /\ l.straight =>
       /\ l.pc = "scan" => \A b \in l.steady : Ahead(cur, N - l.i, b)
       /\ l.pc \in {"state", "body"} =>
             \A b \in l.steady : b = l.at \/ Ahead(cur, N - l.i - 1, b)
       /\ l.pc = "returned" /\ l.best = nil => l.steady = {}

\* The scan has something to return.
Found(l) == IF strategy = "ip-hash" THEN l.list # <<>> ELSE l.best # nil

\* The other strategies have it once they have passed such a backend, unless
\* they read its counter at 2^64 - 1.
FoundInv(l) ==
    ~RoundRobin(l) =>
       /\ l.pc \in {"scan", "state", "body"} =>
             \A b \in l.steady : b < l.i => Found(l) \/ b \in Uncountable(l)
       /\ l.pc = "returned" /\ l.best = nil => l.steady \subseteq Uncountable(l)

SteadyInv(l) == \A b \in l.steady : healthy[b] /\ ~open[b]

(* Steady backends are available now. *)
LEMMA SteadyStep ==
    ASSUME TypeInv, [Next]_vars, NEW d \in Callers, SteadyInv(call[d])
    PROVE  SteadyInv(call[d])'
<1>1. PICK l, m : l = call[d] /\ m = call'[d]
  OBVIOUS
<1>2. m \in Calls /\ CallStep(l, m) /\ l \in Calls /\ pool \in Pools
  BY <1>1, StepKinds DEF TypeInv, GlobalsOK
<1>3. SUFFICES \A b \in m.steady : healthy'[b] /\ ~open'[b]
  BY <1>1 DEF SteadyInv
<1>4. CASE Ages(l, m)
  BY <1>1, <1>4 DEF Ages, SteadyInv
<1>5. CASE ~Ages(l, m)
  <2>0. healthy' = healthy /\ open' = open
    BY <1>2, <1>5 DEF CallStep
  <2>1. CASE Starts(l, m)
    <3>. DEFINE st == {b \in Backends : healthy[b] /\ ~open[b]}
    <3>1. PICK cl \in Clients : m = NewCall(cl, "scan", st)
      BY <2>1 DEF Starts
    <3>2. "scan" \in CallPCs /\ cl \in Clients \cup {Someone} /\ st \in SUBSET Backends
      BY DEF CallPCs
    <3>3. m.steady = st
      BY <3>1 DEF NewCall
    <3>. QED BY <2>0, <3>3
  <2>2. CASE m = Idle
    <3>1. m.steady = {}
      BY <1>2, <2>2, IdleOK
    <3>. QED BY <3>1
  <2>3. CASE m.steady = l.steady
    BY <1>1, <2>0, <2>3 DEF SteadyInv
  <2>. QED
    BY <1>2, <1>5, <2>1, <2>2, <2>3 DEF CallStep, Visits, Reads, Considers, Finishes, Kept
<1>. QED BY <1>4, <1>5

(* The scans in order. *)
LEMMA FoundStep ==
    ASSUME TypeInv, NEW l \in Calls, NEW m \in Calls, CallStep(l, m), Shape(l), SteadyInv(l),
           LoadInv(m), FoundInv(l)
    PROVE  FoundInv(m)
<1>0. /\ pool \in Pools /\ N \in Nat /\ \A b \in Backends : b # nil /\ b \in Nat
      /\ l.i \in Nat /\ l.steady \subseteq Backends /\ m.steady \subseteq Backends
  BY PoolFacts, ListOfNat DEF Calls, TypeInv, GlobalsOK
<1>1. CASE Starts(l, m)
  <2>1. PICK cl \in Clients, st \in SUBSET Backends : m = NewCall(cl, "scan", st)
    BY <1>1 DEF Starts
  <2>2. "scan" \in CallPCs /\ cl \in Clients \cup {Someone}
    BY DEF CallPCs
  <2>3. m.pc = "scan" /\ m.i = 0
    BY <1>0, <2>1, <2>2, NewCallOK
  <2>. QED BY <1>0, <2>3 DEF FoundInv
<1>2. CASE m = Idle
  <2>1. m.pc = "idle"
    BY <1>0, <1>2, IdleOK
  <2>. QED BY <2>1 DEF FoundInv
<1>. SUFFICES ASSUME ~RoundRobin(m), ~Starts(l, m), m # Idle
              PROVE  FoundInv(m)
  BY <1>1, <1>2 DEF FoundInv
<1>3. m.client = l.client
  BY DEF CallStep, Visits, Reads, Considers, Finishes, Ages, Kept
<1>4. /\ ~RoundRobin(l)
      /\ l.pc \in {"scan", "state", "body"} =>
            \A b \in l.steady : b < l.i => Found(l) \/ b \in Uncountable(l)
      /\ l.pc = "returned" /\ l.best = nil => l.steady \subseteq Uncountable(l)
  BY <1>3 DEF FoundInv, RoundRobin
<1>5. /\ m.list = l.list /\ m.best = l.best => (Found(m) <=> Found(l))
      /\ m.seen = l.seen => Uncountable(m) = Uncountable(l)
  BY DEF Found, Uncountable
<1>6. CASE Visits(l, m)
  <2>1. m.pc \in {"scan", "state"} /\ m.steady = l.steady /\ l.pc = "scan" /\ Found(m) = Found(l)
        /\ Uncountable(m) = Uncountable(l)
    BY <1>5, <1>6 DEF Visits, Kept, Found
  <2>2. ASSUME NEW b \in m.steady, b < m.i PROVE b < l.i
    <3>1. CASE m.i = l.i
      BY <2>2, <3>1
    <3>2. CASE m.i # l.i
      <4>1. m.i = l.i + 1 /\ ~healthy[l.i]
        BY <1>4, <1>6, <3>2 DEF Visits, Target
      <4>2. b # l.i
        BY <2>1, <4>1 DEF SteadyInv
      <4>3. b \in Nat
        BY <1>0
      <4>. QED BY <1>0, <2>2, <4>1, <4>2, <4>3
    <3>. QED BY <3>1, <3>2
  <2>. QED BY <1>4, <2>1, <2>2 DEF FoundInv
<1>7. CASE Reads(l, m)
  <2>1. m.pc \in {"scan", "body"} /\ m.steady = l.steady /\ l.pc = "state" /\ Found(m) = Found(l)
        /\ Uncountable(m) = Uncountable(l)
    BY <1>5, <1>7 DEF Reads, Kept, Found
  <2>2. ASSUME NEW b \in m.steady, b < m.i PROVE b < l.i
    <3>1. CASE m.i = l.i
      BY <2>2, <3>1
    <3>2. CASE m.i # l.i
      <4>1. m.i = l.i + 1 /\ open[l.at] /\ l.at = l.i
        BY <1>4, <1>7, <2>1, <3>2 DEF Reads, Shape
      <4>2. b # l.i
        BY <2>1, <4>1 DEF SteadyInv
      <4>3. b \in Nat
        BY <1>0
      <4>. QED BY <1>0, <2>2, <4>1, <4>2, <4>3
    <3>. QED BY <3>1, <3>2
  <2>. QED BY <1>4, <2>1, <2>2 DEF FoundInv
<1>8. CASE Considers(l, m)
  <2>1. m.pc = "scan" /\ l.pc = "body" /\ l.at \in l.up /\ m.up = l.up
    BY <1>4, <1>8 DEF Considers, Shape
  <2>2. CASE strategy = "ip-hash"
    <3>1. m.list = Append(l.list, l.at) /\ l.list \in Seq(Nat)
      BY <1>0, <1>4, <1>8, <2>2, ListOfNat DEF Considers
    <3>2. m.list # <<>>
      BY <3>1
    <3>. QED BY <2>1, <2>2, <3>2 DEF FoundInv, Found
  <2>3. CASE strategy \in LeastConnections
    <3>1. l.at \in Considered(m) /\ l.at = l.i /\ l.at \in Backends /\ m.i = l.i + 1
      BY <1>4, <1>8, <2>1 DEF Considered, Considers, Shape
    <3>2. m.best = nil => l.best = nil /\ l.at \in Uncountable(m)
      BY <1>0, <1>8, <2>3, <3>1 DEF LoadInv, Considers, LeastConnections
    <3>3. \A b \in Backends : b # l.at => m.seen[b] = l.seen[b]
      BY <1>8, <2>3 DEF Considers, Calls, LeastConnections
    <3>4. ASSUME NEW b \in m.steady, b < m.i, m.best = nil PROVE b \in Uncountable(m)
      <4>1. b \in Backends /\ b \in l.steady
        BY <1>0, <1>8 DEF Considers
      <4>2. CASE b = l.at
        BY <3>2, <3>4, <4>2
      <4>3. CASE b # l.at
        <5>1. b < l.i
          BY <1>0, <3>1, <3>4, <4>1, <4>3
        <5>2. b \in Uncountable(l)
          BY <1>4, <2>1, <2>3, <3>2, <3>4, <4>1, <5>1 DEF Found, LeastConnections
        <5>. QED BY <3>3, <4>1, <4>3, <5>2 DEF Uncountable
      <4>. QED BY <4>2, <4>3
    <3>. QED BY <2>1, <2>3, <3>4 DEF FoundInv, Found, LeastConnections
  <2>4. CASE strategy = "weighted-round-robin"
    <3>1. m.best # nil
      BY <1>8, <2>4 DEF Considers
    <3>. QED BY <2>1, <2>4, <3>1 DEF FoundInv, Found
  <2>. QED BY <1>4, <2>2, <2>3, <2>4 DEF RoundRobin, LeastConnections
<1>9. CASE Finishes(l, m)
  <2>1. m.pc = "returned" /\ m.best = Result(l) /\ m.steady = l.steady /\ l.pc = "scan" /\ l.i = N
    BY <1>9 DEF Finishes
  <2>2. ASSUME NEW b \in l.steady PROVE Found(l) \/ b \in Uncountable(m)
    <3>0. Uncountable(m) = Uncountable(l)
      BY <1>5, <1>9 DEF Finishes
    <3>1. b \in 0..(N - 1)
      BY <1>0 DEF Backends
    <3>. QED BY <1>0, <1>4, <2>1, <3>0, <3>1
  <2>3. Found(l) => Result(l) # nil
    BY <1>0, ResultOK DEF Found
  <2>. QED BY <2>1, <2>2, <2>3 DEF FoundInv
<1>10. CASE Ages(l, m)
  <2>1. /\ m.pc = l.pc /\ m.i = l.i /\ m.best = l.best /\ m.steady \subseteq l.steady
        /\ Found(m) = Found(l) /\ Uncountable(m) = Uncountable(l)
    BY <1>5, <1>10 DEF Ages, Found
  <2>. QED BY <1>4, <2>1 DEF FoundInv
<1>. QED BY <1>6, <1>7, <1>8, <1>9, <1>10 DEF CallStep

(* The scans that the shared counter leads. *)
LEMMA AheadStep ==
    ASSUME TypeInv, NEW l \in Calls, NEW m \in Calls, CallStep(l, m), Shape(l), SteadyInv(l),
           AheadInv(l, current), NEW cur, cur = current'
    PROVE  AheadInv(m, cur)
<1>a. pool \in Pools /\ N \in Nat /\ \A b \in Backends : b # nil /\ b \in Nat
  BY PoolFacts DEF TypeInv, GlobalsOK
<1>b. l.i \in 0..N /\ l.steady \subseteq Backends /\ m.steady \subseteq Backends
  BY DEF Calls
<1>c. current \in 0..(UintMod - 1) /\ UintMod \in Nat /\ UintMod > 1
  BY SelectionAssumption DEF TypeInv, GlobalsOK
<1>0. /\ pool \in Pools /\ N \in Nat /\ \A b \in Backends : b # nil /\ b \in Nat
      /\ l.i \in Nat /\ l.i \in 0..N /\ l.steady \subseteq Backends /\ m.steady \subseteq Backends
      /\ current \in 0..(UintMod - 1) /\ UintMod \in Nat /\ UintMod > 1 /\ current \in Nat
  BY <1>a, <1>b, <1>c
<1>1. CASE Starts(l, m)
  <2>1. PICK cl \in Clients, st \in SUBSET Backends : m = NewCall(cl, "scan", st)
    BY <1>1 DEF Starts
  <2>2. "scan" \in CallPCs /\ cl \in Clients \cup {Someone}
    BY DEF CallPCs
  <2>3. m.pc = "scan" /\ m.i = 0
    BY <1>0, <2>1, <2>2, NewCallOK
  <2>4. RoundRobin(m) /\ m.straight => cur = current
    BY <1>1 DEF CallStep, Ages, Starts
  <2>5. ASSUME NEW b \in m.steady PROVE Ahead(current, N - m.i, b)
    <3>1. b \in 0..(N - 1) /\ N > 0 /\ N - m.i = N
      BY <1>0, <2>3 DEF Backends
    <3>2. \E k \in 1..N : (current + k) % N = b
      BY <1>0, <3>1, RemainderReached
    <3>. QED BY <3>1, <3>2 DEF Ahead
  <2>. QED BY <2>3, <2>4, <2>5 DEF AheadInv
<1>2. CASE m = Idle
  <2>1. m.pc = "idle"
    BY <1>0, <1>2, IdleOK
  <2>. QED BY <2>1 DEF AheadInv
<1>. SUFFICES ASSUME RoundRobin(m), m.straight, ~Starts(l, m), m # Idle
              PROVE  AheadInv(m, cur)
  BY <1>1, <1>2 DEF AheadInv
<1>3. m.client = l.client
  BY DEF CallStep, Visits, Reads, Considers, Finishes, Ages, Kept
<1>4. RoundRobin(l)
  BY <1>3 DEF RoundRobin
<1>5. CASE Ages(l, m)
  <2>1. /\ m.pc = l.pc /\ m.i = l.i /\ m.at = l.at /\ m.best = l.best /\ m.steady \subseteq l.steady
        /\ l.straight /\ cur = current
    BY <1>5 DEF Ages
  <2>. QED BY <1>4, <2>1 DEF AheadInv
<1>6. CASE Visits(l, m) /\ ~Ages(l, m)
  <2>1. /\ l.pc = "scan" /\ l.i < N /\ m.steady = l.steady /\ l.straight
        /\ NextCurrent # 0 \/ UintMod % N = 0
    BY <1>4, <1>6 DEF Visits, Kept
  <2>2. cur = NextCurrent
    BY <1>4, <1>6, <2>1 DEF CallStep
  <2>3. Target(l) = cur % N
    BY <1>4, <2>2 DEF Target
  <2>4. cur = (current + 1) % UintMod /\ N > 0 /\ cur \in Nat
    BY <1>0, <2>1, <2>2 DEF NextCurrent
  <2>5. \A j \in Nat : (cur + j) % N = (current + 1 + j) % N
    <3>1. cur # 0 \/ UintMod % N = 0
      BY <2>1, <2>2
    <3>2. PICK n \in Nat, u \in Nat, c \in Nat :
             n > 0 /\ u > 1 /\ c < u /\ n = N /\ u = UintMod /\ c = current
      BY <1>0, <2>4
    <3>3. Follows(cur, c, u, n)
      BY <2>4, <3>1, <3>2 DEF Follows
    <3>4. n > 0 /\ u > 1 /\ c < u
      BY <3>2
    <3>5. Nearer(cur, c, n)
      BY <3>3, <3>4, CounterAdvances, Zenon
    <3>. QED BY <3>2, <3>5 DEF Nearer
  <2>6. ASSUME NEW b \in l.steady PROVE b = Target(l) \/ Ahead(cur, N - l.i - 1, b)
    <3>1. Ahead(current, N - l.i, b)
      BY <1>4, <2>1 DEF AheadInv
    <3>2. PICK k \in 1..(N - l.i) : (current + k) % N = b
      BY <3>1 DEF Ahead
    <3>3. PICK j \in Nat : j = k - 1
      BY <1>0, <2>1
    <3>4. current + 1 + j = current + k
      BY <1>0, <3>3
    <3>5. (cur + j) % N = b
      BY <2>5, <3>2, <3>4
    <3>6. CASE j = 0
      BY <2>3, <2>4, <3>5, <3>6
    <3>7. CASE j # 0
      <4>1. j \in 1..(N - l.i - 1)
        BY <1>0, <3>3, <3>7
      <4>. QED BY <3>5, <4>1 DEF Ahead
    <3>. QED BY <3>6, <3>7
  <2>7. CASE healthy[Target(l)]
    <3>1. m.pc = "state" /\ m.at = Target(l) /\ m.i = l.i
      BY <1>6, <2>7 DEF Visits
    <3>. QED BY <2>1, <2>6, <3>1 DEF AheadInv
  <2>8. CASE ~healthy[Target(l)]
    <3>1. m.pc = "scan" /\ m.i = l.i + 1
      BY <1>6, <2>8 DEF Visits
    <3>2. N - m.i = N - l.i - 1
      BY <1>0, <3>1
    <3>3. \A b \in l.steady : b # Target(l)
      BY <2>8 DEF SteadyInv
    <3>. QED BY <2>1, <2>6, <3>1, <3>2, <3>3 DEF AheadInv
  <2>. QED BY <2>7, <2>8
<1>7. CASE Reads(l, m) /\ ~Ages(l, m)
  <2>1. l.pc = "state" /\ m.steady = l.steady /\ l.straight /\ cur = current
    BY <1>7 DEF Reads, Kept, CallStep
  <2>2. \A b \in l.steady : b = l.at \/ Ahead(current, N - l.i - 1, b)
    BY <1>4, <2>1 DEF AheadInv
  <2>3. CASE open[l.at]
    <3>1. m.pc = "scan" /\ m.i = l.i + 1
      BY <1>7, <2>3 DEF Reads
    <3>2. N - m.i = N - l.i - 1
      BY <1>0, <3>1
    <3>3. \A b \in l.steady : b # l.at
      BY <2>3 DEF SteadyInv
    <3>. QED BY <2>1, <2>2, <3>1, <3>2, <3>3 DEF AheadInv
  <2>4. CASE ~open[l.at]
    <3>1. m.pc = "body" /\ m.i = l.i /\ m.at = l.at
      BY <1>7, <2>4 DEF Reads
    <3>. QED BY <2>1, <2>2, <3>1 DEF AheadInv
  <2>. QED BY <2>3, <2>4
<1>8. CASE Considers(l, m)
  <2>1. m.pc = "returned" /\ m.best = l.at /\ l.at \in Backends
    BY <1>4, <1>8 DEF Considers, Shape
  <2>. QED BY <1>0, <2>1 DEF AheadInv
<1>9. CASE Finishes(l, m)
  <2>1. m.pc = "returned" /\ m.steady = l.steady /\ l.pc = "scan" /\ l.i = N /\ l.straight
    BY <1>9 DEF Finishes
  <2>2. ASSUME NEW b \in l.steady PROVE FALSE
    <3>1. Ahead(current, N - l.i, b)
      BY <1>4, <2>1 DEF AheadInv
    <3>2. N - l.i = 0
      BY <1>0, <2>1
    <3>. QED BY <3>1, <3>2 DEF Ahead
  <2>. QED BY <2>1, <2>2 DEF AheadInv
<1>. QED BY <1>5, <1>6, <1>7, <1>8, <1>9 DEF CallStep

AvailableInv ==
    \A c \in Callers : SteadyInv(call[c]) /\ FoundInv(call[c]) /\ AheadInv(call[c], current)

(* Every step keeps a backend that was available throughout a call either found
   or still to be visited. *)
LEMMA AvailableInvStep == TypeInv /\ LoadsInv /\ AvailableInv /\ [Next]_vars => AvailableInv'
<1>. SUFFICES ASSUME TypeInv, LoadsInv, AvailableInv, [Next]_vars PROVE AvailableInv'
  OBVIOUS
<1>1. Callers' = Callers /\ pool' = pool /\ strategy' = strategy /\ N' = N
  BY PoolStays
<1>2. ASSUME NEW d \in Callers
      PROVE  SteadyInv(call[d])' /\ FoundInv(call[d])' /\ AheadInv(call[d], current)'
  <2>1. PICK m, cur : m = call'[d] /\ cur = current'
    OBVIOUS
  <2>2. /\ call[d] \in Calls /\ Shape(call[d]) /\ LoadInv(call[d])
        /\ SteadyInv(call[d]) /\ FoundInv(call[d]) /\ AheadInv(call[d], current)
    BY DEF TypeInv, LoadsInv, AvailableInv
  <2>3. m \in Calls /\ CallStep(call[d], m)
    BY <2>1, StepKinds
  <2>4. SteadyInv(call[d])'
    BY <2>2, SteadyStep
  <2>5. FoundInv(m)
    BY <2>2, <2>3, LoadStep, FoundStep
  <2>6. AheadInv(m, cur)
    BY <2>1, <2>2, <2>3, AheadStep
  <2>7. FoundInv(call[d])'
    BY <1>1, <2>1, <2>5 DEF FoundInv, Found, RoundRobin, Uncountable, Backends
  <2>8. AheadInv(call[d], current)'
    BY <1>1, <2>1, <2>6 DEF AheadInv, Ahead, RoundRobin
  <2>. QED BY <2>4, <2>7, <2>8
<1>. QED BY <1>1, <1>2 DEF AvailableInv

(* No call is under way in a new pool. *)
LEMMA AvailableInvInit == Init => AvailableInv
<1>. SUFFICES ASSUME Init, NEW c \in Callers
              PROVE  SteadyInv(call[c]) /\ FoundInv(call[c]) /\ AheadInv(call[c], current)
  BY DEF AvailableInv
<1>1. PICK m : m = Idle
  OBVIOUS
<1>2. m.pc = "idle" /\ m.steady = {}
  BY <1>1, IdleOK DEF Init
<1>3. SteadyInv(m) /\ FoundInv(m) /\ AheadInv(m, current)
  BY <1>2 DEF SteadyInv, FoundInv, AheadInv
<1>. QED BY <1>1, <1>3 DEF Init

(* GetNextBackend returns no backend only if no backend was available at   *)
(* every instant of the call, unless the shared round-robin counter led    *)
(* the call astray or least-connections read the counter of each that was  *)
(* at 2^64 - 1.                                                            *)
THEOREM NilOnlyIfNone == Spec => []NilOnlyIfNoneAvailable
<1>1. AvailableInv => NilOnlyIfNoneAvailable
  BY DEF AvailableInv, FoundInv, AheadInv, NilOnlyIfNoneAvailable, Returned
<1>2. Spec => []AvailableInv
  BY AvailableInvInit, AvailableInvStep, LoadsInvHolds, TypeInvHolds, PTL DEF Spec
<1>. QED BY <1>1, <1>2, PTL

-----------------------------------------------------------------------------
(* weighted-round-robin.  The theorems rest on facts about sums over sets  *)
(* of backends, proved by induction over the subsets of a finite set.      *)

(* Induction over the subsets of a finite set: a family P that holds a set *)
(* whenever it holds that set without any one of its elements holds all.   *)
LEMMA SubsetInduction ==
    ASSUME NEW U, IsFiniteSet(U), NEW P,
           \A s \in SUBSET U : (\A x \in s : s \ {x} \in P) => s \in P
    PROVE  \A s \in SUBSET U : s \in P
<1>. DEFINE R == StrictSubsetOrdering(U)
            Bad == (SUBSET U) \ P
<1>1. IsWellFoundedOn(R, SUBSET U)
  <2>1. IsWellFoundedOn(R, FiniteSubsetsOf(U))
    BY FS_StrictSubsetOrderingWellFounded, Zenon
  <2>2. FiniteSubsetsOf(U) = SUBSET U
    BY FS_FiniteSubsetsOfFinite, Zenon
  <2>. HIDE DEF R
  <2>. QED BY <2>1, <2>2, Zenon
<1>2. ASSUME Bad # {} PROVE FALSE
  <2>1. \E s \in Bad : \A t \in Bad : ~(<<t, s>> \in R)
    <3>1. Bad \subseteq SUBSET U
      OBVIOUS
    <3>. HIDE DEF R, Bad
    <3>. QED BY <1>1, <1>2, <3>1, WFMin, Zenon
  <2>2. PICK s \in Bad : \A t \in Bad : ~(<<t, s>> \in R)
    BY <2>1
  <2>3. s \in SUBSET U /\ s \notin P
    OBVIOUS
  <2>4. ASSUME NEW x \in s PROVE s \ {x} \in P
    <3>. DEFINE t == s \ {x}
    <3>1. t \in SUBSET U /\ t # s
      BY <2>3
    <3>2. <<t, s>> \in R
      BY <2>3, <3>1 DEF StrictSubsetOrdering
    <3>. QED BY <2>2, <3>1, <3>2
  <2>. QED BY <2>3, <2>4
<1>. QED BY <1>2

(* Sums. *)

SumOver(f, S) == MapThenSumSet(LAMBDA b : f[b], S)

\* F adds up f, whichever element is taken first.
Adds(F, f, s) == F[s] \in Int /\ \A x \in s : F[s] = f[x] + F[s \ {x}]

Adder(F, f, U) == F[{}] = 0 /\ \A s \in SUBSET U : Adds(F, f, s)

(* Every family of integers over a finite set can be added up: the sets    *)
(* are treated in the order of their size.                                 *)
LEMMA AdderExists ==
    ASSUME NEW U, IsFiniteSet(U), NEW f \in [U -> Int]
    PROVE  \E F : Adder(F, f, U)
<1>. DEFINE Upto(n) == \E F : F[{}] = 0 /\ \A s \in SUBSET U : Cardinality(s) <= n => Adds(F, f, s)
            Q == {n \in Nat : ~Upto(n)}
            R == {p \in Nat \X Nat : p[1] < p[2]}
<1>0. \A s \in SUBSET U : IsFiniteSet(s) /\ Cardinality(s) \in Nat /\ Cardinality(s) <= Cardinality(U)
  BY FS_Subset, FS_CardinalityType
<1>1. IsWellFoundedOn(R, Nat)
  BY NatLessThanWellFounded, Zenon DEF OpToRel
<1>2. Upto(0)
  <2>. DEFINE F == [s \in SUBSET U |-> 0]
  <2>1. \A s \in SUBSET U : Cardinality(s) <= 0 => s = {}
    BY <1>0, FS_EmptySet
  <2>2. F[{}] = 0 /\ \A s \in SUBSET U : Cardinality(s) <= 0 => Adds(F, f, s)
    BY <2>1 DEF Adds
  <2>. HIDE DEF F
  <2>. QED BY <2>2
<1>3. ASSUME NEW n \in Nat, Upto(n) PROVE Upto(n + 1)
  <2>1. PICK F : F[{}] = 0 /\ \A s \in SUBSET U : Cardinality(s) <= n => Adds(F, f, s)
    BY <1>3
  <2>. DEFINE pick(s) == CHOOSE x : x \in s
              G == [s \in SUBSET U |-> IF Cardinality(s) <= n THEN F[s]
                                       ELSE f[pick(s)] + F[s \ {pick(s)}]]
  <2>2. G[{}] = 0
    BY <2>1, FS_EmptySet
  <2>3. ASSUME NEW s \in SUBSET U, Cardinality(s) <= n + 1 PROVE Adds(G, f, s)
    <3>1. ASSUME NEW x \in s
          PROVE  /\ Cardinality(s \ {x}) <= n /\ s \ {x} \in SUBSET U
                 /\ G[s \ {x}] = F[s \ {x}] /\ F[s \ {x}] \in Int /\ f[x] \in Int
      <4>1. Cardinality(s \ {x}) = Cardinality(s) - 1 /\ s \ {x} \in SUBSET U
        BY <1>0, FS_RemoveElement
      <4>2. Cardinality(s \ {x}) <= n
        BY <1>0, <2>3, <4>1
      <4>. QED BY <2>1, <4>1, <4>2 DEF Adds
    <3>2. CASE Cardinality(s) <= n
      <4>1. G[s] = F[s] /\ Adds(F, f, s)
        BY <2>1, <3>2
      <4>. HIDE DEF G
      <4>. QED BY <3>1, <4>1 DEF Adds
    <3>3. CASE Cardinality(s) > n
      <4>1. s # {}
        BY <3>3, FS_EmptySet
      <4>2. PICK y \in s : y = pick(s)
        BY <4>1
      <4>3. G[s] = f[y] + F[s \ {y}]
        BY <1>0, <3>3, <4>2
      <4>. HIDE DEF G
      <4>4. ASSUME NEW x \in s PROVE G[s] = f[x] + G[s \ {x}]
        <5>1. CASE x = y
          BY <3>1, <4>3, <5>1
        <5>2. CASE x # y
          <6>. DEFINE t == (s \ {x}) \ {y}
          <6>1. t = (s \ {y}) \ {x} /\ y \in s \ {x} /\ x \in s \ {y}
            BY <5>2
          <6>2. Adds(F, f, s \ {x}) /\ Adds(F, f, s \ {y})
            BY <2>1, <3>1
          <6>3. F[s \ {x}] = f[y] + F[t] /\ F[s \ {y}] = f[x] + F[t]
            BY <6>1, <6>2 DEF Adds
          <6>4. F[t] \in Int
            <7>1. t \in SUBSET U /\ Cardinality(t) <= n
              <8>1. t \in SUBSET (s \ {x}) /\ IsFiniteSet(s \ {x})
                BY <1>0, <3>1
              <8>2. Cardinality(t) <= Cardinality(s \ {x})
                BY <8>1, FS_Subset
              <8>3. t \in SUBSET U
                BY <3>1, <8>1
              <8>4. Cardinality(t) \in Nat /\ Cardinality(s \ {x}) \in Nat /\ Cardinality(s \ {x}) <= n
                BY <1>0, <3>1, <8>3
              <8>. HIDE DEF t
              <8>. QED BY <8>2, <8>3, <8>4
            <7>. QED BY <2>1, <7>1 DEF Adds
          <6>5. f[x] \in Int /\ f[y] \in Int /\ G[s \ {x}] = F[s \ {x}]
            BY <3>1
          <6>. HIDE DEF t
          <6>. QED BY <4>3, <6>3, <6>4, <6>5
        <5>. QED BY <5>1, <5>2
      <4>5. G[s] \in Int
        BY <3>1, <4>3
      <4>. QED BY <4>4, <4>5 DEF Adds
    <3>. QED BY <1>0, <3>2, <3>3
  <2>. HIDE DEF G
  <2>. QED BY <2>2, <2>3
<1>4. ASSUME Q # {} PROVE FALSE
  <2>1. \E n \in Q : \A k \in Q : ~(<<k, n>> \in R)
    <3>1. Q \subseteq Nat
      OBVIOUS
    <3>. HIDE DEF R, Q
    <3>. QED BY <1>1, <1>4, <3>1, WFMin, Zenon
  <2>2. PICK n \in Q : \A k \in Q : ~(<<k, n>> \in R)
    BY <2>1
  <2>3. n \in Nat /\ ~Upto(n)
    OBVIOUS
  <2>. HIDE DEF Upto
  <2>4. n # 0 /\ n - 1 \in Nat /\ n - 1 < n
    BY <1>2, <2>3
  <2>5. <<n - 1, n>> \in R
    BY <2>3, <2>4
  <2>6. n - 1 \notin Q
    BY <2>2, <2>5
  <2>7. Upto(n - 1)
    BY <2>4, <2>6
  <2>8. Upto(n - 1 + 1)
    BY <1>3, <2>4, <2>7
  <2>. QED BY <2>3, <2>8
<1>5. Cardinality(U) \in Nat
  BY FS_CardinalityType
<1>6. Upto(Cardinality(U))
  BY <1>4, <1>5
<1>7. PICK F : F[{}] = 0 /\ \A s \in SUBSET U : Cardinality(s) <= Cardinality(U) => Adds(F, f, s)
  BY <1>6
<1>8. Adder(F, f, U)
  BY <1>0, <1>7 DEF Adder
<1>. QED BY <1>8

(* MapThenSumSet adds up. *)
LEMMA SumIsAdder ==
    ASSUME NEW U, IsFiniteSet(U), NEW f \in [U -> Int], NEW F, Adder(F, f, U),
           NEW S \in SUBSET U
    PROVE  SumOver(f, S) = F[S]
<1>. DEFINE pick(s) == CHOOSE x \in s : TRUE
            Body(g) == [s \in SUBSET S |-> IF s = {} THEN 0
                                           ELSE f[pick(s)] + g[s \ {pick(s)}]]
            iter == CHOOSE g : g = Body(g)
            H == [s \in SUBSET S |-> F[s]]
            P == {s \in SUBSET S : iter[s] = F[s]}
<1>1. SumOver(f, S) = iter[S]
  BY DEF SumOver, MapThenSumSet, MapThenFoldSet
<1>2. H = Body(H)
  <2>1. ASSUME NEW s \in SUBSET S, s # {}
        PROVE  pick(s) \in s /\ s \ {pick(s)} \in SUBSET S /\ s \in SUBSET U
    BY <2>1
  <2>2. ASSUME NEW s \in SUBSET S, s # {}
        PROVE  F[s] = f[pick(s)] + H[s \ {pick(s)}]
    <3>1. PICK x \in s : x = pick(s)
      BY <2>1, <2>2
    <3>2. s \in SUBSET U /\ s \ {x} \in SUBSET S
      OBVIOUS
    <3>3. F[s] = f[x] + F[s \ {x}]
      BY <3>2 DEF Adder, Adds
    <3>4. H[s \ {x}] = F[s \ {x}]
      BY <3>2
    <3>. HIDE DEF pick, H
    <3>. QED BY <3>1, <3>3, <3>4
  <2>3. F[{}] = 0
    BY DEF Adder
  <2>4. ASSUME NEW s \in SUBSET S PROVE H[s] = Body(H)[s]
    <3>. HIDE DEF pick
    <3>1. H[s] = F[s]
      OBVIOUS
    <3>2. Body(H)[s] = IF s = {} THEN 0 ELSE f[pick(s)] + H[s \ {pick(s)}]
      OBVIOUS
    <3>. HIDE DEF H, Body
    <3>. QED BY <2>2, <2>3, <3>1, <3>2
  <2>. QED BY <2>4
<1>3. iter = Body(iter)
  <2>. HIDE DEF H, Body
  <2>. QED BY <1>2
<1>4. ASSUME NEW s \in SUBSET S
      PROVE  iter[s] = IF s = {} THEN 0 ELSE f[pick(s)] + iter[s \ {pick(s)}]
  <2>1. \A g : g = Body(g) => g[s] = IF s = {} THEN 0 ELSE f[pick(s)] + g[s \ {pick(s)}]
    OBVIOUS
  <2>. HIDE DEF iter, Body
  <2>. QED BY <1>3, <2>1
<1>. HIDE DEF iter, H
<1>5. ASSUME NEW s \in SUBSET S, \A x \in s : s \ {x} \in P PROVE s \in P
  <2>1. CASE s = {}
    BY <1>4, <2>1 DEF Adder
  <2>2. CASE s # {}
    <3>1. PICK x \in s : x = pick(s)
      BY <2>2
    <3>2. iter[s] = f[x] + iter[s \ {x}]
      BY <1>4, <2>2, <3>1
    <3>3. F[s] = f[x] + F[s \ {x}]
      BY DEF Adder, Adds
    <3>4. iter[s \ {x}] = F[s \ {x}]
      BY <1>5
    <3>. QED BY <3>2, <3>3, <3>4
  <2>. QED BY <2>1, <2>2
<1>6. IsFiniteSet(S)
  BY FS_Subset
<1>7. S \in P
  <2>1. \A s \in SUBSET S : (\A x \in s : s \ {x} \in P) => s \in P
    BY <1>5
  <2>2. \A s \in SUBSET S : s \in P
    <3>. HIDE DEF P
    <3>. QED BY <1>6, <2>1, SubsetInduction
  <2>. QED BY <2>2
<1>. QED BY <1>1, <1>7

(* What there is to know of a sum: nothing adds up to zero, a sum is an    *)
(* integer, and any one element can be taken out of it.                    *)
LEMMA SumFacts ==
    ASSUME NEW U, IsFiniteSet(U), NEW f \in [U -> Int]
    PROVE  /\ SumOver(f, {}) = 0
           /\ \A S \in SUBSET U : SumOver(f, S) \in Int
           /\ \A S \in SUBSET U : \A x \in S : SumOver(f, S) = f[x] + SumOver(f, S \ {x})
<1>1. PICK F : Adder(F, f, U)
  BY AdderExists
<1>2. \A S \in SUBSET U : SumOver(f, S) = F[S]
  BY <1>1, SumIsAdder
<1>3. SumOver(f, {}) = 0
  BY <1>1, <1>2 DEF Adder
<1>4. \A S \in SUBSET U : SumOver(f, S) \in Int
  BY <1>1, <1>2 DEF Adder, Adds
<1>5. ASSUME NEW S \in SUBSET U, NEW x \in S PROVE SumOver(f, S) = f[x] + SumOver(f, S \ {x})
  <2>1. S \ {x} \in SUBSET U
    OBVIOUS
  <2>2. F[S] = f[x] + F[S \ {x}]
    BY <1>1 DEF Adder, Adds
  <2>. QED BY <1>2, <2>1, <2>2
<1>. QED BY <1>3, <1>4, <1>5

(* Sums are linear. *)
LEMMA SumPlus ==
    ASSUME NEW U, IsFiniteSet(U), NEW f \in [U -> Int], NEW g \in [U -> Int], NEW h \in [U -> Int],
           NEW S \in SUBSET U, \A x \in S : h[x] = f[x] + g[x]
    PROVE  SumOver(h, S) = SumOver(f, S) + SumOver(g, S)
<1>. DEFINE P == {s \in SUBSET S : SumOver(h, s) = SumOver(f, s) + SumOver(g, s)}
<1>1. ASSUME NEW s \in SUBSET S, \A x \in s : s \ {x} \in P PROVE s \in P
  <2>1. CASE s = {}
    BY <2>1, SumFacts
  <2>2. ASSUME NEW x \in s PROVE SumOver(h, s) = SumOver(f, s) + SumOver(g, s)
    <3>1. s \in SUBSET U /\ s \ {x} \in SUBSET U /\ x \in U
      OBVIOUS
    <3>2. /\ SumOver(h, s) = h[x] + SumOver(h, s \ {x}) /\ SumOver(f, s) = f[x] + SumOver(f, s \ {x})
          /\ SumOver(g, s) = g[x] + SumOver(g, s \ {x})
      BY <3>1, SumFacts
    <3>3. SumOver(f, s \ {x}) \in Int /\ SumOver(g, s \ {x}) \in Int /\ f[x] \in Int /\ g[x] \in Int
      BY <3>1, SumFacts
    <3>4. SumOver(h, s \ {x}) = SumOver(f, s \ {x}) + SumOver(g, s \ {x}) /\ h[x] = f[x] + g[x]
      BY <1>1
    <3>. QED BY <3>2, <3>3, <3>4
  <2>. QED BY <2>1, <2>2
<1>2. IsFiniteSet(S)
  BY FS_Subset
<1>3. S \in P
  <2>. HIDE DEF P
  <2>. QED BY <1>1, <1>2, SubsetInduction
<1>. QED BY <1>3

(* Functions that agree on a set have the same sum over it. *)
LEMMA SumSame ==
    ASSUME NEW U, IsFiniteSet(U), NEW f \in [U -> Int], NEW h \in [U -> Int],
           NEW S \in SUBSET U, \A x \in S : h[x] = f[x]
    PROVE  SumOver(h, S) = SumOver(f, S)
<1>. DEFINE g == [x \in U |-> 0]
<1>1. g \in [U -> Int] /\ \A x \in S : h[x] = f[x] + g[x] /\ f[x] = f[x] + g[x]
  OBVIOUS
<1>. HIDE DEF g
<1>2. SumOver(h, S) = SumOver(f, S) + SumOver(g, S) /\ SumOver(f, S) = SumOver(f, S) + SumOver(g, S)
  BY <1>1, SumPlus
<1>. QED BY <1>2

(* A sum splits into the sums over a subset and over the rest. *)
LEMMA SumSplit ==
    ASSUME NEW U, IsFiniteSet(U), NEW f \in [U -> Int], NEW S \in SUBSET U, NEW A \in SUBSET S
    PROVE  SumOver(f, S) = SumOver(f, A) + SumOver(f, S \ A)
<1>. DEFINE P == {s \in SUBSET A : SumOver(f, S) = SumOver(f, s) + SumOver(f, S \ s)}
<1>1. ASSUME NEW s \in SUBSET A, \A x \in s : s \ {x} \in P PROVE s \in P
  <2>1. CASE s = {}
    <3>1. S \ s = S /\ SumOver(f, s) = 0 /\ SumOver(f, S) \in Int
      BY <2>1, SumFacts
    <3>2. SumOver(f, S) = SumOver(f, s) + SumOver(f, S \ s)
      BY <3>1
    <3>. QED BY <3>2
  <2>2. ASSUME NEW x \in s PROVE SumOver(f, S) = SumOver(f, s) + SumOver(f, S \ s)
    <3>. DEFINE r == s \ {x}
    <3>1. /\ s \in SUBSET U /\ r \in SUBSET U /\ S \ s \in SUBSET U /\ S \ r \in SUBSET U
          /\ x \in S \ r /\ (S \ r) \ {x} = S \ s /\ x \in U
      OBVIOUS
    <3>2. SumOver(f, S) = SumOver(f, r) + SumOver(f, S \ r)
      BY <1>1
    <3>. HIDE DEF r
    <3>3. SumOver(f, S \ r) = f[x] + SumOver(f, S \ s)
      BY <3>1, SumFacts
    <3>4. SumOver(f, s) = f[x] + SumOver(f, r)
      BY <3>1, SumFacts DEF r
    <3>5. SumOver(f, r) \in Int /\ SumOver(f, S \ s) \in Int /\ f[x] \in Int
      BY <3>1, SumFacts
    <3>. QED BY <3>2, <3>3, <3>4, <3>5
  <2>. QED BY <2>1, <2>2
<1>2. IsFiniteSet(A)
  BY FS_Subset
<1>3. A \in P
  <2>. HIDE DEF P
  <2>. QED BY <1>1, <1>2, SubsetInduction
<1>. QED BY <1>3

(* A sum of numbers none of which is above m / 2. *)
LEMMA SumBound ==
    ASSUME NEW U, IsFiniteSet(U), NEW f \in [U -> Int], NEW S \in SUBSET U, NEW m \in Int,
           \A x \in S : 2 * f[x] <= m
    PROVE  2 * SumOver(f, S) <= m * Cardinality(S)
<1>. DEFINE P == {s \in SUBSET S : 2 * SumOver(f, s) <= m * Cardinality(s)}
<1>1. ASSUME NEW s \in SUBSET S, \A x \in s : s \ {x} \in P PROVE s \in P
  <2>1. CASE s = {}
    <3>1. SumOver(f, s) = 0 /\ Cardinality(s) = 0
      BY <2>1, SumFacts, FS_EmptySet
    <3>. QED BY <3>1
  <2>2. ASSUME NEW x \in s PROVE 2 * SumOver(f, s) <= m * Cardinality(s)
    <3>1. s \in SUBSET U /\ s \ {x} \in SUBSET U /\ x \in U
      OBVIOUS
    <3>2. IsFiniteSet(s) /\ Cardinality(s \ {x}) = Cardinality(s) - 1 /\ Cardinality(s) \in Nat
      BY <3>1, FS_Subset, FS_RemoveElement, FS_CardinalityType
    <3>3. PICK k \in Int : k = Cardinality(s) - 1
      BY <3>2
    <3>4. PICK t \in Int : t = SumOver(f, s \ {x})
      BY <3>1, SumFacts
    <3>5. SumOver(f, s) = f[x] + t /\ f[x] \in Int /\ 2 * f[x] <= m
      BY <3>1, <3>4, SumFacts
    <3>6. 2 * t <= m * k
      BY <1>1, <3>2, <3>3, <3>4
    <3>7. m * (k + 1) = m * k + m /\ m * k \in Int /\ Cardinality(s) = k + 1
      BY <3>2, <3>3
    <3>8. 2 * (f[x] + t) <= m * k + m
      BY <3>5, <3>6, <3>7
    <3>. QED BY <3>5, <3>7, <3>8
  <2>. QED BY <2>1, <2>2
<1>2. IsFiniteSet(S)
  BY FS_Subset
<1>3. S \in P
  <2>. HIDE DEF P
  <2>. QED BY <1>1, <1>2, SubsetInduction
<1>. QED BY <1>3

(* A sum of natural numbers is one. *)
LEMMA SumNat ==
    ASSUME NEW U, IsFiniteSet(U), NEW f \in [U -> Int], NEW S \in SUBSET U,
           \A x \in S : f[x] >= 0
    PROVE  SumOver(f, S) >= 0
<1>. DEFINE P == {s \in SUBSET S : SumOver(f, s) >= 0}
<1>1. ASSUME NEW s \in SUBSET S, \A x \in s : s \ {x} \in P PROVE s \in P
  <2>1. CASE s = {}
    BY <2>1, SumFacts
  <2>2. ASSUME NEW x \in s PROVE SumOver(f, s) >= 0
    <3>1. s \in SUBSET U /\ s \ {x} \in SUBSET U /\ x \in U /\ f[x] \in Int /\ f[x] >= 0
      OBVIOUS
    <3>2. SumOver(f, s) = f[x] + SumOver(f, s \ {x}) /\ SumOver(f, s \ {x}) \in Int
      BY <3>1, SumFacts
    <3>3. SumOver(f, s \ {x}) >= 0
      BY <1>1
    <3>. QED BY <3>1, <3>2, <3>3
  <2>. QED BY <2>1, <2>2
<1>2. IsFiniteSet(S)
  BY FS_Subset
<1>3. S \in P
  <2>. HIDE DEF P
  <2>. QED BY <1>1, <1>2, SubsetInduction
<1>. QED BY <1>3
-----------------------------------------------------------------------------
(* No two backends weigh more than D together. *)
Pairs(w, U, D) == \A a, b \in U : a # b => w[a] + w[b] <= D

(* Two or more backends weigh at most D / 2 on average. *)
LEMMA PairBound ==
    ASSUME NEW U, IsFiniteSet(U), NEW w \in [U -> Int], NEW D \in Int, Pairs(w, U, D),
           NEW B \in SUBSET U, NEW a \in B, NEW c \in B, a # c
    PROVE  2 * SumOver(w, B) <= D * Cardinality(B)
<1>1. CASE \A x \in B : 2 * w[x] <= D
  BY <1>1, SumBound
<1>2. CASE \E x \in B : ~(2 * w[x] <= D)
  <2>1. PICK b \in B : 2 * w[b] > D
    <3>1. \A x \in B : w[x] \in Int
      OBVIOUS
    <3>. QED BY <1>2, <3>1
  <2>2. PICK j \in B : j # b
    OBVIOUS
  <2>. DEFINE C == B \ {b}
              R == C \ {j}
  <2>3. /\ C \in SUBSET U /\ R \in SUBSET U /\ j \in C /\ b \in U /\ j \in U
        /\ w[b] \in Int /\ w[j] \in Int /\ w[b] + w[j] <= D
    BY <2>2 DEF Pairs
  <2>4. \A x \in R : 2 * w[x] <= D
    <3>. TAKE x \in R
    <3>1. x \in U /\ x # b /\ w[x] \in Int
      OBVIOUS
    <3>2. w[x] + w[b] <= D
      BY <2>3, <3>1 DEF Pairs
    <3>. QED BY <2>1, <2>3, <3>1, <3>2
  <2>5. Cardinality(C) = Cardinality(B) - 1 /\ Cardinality(R) = Cardinality(C) - 1
    <3>1. IsFiniteSet(B) /\ IsFiniteSet(C)
      BY <2>3, FS_Subset
    <3>. QED BY <2>3, <3>1, FS_RemoveElement
  <2>6. SumOver(w, B) = w[b] + SumOver(w, C)
    BY SumFacts
  <2>. HIDE DEF C
  <2>7. SumOver(w, C) = w[j] + SumOver(w, R)
    BY <2>3, SumFacts
  <2>. HIDE DEF R
  <2>8. 2 * SumOver(w, R) <= D * Cardinality(R)
    BY <2>3, <2>4, SumBound
  <2>9. PICK r \in Int : r = SumOver(w, R)
    BY <2>3, SumFacts
  <2>10. PICK k \in Int : k = Cardinality(R)
    <3>1. IsFiniteSet(R)
      BY <2>3, FS_Subset
    <3>. QED BY <3>1, FS_CardinalityType
  <2>11. IsFiniteSet(B) /\ Cardinality(B) \in Nat
    BY FS_Subset, FS_CardinalityType
  <2>12. Cardinality(B) = k + 2
    BY <2>5, <2>10, <2>11
  <2>13. D * (k + 2) = D * k + 2 * D /\ D * k \in Int
    OBVIOUS
  <2>14. SumOver(w, B) = w[b] + w[j] + r
    BY <2>3, <2>6, <2>7, <2>9
  <2>15. 2 * (w[b] + w[j] + r) <= D * k + 2 * D
    BY <2>3, <2>8, <2>9, <2>10, <2>13
  <2>. QED BY <2>12, <2>13, <2>14, <2>15
<1>. QED BY <1>1, <1>2

(* Multiplying with a natural number keeps an inequality. *)
LEMMA TimesMonotone ==
    ASSUME NEW k \in Nat, NEW x \in Int, NEW y \in Int, x <= y
    PROVE  k * x <= k * y
OBVIOUS

(* Adding up the potential. *)
LEMMA PotentialIdentity ==
    ASSUME NEW s \in Int, NEW k \in Int, NEW n \in Int
    PROVE  (s - k) * (n - s + k) + k * ((s + 1) * (n - s - 1)) + k * (k + 1) = (k + 1) * (s * (n - s))
OBVIOUS

\* What is known of the sums when a scan passes over the k backends available
\* of a set of s, and what follows for the set; see ScanKeeps.
ScanSums(D, s, k, n, xr, xs, xa, xc, wa, wc) ==
    /\ xs = xr + xa + xc
    /\ 2 * xr <= D * ((s - k) * (n - s + k))
    /\ 2 * xs <= D * ((s + 1) * (n - s - 1))
    /\ xa + wa <= k * (xc + wc)
    /\ 2 * (wa + wc) <= D * (k + 1)

ScanSum(D, s, n, xr, xa, wa) == 2 * (xr + xa + wa) <= D * (s * (n - s))

(* The arithmetic of one scan. *)
LEMMA Averaging ==
    ASSUME NEW D \in Int, NEW s \in Int, NEW k \in Nat, NEW n \in Int,
           NEW xr \in Int, NEW xs \in Int, NEW xa \in Int, NEW xc \in Int,
           NEW wa \in Int, NEW wc \in Int, ScanSums(D, s, k, n, xr, xs, xa, xc, wa, wc)
    PROVE  ScanSum(D, s, n, xr, xa, wa)
<1>0. /\ xs = xr + xa + xc
      /\ 2 * xr <= D * ((s - k) * (n - s + k))
      /\ 2 * xs <= D * ((s + 1) * (n - s - 1))
      /\ xa + wa <= k * (xc + wc)
      /\ 2 * (wa + wc) <= D * (k + 1)
  BY DEF ScanSums
<1>1. PICK p \in Int : p = (s - k) * (n - s + k)
  OBVIOUS
<1>2. PICK q \in Int : q = (s + 1) * (n - s - 1)
  OBVIOUS
<1>3. PICK g \in Int : g = s * (n - s)
  OBVIOUS
<1>4. p + k * q + k * (k + 1) = (k + 1) * g
  BY <1>1, <1>2, <1>3, PotentialIdentity
<1>5. k * (2 * xs) <= k * (D * q)
  <2>1. 2 * xs \in Int /\ D * q \in Int /\ 2 * xs <= D * q
    BY <1>0, <1>2
  <2>. QED BY <2>1, TimesMonotone
<1>6. k * (2 * (wa + wc)) <= k * (D * (k + 1))
  <2>1. 2 * (wa + wc) \in Int /\ D * (k + 1) \in Int
    OBVIOUS
  <2>. QED BY <1>0, <2>1, TimesMonotone
<1>7. (k + 1) * (2 * (xr + xa + wa)) = 2 * xr + 2 * (xa + wa) + k * (2 * xs) + k * (2 * wa) - k * (2 * xc)
  BY <1>0
<1>8. k * (2 * (wa + wc)) = k * (2 * wa) + k * (2 * wc) /\ 2 * (k * (xc + wc)) = k * (2 * xc) + k * (2 * wc)
  OBVIOUS
<1>9. D * p + k * (D * q) + k * (D * (k + 1)) = D * ((k + 1) * g)
  <2>1. D * p + k * (D * q) + k * (D * (k + 1)) = D * (p + k * q + k * (k + 1))
    OBVIOUS
  <2>. QED BY <1>4, <2>1
<1>10. (k + 1) * (2 * (xr + xa + wa)) <= D * ((k + 1) * g)
  <2>. DEFINE k2xs == k * (2 * xs)
              kDq == k * (D * q)
              k2w == k * (2 * (wa + wc))
              kDk == k * (D * (k + 1))
              kx == k * (xc + wc)
              Dp == D * p
              k2wa == k * (2 * wa)
              k2wc == k * (2 * wc)
              k2xc == k * (2 * xc)
              L == (k + 1) * (2 * (xr + xa + wa))
              M == D * ((k + 1) * g)
  <2>1. /\ k2xs \in Int /\ kDq \in Int /\ k2w \in Int /\ kDk \in Int /\ kx \in Int
        /\ Dp \in Int /\ k2wa \in Int /\ k2wc \in Int /\ k2xc \in Int /\ L \in Int /\ M \in Int
    OBVIOUS
  <2>2. /\ k2xs <= kDq /\ k2w <= kDk /\ L = 2 * xr + 2 * (xa + wa) + k2xs + k2wa - k2xc
        /\ k2w = k2wa + k2wc /\ 2 * kx = k2xc + k2wc /\ Dp + kDq + kDk = M
    BY <1>5, <1>6, <1>7, <1>8, <1>9
  <2>3. 2 * xr <= Dp /\ xa + wa <= kx
    BY <1>0, <1>1
  <2>. HIDE DEF k2xs, kDq, k2w, kDk, kx, Dp, k2wa, k2wc, k2xc, L, M
  <2>4. L <= M
    BY <2>1, <2>2, <2>3
  <2>. QED BY <2>4 DEF L, M
<1>11. D * ((k + 1) * g) = (k + 1) * (D * g)
  OBVIOUS
<1>12. \A x, y \in Int : (k + 1) * x <= (k + 1) * y => x <= y
  OBVIOUS
<1>13. 2 * (xr + xa + wa) \in Int /\ D * g \in Int
  OBVIOUS
<1>14. 2 * (xr + xa + wa) <= D * g
  BY <1>10, <1>11, <1>12, <1>13
<1>. QED BY <1>3, <1>14 DEF ScanSum

\* The potential of a set of backends: no more than this can they have been
\* granted beyond what they were charged.
Bounded(x, U, D) ==
    \A S \in SUBSET U :
       2 * SumOver(x, S) <= D * (Cardinality(S) * (Cardinality(U) - Cardinality(S)))

\* y is x after a scan that granted the backends in G their weights and
\* charged c, the best of them.
Charged(x, y, w, U, G, c) ==
    /\ \A a \in G : x[a] + w[a] <= x[c] + w[c]
    /\ \A b \in U : y[b] = x[b] + (IF b \in G THEN w[b] ELSE 0)
                               - (IF b = c THEN SumOver(w, G) ELSE 0)

(* A scan keeps the sum of the current weights, and what a set of backends *)
(* can be owed.                                                            *)
LEMMA ScanKeeps ==
    ASSUME NEW U, IsFiniteSet(U), NEW w \in [U -> Int], \A b \in U : w[b] >= 0,
           NEW D \in Int, Pairs(w, U, D), NEW x \in [U -> Int], NEW y \in [U -> Int],
           NEW G \in SUBSET U, NEW c \in G, Charged(x, y, w, U, G, c), Bounded(x, U, D)
    PROVE  /\ SumOver(y, U) = SumOver(x, U)
           /\ Bounded(y, U, D)
<1>. DEFINE u == [b \in U |-> IF b \in G THEN w[b] ELSE 0]
            z == [b \in U |-> x[b] + u[b]]
<1>1. /\ u \in [U -> Int] /\ z \in [U -> Int] /\ c \in U
      /\ \A b \in U : u[b] >= 0 /\ z[b] = x[b] + u[b]
      /\ \A b \in G : u[b] = w[b]
      /\ \A b \in U \ G : u[b] = 0
  OBVIOUS
<1>2. PICK t \in Int : t = SumOver(w, G)
  BY SumFacts
<1>3. \A b \in U : y[b] = IF b = c THEN z[b] - t ELSE z[b]
  <2>. TAKE b \in U
  <2>1. y[b] = x[b] + u[b] - (IF b = c THEN t ELSE 0)
    BY <1>2 DEF Charged
  <2>2. z[b] = x[b] + u[b] /\ x[b] \in Int /\ u[b] \in Int
    BY <1>1
  <2>. HIDE DEF u, z
  <2>. QED BY <2>1, <2>2
<1>. HIDE DEF u, z
<1>4. ASSUME NEW S \in SUBSET U PROVE SumOver(z, S) = SumOver(x, S) + SumOver(u, S)
  BY <1>1, SumPlus
<1>5. ASSUME NEW S \in SUBSET U, \A b \in S : u[b] = 0 PROVE SumOver(u, S) = 0
  <2>1. SumOver(x, S) + SumOver(u, S) = SumOver(x, S) /\ SumOver(x, S) \in Int /\ SumOver(u, S) \in Int
    <3>1. \A b \in S : x[b] = x[b] + u[b]
      BY <1>5
    <3>. QED BY <1>1, <3>1, SumPlus, SumFacts
  <2>. QED BY <2>1
<1>6. SumOver(u, U) = t
  <2>1. SumOver(u, U) = SumOver(u, G) + SumOver(u, U \ G)
    BY <1>1, SumSplit
  <2>2. SumOver(u, G) = t
    <3>1. u \in [U -> Int] /\ \A b \in G : u[b] = w[b]
      BY <1>1
    <3>2. SumOver(u, G) = SumOver(w, G)
      BY <3>1, SumSame
    <3>. QED BY <1>2, <3>2
  <2>3. SumOver(u, U \ G) = 0
    BY <1>1, <1>5
  <2>. QED BY <2>1, <2>2, <2>3
<1>7. ASSUME NEW S \in SUBSET U, c \notin S PROVE SumOver(y, S) = SumOver(x, S) + SumOver(u, S)
  <2>1. SumOver(y, S) = SumOver(z, S)
    <3>1. z \in [U -> Int] /\ \A b \in S : y[b] = z[b]
      BY <1>1, <1>3, <1>7
    <3>. QED BY <3>1, SumSame
  <2>. QED BY <1>4, <2>1
<1>8. ASSUME NEW S \in SUBSET U, c \in S PROVE SumOver(y, S) = SumOver(x, S) + SumOver(u, S) - t
  <2>1. S \ {c} \in SUBSET U /\ c \in U /\ z[c] \in Int /\ y[c] = z[c] - t
    BY <1>1, <1>3
  <2>2. SumOver(y, S) = y[c] + SumOver(y, S \ {c}) /\ SumOver(z, S) = z[c] + SumOver(z, S \ {c})
    BY <1>1, <1>8, SumFacts
  <2>3. SumOver(y, S \ {c}) = SumOver(z, S \ {c}) /\ SumOver(z, S \ {c}) \in Int
    BY <1>1, <1>3, <2>1, SumSame, SumFacts
  <2>4. SumOver(y, S) = SumOver(z, S) - t
    BY <2>1, <2>2, <2>3
  <2>5. SumOver(x, S) \in Int /\ SumOver(u, S) \in Int /\ SumOver(z, S) = SumOver(x, S) + SumOver(u, S)
    BY <1>1, <1>4, SumFacts
  <2>. QED BY <2>4, <2>5
<1>9. SumOver(y, U) = SumOver(x, U)
  <2>1. SumOver(x, U) \in Int
    BY SumFacts
  <2>. QED BY <1>1, <1>6, <1>8, <2>1
<1>10. ASSUME NEW S \in SUBSET U, c \in S
       PROVE  2 * SumOver(y, S) <= D * (Cardinality(S) * (Cardinality(U) - Cardinality(S)))
  <2>1. SumOver(u, U) = SumOver(u, S) + SumOver(u, U \ S)
    BY <1>1, SumSplit
  <2>2. SumOver(u, U \ S) >= 0 /\ SumOver(u, U \ S) \in Int /\ SumOver(u, S) \in Int
    BY <1>1, SumNat, SumFacts
  <2>3. SumOver(y, S) <= SumOver(x, S) /\ SumOver(x, S) \in Int /\ SumOver(y, S) \in Int
    <3>1. SumOver(x, S) \in Int /\ SumOver(y, S) \in Int
      BY SumFacts
    <3>. QED BY <1>6, <1>8, <1>10, <2>1, <2>2, <3>1
  <2>4. PICK m : m = D * (Cardinality(S) * (Cardinality(U) - Cardinality(S)))
    OBVIOUS
  <2>5. m \in Int
    <3>1. Cardinality(S) \in Int /\ Cardinality(U) \in Int
      BY FS_Subset, FS_CardinalityType
    <3>. QED BY <2>4, <3>1
  <2>6. 2 * SumOver(x, S) <= m
    BY <2>4 DEF Bounded
  <2>7. 2 * SumOver(y, S) <= m
    BY <2>3, <2>5, <2>6
  <2>. QED BY <2>4, <2>7
<1>11. ASSUME NEW S \in SUBSET U, c \notin S
       PROVE  2 * SumOver(y, S) <= D * (Cardinality(S) * (Cardinality(U) - Cardinality(S)))
  <2>. DEFINE A == S \cap G
              B == A \cup {c}
              V == S \cup {c}
              Q == S \ A
  <2>1. /\ A \in SUBSET U /\ B \in SUBSET U /\ V \in SUBSET U /\ Q \in SUBSET U /\ A \in SUBSET S
        /\ c \in B /\ B \ {c} = A /\ c \in V /\ V \ {c} = S
        /\ \A b \in A : b \in G /\ b # c /\ b \in U
        /\ \A b \in Q : b \in U \ G
    BY <1>1, <1>11
  <2>2. /\ Cardinality(S) \in Nat /\ Cardinality(U) \in Nat /\ Cardinality(A) \in Nat
        /\ Cardinality(B) = Cardinality(A) + 1 /\ Cardinality(V) = Cardinality(S) + 1
        /\ Cardinality(Q) = Cardinality(S) - Cardinality(A)
    <3>1. IsFiniteSet(S) /\ IsFiniteSet(A)
      BY <2>1, FS_Subset
    <3>2. Cardinality(S) \in Nat /\ Cardinality(U) \in Nat /\ Cardinality(A) \in Nat
      BY <3>1, FS_CardinalityType
    <3>3. Cardinality(B) = Cardinality(A) + 1 /\ Cardinality(V) = Cardinality(S) + 1
      BY <1>11, <3>1, FS_AddElement
    <3>4. Cardinality(Q) = Cardinality(S) - Cardinality(A)
      <4>1. S \cap A = A
        OBVIOUS
      <4>. QED BY <3>1, <4>1, FS_Difference
    <3>. QED BY <3>2, <3>3, <3>4
  <2>. HIDE DEF A, B, V, Q
  <2>3. CASE A = {}
    <3>1. \A b \in S : u[b] = 0
      BY <1>1, <2>3 DEF A
    <3>2. SumOver(y, S) = SumOver(x, S)
      <4>1. SumOver(u, S) = 0 /\ SumOver(x, S) \in Int
        BY <1>5, <3>1, SumFacts
      <4>. QED BY <1>7, <1>11, <4>1
    <3>. QED BY <3>2 DEF Bounded
  <2>4. CASE A # {}
    <3>1. PICK a \in A : TRUE
      BY <2>4
    <3>2. PICK xr \in Int : xr = SumOver(x, Q)
      BY <2>1, SumFacts
    <3>3. PICK xs \in Int : xs = SumOver(x, V)
      BY <2>1, SumFacts
    <3>4. PICK xa \in Int : xa = SumOver(x, A)
      BY <2>1, SumFacts
    <3>5. PICK xc \in Int : xc = x[c]
      BY <1>1
    <3>6. PICK wa \in Int : wa = SumOver(w, A)
      BY <2>1, SumFacts
    <3>7. PICK wc \in Int : wc = w[c]
      BY <1>1
    <3>8. PICK s \in Int : s = Cardinality(S)
      BY <2>2
    <3>9. PICK k \in Nat : k = Cardinality(A)
      BY <2>2
    <3>10. PICK n \in Int : n = Cardinality(U)
      BY <2>2
    <3>11. SumOver(x, S) = xr + xa
      <4>1. SumOver(x, S) = SumOver(x, A) + SumOver(x, S \ A)
        BY <2>1, SumSplit
      <4>. QED BY <3>2, <3>4, <4>1 DEF Q
    <3>12. xs = xr + xa + xc
      <4>1. SumOver(x, V) = x[c] + SumOver(x, S)
        BY <2>1, SumFacts
      <4>. QED BY <3>3, <3>5, <3>11, <4>1
    <3>13. SumOver(u, S) = wa
      <4>1. SumOver(u, S) = SumOver(u, A) + SumOver(u, Q)
        <5>1. SumOver(u, S) = SumOver(u, A) + SumOver(u, S \ A)
          BY <1>1, <2>1, SumSplit
        <5>. QED BY <5>1 DEF Q
      <4>2. SumOver(u, A) = wa
        BY <1>1, <2>1, <3>6, SumSame
      <4>3. SumOver(u, Q) = 0
        BY <1>1, <1>5, <2>1
      <4>. QED BY <4>1, <4>2, <4>3
    <3>14. 2 * xr <= D * ((s - k) * (n - s + k))
      <4>1. 2 * SumOver(x, Q) <= D * (Cardinality(Q) * (Cardinality(U) - Cardinality(Q)))
        BY <2>1 DEF Bounded
      <4>2. Cardinality(Q) = s - k /\ Cardinality(U) - Cardinality(Q) = n - s + k
        BY <2>2, <3>8, <3>9, <3>10
      <4>. QED BY <3>2, <4>1, <4>2
    <3>15. 2 * xs <= D * ((s + 1) * (n - s - 1))
      <4>1. 2 * SumOver(x, V) <= D * (Cardinality(V) * (Cardinality(U) - Cardinality(V)))
        BY <2>1 DEF Bounded
      <4>2. Cardinality(V) = s + 1 /\ Cardinality(U) - Cardinality(V) = n - s - 1
        BY <2>2, <3>8, <3>10
      <4>. QED BY <3>3, <4>1, <4>2
    <3>16. xa + wa <= k * (xc + wc)
      <4>. DEFINE v == [b \in U |-> x[b] + w[b]]
      <4>1. v \in [U -> Int] /\ \A b \in A : v[b] = x[b] + w[b]
        BY <2>1
      <4>2. \A b \in A : 2 * v[b] <= 2 * (xc + wc)
        <5>. TAKE b \in A
        <5>1. v[b] <= xc + wc /\ v[b] \in Int
          BY <2>1, <3>5, <3>7, <4>1 DEF Charged
        <5>. HIDE DEF v
        <5>. QED BY <5>1
      <4>. HIDE DEF v
      <4>3. SumOver(v, A) = xa + wa
        BY <2>1, <3>4, <3>6, <4>1, SumPlus
      <4>4. PICK m \in Int : m = 2 * (xc + wc)
        OBVIOUS
      <4>5. 2 * SumOver(v, A) <= m * Cardinality(A)
        BY <2>1, <4>1, <4>2, <4>4, SumBound
      <4>6. 2 * (xa + wa) <= (2 * (xc + wc)) * k
        BY <3>9, <4>3, <4>4, <4>5
      <4>7. (2 * (xc + wc)) * k = 2 * (k * (xc + wc)) /\ k * (xc + wc) \in Int
        OBVIOUS
      <4>. QED BY <4>6, <4>7
    <3>17. 2 * (wa + wc) <= D * (k + 1)
      <4>1. SumOver(w, B) = w[c] + SumOver(w, A)
        BY <2>1, SumFacts
      <4>2. a \in B /\ a # c
        BY <2>1, <3>1 DEF B
      <4>3. 2 * SumOver(w, B) <= D * Cardinality(B)
        BY <2>1, <4>2, PairBound
      <4>4. SumOver(w, B) = wa + wc /\ Cardinality(B) = k + 1
        BY <2>2, <3>6, <3>7, <3>9, <4>1
      <4>. QED BY <4>3, <4>4
    <3>18. 2 * (xr + xa + wa) <= D * (s * (n - s))
      <4>1. ScanSums(D, s, k, n, xr, xs, xa, xc, wa, wc)
        BY <3>12, <3>14, <3>15, <3>16, <3>17 DEF ScanSums
      <4>2. ScanSum(D, s, n, xr, xa, wa)
        BY <4>1, Averaging, Zenon
      <4>. QED BY <4>2 DEF ScanSum
    <3>19. SumOver(y, S) = xr + xa + wa
      BY <1>7, <1>11, <3>11, <3>13
    <3>. QED BY <3>8, <3>10, <3>18, <3>19
  <2>. QED BY <2>3, <2>4
<1>12. Bounded(y, U, D)
  BY <1>10, <1>11 DEF Bounded
<1>. QED BY <1>9, <1>12

(* What one backend can be owed or owe. *)
LEMMA OneBounded ==
    ASSUME NEW U, IsFiniteSet(U), NEW x \in [U -> Int], NEW D \in Int,
           SumOver(x, U) = 0, Bounded(x, U, D), NEW b \in U
    PROVE  /\ 2 * x[b] <= D * (Cardinality(U) - 1)
           /\ -(D * (Cardinality(U) - 1)) <= 2 * x[b]
<1>1. SumOver(x, {b}) = x[b] /\ x[b] \in Int
  <2>1. {b} \ {b} = {} /\ {b} \in SUBSET U
    OBVIOUS
  <2>2. SumOver(x, {b}) = x[b] + SumOver(x, {}) /\ SumOver(x, {}) = 0
    BY <2>1, SumFacts
  <2>. QED BY <2>2
<1>2. PICK n \in Nat : n = Cardinality(U)
  BY FS_CardinalityType
<1>3. Cardinality({b}) = 1 /\ Cardinality(U \ {b}) = n - 1
  BY <1>2, FS_Singleton, FS_RemoveElement
<1>4. 2 * x[b] <= D * (n - 1)
  <2>1. {b} \in SUBSET U
    OBVIOUS
  <2>2. 2 * SumOver(x, {b}) <= D * (1 * (n - 1))
    BY <1>2, <1>3, <2>1 DEF Bounded
  <2>. QED BY <1>1, <2>2
<1>5. -(D * (n - 1)) <= 2 * x[b]
  <2>1. U \ {b} \in SUBSET U
    OBVIOUS
  <2>2. SumOver(x, U) = x[b] + SumOver(x, U \ {b}) /\ SumOver(x, U \ {b}) \in Int
    BY <2>1, SumFacts
  <2>3. SumOver(x, U \ {b}) = -x[b]
    BY <1>1, <2>2
  <2>4. 2 * SumOver(x, U \ {b}) <= D * ((n - 1) * (n - (n - 1)))
    BY <1>2, <1>3, <2>1 DEF Bounded
  <2>5. (n - 1) * (n - (n - 1)) = n - 1
    OBVIOUS
  <2>6. 2 * (-x[b]) <= D * (n - 1) /\ D * (n - 1) \in Int
    BY <2>3, <2>4, <2>5
  <2>. QED BY <1>1, <2>6
<1>. QED BY <1>2, <1>4, <1>5

(* One of finitely many integers is the greatest. *)
LEMMA GreatestValue ==
    ASSUME NEW V, IsFiniteSet(V), NEW f \in [V -> Int], V # {}
    PROVE  \E v \in V : \A u \in V : f[u] <= f[v]
<1>. DEFINE P == {s \in SUBSET V : s = {} \/ \E v \in s : \A u \in s : f[u] <= f[v]}
<1>1. ASSUME NEW s \in SUBSET V, \A x \in s : s \ {x} \in P PROVE s \in P
  <2>1. ASSUME NEW x \in s PROVE \E v \in s : \A u \in s : f[u] <= f[v]
    <3>1. \A u \in s : f[u] \in Int /\ f[u] <= f[u]
      OBVIOUS
    <3>2. CASE s \ {x} = {}
      BY <3>1, <3>2
    <3>3. CASE s \ {x} # {}
      <4>1. PICK v \in s \ {x} : \A u \in s \ {x} : f[u] <= f[v]
        BY <1>1, <3>3
      <4>2. CASE f[x] <= f[v]
        BY <4>1, <4>2
      <4>3. CASE ~(f[x] <= f[v])
        <5>1. \A u \in s : f[u] <= f[x]
          BY <3>1, <4>1, <4>3
        <5>. QED BY <5>1
      <4>. QED BY <4>2, <4>3
    <3>. QED BY <3>2, <3>3
  <2>. QED BY <2>1
<1>2. V \in P
  <2>. HIDE DEF P
  <2>. QED BY <1>1, SubsetInduction
<1>. QED BY <1>2

Weights == [b \in Backends |-> Weight(b)]

\* HeaviestPair, for a pool without backends too.
Top == IF N = 0 THEN 0 ELSE HeaviestPair

(* HeaviestPair is what its name says. *)
LEMMA TopFacts ==
    ASSUME pool \in Pools
    PROVE  /\ IsFiniteSet(Backends) /\ Cardinality(Backends) = N /\ N \in Nat
           /\ Weights \in [Backends -> Int] /\ \A b \in Backends : Weights[b] >= 0
           /\ Top \in Nat /\ Pairs(Weights, Backends, Top)
<1>1. N \in Nat /\ \A b \in Backends : Weight(b) \in Nat
  BY PoolFacts
<1>2. IsFiniteSet(Backends) /\ Cardinality(Backends) = N
  <2>1. 0 \in Int /\ N - 1 \in Int
    BY <1>1
  <2>2. IsFiniteSet(0..(N - 1)) /\ Cardinality(0..(N - 1)) = IF 0 > N - 1 THEN 0 ELSE (N - 1) - 0 + 1
    BY <2>1, FS_Interval
  <2>. QED BY <1>1, <2>2 DEF Backends
<1>3. Weights \in [Backends -> Int] /\ \A b \in Backends : Weights[b] >= 0 /\ Weights[b] = Weight(b)
  BY <1>1 DEF Weights
<1>4. CASE N = 0
  BY <1>1, <1>2, <1>3, <1>4 DEF Top, Pairs, Backends
<1>5. CASE N # 0
  <2>. DEFINE V == Backends \X Backends
              f == [v \in V |-> IF v[1] = v[2] THEN 0 ELSE Weight(v[1]) + Weight(v[2])]
              Q == {IF a = b THEN 0 ELSE Weight(a) + Weight(b) : a, b \in Backends}
  <2>1. IsFiniteSet(V) /\ f \in [V -> Int] /\ <<0, 0>> \in V
    <3>1. IsFiniteSet(V)
      BY <1>2, FS_Product
    <3>2. f \in [V -> Int]
      BY <1>1
    <3>3. 0 \in Backends
      BY <1>1, <1>5 DEF Backends
    <3>. QED BY <3>1, <3>2, <3>3
  <2>2. PICK v \in V : \A u \in V : f[u] <= f[v]
    <3>. HIDE DEF V, f
    <3>. QED BY <2>1, GreatestValue
  <2>3. f[v] \in Nat /\ f[v] \in Q
    BY <1>1
  <2>4. \A q \in Q : q \in Nat /\ q <= f[v]
    <3>. SUFFICES ASSUME NEW a \in Backends, NEW b \in Backends,
                         NEW q, q = IF a = b THEN 0 ELSE Weight(a) + Weight(b)
                  PROVE  q \in Nat /\ q <= f[v]
      OBVIOUS
    <3>1. q \in Nat /\ <<a, b>> \in V /\ f[<<a, b>>] = q
      BY <1>1
    <3>. QED BY <2>2, <3>1
  <2>5. HeaviestPair = Max(Q)
    BY DEF HeaviestPair
  <2>6. ASSUME NEW a \in Backends, NEW b \in Backends, a # b PROVE Weight(a) + Weight(b) \in Q
    BY <2>6
  <2>. HIDE DEF Q, f, V
  <2>7. Max(Q) \in Q /\ \A q \in Q : Max(Q) >= q
    <3>1. \A q \in Q : f[v] >= q
      BY <2>3, <2>4
    <3>. QED BY <2>3, <3>1 DEF Max
  <2>8. Top \in Nat /\ Top = Max(Q)
    BY <1>5, <2>4, <2>5, <2>7 DEF Top
  <2>9. ASSUME NEW a \in Backends, NEW b \in Backends, a # b
        PROVE  Weights[a] + Weights[b] <= Top
    <3>1. Weight(a) + Weight(b) \in Q /\ Weights[a] = Weight(a) /\ Weights[b] = Weight(b)
      BY <1>3, <2>6, <2>9
    <3>2. Max(Q) \in Nat /\ Weight(a) + Weight(b) \in Nat /\ Max(Q) >= Weight(a) + Weight(b)
      BY <2>4, <2>7, <3>1
    <3>. QED BY <2>8, <3>1, <3>2
  <2>10. Pairs(Weights, Backends, Top)
    BY <2>9 DEF Pairs
  <2>. QED BY <1>1, <1>2, <1>3, <2>8, <2>10
<1>. QED BY <1>4, <1>5

-----------------------------------------------------------------------------
(* The invariant of weighted-round-robin. *)

Weighted    == strategy = "weighted-round-robin"
Scanning(l) == l.pc \in {"scan", "state", "body"}

\* The backends whose weight the scan under way has added.
Granted == IF lock = nil THEN {} ELSE Considered(call[lock])

\* The current weights as they were when the scan under way began.
BaseOf(cw, G) == [b \in Backends |-> IF b \in G THEN cw[b] - Weight(b) ELSE cw[b]]
Base == BaseOf(currentWeight, Granted)

\* The lock is held by the call that scans, and only by it.
Locked == \A c \in Callers : Scanning(call[c]) <=> lock = c

\* The locals of the call that scans, given the current weights.
GrantInv(l, cw) ==
    /\ \A b \in Considered(l) : b < l.i
    /\ l.total = SumOver(Weights, Considered(l))
    /\ l.best = nil => Considered(l) = {}
    /\ l.best # nil => /\ l.best \in Considered(l)
                       /\ \A b \in Considered(l) : cw[b] <= cw[l.best]

\* Between scans the current weights sum to zero, no set of backends is owed
\* more than its potential, and a backend is owed for every call that passed it.
Fair(x, ps) ==
    /\ SumOver(x, Backends) = 0
    /\ Bounded(x, Backends, Top)
    /\ ps \in [Backends -> Nat]
    /\ \A b \in Backends : 2 * (ps[b] * Weight(b)) <= 2 * x[b] + Top * (N - 1)

RobinInv ==
    /\ Weighted => Locked /\ (lock # nil => GrantInv(call[lock], currentWeight)) /\ Fair(Base, passed)
    /\ ~Weighted => lock = nil /\ currentWeight = [b \in Backends |-> 0]

(* Nobody has been granted or charged anything. *)
LEMMA FairInit ==
    ASSUME pool \in Pools, NEW z, z = [b \in Backends |-> 0]
    PROVE  Fair(z, z)
<1>1. /\ IsFiniteSet(Backends) /\ Cardinality(Backends) = N /\ N \in Nat /\ Top \in Nat
      /\ \A b \in Backends : Weight(b) \in Nat
  BY TopFacts, PoolFacts
<1>2. z \in [Backends -> Int] /\ z \in [Backends -> Nat] /\ \A b \in Backends : z[b] = 0
  OBVIOUS
<1>3. ASSUME NEW S \in SUBSET Backends PROVE SumOver(z, S) = 0
  <2>1. SumOver(z, S) = SumOver(z, S) + SumOver(z, S) /\ SumOver(z, S) \in Int
    <3>1. \A b \in S : z[b] = z[b] + z[b]
      BY <1>2
    <3>. QED BY <1>1, <1>2, <3>1, SumPlus, SumFacts
  <2>2. \A t \in Int : t = t + t => t = 0
    OBVIOUS
  <2>. QED BY <2>1, <2>2
<1>4. ASSUME NEW S \in SUBSET Backends
      PROVE  2 * SumOver(z, S) <= Top * (Cardinality(S) * (Cardinality(Backends) - Cardinality(S)))
  <2>1. IsFiniteSet(S) /\ Cardinality(S) <= N
    BY <1>1, FS_Subset
  <2>2. PICK k \in Nat : k = Cardinality(S)
    BY <2>1, FS_CardinalityType
  <2>3. PICK j \in Nat : j = N - k
    BY <1>1, <2>1, <2>2
  <2>4. k * j \in Nat
    OBVIOUS
  <2>5. Top * (k * j) >= 0
    BY <1>1, <2>4
  <2>. QED BY <1>1, <1>3, <2>2, <2>3, <2>5
<1>5. ASSUME NEW b \in Backends PROVE 2 * (z[b] * Weight(b)) <= 2 * z[b] + Top * (N - 1)
  <2>1. N - 1 \in Nat /\ Weight(b) \in Nat /\ z[b] = 0
    BY <1>1, <1>2 DEF Backends
  <2>2. Top * (N - 1) \in Nat
    BY <1>1, <2>1
  <2>. QED BY <2>1, <2>2
<1>. QED BY <1>2, <1>3, <1>4, <1>5 DEF Fair, Bounded

\* What the end of a scan does to the current weights and to passed.
Closes(l, cw, ps, cx, qs) ==
    /\ cx = IF l.best # nil THEN [cw EXCEPT ![l.best] = @ - l.total] ELSE cw
    /\ qs = [b \in Backends |-> IF b \in l.up \ {l.best} THEN ps[b] + 1 ELSE 0]

(* A finished scan: the one before it was fair, and so is the next. *)
LEMMA FairFinish ==
    ASSUME pool \in Pools, NEW cw \in [Backends -> Int], NEW cx \in [Backends -> Int],
           NEW l \in Calls, l.pc = "scan", GrantInv(l, cw), NEW ps,
           Fair(BaseOf(cw, l.up), ps), NEW qs, Closes(l, cw, ps, cx, qs)
    PROVE  Fair(cx, qs)
<1>. DEFINE G == l.up
<1>0. PICK x : x = BaseOf(cw, l.up)
  OBVIOUS
<1>1. /\ IsFiniteSet(Backends) /\ Cardinality(Backends) = N /\ N \in Nat /\ Top \in Nat
      /\ \A b \in Backends : Weight(b) \in Nat /\ b # nil
      /\ Weights \in [Backends -> Int] /\ \A b \in Backends : Weights[b] >= 0
      /\ Pairs(Weights, Backends, Top)
  BY TopFacts, PoolFacts
<1>2. G \in SUBSET Backends /\ l.best \in Backends \cup {nil} /\ l.total \in Nat /\ Considered(l) = G
  BY DEF Calls, Considered
<1>3. /\ x \in [Backends -> Int]
      /\ \A b \in Backends : x[b] = IF b \in G THEN cw[b] - Weight(b) ELSE cw[b]
  BY <1>0, <1>1 DEF BaseOf
<1>4. /\ SumOver(x, Backends) = 0 /\ Bounded(x, Backends, Top) /\ ps \in [Backends -> Nat]
      /\ \A b \in Backends : 2 * (ps[b] * Weight(b)) <= 2 * x[b] + Top * (N - 1)
  BY <1>0 DEF Fair
<1>5. SumOver(cx, Backends) = 0 /\ Bounded(cx, Backends, Top)
  <2>1. CASE l.best = nil
    <3>1. G = {} /\ cx = cw
      BY <1>2, <2>1 DEF GrantInv, Closes
    <3>2. x = cx
      BY <1>3, <3>1
    <3>. QED BY <1>4, <3>2
  <2>2. CASE l.best # nil
    <3>1. l.best \in G /\ l.total = SumOver(Weights, G)
      BY <1>2, <2>2 DEF GrantInv
    <3>2. \A b \in Backends : cx[b] = IF b = l.best THEN cw[b] - l.total ELSE cw[b]
      BY <1>2, <2>2 DEF Closes
    <3>3. Charged(x, cx, Weights, Backends, G, l.best)
      <4>1. ASSUME NEW a \in G PROVE x[a] + Weights[a] = cw[a]
        BY <1>1, <1>2, <1>3, <4>1 DEF Weights
      <4>2. ASSUME NEW a \in G PROVE x[a] + Weights[a] <= x[l.best] + Weights[l.best]
        BY <1>2, <2>2, <3>1, <4>1, <4>2 DEF GrantInv
      <4>3. ASSUME NEW b \in Backends
            PROVE  cx[b] = x[b] + (IF b \in G THEN Weights[b] ELSE 0)
                                - (IF b = l.best THEN SumOver(Weights, G) ELSE 0)
        <5>1. x[b] + (IF b \in G THEN Weights[b] ELSE 0) = cw[b]
          BY <1>1, <1>2, <1>3 DEF Weights
        <5>2. cw[b] \in Int
          OBVIOUS
        <5>3. cx[b] = cw[b] - (IF b = l.best THEN SumOver(Weights, G) ELSE 0)
          BY <1>2, <3>1, <3>2, <5>2
        <5>4. PICK g \in Int : g = IF b \in G THEN Weights[b] ELSE 0
          BY <1>1
        <5>5. PICK t \in Int : t = IF b = l.best THEN SumOver(Weights, G) ELSE 0
          BY <1>2, <3>1
        <5>6. cx[b] = x[b] + g - t
          <6>1. PICK v \in Int : v = cw[b]
            BY <5>2
          <6>2. x[b] + g = v
            BY <5>1, <5>4, <6>1
          <6>3. cx[b] = v - t
            BY <5>3, <5>5, <6>1
          <6>. QED BY <1>3, <6>2, <6>3
        <5>. QED BY <5>4, <5>5, <5>6
      <4>. QED BY <4>2, <4>3 DEF Charged
    <3>4. SumOver(cx, Backends) = SumOver(x, Backends) /\ Bounded(cx, Backends, Top)
      <4>1. PICK D \in Int : D = Top
        BY <1>1
      <4>2. PICK U : U = Backends
        OBVIOUS
      <4>3. PICK w \in [U -> Int] : w = Weights
        BY <1>1, <4>2
      <4>4. PICK S \in SUBSET U : S = G
        BY <1>2, <4>2
      <4>5. PICK c \in S : c = l.best
        BY <3>1, <4>4
      <4>6. /\ IsFiniteSet(U) /\ \A b \in U : w[b] >= 0
            /\ Pairs(w, U, D) /\ x \in [U -> Int] /\ cx \in [U -> Int]
            /\ Charged(x, cx, w, U, S, c) /\ Bounded(x, U, D)
        BY <1>1, <1>3, <1>4, <3>3, <4>1, <4>2, <4>3, <4>4, <4>5
      <4>7. SumOver(cx, U) = SumOver(x, U) /\ Bounded(cx, U, D)
        BY <4>6, ScanKeeps
      <4>. QED BY <4>1, <4>2, <4>7
    <3>. QED BY <1>4, <3>4
  <2>. QED BY <2>1, <2>2
<1>6. qs \in [Backends -> Nat]
  <2>1. \A b \in Backends : ps[b] \in Nat
    BY <1>4
  <2>. QED BY <2>1 DEF Closes
<1>7. ASSUME NEW b \in Backends PROVE 2 * (qs[b] * Weight(b)) <= 2 * cx[b] + Top * (N - 1)
  <2>1. PICK k \in Int : k = Top * (N - 1)
    BY <1>1
  <2>2. PICK w \in Nat : w = Weight(b)
    BY <1>1
  <2>3. CASE b \in G \ {l.best}
    <3>1. PICK p \in Nat : p = ps[b]
      BY <1>4
    <3>2. PICK y \in Int : y = x[b]
      BY <1>3
    <3>3. qs[b] = p + 1 /\ cx[b] = y + w
      <4>1. cx[b] = cw[b] /\ cw[b] \in Int /\ y = cw[b] - w
        BY <1>2, <1>3, <2>2, <2>3, <3>2 DEF Closes
      <4>. QED BY <2>3, <3>1, <4>1 DEF Closes
    <3>4. 2 * (p * w) <= 2 * y + k
      BY <1>4, <2>1, <2>2, <3>1, <3>2
    <3>5. 2 * ((p + 1) * w) = 2 * (p * w) + 2 * w /\ p * w \in Int
      OBVIOUS
    <3>6. 2 * ((p + 1) * w) <= 2 * (y + w) + k
      BY <3>4, <3>5
    <3>. QED BY <2>1, <2>2, <3>3, <3>6
  <2>4. CASE b \notin G \ {l.best}
    <3>1. qs[b] = 0
      BY <2>4 DEF Closes
    <3>2. -k <= 2 * cx[b] /\ cx[b] \in Int
      <4>1. Top \in Int
        BY <1>1
      <4>2. -(Top * (Cardinality(Backends) - 1)) <= 2 * cx[b]
        BY <1>1, <1>5, <4>1, OneBounded
      <4>. QED BY <1>1, <2>1, <4>2
    <3>3. 0 <= 2 * cx[b] + k
      BY <3>2
    <3>4. 2 * (0 * w) = 0
      OBVIOUS
    <3>. QED BY <2>1, <2>2, <3>1, <3>3, <3>4
  <2>. QED BY <2>3, <2>4
<1>. QED BY <1>5, <1>6, <1>7 DEF Fair

(* A pool knows its callers from nobody, and weighted-round-robin does not *)
(* fall back to round-robin.                                               *)
LEMMA WeightedFacts ==
    ASSUME TypeInv, Weighted
    PROVE  /\ nil \notin Callers /\ pool \in Pools /\ call \in [Callers -> Calls]
           /\ lock \in Callers \cup {nil}
           /\ \A l : ~RoundRobin(l)
<1>1. pool \in Pools
  BY DEF TypeInv, GlobalsOK
<1>2. nil \notin Callers
  BY <1>1, SelectionAssumption DEF Callers
<1>. QED BY <1>1, <1>2 DEF TypeInv, GlobalsOK, Weighted, RoundRobin

\* What the invariant says of the scan under way and of the weights.
Granting == (lock # nil => GrantInv(call[lock], currentWeight)) /\ Fair(Base, passed)

\* The scan goes on without considering a backend.
GoesOn(l, m) ==
    /\ Considered(m) = Considered(l) /\ m.total = l.total /\ m.best = l.best
    /\ m.i \in {l.i, l.i + 1}

(* A step that considers no backend leaves the weights and the locals of   *)
(* the scan as they are.                                                   *)
LEMMA GrantsStay ==
    ASSUME TypeInv, [Next]_vars, Granting, lock' = lock, currentWeight' = currentWeight,
           passed' = passed, lock # nil => GoesOn(call[lock], call'[lock])
    PROVE  Granting'
<1>1. pool' = pool /\ Backends' = Backends /\ N' = N /\ Weights' = Weights
  BY PoolStays DEF Weights
<1>2. Top' = Top
  BY <1>1 DEF Top, HeaviestPair
<1>3. CASE lock = nil
  <2>1. Base' = Base
    BY <1>1, <1>3 DEF Base, BaseOf, Granted
  <2>. QED BY <1>1, <1>2, <1>3, <2>1 DEF Granting, Fair
<1>4. CASE lock # nil
  <2>1. lock \in Callers /\ call[lock] \in Calls
    BY <1>4 DEF TypeInv, GlobalsOK
  <2>2. PICK l \in Calls : l = call[lock]
    BY <2>1
  <2>3. PICK m : m = call'[lock]
    OBVIOUS
  <2>4. GoesOn(l, m) /\ GrantInv(l, currentWeight) /\ Fair(Base, passed)
    BY <1>4, <2>2, <2>3 DEF Granting
  <2>5. \A b \in Considered(l) : b \in Int
    <3>1. \A b \in Backends : b \in Int
      BY PoolFacts DEF TypeInv, GlobalsOK
    <3>. QED BY <3>1 DEF Considered, Calls
  <2>6. \A b \in Considered(m) : b < m.i
    <3>. TAKE b \in Considered(m)
    <3>1. b \in Int /\ b < l.i /\ l.i \in Int
      <4>1. l.i \in 0..N
        BY DEF Calls
      <4>. QED BY <2>4, <2>5, <4>1 DEF GoesOn, GrantInv
    <3>. QED BY <2>4, <3>1 DEF GoesOn
  <2>7. GrantInv(m, currentWeight)
    BY <2>4, <2>6 DEF GoesOn, GrantInv
  <2>8. Base' = Base
    <3>1. Granted' = Granted
      BY <1>4, <2>2, <2>3, <2>4 DEF Granted, GoesOn, Considered
    <3>. QED BY <1>1, <3>1 DEF Base, BaseOf
  <2>9. GrantInv(call[lock], currentWeight)'
    BY <1>1, <2>3, <2>7 DEF GrantInv, Considered
  <2>. QED BY <1>1, <1>2, <2>4, <2>8, <2>9 DEF Granting, Fair
<1>. QED BY <1>3, <1>4

(* A call that takes the lock has granted nothing yet. *)
LEMMA GrantsBegin ==
    ASSUME TypeInv, [Next]_vars, Weighted, Granting, NEW c \in Callers, NEW cl \in Clients, Call(c, cl)
    PROVE  Granting'
<1>0. nil \notin Callers /\ pool \in Pools /\ call \in [Callers -> Calls]
  BY WeightedFacts
<1>1. pool' = pool /\ Backends' = Backends /\ N' = N /\ Weights' = Weights
  BY PoolStays DEF Weights
<1>2. Top' = Top
  BY <1>1 DEF Top, HeaviestPair
<1>3. /\ lock = nil /\ lock' = c /\ c # nil /\ currentWeight' = currentWeight /\ passed' = passed
      /\ call' = [call EXCEPT ![c] = NewCall(cl, "scan", {b \in Backends : healthy[b] /\ ~open[b]})]
  BY <1>0 DEF Call, Update, Weighted
<1>4. PICK m : m = call'[c]
  OBVIOUS
<1>5. m.pc = "scan" /\ m.up = {} /\ m.total = 0 /\ m.best = nil
  <2>1. PICK st \in SUBSET Backends : st = {b \in Backends : healthy[b] /\ ~open[b]}
    OBVIOUS
  <2>2. m = NewCall(cl, "scan", st)
    BY <1>0, <1>3, <1>4, <2>1
  <2>3. "scan" \in CallPCs /\ cl \in Clients \cup {Someone}
    BY DEF CallPCs
  <2>. QED BY <1>0, <2>2, <2>3, NewCallOK
<1>6. Considered(m) = {}
  BY <1>5 DEF Considered
<1>7. Base' = Base
  <2>1. Granted' = {} /\ Granted = {}
    BY <1>3, <1>4, <1>6 DEF Granted, Considered
  <2>. QED BY <1>1, <1>3, <2>1 DEF Base, BaseOf
<1>8. SumOver(Weights, {}) = 0
  BY <1>0, TopFacts, SumFacts
<1>9. GrantInv(m, currentWeight)
  BY <1>5, <1>6, <1>8 DEF GrantInv
<1>10. GrantInv(call[lock], currentWeight)'
  BY <1>1, <1>3, <1>4, <1>9 DEF GrantInv, Considered
<1>. QED BY <1>1, <1>2, <1>3, <1>7, <1>10 DEF Granting, Fair

(* The loop body adds a backend's weight to its current weight and to the  *)
(* total, and takes it as the best if it is ahead of the best so far.      *)
LEMMA GrantsMore ==
    ASSUME TypeInv, [Next]_vars, Weighted, Granting, NEW c \in Callers, lock = c, LoopBody(c)
    PROVE  Granting'
<1>0. nil \notin Callers /\ pool \in Pools /\ call \in [Callers -> Calls]
      /\ \A b \in Backends : b \in Nat /\ b # nil /\ Weight(b) \in Nat
      /\ currentWeight \in [Backends -> Int]
  BY WeightedFacts, PoolFacts DEF TypeInv, GlobalsOK
<1>1. pool' = pool /\ Backends' = Backends /\ N' = N /\ Weights' = Weights
  BY PoolStays DEF Weights
<1>2. Top' = Top
  BY <1>1 DEF Top, HeaviestPair
<1>3. PICK l \in Calls : l = call[c]
  BY <1>0
<1>4. PICK m : m = call'[c]
  OBVIOUS
<1>5. m \in Calls /\ Considers(l, m)
  BY <1>3, <1>4, ConsiderEffect
<1>6. /\ l.pc = "body" /\ m.pc = "scan" /\ m.up = l.up /\ m.i = l.i + 1
      /\ m.best \in {l.best, l.at} /\ m.best # nil
      /\ m.total = l.total + Weight(l.at)
      /\ m.best = l.at <=> \/ l.best \in {nil, l.at}
                           \/ currentWeight[l.at] + Weight(l.at) > currentWeight[l.best]
  BY <1>5, WeightedFacts DEF Considers, Weighted
<1>7. l.at = l.i /\ l.at \in l.up /\ l.at \in Backends /\ l.up \subseteq Backends /\ l.i \in Nat
  BY <1>0, <1>3, <1>6, WeightedFacts DEF TypeInv, Shape, Calls
<1>8. PICK a \in Backends : a = l.at
  BY <1>7
<1>9. PICK w \in Nat : w = Weight(a)
  BY <1>0
<1>10. PICK cx : cx = currentWeight'
  OBVIOUS
<1>11. /\ cx \in [Backends -> Int] /\ cx[a] = currentWeight[a] + w
       /\ \A b \in Backends \ {a} : cx[b] = currentWeight[b]
  <2>1. cx = [currentWeight EXCEPT ![a] = @ + Weight(a)]
    BY <1>3, <1>8, <1>10 DEF LoopBody, Weighted
  <2>. QED BY <1>0, <1>9, <2>1
<1>12. /\ Considered(l) \in SUBSET Backends /\ a \notin Considered(l)
       /\ Considered(m) = Considered(l) \cup {a} /\ Considered(m) \in SUBSET Backends
  BY <1>6, <1>7, <1>8 DEF Considered
<1>13. GrantInv(l, currentWeight) /\ Fair(Base, passed)
  BY <1>0, <1>3 DEF Granting
<1>14. Base' = Base
  <2>1. Granted = Considered(l) /\ Granted' = Considered(m) /\ lock' = c
    BY <1>0, <1>3, <1>4 DEF Granted, LoopBody, Considered
  <2>2. ASSUME NEW b \in Backends
        PROVE  (IF b \in Considered(m) THEN cx[b] - Weight(b) ELSE cx[b])
                = (IF b \in Considered(l) THEN currentWeight[b] - Weight(b) ELSE currentWeight[b])
    <3>1. CASE b = a
      <4>1. cx[b] - Weight(b) = currentWeight[b]
        BY <1>0, <1>9, <1>11, <3>1
      <4>. QED BY <1>12, <3>1, <4>1
    <3>2. CASE b # a
      BY <1>11, <1>12, <3>2
    <3>. QED BY <3>1, <3>2
  <2>. QED BY <1>1, <1>10, <2>1, <2>2 DEF Base, BaseOf
<1>15. \A b \in Considered(m) : b < m.i
  <2>. TAKE b \in Considered(m)
  <2>1. CASE b = a
    BY <1>6, <1>7, <1>8, <2>1
  <2>2. CASE b # a
    <3>1. b \in Nat /\ b < l.i
      BY <1>0, <1>12, <1>13, <2>2 DEF GrantInv
    <3>. QED BY <1>6, <1>7, <3>1
  <2>. QED BY <2>1, <2>2
<1>16. m.total = SumOver(Weights, Considered(m))
  <2>1. Considered(m) \ {a} = Considered(l) /\ a \in Considered(m)
    BY <1>12
  <2>2. SumOver(Weights, Considered(m)) = Weights[a] + SumOver(Weights, Considered(l))
    BY <1>0, <1>12, <2>1, TopFacts, SumFacts
  <2>3. SumOver(Weights, Considered(l)) = l.total /\ l.total \in Nat /\ Weights[a] = w
    BY <1>9, <1>13 DEF GrantInv, Calls, Weights
  <2>. QED BY <1>6, <1>8, <1>9, <2>2, <2>3
<1>17. m.best \in Considered(m) /\ \A b \in Considered(m) : cx[b] <= cx[m.best]
  <2>1. CASE l.best = nil
    <3>1. m.best = a /\ Considered(m) = {a}
      BY <1>6, <1>8, <1>12, <1>13, <2>1 DEF GrantInv
    <3>. QED BY <1>11, <3>1
  <2>2. CASE l.best # nil
    <3>1. l.best \in Considered(l) /\ \A b \in Considered(l) : currentWeight[b] <= currentWeight[l.best]
      BY <1>13, <2>2 DEF GrantInv
    <3>2. PICK k \in Backends : k = l.best /\ k # a /\ k \in Considered(l)
      BY <1>12, <3>1
    <3>3. currentWeight[k] \in Int /\ currentWeight[a] \in Int /\ cx[k] = currentWeight[k]
      BY <1>0, <1>11, <3>2
    <3>4. \A b \in Considered(l) : cx[b] \in Int /\ cx[b] <= currentWeight[k]
      <4>. TAKE b \in Considered(l)
      <4>1. b \in Backends /\ b # a
        BY <1>12
      <4>2. cx[b] = currentWeight[b] /\ cx[b] \in Int
        BY <1>11, <4>1
      <4>. QED BY <3>1, <3>2, <4>2
    <3>5. CASE m.best = a
      <4>1. cx[a] > currentWeight[k] /\ cx[a] \in Int
        BY <1>6, <1>8, <1>9, <1>11, <2>2, <3>2, <3>3, <3>5
      <4>. QED BY <1>12, <3>3, <3>4, <3>5, <4>1
    <3>6. CASE m.best # a
      <4>1. m.best = k
        BY <1>6, <1>8, <3>2, <3>6
      <4>2. cx[a] <= cx[k] /\ cx[a] \in Int
        BY <1>6, <1>8, <1>9, <1>11, <2>2, <3>2, <3>3, <3>6
      <4>. QED BY <1>12, <3>2, <3>3, <3>4, <4>1, <4>2
    <3>. QED BY <3>5, <3>6
  <2>. QED BY <2>1, <2>2
<1>18. GrantInv(m, cx)
  BY <1>6, <1>15, <1>16, <1>17 DEF GrantInv
<1>19. lock' = c /\ passed' = passed
  BY DEF LoopBody
<1>20. GrantInv(call[lock], currentWeight)'
  BY <1>1, <1>4, <1>10, <1>18, <1>19 DEF GrantInv, Considered
<1>. QED BY <1>1, <1>2, <1>13, <1>14, <1>19, <1>20 DEF Granting, Fair

(* The end of a scan charges the best backend. *)
LEMMA GrantsEnd ==
    ASSUME TypeInv, [Next]_vars, Weighted, Granting, NEW c \in Callers, lock = c, Finish(c)
    PROVE  Granting' /\ lock' = nil
<1>0. nil \notin Callers /\ pool \in Pools /\ call \in [Callers -> Calls]
      /\ currentWeight \in [Backends -> Int]
  BY WeightedFacts DEF TypeInv, GlobalsOK
<1>1. pool' = pool /\ Backends' = Backends /\ N' = N
  BY PoolStays
<1>2. Top' = Top
  BY <1>1 DEF Top, HeaviestPair
<1>3. PICK l \in Calls : l = call[c]
  BY <1>0
<1>4. PICK cx : cx = currentWeight'
  OBVIOUS
<1>5. PICK qs : qs = passed'
  OBVIOUS
<1>6. lock' = nil /\ l.pc = "scan" /\ Closes(l, currentWeight, passed, cx, qs)
  BY <1>3, <1>4, <1>5 DEF Finish, Charge, Closes, Weighted
<1>7. cx \in [Backends -> Int]
  BY <1>1, <1>4, GlobalsStep DEF GlobalsOK
<1>8. GrantInv(l, currentWeight) /\ Fair(BaseOf(currentWeight, l.up), passed)
  <2>1. Granted = l.up
    BY <1>0, <1>3, <1>6 DEF Granted, Considered
  <2>. QED BY <1>0, <1>3, <2>1 DEF Granting, Base
<1>9. Fair(cx, qs)
  <2>1. PICK cw \in [Backends -> Int] : cw = currentWeight
    BY <1>0
  <2>2. PICK ps : ps = passed
    OBVIOUS
  <2>3. GrantInv(l, cw) /\ Fair(BaseOf(cw, l.up), ps) /\ Closes(l, cw, ps, cx, qs)
    BY <1>6, <1>8, <2>1, <2>2
  <2>. QED BY <1>0, <1>6, <1>7, <2>3, FairFinish
<1>10. Base' = cx
  <2>1. Granted' = {}
    BY <1>6 DEF Granted
  <2>. QED BY <1>1, <1>4, <1>7, <2>1 DEF Base, BaseOf
<1>11. Fair(Base, passed)'
  BY <1>1, <1>2, <1>5, <1>9, <1>10 DEF Fair
<1>. QED BY <1>6, <1>11 DEF Granting

(* A call holds the lock from its first visit to the end of its scan. *)
LEMMA LockedStep ==
    ASSUME TypeInv, [Next]_vars, Weighted, Locked
    PROVE  Locked'
<1>0. nil \notin Callers /\ pool \in Pools /\ call \in [Callers -> Calls] /\ Callers' = Callers
      /\ \A l : ~RoundRobin(l)
  BY WeightedFacts, PoolStays
<1>1. ASSUME lock' = lock, \A d \in Callers : Scanning(call'[d]) <=> Scanning(call[d])
      PROVE  Locked'
  BY <1>0, <1>1 DEF Locked, Scanning
<1>2. ASSUME NEW c \in Callers, NEW f, call' = [call EXCEPT ![c] = f],
             Scanning(f) <=> Scanning(call[c]), lock' = lock
      PROVE  Locked'
  BY <1>0, <1>1, <1>2
<1>3. CASE UNCHANGED vars
  BY <1>1, <1>3 DEF vars
<1>4. ASSUME NEW c \in Callers, NEW cl \in Clients, Call(c, cl) PROVE Locked'
  <2>1. PICK f : f = NewCall(cl, "scan", {b \in Backends : healthy[b] /\ ~open[b]})
    OBVIOUS
  <2>2. f.pc = "scan"
    BY <2>1 DEF NewCall
  <2>3. lock = nil /\ lock' = c /\ call' = [call EXCEPT ![c] = f]
    BY <1>4, <2>1 DEF Call, Update, Weighted
  <2>4. ASSUME NEW d \in Callers PROVE Scanning(call'[d]) <=> lock' = d
    BY <1>0, <2>2, <2>3 DEF Locked, Scanning
  <2>. QED BY <1>0, <2>4 DEF Locked, Scanning
<1>5. ASSUME NEW c \in Callers, Visit(c) PROVE Locked'
  <2>1. ASSUME NEW d \in Callers PROVE Scanning(call'[d]) <=> Scanning(call[d])
    <3>1. PICK l : l = call[d]
      OBVIOUS
    <3>2. PICK m : m = call'[d]
      OBVIOUS
    <3>3. IF d = c THEN Visits(l, m) ELSE Ages(l, m)
      BY <1>5, <3>1, <3>2, VisitEffect
    <3>. QED BY <3>1, <3>2, <3>3 DEF Visits, Ages, Scanning
  <2>. QED BY <1>1, <1>5, <2>1 DEF Visit
<1>6. ASSUME NEW c \in Callers, ReadState(c) PROVE Locked'
  <2>1. PICK l : l = call[c]
    OBVIOUS
  <2>2. PICK m : m = call'[c]
    OBVIOUS
  <2>3. Reads(l, m)
    BY <1>6, <2>1, <2>2, ReadEffect
  <2>4. Scanning(m) /\ Scanning(l)
    BY <2>3 DEF Reads, Scanning
  <2>5. call' = [call EXCEPT ![c] = m] /\ lock' = lock
    BY <1>0, <1>6, <2>2 DEF ReadState, Update
  <2>. QED BY <1>2, <2>1, <2>4, <2>5
<1>7. ASSUME NEW c \in Callers, LoopBody(c) PROVE Locked'
  <2>1. PICK l : l = call[c]
    OBVIOUS
  <2>2. PICK m : m = call'[c]
    OBVIOUS
  <2>3. Considers(l, m)
    BY <1>7, <2>1, <2>2, ConsiderEffect
  <2>4. Scanning(m) /\ Scanning(l)
    BY <1>0, <2>3 DEF Considers, Scanning
  <2>5. call' = [call EXCEPT ![c] = m] /\ lock' = lock
    BY <1>0, <1>7, <2>2 DEF LoopBody, Update
  <2>. QED BY <1>2, <2>1, <2>4, <2>5
<1>8. ASSUME NEW c \in Callers, Finish(c) PROVE Locked'
  <2>1. PICK m : m = call'[c]
    OBVIOUS
  <2>2. call' = [call EXCEPT ![c] = m]
    BY <1>0, <1>8, <2>1 DEF Finish, Update
  <2>3. m.pc = "returned"
    BY <1>8, <2>1, FinishEffect DEF Finishes
  <2>4. lock = c /\ lock' = nil
    BY <1>8 DEF Finish, Locked, Scanning
  <2>5. ASSUME NEW d \in Callers PROVE Scanning(call'[d]) <=> lock' = d
    BY <1>0, <2>1, <2>2, <2>3, <2>4 DEF Locked, Scanning
  <2>. QED BY <1>0, <2>5 DEF Locked, Scanning
<1>9. ASSUME NEW c \in Callers, Return(c) PROVE Locked'
  <2>1. PICK m : m = Idle
    OBVIOUS
  <2>2. m.pc = "idle"
    BY <1>0, <2>1, IdleOK
  <2>3. call' = [call EXCEPT ![c] = m] /\ lock' = lock /\ call[c].pc = "returned"
    BY <1>9, <2>1 DEF Return, Update
  <2>4. Scanning(m) <=> Scanning(call[c])
    BY <2>2, <2>3 DEF Scanning
  <2>. QED BY <1>2, <2>3, <2>4
<1>10. ASSUME NEW b \in Backends, HealthChanges(b) \/ CircuitChanges(b) \/ ConnectionsChange(b)
       PROVE  Locked'
  <2>1. lock' = lock /\ (call' = call \/ Unsteady(b))
    BY <1>10 DEF HealthChanges, CircuitChanges, ConnectionsChange
  <2>2. CASE call' = call
    BY <1>1, <2>1, <2>2
  <2>3. CASE Unsteady(b)
    <3>1. ASSUME NEW d \in Callers PROVE call'[d].pc = call[d].pc
      <4>1. call'[d] = [call[d] EXCEPT !.steady = @ \ {b}]
        BY <2>3 DEF Unsteady
      <4>. QED BY <1>0, <4>1 DEF Calls
    <3>. QED BY <1>1, <2>1, <3>1 DEF Scanning
  <2>. QED BY <2>1, <2>2, <2>3
<1>. QED BY <1>3, <1>4, <1>5, <1>6, <1>7, <1>8, <1>9, <1>10 DEF Next

(* Every step keeps the accounts of weighted-round-robin. *)
LEMMA GrantingStep ==
    ASSUME TypeInv, [Next]_vars, Weighted, Locked, Granting
    PROVE  Granting'
<1>0. nil \notin Callers /\ pool \in Pools /\ call \in [Callers -> Calls]
      /\ lock \in Callers \cup {nil} /\ \A l : ~RoundRobin(l)
  BY WeightedFacts
<1>1. ASSUME lock' = lock, currentWeight' = currentWeight, passed' = passed,
             lock # nil => GoesOn(call[lock], call'[lock])
      PROVE  Granting'
  BY <1>1, GrantsStay
<1>2. CASE UNCHANGED vars
  <2>1. lock # nil => GoesOn(call[lock], call'[lock])
    BY <1>2 DEF vars, GoesOn, Considered
  <2>. QED BY <1>1, <1>2, <2>1 DEF vars
<1>3. ASSUME NEW c \in Callers, NEW cl \in Clients, Call(c, cl) PROVE Granting'
  BY <1>3, GrantsBegin
<1>4. ASSUME NEW c \in Callers, Visit(c) PROVE Granting'
  <2>1. PICK l : l = call[c]
    OBVIOUS
  <2>2. PICK m : m = call'[c]
    OBVIOUS
  <2>3. Visits(l, m)
    BY <1>4, <2>1, <2>2, VisitEffect
  <2>4. lock = c
    BY <2>1, <2>3 DEF Visits, Locked, Scanning
  <2>5. GoesOn(l, m)
    BY <2>3 DEF Visits, Kept, GoesOn, Considered
  <2>. QED BY <1>1, <1>4, <2>1, <2>2, <2>4, <2>5 DEF Visit
<1>5. ASSUME NEW c \in Callers, ReadState(c) PROVE Granting'
  <2>1. PICK l \in Calls : l = call[c]
    BY <1>0
  <2>2. PICK m : m = call'[c]
    OBVIOUS
  <2>3. Reads(l, m)
    BY <1>5, <2>1, <2>2, ReadEffect
  <2>4. lock = c /\ l.pc = "state"
    BY <2>1, <2>3 DEF Reads, Locked, Scanning
  <2>5. l.at = l.i /\ l.i \in Int
    <3>1. l.i \in 0..N
      BY DEF Calls
    <3>. QED BY <1>0, <2>1, <2>4, <3>1 DEF TypeInv, Shape
  <2>6. l.at \notin l.up
    <3>1. \A b \in Considered(l) : b < l.i
      BY <1>0, <2>1, <2>4 DEF Granting, GrantInv
    <3>. QED BY <2>4, <2>5, <3>1 DEF Considered
  <2>7. GoesOn(l, m)
    <3>1. Considered(m) = Considered(l)
      BY <2>3, <2>4, <2>6 DEF Reads, Considered
    <3>. QED BY <2>3, <3>1 DEF Reads, Kept, GoesOn
  <2>. QED BY <1>1, <1>5, <2>1, <2>2, <2>4, <2>7 DEF ReadState
<1>6. ASSUME NEW c \in Callers, LoopBody(c) PROVE Granting'
  <2>1. lock = c
    BY <1>6 DEF LoopBody, Locked, Scanning
  <2>. QED BY <1>6, <2>1, GrantsMore
<1>7. ASSUME NEW c \in Callers, Finish(c) PROVE Granting'
  <2>1. lock = c
    BY <1>7 DEF Finish, Locked, Scanning
  <2>. QED BY <1>7, <2>1, GrantsEnd
<1>8. ASSUME NEW c \in Callers, Return(c) PROVE Granting'
  <2>1. lock # c
    BY <1>8 DEF Return, Locked, Scanning
  <2>2. lock # nil => call'[lock] = call[lock]
    BY <1>0, <1>8, <2>1 DEF Return, Update
  <2>3. lock # nil => GoesOn(call[lock], call'[lock])
    BY <2>2 DEF GoesOn, Considered
  <2>. QED BY <1>1, <1>8, <2>3 DEF Return
<1>9. ASSUME NEW b \in Backends, HealthChanges(b) \/ CircuitChanges(b) \/ ConnectionsChange(b)
      PROVE  Granting'
  <2>1. lock' = lock /\ currentWeight' = currentWeight /\ passed' = passed
        /\ (call' = call \/ Unsteady(b))
    BY <1>9 DEF HealthChanges, CircuitChanges, ConnectionsChange
  <2>2. lock # nil => GoesOn(call[lock], call'[lock])
    <3>1. CASE call' = call
      BY <3>1 DEF GoesOn, Considered
    <3>2. ASSUME Unsteady(b), lock # nil PROVE GoesOn(call[lock], call'[lock])
      <4>1. PICK l \in Calls : l = call[lock]
        BY <1>0, <3>2
      <4>2. PICK m : m = call'[lock]
        OBVIOUS
      <4>3. m = [l EXCEPT !.steady = @ \ {b}]
        BY <1>0, <3>2, <4>1, <4>2 DEF Unsteady
      <4>4. GoesOn(l, m)
        BY <4>3 DEF Calls, GoesOn, Considered
      <4>. QED BY <4>1, <4>2, <4>4
    <3>. QED BY <2>1, <3>1, <3>2
  <2>. QED BY <1>1, <2>1, <2>2
<1>. QED BY <1>2, <1>3, <1>4, <1>5, <1>6, <1>7, <1>8, <1>9 DEF Next

(* Every step keeps the invariant; strategies other than weighted-round-   *)
(* robin take no lock and leave the current weights alone.                 *)
LEMMA RobinInvStep == TypeInv /\ RobinInv /\ [Next]_vars => RobinInv'
<1>. SUFFICES ASSUME TypeInv, RobinInv, [Next]_vars PROVE RobinInv'
  OBVIOUS
<1>1. Weighted' = Weighted /\ Backends' = Backends
  BY PoolStays DEF Weighted
<1>2. CASE Weighted
  <2>1. Locked /\ Granting
    BY <1>2 DEF RobinInv, Granting
  <2>2. Locked' /\ Granting'
    BY <1>2, <2>1, LockedStep, GrantingStep
  <2>. QED BY <1>1, <1>2, <2>2 DEF RobinInv, Granting
<1>3. CASE ~Weighted
  <2>1. lock = nil /\ currentWeight = [b \in Backends |-> 0]
    BY <1>3 DEF RobinInv
  <2>2. nil \notin Callers
    BY SelectionAssumption DEF TypeInv, GlobalsOK, Callers
  <2>3. lock' = nil /\ currentWeight' = currentWeight
    BY <1>3, <2>1, <2>2 DEF Weighted, Next, vars, poolVars, Call, Visit, ReadState, LoopBody, Finish,
       Return, HealthChanges, CircuitChanges, ConnectionsChange
  <2>. QED BY <1>1, <1>3, <2>1, <2>3 DEF RobinInv
<1>. QED BY <1>2, <1>3

(* Nobody scans a new pool, and it owes nobody. *)
LEMMA RobinInvInit == Init => RobinInv
<1>. SUFFICES ASSUME Init PROVE RobinInv
  OBVIOUS
<1>1. pool \in Pools /\ lock = nil /\ nil \notin Callers
  BY SelectionAssumption DEF Init, Callers
<1>2. PICK z : z = [b \in Backends |-> 0]
  OBVIOUS
<1>3. currentWeight = z /\ passed = z
  BY <1>2 DEF Init
<1>4. Base = z
  BY <1>1, <1>2, <1>3 DEF Base, BaseOf, Granted
<1>5. Fair(z, z)
  BY <1>1, <1>2, FairInit
<1>6. Locked
  <2>1. PICK m : m = Idle
    OBVIOUS
  <2>2. m.pc = "idle"
    BY <1>1, <2>1, IdleOK
  <2>3. \A c \in Callers : call[c] = m
    BY <2>1 DEF Init
  <2>. QED BY <1>1, <2>2, <2>3 DEF Locked, Scanning
<1>. QED BY <1>1, <1>2, <1>3, <1>4, <1>5, <1>6 DEF RobinInv

(* The accounts of weighted-round-robin hold in every reachable state. *)
LEMMA RobinInvHolds == Spec => []RobinInv
BY RobinInvInit, RobinInvStep, TypeInvHolds, PTL DEF Spec

(* Whenever no scan is under way the current weights of a pool sum to      *)
(* zero: whatever backends its scans skipped, and however many callers     *)
(* compete for the lock, every weight granted was charged to a winner.     *)
THEOREM WeightsStayBalanced == Spec => []WeightsBalanced
<1>1. TypeInv /\ RobinInv => WeightsBalanced
  <2>. SUFFICES ASSUME TypeInv, RobinInv, lock = nil
                PROVE  SumOver(currentWeight, Backends) = 0
    BY DEF WeightsBalanced, SumOver
  <2>1. pool \in Pools /\ currentWeight \in [Backends -> Int]
    BY DEF TypeInv, GlobalsOK
  <2>2. CASE Weighted
    <3>1. Base = currentWeight
      BY <2>1 DEF Base, BaseOf, Granted
    <3>. QED BY <2>2, <3>1 DEF RobinInv, Fair
  <2>3. CASE ~Weighted
    <3>1. PICK z : z = [b \in Backends |-> 0]
      OBVIOUS
    <3>2. Fair(z, z) /\ currentWeight = z
      BY <2>1, <2>3, <3>1, FairInit DEF RobinInv
    <3>. QED BY <3>2 DEF Fair
  <2>. QED BY <2>2, <2>3
<1>. QED BY <1>1, TypeInvHolds, RobinInvHolds, PTL

(* No backend is starved: one that weighted-round-robin finds available    *)
(* again and again is passed over at most (N - 1) * HeaviestPair / Weight  *)
(* times in a row, for every pool, all weights and whichever of the other  *)
(* backends each scan finds available.                                     *)
THEOREM NoneStarves == Spec => []NoStarvation
<1>1. TypeInv /\ RobinInv => NoStarvation
  <2>. SUFFICES ASSUME TypeInv, RobinInv, Weighted, NEW b \in Backends
                PROVE  passed[b] * Weight(b) <= (N - 1) * HeaviestPair
    BY DEF NoStarvation, Weighted
  <2>1. /\ pool \in Pools /\ currentWeight \in [Backends -> Int]
        /\ \A a \in Backends : Weight(a) \in Nat
    BY PoolFacts DEF TypeInv, GlobalsOK
  <2>2. IsFiniteSet(Backends) /\ Cardinality(Backends) = N /\ N \in Nat /\ Top \in Nat
    BY <2>1, TopFacts
  <2>3. Fair(Base, passed)
    BY DEF RobinInv
  <2>4. PICK x : x = Base
    OBVIOUS
  <2>5. x \in [Backends -> Int]
    BY <2>1, <2>4 DEF Base, BaseOf
  <2>6. PICK t \in Int : t = Top /\ t = HeaviestPair
    BY <2>2 DEF Top, Backends
  <2>7. 2 * x[b] <= t * (N - 1)
    <3>1. SumOver(x, Backends) = 0 /\ Bounded(x, Backends, t)
      BY <2>3, <2>4, <2>6 DEF Fair
    <3>2. 2 * x[b] <= t * (Cardinality(Backends) - 1)
      BY <2>2, <2>5, <3>1, OneBounded
    <3>. QED BY <2>2, <3>2
  <2>8. PICK p \in Int : p = passed[b] * Weight(b)
    BY <2>1, <2>3 DEF Fair
  <2>9. 2 * p <= 2 * x[b] + t * (N - 1)
    BY <2>3, <2>4, <2>6, <2>8 DEF Fair
  <2>10. PICK k \in Int : k = t * (N - 1) /\ k = (N - 1) * HeaviestPair
    BY <2>2, <2>6
  <2>11. x[b] \in Int
    BY <2>5
  <2>12. p <= k
    BY <2>7, <2>9, <2>10, <2>11
  <2>. QED BY <2>8, <2>10, <2>12
<1>. QED BY <1>1, TypeInvHolds, RobinInvHolds, PTL

=============================================================================
